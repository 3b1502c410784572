---------------------------- MODULE Buffer_proofs ---------------------------
(* The heads of a gdb buffer never cross, and the buffer implements a byte   *)
(* queue, for every capacity, data and argument.                             *)
EXTENDS Buffer, SequenceTheorems, TLAPS

LEMMA InitType == Init => TypeOK
BY BufferAssumption DEF Init, TypeOK

\* Consuming keeps the type, whatever is asked for.
LEMMA ConsumeType ==
    ASSUME TypeOK, NEW op, NEW num, NEW n \in Nat, NEW bytes,
           Consume(op, num, n, bytes)
    PROVE  TypeOK'
BY BufferAssumption DEF Consume, Throw, Answer, TypeOK, read_size

LEMMA WrittenType ==
    ASSUME TypeOK, NEW n \in Nat, NEW bytes \in [1..n -> Data]
    PROVE  /\ Len(bytes) = n
           /\ Written(bytes) \in [1..MaxSize -> Data]
<1>1. Len(bytes) = n
  OBVIOUS
<1>2. ASSUME NEW i \in write_off + 1 .. write_off + n
      PROVE  i - write_off \in 1..n
  BY <1>2 DEF TypeOK
<1> QED BY <1>1, <1>2 DEF Written, TypeOK

LEMMA AppendType ==
    ASSUME TypeOK, NEW op, NEW n \in Nat, NEW bytes \in [1..n -> Data],
           Append_(op, bytes)
    PROVE  TypeOK'
<1>1. Len(bytes) = n /\ Written(bytes) \in [1..MaxSize -> Data]
  BY WrittenType
<1> QED BY <1>1, BufferAssumption
        DEF Append_, Throw, Answer, TypeOK, write_size

LEMMA GetType == ASSUME TypeOK, Get PROVE TypeOK'
<1>1. CASE get_byte
  BY <1>1, ConsumeType DEF get_byte
<1>2. ASSUME NEW num \in Counts, get_count(num) \/ get_buf(num) \/ get_str(num)
      PROVE  TypeOK'
  <2>1. num \in Nat /\ read_size \in Nat
    BY BufferAssumption DEF TypeOK, read_size
  <2>2. CASE get_count(num)
    BY <2>1, <2>2, ConsumeType DEF get_count
  <2>3. CASE get_buf(num)
    BY <2>1, <2>3, ConsumeType DEF get_buf
  <2>4. CASE get_str(num)
    BY <2>1, <2>4, ConsumeType DEF get_str
  <2> QED BY <1>2, <2>2, <2>3, <2>4
<1>3. ASSUME NEW num \in Counts, read_into(num) PROVE TypeOK'
  BY <1>3, BufferAssumption, ConsumeType DEF read_into
<1> QED BY <1>1, <1>2, <1>3 DEF Get

LEMMA PutType == ASSUME TypeOK, Put PROVE TypeOK'
<1>1. ASSUME NEW val \in Data, put_byte(val) PROVE TypeOK'
  <2>1. <<val>> \in [1..1 -> Data]
    OBVIOUS
  <2> QED BY <1>1, <2>1, AppendType DEF put_byte
<1>2. ASSUME NEW n \in Counts, NEW bytes \in [1..n -> Data],
             append_buf(bytes) \/ write_outof(bytes) \/ fill_write_buf(bytes)
      PROVE  TypeOK'
  <2>1. n \in Nat
    BY BufferAssumption
  <2>2. CASE append_buf(bytes) \/ write_outof(bytes)
    BY <2>1, <2>2, AppendType DEF append_buf, write_outof
  <2>3. CASE fill_write_buf(bytes)
    BY <2>1, <2>3, WrittenType DEF fill_write_buf, TypeOK
  <2> QED BY <1>2, <2>2, <2>3
<1>3. ASSUME NEW num \in Counts, put_count(num) PROVE TypeOK'
  BY <1>3, BufferAssumption
  DEF put_count, Throw, Answer, TypeOK, write_size
<1> QED BY <1>1, <1>2, <1>3 DEF Put

LEMMA StepType == TypeOK /\ [Next]_vars => TypeOK'
<1> SUFFICES ASSUME TypeOK, [Next]_vars PROVE TypeOK'
  OBVIOUS
<1>1. CASE Get
  BY <1>1, GetType
<1>2. CASE Put
  BY <1>2, PutType
<1>3. CASE reset
  BY <1>3, BufferAssumption DEF reset, Answer, TypeOK
<1>4. CASE UNCHANGED vars
  BY <1>4 DEF vars, TypeOK
<1> QED BY <1>1, <1>2, <1>3, <1>4 DEF Next

(* The read head never passes the write head and the write head never leaves *)
(* the storage (TypeOK), after any sequence of calls on a buffer.h buffer of *)
(* any size: read_size() and write_size() never wrap around.                 *)
THEOREM BufferTypeCorrect == Spec => []TypeOK
<1>1. Init => TypeOK
  BY InitType
<1>2. TypeOK /\ [Next]_vars => TypeOK'
  BY StepType
<1> QED BY <1>1, <1>2, PTL DEF Spec

-----------------------------------------------------------------------------
\* What the refinement mapping makes of the storage and the heads.
qBar    == ReadData(read_size)
roomBar == write_size
resBar  == [exc |-> ret.exc, bytes |-> ret.bytes]

LEMMA UnreadIsSeq ==
    ASSUME TypeOK
    PROVE  /\ qBar \in Seq(Data)
           /\ Len(qBar) = read_size
           /\ read_size \in Nat
           /\ \A i \in 1..read_size : qBar[i] = storage[read_off + i]
<1>1. /\ read_size \in Nat
      /\ \A i \in 1..read_size : read_off + i \in 1..MaxSize
  BY BufferAssumption DEF TypeOK, read_size
<1>2. \A i \in 1..read_size : storage[read_off + i] \in Data
  BY <1>1 DEF TypeOK
<1> QED BY <1>1, <1>2 DEF qBar, ReadData

\* Calls that throw, and copies that are not counted, leave the queue alone.
LEMMA ThrowRefuses ==
    ASSUME TypeOK, NEW op, NEW num,
           NEW exc \in {"out_of_range", "buffer_too_small"},
           Throw(op, num, exc)
    PROVE  Queue!Refuse
BY DEF Throw, Answer, Queue!Refuse, Queue!Thrown, ReadData, read_size,
       write_size

LEMMA ConsumeTakes ==
    ASSUME TypeOK, NEW op, NEW num, NEW n \in Nat, NEW bytes,
           n <= read_size => bytes \in {ReadData(n), <<>>},
           Consume(op, num, n, bytes)
    PROVE  Queue!Take \/ Queue!Refuse
<1>1. CASE read_size < n
  BY <1>1, ThrowRefuses, UnreadIsSeq DEF Consume
<1>2. CASE read_size >= n
  <2>1. /\ read_off' = read_off + n
        /\ UNCHANGED <<storage, write_off>>
        /\ Answer(op, num, "none", bytes)
    BY <1>2, UnreadIsSeq DEF Consume
  <2>2. n \in 0..Len(qBar)
    BY <1>2, UnreadIsSeq
  <2>3. ReadData(n) = SubSeq(qBar, 1, n)
    BY <1>2, UnreadIsSeq DEF ReadData
  <2>4. qBar' = SubSeq(qBar, n + 1, Len(qBar))
    <3>1. read_size' = read_size - n
      BY <2>1, BufferAssumption DEF read_size, TypeOK
    <3>2. SubSeq(qBar, n + 1, Len(qBar))
             = [i \in 1..(read_size - n) |-> qBar[i + n]]
      BY <2>2, UnreadIsSeq
    <3>3. \A i \in 1..(read_size - n) :
             qBar[i + n] = storage[(read_off + n) + i]
      BY <2>2, UnreadIsSeq, BufferAssumption DEF TypeOK
    <3>4. qBar' = [i \in 1..(read_size - n) |-> storage[(read_off + n) + i]]
      BY <2>1, <3>1 DEF qBar, ReadData
    <3> QED BY <3>2, <3>3, <3>4
  <2>5. resBar' \in {Queue!Returned(SubSeq(qBar, 1, n)), Queue!Returned(<<>>)}
    BY <1>2, <2>1, <2>3 DEF Answer, resBar, Queue!Returned
  <2> QED BY <2>1, <2>2, <2>4, <2>5
          DEF Queue!Take, qBar, roomBar, resBar, write_size
<1> QED BY <1>1, <1>2, UnreadIsSeq

\* A concatenation, spelled out index by index.
LEMMA ConcatIsFunction ==
    ASSUME NEW S, NEW s \in Seq(S), NEW t \in Seq(S)
    PROVE  s \o t = [i \in 1..(Len(s) + Len(t)) |->
                        IF i <= Len(s) THEN s[i] ELSE t[i - Len(s)]]
<1> DEFINE u == [i \in 1..(Len(s) + Len(t)) |->
                    IF i <= Len(s) THEN s[i] ELSE t[i - Len(s)]]
<1>1. u \in Seq(S) /\ Len(u) = Len(s) + Len(t)
  OBVIOUS
<1>2. /\ s \o t \in Seq(S)
      /\ Len(s \o t) = Len(s) + Len(t)
      /\ \A i \in 1..Len(s \o t) : (s \o t)[i] = u[i]
  BY ConcatProperties
<1> QED BY <1>1, <1>2, SeqEqual

\* Bytes that are in the storage right after the write head become readable
\* when the head moves over them.
LEMMA AdvancePuts ==
    ASSUME TypeOK, NEW n \in 0..write_size, NEW bytes \in [1..n -> Data],
           \A i \in 1..write_off : storage'[i] = storage[i],
           \A i \in 1..n : storage'[write_off + i] = bytes[i],
           write_off' = write_off + n,
           read_off' = read_off,
           resBar' = Queue!Returned(<<>>)
    PROVE  Queue!Put
<1>1. n \in Nat /\ n <= MaxSize - write_off /\ Len(bytes) = n
  BY BufferAssumption DEF write_size, TypeOK
<1>2. read_size' = read_size + n
  BY <1>1, BufferAssumption DEF read_size, TypeOK
<1>3. qBar' = [i \in 1..(read_size + n) |-> storage'[read_off + i]]
  BY <1>2 DEF qBar, ReadData
<1>4. \A i \in 1..(read_size + n) :
         storage'[read_off + i] = IF i <= read_size THEN qBar[i]
                                  ELSE bytes[i - read_size]
  <2> SUFFICES ASSUME NEW i \in 1..(read_size + n)
               PROVE  storage'[read_off + i] = IF i <= read_size THEN qBar[i]
                                               ELSE bytes[i - read_size]
    OBVIOUS
  <2>1. CASE i <= read_size
    <3>1. i \in 1..read_size /\ read_off + i \in 1..write_off
      BY <1>1, <2>1, UnreadIsSeq DEF read_size, TypeOK
    <3> QED BY <2>1, <3>1, UnreadIsSeq
  <2>2. CASE ~(i <= read_size)
    <3>1. /\ i - read_size \in 1..n
          /\ read_off + i = write_off + (i - read_size)
      BY <1>1, <2>2, UnreadIsSeq, BufferAssumption DEF read_size, TypeOK
    <3> QED BY <2>2, <3>1
  <2> QED BY <2>1, <2>2
<1>5. qBar' = qBar \o bytes
  <2>1. qBar \o bytes = [i \in 1..(read_size + n) |->
                            IF i <= read_size THEN qBar[i]
                            ELSE bytes[i - read_size]]
    <3>1. qBar \in Seq(Data) /\ Len(qBar) = read_size
      BY UnreadIsSeq
    <3>2. bytes \in Seq(Data) /\ Len(bytes) = n
      BY <1>1
    <3>3. qBar \o bytes = [i \in 1..(Len(qBar) + Len(bytes)) |->
                             IF i <= Len(qBar) THEN qBar[i]
                             ELSE bytes[i - Len(qBar)]]
      BY <3>1, <3>2, ConcatIsFunction
    <3> QED BY <3>1, <3>2, <3>3
  <2> QED BY <1>3, <1>4, <2>1
<1>6. roomBar' = roomBar - n
  BY <1>1, BufferAssumption DEF roomBar, write_size, TypeOK
<1> QED BY <1>5, <1>6 DEF Queue!Put, qBar, roomBar, resBar

LEMMA AppendPuts ==
    ASSUME TypeOK, NEW op, NEW n \in Nat, NEW bytes \in [1..n -> Data],
           Append_(op, bytes)
    PROVE  Queue!Put \/ Queue!Refuse
<1>1. Len(bytes) = n
  OBVIOUS
<1>2. CASE write_size < n
  BY <1>1, <1>2, ThrowRefuses, BufferAssumption DEF Append_, write_size, TypeOK
<1>3. CASE write_size >= n
  <2>1. /\ storage' = Written(bytes)
        /\ write_off' = write_off + n
        /\ read_off' = read_off
        /\ Answer(op, n, "none", <<>>)
    BY <1>1, <1>3, BufferAssumption DEF Append_, write_size, TypeOK
  <2>2. \A i \in 1..write_off : storage'[i] = storage[i]
    BY <1>1, <2>1, BufferAssumption DEF Written, TypeOK
  <2>3. \A i \in 1..n : storage'[write_off + i] = bytes[i]
    BY <1>1, <1>3, <2>1, BufferAssumption DEF Written, TypeOK, write_size
  <2>4. resBar' = Queue!Returned(<<>>)
    BY <2>1 DEF Answer, resBar, Queue!Returned
  <2>5. n \in 0..write_size
    BY <1>3, BufferAssumption DEF write_size, TypeOK
  <2> QED BY <2>1, <2>2, <2>3, <2>4, <2>5, AdvancePuts
<1> QED BY <1>2, <1>3, BufferAssumption DEF write_size, TypeOK

LEMMA PutCountPuts ==
    ASSUME TypeOK, NEW num \in Nat, put_count(num)
    PROVE  Queue!Put \/ Queue!Refuse
<1>1. CASE write_size < num
  BY <1>1, ThrowRefuses, BufferAssumption DEF put_count, write_size, TypeOK
<1>2. CASE write_size >= num
  <2> DEFINE bytes == [i \in 1..num |-> storage[write_off + i]]
  <2>1. /\ write_off' = write_off + num
        /\ UNCHANGED <<storage, read_off>>
        /\ Answer("put_count", num, "none", <<>>)
    BY <1>2, BufferAssumption DEF put_count, write_size, TypeOK
  <2>2. bytes \in [1..num -> Data]
    BY <1>2, BufferAssumption DEF write_size, TypeOK
  <2>3. resBar' = Queue!Returned(<<>>)
    BY <2>1 DEF Answer, resBar, Queue!Returned
  <2>4. num \in 0..write_size
    BY <1>2, BufferAssumption DEF write_size, TypeOK
  <2> QED BY <2>1, <2>2, <2>3, <2>4, AdvancePuts
<1> QED BY <1>1, <1>2, BufferAssumption DEF write_size, TypeOK

LEMMA FillStutters ==
    ASSUME TypeOK, NEW n \in Nat, NEW bytes \in [1..n -> Data],
           fill_write_buf(bytes)
    PROVE  UNCHANGED <<qBar, roomBar, resBar>>
<1>1. Len(bytes) = n
  OBVIOUS
<1>2. \A i \in 1..read_size : storage'[read_off + i] = storage[read_off + i]
  BY <1>1, BufferAssumption
  DEF fill_write_buf, Written, TypeOK, read_size
<1> QED BY <1>2 DEF fill_write_buf, qBar, roomBar, resBar, ReadData,
                    read_size, write_size

(* Every call on a buffer.h buffer is a step of ByteQueue, or changes nothing *)
(* a user can see: for every capacity, argument and history, reads deliver   *)
(* the written bytes in order, once, and refused calls change nothing.       *)
THEOREM BufferImplementsQueue == Spec => IsByteQueue
<1>1. Init => Queue!Init
  BY BufferAssumption DEF Init, Queue!Init, Queue!Returned, ReadData,
                          read_size, write_size
<1>2. TypeOK /\ [Next]_vars => [Queue!Next]_(Queue!vars)
  <2> SUFFICES ASSUME TypeOK, [Next]_vars PROVE [Queue!Next]_(Queue!vars)
    OBVIOUS
  <2>1. CASE get_byte
    <3>1. Queue!Take \/ Queue!Refuse
      BY <2>1, ConsumeTakes DEF get_byte
    <3> QED BY <3>1 DEF Queue!Next
  <2>2. ASSUME NEW num \in Counts,
               get_count(num) \/ get_buf(num) \/ get_str(num)
        PROVE  Queue!Take \/ Queue!Refuse
    <3>1. num \in Nat /\ read_size \in Nat
      BY BufferAssumption, UnreadIsSeq
    <3>2. CASE get_count(num)
      BY <3>1, <3>2, ConsumeTakes DEF get_count
    <3>3. CASE get_buf(num)
      BY <3>1, <3>3, ConsumeTakes DEF get_buf
    <3>4. CASE get_str(num)
      BY <3>1, <3>4, ConsumeTakes DEF get_str
    <3> QED BY <2>2, <3>2, <3>3, <3>4
  <2>3. ASSUME NEW num \in Counts, read_into(num)
        PROVE  Queue!Take \/ Queue!Refuse
    BY <2>3, BufferAssumption, ConsumeTakes DEF read_into
  <2>4. ASSUME NEW val \in Data, put_byte(val)
        PROVE  Queue!Put \/ Queue!Refuse
    <3>1. <<val>> \in [1..1 -> Data]
      OBVIOUS
    <3> QED BY <2>4, <3>1, AppendPuts DEF put_byte
  <2>5. ASSUME NEW n \in Counts, NEW bytes \in [1..n -> Data],
               append_buf(bytes) \/ write_outof(bytes)
        PROVE  Queue!Put \/ Queue!Refuse
    BY <2>5, BufferAssumption, AppendPuts DEF append_buf, write_outof
  <2>6. ASSUME NEW n \in Counts, NEW bytes \in [1..n -> Data],
               fill_write_buf(bytes)
        PROVE  UNCHANGED Queue!vars
    BY <2>6, BufferAssumption, FillStutters
    DEF Queue!vars, qBar, roomBar, resBar
  <2>7. ASSUME NEW num \in Counts, put_count(num)
        PROVE  Queue!Put \/ Queue!Refuse
    BY <2>7, BufferAssumption, PutCountPuts
  <2>8. CASE reset
    BY <2>8, BufferAssumption
    DEF reset, Answer, Queue!Next, Queue!Reset, Queue!Returned, ReadData,
        read_size, write_size
  <2>9. CASE UNCHANGED vars
    BY <2>9 DEF vars, Queue!vars, ReadData, read_size, write_size
  <2> QED BY <2>1, <2>2, <2>3, <2>4, <2>5, <2>6, <2>7, <2>8, <2>9
          DEF Next, Get, Put, Queue!Next
<1> QED BY <1>1, <1>2, BufferTypeCorrect, PTL DEF Spec, Queue!Spec, IsByteQueue
=============================================================================
