------------------------------- MODULE Buffer -------------------------------
(* tasarch::gdb::buffer: fixed storage with a read head and a write head.    *)
(* Offsets are size_t; the two subtractions read_size() and write_size()     *)
(* would wrap if a head overtook its bound: TypeOK says that none does.      *)
EXTENDS Integers, Sequences

CONSTANTS MaxSize,      \* max_size
          Data,         \* the bytes that are stored
          Counts,       \* the `num` arguments, and sizeof(T) of write_outof
          PointerSize   \* sizeof(T*) on the target

ASSUME BufferAssumption == /\ MaxSize \in Nat
                           /\ Counts \subseteq Nat
                           /\ PointerSize \in Nat
                           /\ 0 \in Data

VARIABLES storage, write_off, read_off,
          ret           \* what the latest call asked for and what came of it

vars == <<storage, write_off, read_off, ret>>

read_size  == write_off - read_off
write_size == MaxSize - write_off

\* The n bytes from the read head on.
ReadData(n) == [i \in 1..n |-> storage[read_off + i]]

\* Mutant of Written: the copy goes to the read head.
WrittenAtReadHead(bytes) == [i \in 1..MaxSize |->
                                IF i \in read_off + 1 .. read_off + Len(bytes)
                                THEN bytes[i - read_off] ELSE storage[i]]

\* memcpy of the bytes to the write head.
Written(bytes) == [i \in 1..MaxSize |->
                      IF i \in write_off + 1 .. write_off + Len(bytes)
                      THEN bytes[i - write_off] ELSE storage[i]]

Answer(op, num, exc, bytes) ==
    ret' = [op |-> op, num |-> num, exc |-> exc, bytes |-> bytes]

Throw(op, num, exc) == /\ Answer(op, num, exc, <<>>)
                       /\ UNCHANGED <<storage, write_off, read_off>>

\* storage.resize(size) value-initialises the bytes.
Init == /\ storage = [i \in 1..MaxSize |-> 0]
        /\ write_off = 0
        /\ read_off = 0
        /\ ret = [op |-> "buffer", num |-> 0, exc |-> "none", bytes |-> <<>>]

-----------------------------------------------------------------------------
(* read_require(n) and then the read head moves by n.                        *)
Consume(op, num, n, bytes) ==
    \/ /\ read_size < n
       /\ Throw(op, num, "out_of_range")
    \/ /\ read_size >= n
       /\ read_off' = read_off + n
       /\ Answer(op, num, "none", bytes)
       /\ UNCHANGED <<storage, write_off>>

get_byte == Consume("get_byte", 1, 1, ReadData(1))

get_count(num) == Consume("get_count", num, num, <<>>)

get_buf(num) == Consume("get_buf", num, num, ReadData(num))

\* 0 asks for everything that is left.
get_str(num) == LET n == IF num = 0 THEN read_size ELSE num
                IN  Consume("get_str", n, n, ReadData(n))

\* sizeof(elem), where elem is the pointer: the size of T plays no part.
read_into(sizeofT) ==
    Consume("read_into", sizeofT, PointerSize, ReadData(PointerSize))

(* write_require(n), the copy, and then the write head moves by n.           *)
Append_(op, bytes) ==
    LET n == Len(bytes) IN
    \/ /\ write_size < n
       /\ Throw(op, n, "buffer_too_small")
    \/ /\ write_size >= n
       /\ storage' = Written(bytes)
       /\ write_off' = write_off + n
       /\ Answer(op, n, "none", <<>>)
       /\ UNCHANGED read_off

put_byte(val) == Append_("put_byte", <<val>>)

append_buf(buf) == Append_("append_buf", buf)

write_outof(elem) == Append_("write_outof", elem)

\* async_receive has filled the front of write_buf(); nothing is counted yet.
fill_write_buf(bytes) ==
    /\ Len(bytes) <= write_size
    /\ storage' = Written(bytes)
    /\ UNCHANGED <<write_off, read_off, ret>>

\* Mutant of put_count: the "kinda too late" check is left out.
put_count_unchecked(num) ==
    /\ write_off' = write_off + num
    /\ Answer("put_count", num, "none", <<>>)
    /\ UNCHANGED <<storage, read_off>>

put_count(num) ==
    \/ /\ write_size < num
       /\ Throw("put_count", num, "buffer_too_small")
    \/ /\ write_size >= num
       /\ write_off' = write_off + num
       /\ Answer("put_count", num, "none", <<>>)
       /\ UNCHANGED <<storage, read_off>>

reset == /\ write_off' = 0
         /\ read_off' = 0
         /\ Answer("reset", 0, "none", <<>>)
         /\ UNCHANGED storage

Get == \/ get_byte
       \/ \E num \in Counts : get_count(num) \/ get_buf(num) \/ get_str(num)
       \/ \E num \in Counts \ {0} : read_into(num)

Put == \/ \E val \in Data : put_byte(val)
       \/ \E n \in Counts : \E bytes \in [1..n -> Data] :
             append_buf(bytes) \/ write_outof(bytes) \/ fill_write_buf(bytes)
       \/ \E num \in Counts : put_count(num)

Next == Get \/ Put \/ reset

Spec == Init /\ [][Next]_vars

-----------------------------------------------------------------------------
(* The type invariant: the read head never overtakes the write head, and     *)
(* that one never leaves the storage, so no size_t subtraction of            *)
(* read_size() and write_size() wraps and no memcpy is out of bounds.        *)
TypeOK == /\ storage \in [1..MaxSize -> Data]
          /\ write_off \in 0..MaxSize
          /\ read_off \in 0..write_off

(* The heads and the storage implement a bounded queue of bytes: reads give  *)
(* the bytes in the order of the writes, across partial reads, failed calls, *)
(* stale storage and resets.                                                 *)
Queue == INSTANCE ByteQueue
             WITH q <- ReadData(read_size), room <- write_size,
                  result <- [exc |-> ret.exc, bytes |-> ret.bytes]

IsByteQueue == Queue!Spec

=============================================================================
