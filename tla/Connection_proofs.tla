-------------------------- MODULE Connection_proofs -------------------------
(* The handler queues of a connection and its response buffer, for any       *)
(* number of remote calls and any requests.                                  *)
EXTENDS Connection, TLAPS

\* Before start() there is neither a loop nor a coroutine, after it both.
Started == /\ running <=> pc # "created"
           /\ running <=> coro # "created"

\* resp_buf is empty when a packet is processed.
RespInv == /\ OneResponse
           /\ pc = "process" => resp = <<>>

\* OneWaiter and OneResponse with the type of the state and what they rest on.
Inv == TypeOK /\ Started /\ OneWaiter /\ RespInv

LEMMA SeqFacts ==
    /\ \A S : <<>> \in Seq(S)
    /\ Len(<<>>) = 0
    /\ \A S : \A s \in Seq(S), e \in S :
          Append(s, e) \in Seq(S) /\ Len(Append(s, e)) = Len(s) + 1
    /\ \A S : \A s \in Seq(S) :
          s # <<>> => /\ Head(s) \in S /\ Tail(s) \in Seq(S)
                      /\ Len(Tail(s)) = Len(s) - 1 /\ Len(s) >= 1
    /\ \A S : \A s \in Seq(S) : Len(s) \in Nat /\ (Len(s) = 0 => s = <<>>)
OBVIOUS

LEMMA AppendType ==
    ASSUME NEW S, NEW s \in Seq(S), NEW e \in S
    PROVE  Append(s, e) \in Seq(S) /\ Len(Append(s, e)) = Len(s) + 1
OBVIOUS

LEMMA TailType ==
    ASSUME NEW S, NEW s \in Seq(S), s # <<>>
    PROVE  Tail(s) \in Seq(S) /\ Len(Tail(s)) = Len(s) - 1
OBVIOUS

LEMMA ConcatType ==
    ASSUME NEW S, NEW s \in Seq(S), NEW t \in Seq(S)
    PROVE  s \o t \in Seq(S) /\ Len(s \o t) = Len(s) + Len(t)
OBVIOUS

LEMMA InitInv == Init => Inv
<1> SUFFICES ASSUME Init PROVE Inv
  OBVIOUS
<1> USE DEF Init
<1>1. /\ io_req \in Seq(1..Calls) /\ io_resp \in Seq(1..Calls)
      /\ resp \in Seq(Responses)
      /\ to_server \in Seq(Packets \cup {"+", "break"})
      /\ to_client \in Seq(Seq(Responses))
  OBVIOUS
<1>2. TypeOK
  BY <1>1 DEF TypeOK
<1>3. OneWaiter /\ RespInv
  BY SeqFacts DEF OneWaiter, RespInv, OneResponse
<1> QED BY <1>2, <1>3 DEF Inv, Started

LEMMA ServerInv == ASSUME Inv, Server PROVE Inv'
<1>1. CASE start
  BY <1>1 DEF start, Inv, TypeOK, Started, OneWaiter, RespInv, OneResponse,
              clientVars
<1>2. CASE stop
  BY <1>2 DEF stop, Inv, TypeOK, Started, OneWaiter, RespInv, OneResponse,
              ioVars, clientVars
<1> QED BY <1>1, <1>2 DEF Server

LEMMA LoopInv == ASSUME Inv, Loop PROVE Inv'
<1> USE DEF Inv, LoopElse, ioVars, clientVars
<1>1. CASE LoopTop
  BY <1>1 DEF LoopTop, StopSignal, TypeOK, Started, OneWaiter, RespInv, OneResponse
<1>2. CASE Receive
  <2>1. /\ Head(to_server) \in Packets \cup {"+", "break"}
        /\ to_server' \in Seq(Packets \cup {"+", "break"})
    BY <1>2, SeqFacts DEF Receive, ResetResponse, TypeOK
  <2>2. packet' \in Packets \cup {"none", "break"}
    BY <1>2, <2>1 DEF Receive, ResetResponse, TypeOK
  <2>3. resp' = resp \/ resp' = <<>>
    BY <1>2 DEF Receive, ResetResponse
  <2>4. resp' \in Seq(Responses)
    BY <2>3, SeqFacts DEF TypeOK
  <2>5. TypeOK'
    BY <1>2, <2>1, <2>2, <2>4, ZenonT(30) DEF Receive, ResetResponse, TypeOK
  <2>6. OneResponse'
    BY <2>3, SeqFacts DEF OneResponse, RespInv
  <2>7. RespInv'
    BY <1>2, <2>6 DEF Receive, ResetResponse, RespInv
  <2> QED BY <1>2, <2>5, <2>7 DEF Receive, ResetResponse, Started, OneWaiter
<1>3. CASE ReceiveFails
  <2>1. to_server' \in Seq(Packets \cup {"+", "break"})
    BY <1>3, SeqFacts DEF ReceiveFails, TypeOK
  <2> QED BY <1>3, <2>1 DEF ReceiveFails, Abort, TypeOK, Started, OneWaiter,
                            RespInv, OneResponse
<1>4. CASE RecvTimeout
  BY <1>4 DEF RecvTimeout, TypeOK, Started, OneWaiter, RespInv, OneResponse
<1>5. CASE Respond
  <2>1. \/ to_client' = Append(to_client, resp)
        \/ to_client' = to_client
    BY <1>5 DEF Respond, Responds
  <2>2. to_client \in Seq(Seq(Responses)) /\ resp \in Seq(Responses)
    BY DEF TypeOK
  <2>3. Append(to_client, resp) \in Seq(Seq(Responses))
    BY <2>2, AppendType
  <2>4. to_client' \in Seq(Seq(Responses))
    BY <2>1, <2>2, <2>3
  <2> QED BY <1>5, <2>4 DEF Respond, Responds, TypeOK, Started, OneWaiter, RespInv,
                            OneResponse
<1>6. CASE SendFails
  BY <1>6 DEF SendFails, Responds, Abort, TypeOK, Started, OneWaiter, RespInv,
              OneResponse
<1>7. CASE AwaitAck
  <2>1. to_server' \in Seq(Packets \cup {"+", "break"})
    BY <1>7, SeqFacts DEF AwaitAck, TypeOK
  <2> QED BY <1>7, <2>1 DEF AwaitAck, TypeOK, Started, OneWaiter, RespInv,
                            OneResponse
<1>8. CASE AckTimeout
  BY <1>8 DEF AckTimeout, Abort, TypeOK, Started, OneWaiter, RespInv,
              OneResponse
<1> QED BY <1>1, <1>2, <1>3, <1>4, <1>5, <1>6, <1>7, <1>8 DEF Loop

\* wakeup_request adds at most one response, moves a waiter from one queue to
\* the other, and leaves the number of waiters alone.
LEMMA WakeupFacts ==
    ASSUME NEW req \in Seq(1..Calls), NEW waiting \in Seq(1..Calls),
           TypeOK, resp = <<>>, wakeup_request(req, waiting)
    PROVE  /\ io_req' \in Seq(1..Calls) /\ io_resp' \in Seq(1..Calls)
           /\ Len(io_req') + Len(io_resp') = Len(req) + Len(waiting)
           /\ resp' \in Seq(Responses) /\ Len(resp') <= 1
           /\ should_respond' \in BOOLEAN
<1>1. CASE req # <<>>
  <2>1. /\ Head(req) \in 1..Calls /\ Tail(req) \in Seq(1..Calls)
        /\ Len(Tail(req)) = Len(req) - 1
    BY <1>1, SeqFacts
  <2>2. /\ io_req' = Tail(req) /\ io_resp' = Append(waiting, Head(req))
        /\ resp' = Append(resp, "F") /\ should_respond' = should_respond
    BY <1>1 DEF wakeup_request, Resume
  <2>3. /\ Append(waiting, Head(req)) \in Seq(1..Calls)
        /\ Len(Append(waiting, Head(req))) = Len(waiting) + 1
    BY <2>1, SeqFacts
  <2>4. resp' \in Seq(Responses) /\ Len(resp') = 1
    BY <2>2, SeqFacts DEF Responses
  <2>5. Len(req) \in Nat /\ Len(waiting) \in Nat
    BY SeqFacts
  <2> QED BY <2>1, <2>2, <2>3, <2>4, <2>5 DEF TypeOK
<1>2. CASE req = <<>>
  <2>1. io_req' = req /\ io_resp' = waiting /\ resp' = resp /\ ~should_respond'
    BY <1>2 DEF wakeup_request, Resume
  <2>2. Len(resp) = 0 /\ resp \in Seq(Responses)
    BY DEF TypeOK
  <2>3. should_respond' = FALSE
    BY <1>2 DEF wakeup_request, Resume
  <2>4. Len(io_req') + Len(io_resp') = Len(req) + Len(waiting)
    BY <2>1
  <2>5. resp' \in Seq(Responses) /\ Len(resp') <= 1
    <3>1. Len(resp') = 0
      BY <2>1, <2>2
    <3> QED BY <2>1, <2>2, <3>1
  <2> QED BY <2>1, <2>3, <2>4, <2>5
<1> QED BY <1>1, <1>2

\* The call that follows a reply, if there is one, is a call of
\* remote_io_testing.
LEMMA AfterReplyType ==
    ASSUME NEW call \in 1..Calls, NEW reply
    PROVE  /\ AfterReply(call, reply) \in Seq(1..Calls)
           /\ Len(AfterReply(call, reply))
                 = IF AfterReply(call, reply) = <<>> THEN 0 ELSE 1
<1>1. call \in Int /\ call >= 1 /\ call <= Calls
  BY ConnectionAssumption
<1>2. CASE reply = "Ffail" \/ call = Calls
  <2>1. AfterReply(call, reply) = <<>>
    BY <1>2 DEF AfterReply
  <2> QED BY <2>1
<1>3. CASE reply # "Ffail" /\ call # Calls
  <2>1. AfterReply(call, reply) = <<call + 1>>
    BY <1>3 DEF AfterReply
  <2>2. call + 1 \in 1..Calls
    BY <1>1, <1>3, ConnectionAssumption
  <2> QED BY <2>1, <2>2
<1> QED BY <1>2, <1>3

LEMMA HandleInv == ASSUME Inv, Handle PROVE Inv'
<1> USE DEF Inv, ioVars, clientVars
<1>0. pc = "process" /\ resp = <<>>
  BY DEF Handle, HandleBreak, HandleReply, HandleThrows, HandleUnknown,
         HandleOverflow, HandleCont, handle_file_reply, Handler, RespInv
<1>r. \A r \in Responses : Append(resp, r) \in Seq(Responses)
                           /\ Len(Append(resp, r)) = 1
  BY <1>0, SeqFacts
<1>1. CASE HandleBreak \/ HandleReply \/ HandleThrows \/ HandleUnknown
           \/ HandleOverflow
  <2>1. resp' = <<>> \/ \E r \in Responses : resp' = Append(resp, r)
    BY <1>0, <1>1
       DEF HandleBreak, HandleReply, HandleThrows, HandleUnknown,
           HandleOverflow, Responses
  <2>3. resp' \in Seq(Responses) /\ Len(resp') <= 1
    <3>1. CASE resp' = <<>>
      <4>1. <<>> \in Seq(Responses) /\ Len(<<>>) = 0
        OBVIOUS
      <4> QED BY <3>1, <4>1
    <3>2. CASE \E r \in Responses : resp' = Append(resp, r)
      BY <3>2, <1>r
    <3> QED BY <2>1, <3>1, <3>2
  <2>2. /\ pc' \in {"respond", "exited"} /\ should_stop' \in BOOLEAN
        /\ Handler(Packets \cup {"break"}) /\ NoIo
    BY <1>1 DEF HandleBreak, HandleReply, HandleThrows, HandleUnknown,
                HandleOverflow, Abort, Handler, TypeOK
  <2> QED BY <1>0, <2>2, <2>3 DEF Handler, NoIo, TypeOK, Started, OneWaiter,
                                  RespInv, OneResponse
<1>2. CASE HandleCont
  <2>1. wakeup_request(io_req, io_resp)
    BY <1>2 DEF HandleCont
  <2>2. /\ io_req' \in Seq(1..Calls) /\ io_resp' \in Seq(1..Calls)
        /\ Len(io_req') + Len(io_resp') = Len(io_req) + Len(io_resp)
        /\ resp' \in Seq(Responses) /\ Len(resp') <= 1
        /\ should_respond' \in BOOLEAN
    BY <2>1, <1>0, WakeupFacts DEF TypeOK
  <2> QED BY <1>0, <1>2, <2>2 DEF HandleCont, Handler, TypeOK, Started,
                                  OneWaiter, RespInv, OneResponse
<1>3. CASE handle_file_reply
  <2>0. /\ pc' = "respond"
        /\ UNCHANGED <<running, should_stop, packet, to_server, to_client,
                       clientVars>>
    BY <1>3 DEF handle_file_reply
  <2>1. CASE io_resp # <<>>
    <3> DEFINE next == AfterReply(Head(io_resp), packet)
    <3>1. /\ wakeup_request(io_req \o next, Tail(io_resp))
          /\ coro' = IF next = <<>> THEN "finished" ELSE coro
      BY <1>3, <2>1 DEF handle_file_reply
    <3>2. /\ Head(io_resp) \in 1..Calls /\ Tail(io_resp) \in Seq(1..Calls)
          /\ Len(Tail(io_resp)) = Len(io_resp) - 1 /\ Len(io_resp) >= 1
      BY <2>1, SeqFacts DEF TypeOK
    <3>3. /\ Len(io_req) \in Nat /\ Len(io_resp) \in Nat
      BY SeqFacts DEF TypeOK
    <3>4. coro = "suspended" /\ Len(io_resp) = 1 /\ Len(io_req) = 0
      BY <3>2, <3>3 DEF OneWaiter
    <3>6. next \in Seq(1..Calls) /\ Len(next) = IF next = <<>> THEN 0 ELSE 1
      BY <3>2, AfterReplyType
    <3> HIDE DEF next
    <3> DEFINE queue == io_req \o next
    <3>7. queue \in Seq(1..Calls) /\ Len(queue) = Len(next)
      <4>1. io_req \in Seq(1..Calls)
        BY DEF TypeOK
      <4>2. queue \in Seq(1..Calls) /\ Len(queue) = Len(io_req) + Len(next)
        BY <4>1, <3>6, ConcatType
      <4>3. Len(next) \in Nat
        BY <3>6
      <4> QED BY <4>2, <4>3, <3>4
    <3>q. wakeup_request(queue, Tail(io_resp))
      BY <3>1
    <3> HIDE DEF queue
    <3>8. /\ io_req' \in Seq(1..Calls) /\ io_resp' \in Seq(1..Calls)
          /\ Len(io_req') + Len(io_resp')
                = Len(queue) + Len(Tail(io_resp))
          /\ resp' \in Seq(Responses) /\ Len(resp') <= 1
          /\ should_respond' \in BOOLEAN
      BY <3>q, <3>2, <3>7, <1>0, WakeupFacts
    <3>9. Len(io_req') + Len(io_resp') = IF next = <<>> THEN 0 ELSE 1
      <4>1. Len(io_req') + Len(io_resp') = Len(next)
        <5>1. Len(Tail(io_resp)) = 0
          BY <3>2, <3>4
        <5>2. Len(next) \in Nat
          BY <3>6
        <5>3. Len(io_req') + Len(io_resp') = Len(queue) + 0
          BY <5>1, <3>8
        <5>4. Len(queue) = Len(next) /\ Len(queue) + 0 = Len(queue)
          BY <5>2, <3>7
        <5> QED BY <5>3, <5>4
      <4> QED BY <4>1, <3>6
    <3>10. OneWaiter'
      BY <3>1, <3>4, <3>9 DEF OneWaiter
    <3>11. coro' \in {"suspended", "finished"}
      BY <3>1, <3>4
    <3> QED BY <1>0, <2>0, <3>4, <3>8, <3>10, <3>11
            DEF TypeOK, Started, RespInv, OneResponse
  <2>2. CASE io_resp = <<>>
    <3>1. resp' = Append(resp, "E01") /\ UNCHANGED <<ioVars, should_respond>>
      BY <1>3, <2>2 DEF handle_file_reply
    <3>2. resp' \in Seq(Responses) /\ Len(resp') <= 1
      BY <3>1, <1>r DEF Responses
    <3> QED BY <1>0, <2>0, <3>1, <3>2
            DEF TypeOK, Started, OneWaiter, RespInv, OneResponse
  <2> QED BY <2>1, <2>2
<1> QED BY <1>1, <1>2, <1>3 DEF Handle

LEMMA RemoteIoInv == ASSUME Inv, remote_io_testing PROVE Inv'
<1>1. /\ io_req' = Append(io_req, 1) /\ coro = "spawned"
      /\ coro' = "suspended" /\ io_resp' = io_resp
  BY DEF remote_io_testing
<1>2. 1 \in 1..Calls
  BY ConnectionAssumption
<1>3. io_req' \in Seq(1..Calls) /\ Len(io_req') = Len(io_req) + 1
  BY <1>1, <1>2, SeqFacts DEF Inv, TypeOK
<1>4. Len(io_req) \in Nat /\ Len(io_resp) \in Nat
  BY SeqFacts DEF Inv, TypeOK
<1>5. OneWaiter'
  BY <1>1, <1>3, <1>4 DEF Inv, OneWaiter
<1> QED BY <1>1, <1>3, <1>5
        DEF remote_io_testing, Inv, TypeOK, Started, RespInv, OneResponse,
            loopVars, clientVars

LEMMA ClientInv == ASSUME Inv, Client PROVE Inv'
<1> USE DEF Inv, ClientElse, loopVars, ioVars
<1>1. to_server' \in Seq(Packets \cup {"+", "break"})
  <2>1. \/ to_server' = to_server
        \/ \E p \in Packets \cup {"+", "break"} :
              to_server' = Append(to_server, p)
    BY ConnectionAssumption
       DEF Client, ClientRequest, ClientContinue, ClientBreak, ClientReceive,
           ClientFileReply, ClientCloses, Packets
  <2>2. to_server \in Seq(Packets \cup {"+", "break"})
    BY DEF TypeOK
  <2> QED BY <2>1, <2>2, AppendType
<1>2. to_client' \in Seq(Seq(Responses))
  <2>1. \/ to_client' = to_client
        \/ to_client # <<>> /\ to_client' = Tail(to_client)
    BY DEF Client, ClientRequest, ClientContinue, ClientBreak, ClientReceive,
           ClientFileReply, ClientCloses
  <2> QED BY <2>1, SeqFacts, ZenonT(30) DEF TypeOK
<1>3. /\ client' \in {"stopped", "waiting", "running", "fileio"}
      /\ interrupting' \in BOOLEAN /\ open' \in BOOLEAN
  BY DEF Client, ClientRequest, ClientContinue, ClientBreak, ClientReceive,
         ClientFileReply, ClientCloses, TypeOK
<1>4. UNCHANGED <<loopVars, ioVars>>
  BY DEF Client, ClientRequest, ClientContinue, ClientBreak, ClientReceive,
         ClientFileReply, ClientCloses
<1> QED BY <1>1, <1>2, <1>3, <1>4
        DEF TypeOK, Started, OneWaiter, RespInv, OneResponse

LEMMA StepInv == ASSUME Inv, [Next]_vars PROVE Inv'
<1>1. CASE UNCHANGED vars
  BY <1>1 DEF Inv, TypeOK, Started, OneWaiter, RespInv, OneResponse, vars,
              loopVars, ioVars, clientVars
<1> QED BY <1>1, ServerInv, LoopInv, HandleInv, RemoteIoInv, ClientInv DEF Next

LEMMA SpecInv == Spec => []Inv
BY InitInv, StepInv, PTL DEF Spec

(* Every variable of a connection keeps its type.                            *)
THEOREM ConnectionTypeCorrect == Spec => []TypeOK
<1>1. Inv => TypeOK
  BY DEF Inv
<1> QED BY <1>1, SpecInv, PTL

(* While the remote-I/O coroutine is suspended it waits in exactly one of    *)
(* io_req and io_resp, once, and otherwise both are empty (connection.cpp    *)
(* 233-259): no wakeup is lost, and none resumes a coroutine that is gone.   *)
THEOREM CoroutineWaitsOnce == Spec => []OneWaiter
<1>1. Inv => OneWaiter
  BY DEF Inv
<1> QED BY <1>1, SpecInv, PTL

(* resp_buf never holds two responses (connection.cpp 99-124).               *)
THEOREM ResponsesAreSingle == Spec => []OneResponse
<1>1. Inv => OneResponse
  BY DEF Inv, RespInv
<1> QED BY <1>1, SpecInv, PTL

-----------------------------------------------------------------------------
(* What is on its way to the server, as a sequence                           *)

Messages == Packets \cup {"+", "break"}

\* A sequence holds a member of a set, or at most one.
Holds(q, S) == \E i \in 1..Len(q) : q[i] \in S
OneOf(q, S) == \A i, j \in 1..Len(q) : q[i] \in S /\ q[j] \in S => i = j

\* The break at i is followed by no acknowledgement: AwaitAck may not drop it.
LooseAt(q, i) == q[i] = "break" /\ \A k \in 1..Len(q) : k > i => q[k] # "+"
LooseBreak(q) == \E i \in 1..Len(q) : LooseAt(q, i)

\* What comes after such a break is not a packet.
BreaksTrail(q) ==
    \A i, j \in 1..Len(q) : LooseAt(q, i) /\ j > i => q[j] \notin Packets

LEMMA PacketFacts ==
    /\ "+" \notin Packets /\ "break" \notin Packets
    /\ FileReplies \subseteq Packets /\ Requests \subseteq Packets
    /\ "c" \in Packets /\ Packets \subseteq Messages
    /\ "+" \in Messages /\ "break" \in Messages
BY ConnectionAssumption DEF Packets, FileReplies, Messages

LEMMA AppendItems ==
    ASSUME NEW q \in Seq(Messages), NEW e \in Messages
    PROVE  /\ Len(Append(q, e)) = Len(q) + 1 /\ Len(q) \in Nat
           /\ \A i \in 1..Len(q) : Append(q, e)[i] = q[i]
           /\ Append(q, e)[Len(q) + 1] = e
OBVIOUS

LEMMA TailItems ==
    ASSUME NEW q \in Seq(Messages), q # <<>>
    PROVE  /\ Len(Tail(q)) = Len(q) - 1 /\ Len(q) \in Nat /\ Len(q) >= 1
           /\ Head(q) = q[1] /\ Head(q) \in Messages
           /\ \A i \in 1..Len(Tail(q)) : Tail(q)[i] = q[i + 1]
           /\ Tail(q) \in Seq(Messages)
OBVIOUS

\* Appending e adds e, and keeps one of a kind if there was none.
LEMMA HoldsAppend ==
    ASSUME NEW q \in Seq(Messages), NEW e \in Messages, NEW S
    PROVE  /\ Holds(Append(q, e), S) <=> Holds(q, S) \/ e \in S
           /\ OneOf(q, S) /\ (e \in S => ~Holds(q, S)) => OneOf(Append(q, e), S)
<1> DEFINE r == Append(q, e)
<1>1. /\ Len(r) = Len(q) + 1 /\ Len(q) \in Nat
      /\ \A i \in 1..Len(q) : r[i] = q[i]
      /\ r[Len(q) + 1] = e
  BY AppendItems
<1> HIDE DEF r
<1>2. \A i \in 1..Len(r) : i \in 1..Len(q) \/ i = Len(q) + 1
  BY <1>1
<1>3. Holds(r, S) <=> Holds(q, S) \/ e \in S
  BY <1>1, <1>2 DEF Holds
<1>4. ASSUME OneOf(q, S), e \in S => ~Holds(q, S) PROVE OneOf(r, S)
  BY <1>1, <1>2, <1>4 DEF Holds, OneOf
<1> QED BY <1>3, <1>4 DEF r

\* An acknowledgement covers every break; a packet makes none loose.
LEMMA BreaksAppend ==
    ASSUME NEW q \in Seq(Messages), NEW e \in Messages
    PROVE  /\ e = "+" => ~LooseBreak(Append(q, e)) /\ BreaksTrail(Append(q, e))
           /\ e \in Packets /\ LooseBreak(Append(q, e)) => LooseBreak(q)
           /\ e \in Packets /\ ~LooseBreak(q) => BreaksTrail(Append(q, e))
           /\ e = "break" /\ BreaksTrail(q) => BreaksTrail(Append(q, e))
<1> DEFINE r == Append(q, e)
<1>1. /\ Len(r) = Len(q) + 1 /\ Len(q) \in Nat
      /\ \A i \in 1..Len(q) : r[i] = q[i]
      /\ r[Len(q) + 1] = e
  BY AppendItems
<1> HIDE DEF r
<1>2. \A i \in 1..Len(r) : i \in 1..Len(q) \/ i = Len(q) + 1
  BY <1>1
<1>3. ASSUME e = "+", NEW i \in 1..Len(r) PROVE ~LooseAt(r, i)
  <2>1. CASE i = Len(q) + 1
    BY <1>1, <1>3, <2>1 DEF LooseAt
  <2>2. CASE i \in 1..Len(q)
    <3>1. Len(q) + 1 \in 1..Len(r) /\ Len(q) + 1 > i
      BY <1>1, <2>2
    <3> QED BY <1>1, <1>3, <3>1 DEF LooseAt
  <2> QED BY <1>2, <2>1, <2>2
<1>4. ASSUME NEW i \in 1..Len(q), LooseAt(r, i) PROVE LooseAt(q, i)
  <2>1. \A k \in 1..Len(q) : k \in 1..Len(r) /\ r[k] = q[k]
    BY <1>1
  <2> QED BY <1>4, <2>1 DEF LooseAt
<1>5. ASSUME e \in Packets, NEW i \in 1..Len(r), LooseAt(r, i)
      PROVE  i \in 1..Len(q)
  BY <1>1, <1>2, <1>5, PacketFacts DEF LooseAt
<1>6. e \in Packets /\ LooseBreak(r) => LooseBreak(q)
  BY <1>4, <1>5 DEF LooseBreak
<1>7. e \in Packets /\ ~LooseBreak(q) => BreaksTrail(r)
  BY <1>4, <1>5 DEF LooseBreak, BreaksTrail
<1>8. ASSUME e = "break", BreaksTrail(q) PROVE BreaksTrail(r)
  <2> SUFFICES ASSUME NEW i \in 1..Len(r), NEW j \in 1..Len(r),
                      LooseAt(r, i), j > i
               PROVE  r[j] \notin Packets
    BY DEF BreaksTrail
  <2>1. CASE j = Len(q) + 1
    BY <1>1, <1>8, <2>1, PacketFacts
  <2>2. CASE j \in 1..Len(q)
    <3>1. i \in 1..Len(q)
      BY <1>1, <1>2, <2>2
    <3> QED BY <1>1, <1>4, <1>8, <2>2, <3>1 DEF BreaksTrail
  <2> QED BY <1>2, <2>1, <2>2
<1>9. e = "+" => ~LooseBreak(r) /\ BreaksTrail(r)
  BY <1>3 DEF LooseBreak, BreaksTrail
<1> QED BY <1>6, <1>7, <1>8, <1>9 DEF r

\* Taking the head adds nothing, and takes the only one of its kind.
LEMMA HoldsTail ==
    ASSUME NEW q \in Seq(Messages), q # <<>>, NEW S
    PROVE  /\ Holds(Tail(q), S) => Holds(q, S)
           /\ Head(q) \in S => Holds(q, S)
           /\ OneOf(q, S) => OneOf(Tail(q), S)
           /\ OneOf(q, S) /\ Head(q) \in S => ~Holds(Tail(q), S)
<1> DEFINE t == Tail(q)
<1>1. /\ Len(t) = Len(q) - 1 /\ Len(q) \in Nat /\ Len(q) >= 1
      /\ Head(q) = q[1]
      /\ \A i \in 1..Len(t) : t[i] = q[i + 1]
  BY TailItems
<1> HIDE DEF t
<1>2. \A i \in 1..Len(t) : i + 1 \in 1..Len(q) /\ i + 1 # 1
  BY <1>1
<1>3. 1 \in 1..Len(q)
  BY <1>1
<1>4. (Holds(t, S) => Holds(q, S)) /\ (Head(q) \in S => Holds(q, S))
  BY <1>1, <1>2, <1>3 DEF Holds
<1>5. ASSUME OneOf(q, S), NEW i \in 1..Len(t), NEW j \in 1..Len(t),
             t[i] \in S, t[j] \in S
      PROVE  i = j
  <2>1. i + 1 = j + 1
    BY <1>1, <1>2, <1>5 DEF OneOf
  <2> QED BY <2>1, <1>1
<1>6. OneOf(q, S) => OneOf(t, S)
  BY <1>5 DEF OneOf
<1>7. ASSUME OneOf(q, S), Head(q) \in S, NEW i \in 1..Len(t), t[i] \in S
      PROVE  FALSE
  BY <1>1, <1>2, <1>3, <1>7 DEF OneOf
<1> QED BY <1>4, <1>6, <1>7 DEF t, Holds

\* A break at the head that no acknowledgement follows is loose, and with
\* BreaksTrail there is no packet behind it.
LEMMA BreaksTail ==
    ASSUME NEW q \in Seq(Messages), q # <<>>
    PROVE  /\ LooseBreak(Tail(q)) => LooseBreak(q)
           /\ BreaksTrail(q) => BreaksTrail(Tail(q))
           /\ Head(q) = "break" /\ ~Holds(q, {"+"}) => LooseBreak(q)
           /\ Head(q) = "break" /\ ~Holds(q, {"+"}) /\ BreaksTrail(q)
                => ~Holds(Tail(q), Packets)
<1> DEFINE t == Tail(q)
<1>1. /\ Len(t) = Len(q) - 1 /\ Len(q) \in Nat /\ Len(q) >= 1
      /\ Head(q) = q[1]
      /\ \A i \in 1..Len(t) : t[i] = q[i + 1]
  BY TailItems
<1> HIDE DEF t
<1>2. \A i \in 1..Len(t) : i \in Nat /\ i + 1 \in 1..Len(q) /\ i + 1 > 1
  BY <1>1
<1>3. ASSUME NEW i \in 1..Len(t), LooseAt(t, i) PROVE LooseAt(q, i + 1)
  <2>1. q[i + 1] = "break"
    BY <1>1, <1>3 DEF LooseAt
  <2>2. ASSUME NEW k \in 1..Len(q), k > i + 1 PROVE q[k] # "+"
    <3>1. k - 1 \in 1..Len(t) /\ k - 1 > i /\ (k - 1) + 1 = k
      BY <1>1, <1>2, <2>2
    <3> QED BY <1>1, <1>3, <3>1 DEF LooseAt
  <2> QED BY <2>1, <2>2 DEF LooseAt
<1>4. LooseBreak(t) => LooseBreak(q)
  BY <1>2, <1>3 DEF LooseBreak
<1>5. ASSUME BreaksTrail(q), NEW i \in 1..Len(t), NEW j \in 1..Len(t),
             LooseAt(t, i), j > i
      PROVE  t[j] \notin Packets
  <2>1. j + 1 > i + 1
    BY <1>2, <1>5
  <2> QED BY <1>1, <1>2, <1>3, <1>5, <2>1 DEF BreaksTrail
<1>6. ASSUME Head(q) = "break", ~Holds(q, {"+"}) PROVE LooseAt(q, 1)
  BY <1>1, <1>6 DEF LooseAt, Holds
<1>7. 1 \in 1..Len(q)
  BY <1>1
<1>8. ASSUME Head(q) = "break", ~Holds(q, {"+"}), BreaksTrail(q),
             NEW i \in 1..Len(t)
      PROVE  t[i] \notin Packets
  BY <1>1, <1>2, <1>6, <1>7, <1>8 DEF BreaksTrail
<1>9. BreaksTrail(q) => BreaksTrail(t)
  BY <1>5 DEF BreaksTrail
<1> QED BY <1>4, <1>6, <1>7, <1>8, <1>9 DEF t, LooseBreak, Holds

-----------------------------------------------------------------------------
(* Server and client take turns.  FileIoIsAwaited is not inductive: that a   *)
(* reply is awaited when it is handled rests on nobody else's packet being   *)
(* handled while the client does the call, and a break may be on its way all *)
(* the time.                                                                 *)

\* The loop has a packet or a break and owes a response.
Busy == pc = "process" \/ (pc = "respond" /\ should_respond)

\* The client may send a packet.
ClientsTurn == client \in {"stopped", "fileio"}

\* A packet, a response being made, a response on its way, or the client: only
\* one of them at a time.
TurnInv ==
    /\ OneOf(to_server, Packets)
    /\ Holds(to_server, Packets) => ~Busy /\ to_client = <<>> /\ ~ClientsTurn
    /\ Busy => to_client = <<>> /\ ~ClientsTurn
    /\ to_client # <<>> => /\ Len(to_client) = 1 /\ ~ClientsTurn
                           /\ pc \in {"ack", "exited"}

\* There is one acknowledgement for one response.
AckInv ==
    /\ OneOf(to_server, {"+"})
    /\ Holds(to_server, {"+"}) => pc \in {"ack", "exited"} /\ to_client = <<>>

\* A break that the loop will see as such: the client has not had its turn.
BreakInv ==
    pc # "exited" /\ to_client = <<>>
        => /\ LooseBreak(to_server) => client = "running"
           /\ BreaksTrail(to_server)

\* FileIoIsAwaited, from the moment a call appends its request to resp_buf.
AwaitInv ==
    /\ FileIoIsAwaited
    /\ pc = "respond" /\ should_respond /\ resp = <<"F">> => io_resp # <<>>

LinkInv == TurnInv /\ AckInv /\ BreakInv /\ AwaitInv

LEMMA ToServerType == TypeOK => to_server \in Seq(Messages)
BY DEF TypeOK, Messages

LEMMA UnderWayFacts ==
    ASSUME TypeOK
    PROVE  /\ Holds(to_server, FileReplies)
                <=> FileReplies \cap ToSet(to_server) # {}
           /\ <<"F">> \in ToSet(to_client)
                <=> \E i \in 1..Len(to_client) : to_client[i] = <<"F">>
<1>1. to_server \in Seq(Messages) /\ to_client \in Seq(Seq(Responses))
  BY ToServerType DEF TypeOK
<1>2. /\ DOMAIN to_server = 1..Len(to_server)
      /\ DOMAIN to_client = 1..Len(to_client)
  BY <1>1
<1> QED BY <1>2 DEF Holds, ToSet

\* Where file I/O is under way when it was before.
LEMMA UnderWayStays ==
    ASSUME TypeOK, TypeOK',
           client' = "fileio" => client = "fileio",
           to_client' = to_client \/ to_client' = <<>>,
           Holds(to_server', FileReplies) => Holds(to_server, FileReplies),
           pc' = "process" => pc = "process" /\ packet' = packet,
           FileIoUnderWay'
    PROVE  FileIoUnderWay
<1>1. Holds(to_server, FileReplies) <=> FileReplies \cap ToSet(to_server) # {}
  BY UnderWayFacts
<1>2. /\ to_server' \in Seq(Messages) /\ to_client' \in Seq(Seq(Responses))
  BY DEF TypeOK, Messages
<1>3. /\ DOMAIN to_server' = 1..Len(to_server')
      /\ to_client' = <<>> => DOMAIN to_client' = {}
  BY <1>2
<1>4. FileReplies \cap ToSet(to_server') # {} => Holds(to_server', FileReplies)
  BY <1>3 DEF Holds, ToSet
<1>5. to_client' = <<>> => <<"F">> \notin ToSet(to_client')
  BY <1>3 DEF ToSet
<1> QED BY <1>1, <1>4, <1>5 DEF FileIoUnderWay

LEMMA InitLink == Init => LinkInv
<1> SUFFICES ASSUME Init PROVE LinkInv
  OBVIOUS
<1>1. to_server = <<>> /\ Len(to_server) = 0 /\ to_client = <<>>
      /\ DOMAIN to_server = {} /\ DOMAIN to_client = {}
      /\ pc = "created" /\ client = "stopped"
  BY DEF Init
<1>2. ~FileIoUnderWay
  BY <1>1 DEF FileIoUnderWay, ToSet
<1> QED BY <1>1, <1>2
        DEF LinkInv, TurnInv, AckInv, BreakInv, AwaitInv, FileIoIsAwaited, Busy,
            OneOf, Holds, LooseBreak, LooseAt, BreaksTrail

LEMMA ServerLink == ASSUME Inv, LinkInv, Server PROVE LinkInv'
<1>0. Inv'
  BY ServerInv
<1>1. /\ UNCHANGED <<to_server, to_client, client, io_resp, packet>>
      /\ \/ pc = "created" /\ pc' = "loop"
         \/ UNCHANGED <<pc, should_respond, resp>>
  BY DEF Server, start, stop, clientVars, ioVars, Inv, Started
<1>2. FileIoUnderWay' => FileIoUnderWay
  BY <1>0, <1>1, UnderWayStays DEF Inv
<1> QED BY <1>1, <1>2
        DEF LinkInv, TurnInv, AckInv, BreakInv, AwaitInv, FileIoIsAwaited, Busy,
            ClientsTurn

LEMMA RemoteIoLink == ASSUME Inv, LinkInv, remote_io_testing PROVE LinkInv'
<1>1. UNCHANGED <<to_server, to_client, client, io_resp, packet, pc,
                  should_respond, resp>>
  BY DEF remote_io_testing, loopVars, clientVars
<1> QED BY <1>1
        DEF LinkInv, TurnInv, AckInv, BreakInv, AwaitInv, FileIoIsAwaited, Busy,
            ClientsTurn, FileIoUnderWay

LEMMA LoopLink == ASSUME Inv, LinkInv, Loop PROVE LinkInv'
<1> USE DEF LoopElse, ioVars, clientVars
<1>0. TypeOK /\ TypeOK' /\ to_server \in Seq(Messages)
  BY LoopInv, ToServerType DEF Inv
<1>1. CASE LoopTop \/ RecvTimeout \/ SendFails \/ AckTimeout
  <2>1. /\ UNCHANGED <<to_server, to_client, client, io_resp, packet,
                       should_respond, resp>>
        /\ \/ pc \in {"loop", "recv"} /\ pc' \in {"loop", "recv", "exited"}
           \/ pc' = "exited"
    BY <1>1 DEF LoopTop, RecvTimeout, SendFails, AckTimeout, Abort
  <2>2. FileIoUnderWay' => FileIoUnderWay
    BY <1>0, <2>1, UnderWayStays
  <2> QED BY <2>1, <2>2
          DEF LinkInv, TurnInv, AckInv, BreakInv, AwaitInv, FileIoIsAwaited,
              Busy, ClientsTurn
<1>2. CASE Receive
  <2>1. /\ pc = "recv" /\ to_server # <<>> /\ to_server' = Tail(to_server)
        /\ UNCHANGED <<to_client, client, io_resp>>
    BY <1>2 DEF Receive
  <2>2. /\ ~Holds(to_server, {"+"}) /\ to_client = <<>>
    BY <2>1 DEF LinkInv, AckInv, TurnInv
  <2>3. Head(to_server) \in Messages /\ Head(to_server) # "+"
    <3>1. Head(to_server) \in Messages
      BY <1>0, <2>1, TailItems
    <3>2. Head(to_server) \in {"+"} => Holds(to_server, {"+"})
      BY <1>0, <2>1, HoldsTail
    <3> QED BY <2>2, <3>1, <3>2
  <2>4. pc' = "process" /\ packet' = Head(to_server)
    BY <1>2, <2>3 DEF Receive
  <2>5. /\ ~Holds(to_server', Packets) /\ ~ClientsTurn
        /\ OneOf(to_server', Packets)
    <3>1. CASE Head(to_server) \in Packets
      BY <1>0, <2>1, <3>1, HoldsTail DEF LinkInv, TurnInv
    <3>2. CASE Head(to_server) = "break"
      <4>1. LooseBreak(to_server) /\ BreaksTrail(to_server)
        BY <1>0, <2>1, <2>2, <3>2, BreaksTail DEF LinkInv, BreakInv
      <4>2. client = "running"
        BY <2>1, <2>2, <4>1 DEF LinkInv, BreakInv
      <4>3. ~Holds(Tail(to_server), Packets)
        BY <1>0, <2>1, <2>2, <3>2, <4>1, BreaksTail
      <4> QED BY <1>0, <2>1, <4>2, <4>3, HoldsTail
              DEF LinkInv, TurnInv, ClientsTurn
    <3> QED BY <2>3, <3>1, <3>2 DEF Messages
  <2>6. TurnInv'
    BY <2>1, <2>2, <2>5 DEF TurnInv, ClientsTurn
  <2>7. AckInv'
    BY <1>0, <2>1, <2>2, HoldsTail DEF LinkInv, AckInv
  <2>8. BreakInv'
    BY <1>0, <2>1, <2>2, BreaksTail DEF LinkInv, BreakInv
  <2>9. FileIoIsAwaited'
    <3> SUFFICES ASSUME FileIoUnderWay' PROVE io_resp # <<>>
      BY <2>1 DEF FileIoIsAwaited
    <3>1. ~Holds(to_server', FileReplies)
      BY <2>5, PacketFacts DEF Holds
    <3>2. /\ to_server' \in Seq(Messages) /\ DOMAIN to_server' = 1..Len(to_server')
          /\ DOMAIN to_client' = {}
      BY <1>0, <2>1, <2>2, TailItems
    <3>3. packet' \in FileReplies
      BY <2>1, <2>5, <3>1, <3>2
         DEF FileIoUnderWay, ToSet, Holds, ClientsTurn
    <3>4. Holds(to_server, FileReplies)
      BY <1>0, <2>1, <2>4, <3>3, HoldsTail
    <3>5. FileIoUnderWay
      BY <1>0, <3>4, UnderWayFacts DEF FileIoUnderWay
    <3> QED BY <3>5 DEF LinkInv, AwaitInv, FileIoIsAwaited
  <2> QED BY <2>4, <2>6, <2>7, <2>8, <2>9 DEF LinkInv, AwaitInv
<1>3. CASE ReceiveFails \/ AwaitAck
  <2>1. /\ to_server # <<>> /\ to_server' = Tail(to_server)
        /\ UNCHANGED <<to_client, client, io_resp>>
        /\ pc' \in {"ack", "loop", "exited"}
        /\ pc \in {"ack", "recv"}
        /\ pc' # "exited" => pc = "ack"
        /\ pc' = "loop" => Head(to_server) = "+"
    BY <1>3 DEF ReceiveFails, AwaitAck, Abort
  <2>2. pc' = "loop" => to_client = <<>> /\ ~Holds(to_server', {"+"})
    <3> SUFFICES ASSUME pc' = "loop"
                 PROVE  to_client = <<>> /\ ~Holds(to_server', {"+"})
      OBVIOUS
    <3>1. Head(to_server) \in {"+"}
      BY <2>1
    <3> QED BY <1>0, <2>1, <3>1, HoldsTail DEF LinkInv, AckInv
  <2>3. /\ OneOf(to_server', Packets) /\ OneOf(to_server', {"+"})
        /\ Holds(to_server', Packets) => Holds(to_server, Packets)
        /\ Holds(to_server', {"+"}) => Holds(to_server, {"+"})
        /\ Holds(to_server', FileReplies) => Holds(to_server, FileReplies)
        /\ LooseBreak(to_server') => LooseBreak(to_server)
        /\ BreaksTrail(to_server) => BreaksTrail(to_server')
    BY <1>0, <2>1, HoldsTail, BreaksTail DEF LinkInv, TurnInv, AckInv
  <2>4. FileIoUnderWay' => FileIoUnderWay
    BY <1>0, <2>1, <2>3, UnderWayStays
  <2>5. TurnInv'
    BY <2>1, <2>2, <2>3 DEF LinkInv, TurnInv, Busy, ClientsTurn
  <2>6. AckInv'
    BY <2>1, <2>2, <2>3 DEF LinkInv, AckInv
  <2>7. BreakInv'
    BY <2>1, <2>3 DEF LinkInv, BreakInv
  <2> QED BY <2>1, <2>4, <2>5, <2>6, <2>7 DEF LinkInv, AwaitInv, FileIoIsAwaited
<1>4. CASE Respond
  <2>1. /\ pc = "respond"
        /\ UNCHANGED <<to_server, client, io_resp, packet>>
        /\ \/ should_respond /\ to_client' = Append(to_client, resp) /\ pc' = "ack"
           \/ ~should_respond /\ to_client' = to_client /\ pc' = "loop"
    BY <1>4 DEF Respond, Responds
  <2>2. ~Holds(to_server, {"+"})
    BY <2>1 DEF LinkInv, AckInv
  <2>3. CASE should_respond
    <3>1. /\ to_client = <<>> /\ ~ClientsTurn /\ ~Holds(to_server, Packets)
      BY <2>1, <2>3 DEF LinkInv, TurnInv, Busy
    <3>2. to_client' = <<resp>> /\ pc' = "ack"
      BY <2>1, <2>3, <3>1
    <3>3. /\ to_client' # <<>> /\ Len(to_client') = 1
          /\ DOMAIN to_client' = {1} /\ to_client'[1] = resp
      BY <3>2
    <3>4. TurnInv'
      BY <2>1, <3>1, <3>2, <3>3 DEF LinkInv, TurnInv, ClientsTurn, Busy
    <3>5. AckInv' /\ BreakInv'
      BY <2>1, <2>2, <3>3 DEF LinkInv, AckInv, BreakInv
    <3>6. ASSUME FileIoUnderWay' PROVE io_resp # <<>>
      <4>1. CASE resp = <<"F">>
        BY <2>1, <2>3, <4>1 DEF LinkInv, AwaitInv
      <4>2. CASE resp # <<"F">>
        <5>1. <<"F">> \notin ToSet(to_client')
          BY <3>3, <4>2 DEF ToSet
        <5>2. FileIoUnderWay
          BY <2>1, <3>2, <3>6, <5>1 DEF FileIoUnderWay
        <5> QED BY <5>2 DEF LinkInv, AwaitInv, FileIoIsAwaited
      <4> QED BY <4>1, <4>2
    <3> QED BY <2>1, <3>2, <3>4, <3>5, <3>6 DEF LinkInv, AwaitInv, FileIoIsAwaited
  <2>4. CASE ~should_respond
    <3>1. FileIoUnderWay' => FileIoUnderWay
      BY <1>0, <2>1, <2>4, UnderWayStays
    <3> QED BY <2>1, <2>2, <2>4, <3>1
            DEF LinkInv, TurnInv, AckInv, BreakInv, AwaitInv, FileIoIsAwaited,
                Busy, ClientsTurn
  <2> QED BY <2>3, <2>4
<1> QED BY <1>1, <1>2, <1>3, <1>4 DEF Loop

\* A handler runs in the server's turn: nothing is under way then, and it puts
\* "F" into resp_buf only for a call that it leaves waiting for the response.
LEMMA HandleLink == ASSUME Inv, LinkInv, Handle PROVE LinkInv'
<1> USE DEF ioVars, clientVars, Handler
<1>0. TypeOK /\ TypeOK' /\ to_server \in Seq(Messages)
  BY HandleInv, ToServerType DEF Inv
<1>1. /\ pc = "process" /\ resp = <<>> /\ pc' \in {"respond", "exited"}
      /\ UNCHANGED <<to_server, to_client, client>>
  BY DEF Handle, HandleBreak, HandleReply, HandleThrows, HandleUnknown,
         HandleOverflow, HandleCont, handle_file_reply, Abort, Inv, RespInv
<1>2. /\ ~Holds(to_server, Packets) /\ ~Holds(to_server, {"+"})
      /\ to_client = <<>> /\ ~ClientsTurn
  BY <1>1 DEF LinkInv, TurnInv, AckInv, Busy
<1>3. TurnInv' /\ AckInv' /\ BreakInv'
  BY <1>1, <1>2 DEF LinkInv, TurnInv, AckInv, BreakInv, ClientsTurn
<1>4. ~FileIoUnderWay'
  <2>1. ~Holds(to_server, FileReplies)
    BY <1>2, PacketFacts DEF Holds
  <2>2. DOMAIN to_client = {} /\ DOMAIN to_server = 1..Len(to_server)
    BY <1>0, <1>2
  <2> QED BY <1>1, <1>2, <2>1, <2>2 DEF FileIoUnderWay, ToSet, Holds, ClientsTurn
<1>5. ASSUME NEW req, NEW waiting \in Seq(1..Calls), req \in Seq(1..Calls),
             wakeup_request(req, waiting), should_respond', resp' = <<"F">>
      PROVE  io_resp' # <<>>
  <2>1. req # <<>>
    <3> SUFFICES ASSUME req = <<>> PROVE FALSE
      OBVIOUS
    <3>1. should_respond' = FALSE
      BY <1>5 DEF wakeup_request
    <3> QED BY <1>5, <3>1
  <2>2. io_resp' = Append(waiting, Head(req))
    BY <1>5, <2>1 DEF wakeup_request, Resume
  <2>3. Head(req) \in 1..Calls
    BY <1>5, <2>1, SeqFacts
  <2>4. Len(io_resp') = Len(waiting) + 1 /\ Len(waiting) \in Nat
    BY <2>2, <2>3, SeqFacts
  <2> QED BY <2>4, SeqFacts
<1>6. ASSUME pc' = "respond", should_respond', resp' = <<"F">>
      PROVE  io_resp' # <<>>
  <2>1. CASE HandleBreak \/ HandleReply \/ HandleThrows \/ HandleUnknown
             \/ HandleOverflow
    <3>1. resp' \in {<<>>, <<"S05">>, <<"data">>, <<"E01">>}
      BY <1>1, <2>1 DEF HandleBreak, HandleReply, HandleThrows, HandleUnknown,
                        HandleOverflow
    <3> QED BY <1>6, <3>1
  <2>2. CASE HandleCont
    BY <1>0, <1>5, <1>6, <2>2 DEF HandleCont, TypeOK
  <2>3. CASE handle_file_reply
    <3>1. CASE io_resp # <<>>
      <4> DEFINE req == io_req \o AfterReply(Head(io_resp), packet)
      <4>1. wakeup_request(req, Tail(io_resp)) /\ Tail(io_resp) \in Seq(1..Calls)
        BY <1>0, <2>3, <3>1, SeqFacts DEF handle_file_reply, TypeOK
      <4>2. req \in Seq(1..Calls)
        <5>1. Head(io_resp) \in 1..Calls /\ io_req \in Seq(1..Calls)
          BY <1>0, <3>1, SeqFacts DEF TypeOK
        <5>2. AfterReply(Head(io_resp), packet) \in Seq(1..Calls)
          BY <5>1, AfterReplyType
        <5> QED BY <5>1, <5>2, ConcatType
      <4> HIDE DEF req
      <4> QED BY <1>5, <1>6, <4>1, <4>2
    <3>2. CASE io_resp = <<>>
      <4>1. resp' = <<"E01">>
        BY <1>1, <2>3, <3>2 DEF handle_file_reply
      <4> QED BY <1>6, <4>1
    <3> QED BY <3>1, <3>2
  <2> QED BY <2>1, <2>2, <2>3 DEF Handle
<1> QED BY <1>3, <1>4, <1>6 DEF LinkInv, AwaitInv, FileIoIsAwaited

LEMMA ClientLink == ASSUME Inv, LinkInv, Client PROVE LinkInv'
<1> USE DEF ClientElse, loopVars, ioVars
<1>0. TypeOK /\ TypeOK' /\ to_server \in Seq(Messages)
  BY ClientInv, ToServerType DEF Inv
<1>1. UNCHANGED <<pc, should_respond, resp, packet, io_resp>>
  BY DEF Client, ClientRequest, ClientContinue, ClientBreak, ClientReceive,
         ClientFileReply, ClientCloses
<1>2. CASE ClientRequest \/ ClientContinue \/ ClientFileReply
  <2>1. PICK e \in Packets : to_server' = Append(to_server, e)
                             /\ (e \in FileReplies => client = "fileio")
    BY <1>2, PacketFacts, ConnectionAssumption
       DEF ClientRequest, ClientContinue, ClientFileReply, FileReplies
  <2>2. /\ client \in {"stopped", "fileio"} /\ client' \in {"waiting", "running"}
        /\ to_client' = to_client
    BY <1>2 DEF ClientRequest, ClientContinue, ClientFileReply
  <2>3. ~Busy /\ to_client = <<>> /\ ~Holds(to_server, Packets)
    BY <2>2 DEF LinkInv, TurnInv, ClientsTurn
  <2>4. e \in Messages /\ e \notin {"+"}
    BY <2>1, PacketFacts
  <2>5. /\ OneOf(to_server', Packets) /\ OneOf(to_server', {"+"})
        /\ Holds(to_server', {"+"}) <=> Holds(to_server, {"+"})
        /\ Holds(to_server', FileReplies)
              => Holds(to_server, FileReplies) \/ e \in FileReplies
    BY <1>0, <2>1, <2>3, <2>4, HoldsAppend DEF LinkInv, TurnInv, AckInv
  <2>6. pc # "exited" => ~LooseBreak(to_server') /\ BreaksTrail(to_server')
    BY <1>0, <2>1, <2>2, <2>3, <2>4, BreaksAppend DEF LinkInv, BreakInv
  <2>7. FileIoUnderWay' => io_resp # <<>>
    <3>1. CASE client = "fileio"
      BY <3>1 DEF LinkInv, AwaitInv, FileIoIsAwaited, FileIoUnderWay
    <3>2. CASE client # "fileio"
      BY <1>0, <1>1, <2>1, <2>2, <2>5, <3>2, UnderWayStays
         DEF LinkInv, AwaitInv, FileIoIsAwaited
    <3> QED BY <3>1, <3>2
  <2>8. TurnInv'
    BY <1>1, <2>2, <2>3, <2>5 DEF TurnInv, Busy, ClientsTurn
  <2>9. AckInv'
    BY <1>1, <2>2, <2>5 DEF LinkInv, AckInv
  <2>10. BreakInv'
    BY <1>1, <2>6 DEF BreakInv
  <2> QED BY <1>1, <2>7, <2>8, <2>9, <2>10 DEF LinkInv, AwaitInv, FileIoIsAwaited
<1>3. CASE ClientBreak
  <2>1. /\ client = "running" /\ UNCHANGED <<client, to_client>>
        /\ to_server' = Append(to_server, "break")
    BY <1>3 DEF ClientBreak
  <2>2. /\ "break" \in Messages /\ "break" \notin Packets
        /\ "break" \notin FileReplies /\ "break" \notin {"+"}
    BY PacketFacts
  <2>3. /\ OneOf(to_server', Packets) /\ OneOf(to_server', {"+"})
        /\ Holds(to_server', Packets) <=> Holds(to_server, Packets)
        /\ Holds(to_server', {"+"}) <=> Holds(to_server, {"+"})
        /\ Holds(to_server', FileReplies) <=> Holds(to_server, FileReplies)
    BY <1>0, <2>1, <2>2, HoldsAppend DEF LinkInv, TurnInv, AckInv
  <2>4. BreaksTrail(to_server) => BreaksTrail(to_server')
    BY <1>0, <2>1, <2>2, BreaksAppend
  <2>5. FileIoUnderWay' => FileIoUnderWay
    BY <1>0, <1>1, <2>1, <2>3, UnderWayStays
  <2>6. TurnInv' /\ AckInv' /\ BreakInv'
    BY <1>1, <2>1, <2>3, <2>4
       DEF LinkInv, TurnInv, AckInv, BreakInv, Busy, ClientsTurn
  <2> QED BY <1>1, <2>5, <2>6 DEF LinkInv, AwaitInv, FileIoIsAwaited
<1>4. CASE ClientReceive
  <2>1. /\ to_client # <<>> /\ to_client' = Tail(to_client)
        /\ to_server' = Append(to_server, "+")
        /\ client' \in {"stopped", "fileio"}
        /\ client' = "fileio" => Head(to_client) = <<"F">>
    BY <1>4 DEF ClientReceive
  <2>2. /\ to_client \in Seq(Seq(Responses)) /\ Len(to_client) = 1
        /\ pc \in {"ack", "exited"}
        /\ ~Holds(to_server, Packets) /\ ~Holds(to_server, {"+"})
    BY <1>0, <2>1 DEF LinkInv, TurnInv, AckInv, TypeOK
  <2>3. /\ to_client' = <<>> /\ DOMAIN to_client = 1..Len(to_client)
        /\ Head(to_client) = to_client[1] /\ 1 \in 1..Len(to_client)
    <3>1. Tail(to_client) \in Seq(Seq(Responses)) /\ Len(Tail(to_client)) = 0
      BY <2>1, <2>2, TailType
    <3>2. to_client' = <<>>
      BY <2>1, <3>1, SeqFacts
    <3> QED BY <2>1, <2>2, <3>2
  <2>4. "+" \in Messages /\ "+" \notin Packets /\ "+" \notin FileReplies
    BY PacketFacts
  <2>5. /\ OneOf(to_server', Packets) /\ OneOf(to_server', {"+"})
        /\ ~Holds(to_server', Packets)
        /\ Holds(to_server', FileReplies) <=> Holds(to_server, FileReplies)
    BY <1>0, <2>1, <2>2, <2>4, HoldsAppend DEF LinkInv, TurnInv, AckInv
  <2>6. ~LooseBreak(to_server') /\ BreaksTrail(to_server')
    BY <1>0, <2>1, <2>4, BreaksAppend
  <2>7. FileIoUnderWay' => FileIoUnderWay
    <3>1. CASE client' = "fileio"
      BY <2>1, <2>3, <3>1 DEF FileIoUnderWay, ToSet
    <3>2. CASE client' # "fileio"
      BY <1>0, <1>1, <2>3, <2>5, <3>2, UnderWayStays
    <3> QED BY <3>1, <3>2
  <2>8. TurnInv' /\ AckInv' /\ BreakInv'
    BY <1>1, <2>1, <2>2, <2>3, <2>5, <2>6 DEF TurnInv, AckInv, BreakInv, Busy
  <2> QED BY <1>1, <2>7, <2>8 DEF LinkInv, AwaitInv, FileIoIsAwaited
<1>5. CASE ClientCloses
  BY <1>1, <1>5
     DEF ClientCloses, LinkInv, TurnInv, AckInv, BreakInv, AwaitInv,
         FileIoIsAwaited, FileIoUnderWay, Busy, ClientsTurn
<1> QED BY <1>2, <1>3, <1>4, <1>5 DEF Client

LEMMA StepLink == ASSUME Inv, LinkInv, [Next]_vars PROVE LinkInv'
<1>1. CASE UNCHANGED vars
  BY <1>1 DEF LinkInv, TurnInv, AckInv, BreakInv, AwaitInv, FileIoIsAwaited,
              FileIoUnderWay, Busy, ClientsTurn, vars, loopVars, ioVars,
              clientVars
<1> QED BY <1>1, ServerLink, LoopLink, HandleLink, RemoteIoLink, ClientLink
        DEF Next

(* A client that was asked for file I/O, is doing it or has answered, is     *)
(* awaited by the coroutine until its reply is handled: handle_file_reply    *)
(* never finds io_resp empty (connection.packets.cpp 99-113).                *)
THEOREM FileIoHasWaiter == Spec => []FileIoIsAwaited
<1>1. LinkInv => FileIoIsAwaited
  BY DEF LinkInv, AwaitInv
<1>2. Spec => []LinkInv
  BY SpecInv, InitLink, StepLink, PTL DEF Spec
<1> QED BY <1>1, <1>2, PTL
=============================================================================
