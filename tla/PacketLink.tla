----------------------------- MODULE PacketLink -----------------------------
(* PacketIO between its two users: connection::process, which receives a     *)
(* packet and sends the response, and the GDB peer at the other end of the   *)
(* socket.  The peer is not part of the program: it is modelled from what    *)
(* packet_io.cpp expects of it (frames with a checksum, '+' and '-', 0x03).  *)
(* Everything that goes wrong is a fault of one of the kinds in FaultKinds,  *)
(* and at most MaxFaults go wrong:                                           *)
(*   corrupt  a request arrives with a wrong checksum                        *)
(*   nak      the peer rejects a response                                    *)
(*   late     the rest of a request, or an acknowledgement, misses the timer *)
(*   lost     the timer beats a receive that has already taken bytes         *)
(*   resend   the peer repeats a request it got no acknowledgement for       *)
(*   short    async_send takes only a part of the packet                     *)
(*   stuck    async_send times out                                           *)
EXTENDS PacketIO, Framing

CONSTANTS Requests,     \* the payloads of the peer's requests
          Silent,       \* requests that may be left without a response ('c')
          StopReply,    \* the response to a break
          Respond(_),   \* the response to a request
          Modes,        \* the values no_ack may have for a connection
          MaxRequests, MaxBreaks, MaxFaults, FaultKinds

ASSUME PacketLinkAssumption ==
    /\ Requests \subseteq Seq(Byte) /\ Silent \subseteq Requests
    /\ StopReply \in Seq(Byte)
    /\ \A r \in Requests : Respond(r) \in Seq(Byte)
    /\ Modes \subseteq BOOLEAN
    /\ MaxRequests \in Nat /\ MaxBreaks \in Nat /\ MaxFaults \in Nat

VARIABLES
    server,         \* process(): "idle", "receiving", "sending" or "exited"
    response,       \* what it is sending
    peer,           \* "ready", "unacked", "waiting", "running"
    asked, executed, answered,
    breaks,         \* breaks the peer has sent
    seen_breaks,    \* breaks receive_packet has reported
    faults          \* the kinds of what has gone wrong

callVars == <<server, response, executed, seen_breaks>>
peerVars == <<peer, asked, answered, breaks>>
vars     == <<ioVars, callVars, peerVars, faults>>

Init == /\ IOInit
        /\ server = "idle" /\ response = <<>>
        /\ peer = "ready"
        /\ asked = <<>> /\ executed = <<>> /\ answered = <<>>
        /\ breaks = 0 /\ seen_breaks = 0
        /\ faults = <<>>

Fault(kind) == /\ kind \in FaultKinds
               /\ Len(faults) < MaxFaults
               /\ faults' = Append(faults, kind)

-----------------------------------------------------------------------------
(* connection::process as the user of PacketIO                               *)

Call(next) == server' = next /\ UNCHANGED faults /\ UNCHANGED peerVars

\* The user of PacketIO chooses the mode before the first packet.
ServerNoAck == /\ server = "idle" /\ asked = <<>> /\ ~no_ack
               /\ TRUE \in Modes
               /\ set_no_ack
               /\ Call("idle")
               /\ UNCHANGED <<response, executed, seen_breaks>>

ServerReceive == /\ server = "idle"
                 /\ no_ack \in Modes
                 /\ receive_packet
                 /\ Call("receiving")
                 /\ UNCHANGED <<response, executed, seen_breaks>>

ServerRetry == /\ server = "receiving" /\ pc = "idle"
               /\ outcome = "timed_out"
               /\ Call("idle")
               /\ UNCHANGED <<ioVars, response, executed, seen_breaks>>

Reply(payload) == /\ send_packet(payload)
                  /\ response' = payload
                  /\ Call("sending")

ServerPacket == /\ server = "receiving" /\ pc = "idle"
                /\ outcome = "packet"
                /\ executed' = Append(executed, recv_buf)
                /\ \/ Reply(Respond(recv_buf))
                   \/ /\ recv_buf \in Silent
                      /\ Call("idle")
                      /\ UNCHANGED <<ioVars, response>>
                /\ UNCHANGED seen_breaks

ServerBreak == /\ server = "receiving" /\ pc = "idle"
               /\ outcome = "break"
               /\ seen_breaks' = seen_breaks + 1
               /\ Reply(StopReply)
               /\ UNCHANGED executed

ServerSent == /\ server = "sending" /\ pc = "idle"
              /\ outcome = "sent"
              /\ Call("idle")
              /\ UNCHANGED <<ioVars, response, executed, seen_breaks>>

\* Whatever send_packet throws, and a packet that is too long, ends the loop.
ServerExit == /\ pc = "idle"
              /\ \/ /\ server = "receiving"
                    /\ outcome = "buffer_too_small"
                 \/ /\ server = "sending"
                    /\ outcome \in {"timed_out", "buffer_too_small",
                                    "runtime_error"}
              /\ Call("exited")
              /\ UNCHANGED <<ioVars, response, executed, seen_breaks>>

Server == ServerNoAck \/ ServerReceive \/ ServerRetry \/ ServerPacket \/ ServerBreak
             \/ ServerSent \/ ServerExit

-----------------------------------------------------------------------------
(* PacketIO's own steps, and what may go wrong with them                     *)

NoOneElse == UNCHANGED <<callVars, peerVars>>

Progress == /\ \/ RecvData \/ Receiving \/ Sending
               \/ Transmit(Len(write_buf))
            /\ UNCHANGED faults
            /\ NoOneElse

\* Nothing to receive between two requests is no fault: process() tries again.
QuietTimeout == /\ pc = "await" /\ rx = <<>>
                /\ RecvTimeout(0)
                /\ UNCHANGED faults
                /\ NoOneElse

Late == /\ pc # "await" \/ rx # <<>>
        /\ RecvTimeout(0)
        /\ Fault("late")
        /\ NoOneElse

\* The peer has nothing to do before it hears more, unless it asks something.
PeerIsIdle == \/ peer = "ready" \/ tx = <<>>
              \/ /\ peer # "unacked" /\ tx # <<>>
                 /\ Head(tx) = packet_begin /\ FrameLengths(tx) = {}

\* What a call waits for was lost before: its timer ends it, sooner or later.
Starved == /\ pc # "await" /\ rx = <<>> /\ PeerIsIdle
           /\ RecvTimeout(0)
           /\ UNCHANGED faults
           /\ NoOneElse

Lost == /\ \E n \in Pieces : RecvTimeout(n)
        /\ Fault("lost")
        /\ NoOneElse

Short == /\ \E n \in 0..(Len(write_buf) - 1) : Transmit(n)
         /\ Fault("short")
         /\ NoOneElse

Stuck == /\ \E n \in 0..Len(write_buf) : SendTimeout(n)
         /\ Fault("stuck")
         /\ NoOneElse

IO == Progress \/ QuietTimeout \/ Starved \/ Late \/ Lost \/ Short \/ Stuck

-----------------------------------------------------------------------------
(* The peer                                                                  *)

IOElse == UNCHANGED <<read_buf, pc, outcome, checksum, decoder, encoder,
                      callVars>>

\* The bytes of a request, right or, as a fault, with a wrong checksum.
PutRequest(payload) ==
    \/ /\ rx' = rx \o GoodFrame(payload)
       /\ UNCHANGED faults
    \/ /\ rx' = rx \o BadFrame(payload)
       /\ Fault("corrupt")

AfterRequest(payload) == IF payload \in Silent THEN "running" ELSE "waiting"

PeerAsk == /\ peer = "ready"
           /\ Len(asked) < MaxRequests
           /\ \E r \in Requests :
                 /\ asked' = Append(asked, r)
                 /\ PutRequest(r)
                 /\ peer' = IF no_ack THEN AfterRequest(r) ELSE "unacked"
           /\ UNCHANGED <<tx, answered, breaks>>
           /\ IOElse

PeerAcked == /\ peer = "unacked"
             /\ tx # <<>> /\ Head(tx) = ack
             /\ tx' = Tail(tx)
             /\ peer' = AfterRequest(Last(asked))
             /\ UNCHANGED <<rx, asked, answered, breaks, faults>>
             /\ IOElse

PeerRepeats == /\ peer = "unacked"
               /\ tx # <<>> /\ Head(tx) = ack_err
               /\ tx' = Tail(tx)
               /\ PutRequest(Last(asked))
               /\ UNCHANGED peerVars
               /\ IOElse

PeerResends == /\ peer = "unacked"
               /\ tx = <<>>
               /\ rx' = rx \o GoodFrame(Last(asked))
               /\ Fault("resend")
               /\ UNCHANGED <<tx, peerVars>>
               /\ IOElse

\* What the peer does not expect now is dropped.
PeerSkips == /\ tx # <<>>
             /\ IF peer = "unacked" THEN Head(tx) \notin {ack, ack_err}
                ELSE peer # "ready" /\ Head(tx) # packet_begin
             /\ tx' = Tail(tx)
             /\ UNCHANGED <<rx, peerVars, faults>>
             /\ IOElse

Accepts(n) == /\ answered' = Append(answered, Unescaped(SubSeq(tx, 2, n - 3)))
              /\ peer' = "ready"
              /\ rx' = IF no_ack THEN rx ELSE Append(rx, ack)
              /\ UNCHANGED faults

Rejects == /\ rx' = Append(rx, ack_err)
           /\ ~no_ack
           /\ Fault("nak")
           /\ UNCHANGED <<answered, peer>>

PeerReply == /\ peer \in {"waiting", "running"}
             /\ \E n \in FrameLengths(tx) : /\ Accepts(n) \/ Rejects
                                            /\ tx' = SubSeq(tx, n + 1, Len(tx))
             /\ UNCHANGED <<asked, breaks>>
             /\ IOElse

\* ctrl-c
PeerBreak == /\ peer = "running"
             /\ breaks < MaxBreaks
             /\ rx' = Append(rx, break_character)
             /\ breaks' = breaks + 1
             /\ UNCHANGED <<tx, peer, asked, answered, faults>>
             /\ IOElse

Peer == PeerAsk \/ PeerAcked \/ PeerRepeats \/ PeerResends \/ PeerSkips
           \/ PeerReply \/ PeerBreak

Next == Server \/ IO \/ Peer

Spec == Init /\ [][Next]_vars

\* The executor keeps running whatever can run, timers expire, and the peer
\* keeps reading.
FairSpec == /\ Spec
            /\ WF_vars(Server) /\ WF_vars(Progress) /\ WF_vars(Starved)
            /\ WF_vars(PeerAcked) /\ WF_vars(PeerRepeats)
            /\ WF_vars(PeerSkips) /\ WF_vars(PeerReply)

-----------------------------------------------------------------------------
(* When send_packet has filled write_buf it holds a well-formed packet that  *)
(* the peer decodes to the response, and it still does for a retransmission. *)
WireFrames == pc \in {"transmit", "ack"} => IsFrame(write_buf, response)

\* No timer has cut a frame or an answer off, and no request was repeated.
Calm == {"late", "lost", "resend"} \cap ToSet(faults) = {}

(* send_packet returns only when the peer has accepted the response, however *)
(* often it was rejected before: no byte of a request, and no acknowledgement*)
(* of something else, is mistaken for the '+' it waits for (packet_io.cpp    *)
(* 122-141).  (Once a frame or an answer is cut off or a request is repeated *)
(* a '+' inside a request may be.)                                           *)
SentIsAccepted ==
    [][Calm /\ server = "sending" /\ outcome' = "sent" /\ pc = "ack"
          => /\ answered # <<>> /\ Last(answered) = response
             /\ peer # "waiting"]_vars

(* Whatever is lost, cut short, delayed or, a few times, rejected: a         *)
(* send_packet ends.  It returns or it throws, and does not wait for ever    *)
(* for an acknowledgement that will not come (packet_io.cpp 91-142).         *)
SendEnds == server = "sending" ~> server # "sending"

(* A break is made up only after a timer has cut a frame in two, or a        *)
(* repeated request has been taken for the rest of an answer: otherwise,     *)
(* whatever is damaged, rejected or cut short, no byte of a payload is read  *)
(* as a break (packet_io.cpp 167-188).                                       *)
NoBreakIsMadeUp == Calm => seen_breaks <= breaks

(* A request that the peer repeats may be executed again, but none is left   *)
(* out and none is executed after a later one: the k-th thing executed is    *)
(* request f[k], with f going up one request at a time (connection.cpp       *)
(* 81-128; GDB repeats a packet whose acknowledgement it does not get).      *)
(* (Two repeats and a loss can break it.)                                    *)
OnlyRepeats ==
    Calm \/ Len(faults) <= 2 =>
        \E f \in [1..Len(executed) -> 1..Len(asked)] :
            \A k \in 1..Len(executed) :
                /\ executed[k] = asked[f[k]]
                /\ IF k = 1 THEN f[k] = 1 ELSE f[k] - f[k - 1] \in 0..1

(* Seen from outside, the link executes each request once, in the order they *)
(* were made, and answers each with its own response, whatever is corrupted, *)
(* rejected or retransmitted on the way.                                     *)
Abstract == INSTANCE RequestReply

IsFairRequestReply == Abstract!FairSpec
=============================================================================
