----------------------------- MODULE Connection -----------------------------
(* tasarch::gdb::connection: the processing loop and the remote-I/O          *)
(* coroutine of one connection, between the server object that starts and    *)
(* stops it and a GDB client.  Packets are whole here (PacketLink shows that *)
(* the transport delivers them); what is left of the transport is the        *)
(* acknowledgement send_response waits for, the break byte, and timeouts.    *)
(*                                                                           *)
(* Two coroutines run on an io_context that two threads serve.  process() is *)
(* only ever at one point `pc`; remote_io_testing() runs its first segment   *)
(* on its own, and every later one inside process(), which resumes it from   *)
(* the io_req and io_resp queues.                                            *)
EXTENDS Integers, Sequences, SequencesExt

CONSTANTS Calls,       \* how many calls remote_io_testing makes (9)
          Requests,    \* what the client may ask, by what the handler does:
                       \*   "reply"    appends one response
                       \*   "throws"   throws a std::exception
                       \*   "unknown"  throws unknown_request
                       \*   "overflow" appends more than resp_buf holds
          SlowClient   \* whether an acknowledgement may miss its timer

ASSUME ConnectionAssumption ==
    /\ Calls \in Nat \ {0}
    /\ Requests \subseteq {"reply", "throws", "unknown", "overflow"}
    /\ SlowClient \in BOOLEAN

\* Replies to a file-I/O request: success, failure, success with the C flag.
FileReplies == {"F", "Ffail", "FC"}
Packets     == Requests \cup FileReplies \cup {"c"}

VARIABLES
    running, should_stop,
    pc,               \* of process(): "created", "loop", "recv", "process",
                      \* "respond", "ack", "exited"
    packet,           \* packet_buf, or "break"
    resp,             \* resp_buf: the responses appended to it
    should_respond,
    coro,             \* remote_io_testing: "created", "spawned", "suspended",
                      \* "finished"
    io_req, io_resp,  \* the calls whose handlers wait in the two queues
    to_server,        \* packets, "+" and "break" on their way
    to_client,        \* response packets on their way
    client,           \* "stopped", "waiting", "running", "fileio"
    interrupting,     \* the user has pressed ctrl-c and not seen a stop
    open              \* the client has not closed the socket

loopVars   == <<running, should_stop, pc, packet, resp, should_respond>>
ioVars     == <<coro, io_req, io_resp>>
clientVars == <<client, interrupting, open>>
vars == <<loopVars, ioVars, to_server, to_client, clientVars>>

Responses == {"S05", "E01", "data", "F"}

TypeOK ==
    /\ running \in BOOLEAN /\ should_stop \in BOOLEAN
    /\ should_respond \in BOOLEAN
    /\ pc \in {"created", "loop", "recv", "process", "respond", "ack", "exited"}
    /\ packet \in Packets \cup {"none", "break"}
    /\ resp \in Seq(Responses)
    /\ coro \in {"created", "spawned", "suspended", "finished"}
    /\ io_req \in Seq(1..Calls) /\ io_resp \in Seq(1..Calls)
    /\ to_server \in Seq(Packets \cup {"+", "break"})
    /\ to_client \in Seq(Seq(Responses))
    /\ client \in {"stopped", "waiting", "running", "fileio"}
    /\ interrupting \in BOOLEAN /\ open \in BOOLEAN

Init ==
    /\ running = FALSE /\ should_stop = FALSE
    /\ pc = "created" /\ packet = "none"
    /\ resp = <<>> /\ should_respond = TRUE
    /\ coro = "created" /\ io_req = <<>> /\ io_resp = <<>>
    /\ to_server = <<>> /\ to_client = <<>>
    /\ client = "stopped" /\ interrupting = FALSE /\ open = TRUE

-----------------------------------------------------------------------------
(* start() and stop(), called by the server                                  *)

start ==
    /\ ~running
    /\ running' = TRUE
    /\ should_stop' = FALSE
    /\ pc' = "loop"
    /\ coro' = "spawned"
    /\ UNCHANGED <<packet, resp, should_respond, io_req, io_resp, to_server,
                   to_client, clientVars>>

\* Called when not running, or twice, it only warns.
stop ==
    /\ running /\ ~should_stop
    /\ should_stop' = TRUE
    /\ UNCHANGED <<running, pc, packet, resp, should_respond, ioVars,
                   to_server, to_client, clientVars>>

-----------------------------------------------------------------------------
(* process(): the loop                                                       *)

LoopElse == UNCHANGED <<running, ioVars, clientVars>>

\* Mutant of StopSignal: it is not looked at.
StopSignalIgnored == FALSE

StopSignal == should_stop

\* The socket object is never closed by the program, so is_open() holds.
LoopTop ==
    /\ pc = "loop"
    /\ pc' = IF StopSignal THEN "exited" ELSE "recv"
    /\ UNCHANGED <<should_stop, packet, resp, should_respond, to_server,
                   to_client>>
    /\ LoopElse

\* An exception that reaches the end of process(): it calls stop().
Abort == pc' = "exited" /\ should_stop' = TRUE

\* Mutants of ResetResponse: one of the two is not reset.
ResetKeepsResp          == should_respond' = TRUE /\ UNCHANGED resp
ResetKeepsShouldRespond == resp' = <<>> /\ UNCHANGED should_respond

ResetResponse == resp' = <<>> /\ should_respond' = TRUE

\* receive_packet has a packet or a break; an acknowledgement is skipped.
Receive ==
    /\ pc = "recv"
    /\ to_server # <<>>
    /\ to_server' = Tail(to_server)
    /\ IF Head(to_server) = "+"
       THEN UNCHANGED <<packet, resp, should_respond, pc>>
       ELSE /\ packet' = Head(to_server)
            /\ ResetResponse
            /\ pc' = "process"
    /\ UNCHANGED <<should_stop, to_client>>
    /\ LoopElse

\* Sending the acknowledgement of a packet to a closed socket throws.
ReceiveFails ==
    /\ pc = "recv"
    /\ ~open
    /\ to_server # <<>> /\ Head(to_server) \in Packets
    /\ to_server' = Tail(to_server)
    /\ Abort
    /\ UNCHANGED <<packet, resp, should_respond, to_client>>
    /\ LoopElse

\* Also what a closed socket looks like: its error only cancels the receive.
RecvTimeout ==
    /\ pc = "recv"
    /\ to_server = <<>>
    /\ pc' = "loop"
    /\ UNCHANGED <<should_stop, packet, resp, should_respond, to_server,
                   to_client>>
    /\ LoopElse

-----------------------------------------------------------------------------
(* process_pkt and the handlers; pc = "process"                              *)

Handler(packets) ==
    /\ pc = "process"
    /\ packet \in packets
    /\ UNCHANGED <<running, packet, coro, to_server, to_client, clientVars>>

NoIo == UNCHANGED <<io_req, io_resp, should_respond>>

HandleBreak ==
    /\ Handler({"break"})
    /\ resp' = Append(resp, "S05")
    /\ pc' = "respond"
    /\ NoIo /\ UNCHANGED should_stop

HandleReply ==
    /\ Handler({"reply"})
    /\ resp' = Append(resp, "data")
    /\ pc' = "respond"
    /\ NoIo /\ UNCHANGED should_stop

HandleThrows ==
    /\ Handler({"throws"})
    /\ resp' = Append(resp, "E01")
    /\ pc' = "respond"
    /\ NoIo /\ UNCHANGED should_stop

HandleUnknown ==
    /\ Handler({"unknown"})
    /\ resp' = <<>>
    /\ pc' = "respond"
    /\ NoIo /\ UNCHANGED should_stop

\* buffer_too_small derives privately from std::runtime_error: only the last
\* catch (...) of process() takes it.
HandleOverflow ==
    /\ Handler({"overflow"})
    /\ Abort
    /\ NoIo /\ UNCHANGED resp

\* Mutants of Resume: the handler is not popped; the call forgets to wait.
ResumeKeeps(req, waiting) ==
    io_req' = req /\ io_resp' = Append(waiting, Head(req))
ResumeForgets(req, waiting) == io_req' = Tail(req) /\ io_resp' = waiting

Resume(req, waiting) ==
    io_req' = Tail(req) /\ io_resp' = Append(waiting, Head(req))

\* Resumes the call at the front of io_req: remote_io appends its request and
\* waits for the response.
wakeup_request(req, waiting) ==
    \/ /\ req # <<>>
       /\ Resume(req, waiting)
       /\ resp' = Append(resp, "F")
       /\ UNCHANGED should_respond
    \/ /\ req = <<>>
       /\ io_req' = req /\ io_resp' = waiting
       /\ should_respond' = FALSE
       /\ UNCHANGED resp

HandleCont ==
    /\ Handler({"c"})
    /\ wakeup_request(io_req, io_resp)
    /\ pc' = "respond"
    /\ UNCHANGED should_stop

\* Mutant of AfterReply: the last call is followed by another.
AfterReplyPastLast(call, reply) ==
    IF reply = "Ffail" THEN <<>> ELSE <<call + 1>>

\* remote_io returns, or throws when the call failed; remote_io_testing goes
\* on to its next call, which queues itself, or ends.
AfterReply(call, reply) ==
    IF reply = "Ffail" \/ call = Calls THEN <<>> ELSE <<call + 1>>

handle_file_reply ==
    /\ pc = "process"
    /\ packet \in FileReplies
    /\ pc' = "respond"
    /\ \/ /\ io_resp # <<>>
          /\ LET next == AfterReply(Head(io_resp), packet)
             IN  /\ wakeup_request(io_req \o next, Tail(io_resp))
                 /\ coro' = IF next = <<>> THEN "finished" ELSE coro
       \/ /\ io_resp = <<>>
          /\ resp' = Append(resp, "E01")
          /\ UNCHANGED <<ioVars, should_respond>>
    /\ UNCHANGED <<running, should_stop, packet, to_server, to_client,
                   clientVars>>

-----------------------------------------------------------------------------
(* send_response; what send_packet returns, did_interrupt, is not looked at  *)

\* Mutant of Responds: an empty response is no response.
RespondsUnlessEmpty == should_respond /\ resp # <<>>

Responds == should_respond

Respond ==
    /\ pc = "respond"
    /\ \/ /\ Responds
          /\ to_client' = Append(to_client, resp)
          /\ pc' = "ack"
       \/ /\ ~Responds
          /\ pc' = "loop"
          /\ UNCHANGED to_client
    /\ UNCHANGED <<should_stop, packet, resp, should_respond, to_server>>
    /\ LoopElse

SendFails ==
    /\ pc = "respond"
    /\ Responds
    /\ ~open
    /\ Abort
    /\ UNCHANGED <<packet, resp, should_respond, to_server, to_client>>
    /\ LoopElse

\* Anything that is not an acknowledgement is dropped, breaks included.
AwaitAck ==
    /\ pc = "ack"
    /\ to_server # <<>>
    /\ to_server' = Tail(to_server)
    /\ pc' = IF Head(to_server) = "+" THEN "loop" ELSE "ack"
    /\ UNCHANGED <<should_stop, packet, resp, should_respond, to_client>>
    /\ LoopElse

AckTimeout ==
    /\ pc = "ack"
    /\ to_server = <<>>
    /\ SlowClient \/ ~open
    /\ Abort
    /\ UNCHANGED <<packet, resp, should_respond, to_server, to_client>>
    /\ LoopElse

-----------------------------------------------------------------------------
(* remote_io_testing, up to its first co_await                               *)

remote_io_testing ==
    /\ coro = "spawned"
    /\ coro' = "suspended"
    /\ io_req' = Append(io_req, 1)
    /\ UNCHANGED <<loopVars, io_resp, to_server, to_client, clientVars>>

-----------------------------------------------------------------------------
(* The GDB client.  It is not part of the program: it sends one request at a *)
(* time, continues the target, answers file-I/O requests, and may interrupt  *)
(* the target or close the connection.                                       *)

ClientElse == UNCHANGED <<loopVars, ioVars>>

ClientRequest ==
    /\ open /\ client = "stopped"
    /\ \E r \in Requests : to_server' = Append(to_server, r)
    /\ client' = "waiting"
    /\ UNCHANGED <<to_client, interrupting, open>>
    /\ ClientElse

ClientContinue ==
    /\ open /\ client = "stopped"
    /\ to_server' = Append(to_server, "c")
    /\ client' = "running"
    /\ UNCHANGED <<to_client, interrupting, open>>
    /\ ClientElse

ClientBreak ==
    /\ open /\ client = "running" /\ ~interrupting
    /\ to_server' = Append(to_server, "break")
    /\ interrupting' = TRUE
    /\ UNCHANGED <<to_client, client, open>>
    /\ ClientElse

\* The packet is acknowledged.  A file-I/O request leaves the target running;
\* any other response stops it, or answers the request.
ClientReceive ==
    /\ open /\ to_client # <<>>
    /\ to_client' = Tail(to_client)
    /\ to_server' = Append(to_server, "+")
    /\ \/ /\ client = "running" /\ Head(to_client) = <<"F">>
          /\ client' = "fileio"
          /\ UNCHANGED interrupting
       \/ /\ client # "running" \/ Head(to_client) # <<"F">>
          /\ client' = "stopped"
          /\ interrupting' = FALSE
    /\ UNCHANGED open
    /\ ClientElse

\* A ctrl-c during the call is reported with it.
ClientFileReply ==
    /\ open /\ client = "fileio"
    /\ \E reply \in FileReplies :
          /\ to_server' = Append(to_server, reply)
          /\ interrupting' = (interrupting \/ reply = "FC")
    /\ client' = "running"
    /\ UNCHANGED <<to_client, open>>
    /\ ClientElse

ClientCloses ==
    /\ open
    /\ open' = FALSE
    /\ UNCHANGED <<to_server, to_client, client, interrupting>>
    /\ ClientElse

-----------------------------------------------------------------------------

Server == start \/ stop

Loop == LoopTop \/ Receive \/ ReceiveFails \/ RecvTimeout \/ Respond
           \/ SendFails \/ AwaitAck \/ AckTimeout

Handle == HandleBreak \/ HandleReply \/ HandleThrows \/ HandleUnknown
             \/ HandleOverflow \/ HandleCont \/ handle_file_reply

Client == ClientRequest \/ ClientContinue \/ ClientBreak \/ ClientReceive
             \/ ClientFileReply \/ ClientCloses

Next == Server \/ Loop \/ Handle \/ remote_io_testing \/ Client

Spec == Init /\ [][Next]_vars

\* The executor runs whatever is ready and timers expire; a client that has
\* not closed reads what it is sent and answers file-I/O requests.
FairSpec == /\ Spec
            /\ WF_vars(start) /\ WF_vars(Loop) /\ WF_vars(Handle)
            /\ WF_vars(remote_io_testing)
            /\ WF_vars(ClientReceive) /\ WF_vars(ClientFileReply)

-----------------------------------------------------------------------------
(* The remote-I/O coroutine, while suspended, waits in exactly one of the    *)
(* two queues, once: no wakeup is lost and none is left over to resume a     *)
(* coroutine that has moved on or ended (connection.cpp 233-259 and          *)
(* connection.packets.cpp 99-113).                                           *)
OneWaiter == Len(io_req) + Len(io_resp) = IF coro = "suspended" THEN 1 ELSE 0

(* A response packet never carries two responses: the text a coroutine or a  *)
(* handler appended is not followed by that of an error (connection.cpp      *)
(* 99-124).                                                                  *)
OneResponse == Len(resp) <= 1

\* A file-I/O request is on its way to the client, worked on or answered.
FileIoUnderWay ==
    \/ client = "fileio"
    \/ <<"F">> \in ToSet(to_client)
    \/ FileReplies \cap ToSet(to_server) # {}
    \/ pc = "process" /\ packet \in FileReplies

(* A client that was asked for file I/O, or is doing it, or has answered,    *)
(* is awaited: its reply is never taken for an unexpected one ("Got file     *)
(* reply, but no one waiting on it! What??", connection.packets.cpp 111).    *)
FileIoIsAwaited == FileIoUnderWay => io_resp # <<>>

(* A client that waits for the response to a request gets one, unless the    *)
(* connection ends: should_respond is never left FALSE for it, and the two   *)
(* sides do not wait for each other.                                         *)
RequestIsAnswered ==
    client = "waiting" ~> (client # "waiting" \/ ~open \/ pc = "exited")

(* Once remote_io_testing has ended, a break on its way to the server halts  *)
(* the target: send_response, which drops the breaks send_packet reports, is *)
(* then not under way (connection.cpp 99-108 and 209).                       *)
BreakHalts ==
    coro = "finished" /\ "break" \in ToSet(to_server)
        ~> client = "stopped" \/ ~open \/ pc = "exited"

(* stop() ends the loop whatever it is waiting for: data, the                *)
(* acknowledgement of a client that is gone, or nothing.                     *)
StopEndsLoop == should_stop ~> pc = "exited"

(* As long as the client keeps continuing the target, every remote call is   *)
(* issued and answered, and remote_io_testing ends.                          *)
RemoteIoFinishes ==
    []<><<ClientContinue>>_vars => <>(coro = "finished" \/ pc = "exited")

(* connection.cpp 74, packet_io.h 184: when the remote end is gone the       *)
(* processing loop exits instead of hanging forever.                         *)
ClosedEndsLoop == ~open ~> pc \in {"created", "exited"}
=============================================================================
