---------------------------- MODULE RequestReply ----------------------------
(* What two ends of the transport promise each other, with the bytes, the    *)
(* acknowledgements and the retransmissions out of sight: every request is   *)
(* executed once, in order, and answered once, with its own response.        *)
EXTENDS Sequences, Naturals

CONSTANTS Requests, Respond(_)

VARIABLES asked,     \* the requests the peer has made
          executed,  \* those the server has taken up
          answered   \* the responses the peer has accepted

vars == <<asked, executed, answered>>

Init == asked = <<>> /\ executed = <<>> /\ answered = <<>>

\* One request is outstanding at a time.
Ask == /\ Len(answered) = Len(asked)
       /\ \E r \in Requests : asked' = Append(asked, r)
       /\ UNCHANGED <<executed, answered>>

Execute == /\ Len(executed) < Len(asked)
           /\ executed' = Append(executed, asked[Len(executed) + 1])
           /\ UNCHANGED <<asked, answered>>

Answer == /\ Len(answered) < Len(executed)
          /\ answered' = Append(answered, Respond(executed[Len(answered) + 1]))
          /\ UNCHANGED <<asked, executed>>

Next == Ask \/ Execute \/ Answer

Spec == Init /\ [][Next]_vars

\* A request is not left without its response.
FairSpec == Spec /\ WF_vars(Execute) /\ WF_vars(Answer)
=============================================================================
