----------------------------- MODULE ByteQueue ------------------------------
(* What a gdb buffer promises its users: bytes come out in the order they    *)
(* went in, each once; the space for writing only shrinks until a reset; an  *)
(* operation that cannot be done in full throws and changes nothing.         *)
EXTENDS Integers, Sequences

CONSTANTS MaxSize,  \* the capacity given to the constructor
          Data      \* the values a byte can take

VARIABLES q,        \* the bytes written and not yet read
          room,     \* how many bytes may still be written before a reset
          result    \* the outcome of the latest call

vars == <<q, room, result>>

Returned(bytes) == [exc |-> "none", bytes |-> bytes]
Thrown(exc)     == [exc |-> exc, bytes |-> <<>>]

Init == q = <<>> /\ room = MaxSize /\ result = Returned(<<>>)

\* n of the unread bytes are taken from the front, and handed to the caller
\* unless it only skips them.
Take == \E n \in 0..Len(q) :
           /\ q' = SubSeq(q, n + 1, Len(q))
           /\ result' \in {Returned(SubSeq(q, 1, n)), Returned(<<>>)}
           /\ UNCHANGED room

\* Bytes are appended at the end, as many as there is room for.
Put == \E n \in 0..room :
          /\ \E bytes \in [1..n -> Data] : q' = q \o bytes
          /\ room' = room - n
          /\ result' = Returned(<<>>)

Reset == q' = <<>> /\ room' = MaxSize /\ result' = Returned(<<>>)

Refuse == /\ result' \in {Thrown("out_of_range"), Thrown("buffer_too_small")}
          /\ UNCHANGED <<q, room>>

Next == Take \/ Put \/ Reset \/ Refuse

Spec == Init /\ [][Next]_vars
=============================================================================
