---------------------------- MODULE RequestLine ----------------------------
(***************************************************************************)
(* What the replicas of T-PBFT promise about order: the requests of a      *)
(* client form one line, new ones join at its end, and only the front is   *)
(* ever closed, whether it was registered or dropped.                      *)
(***************************************************************************)
EXTENDS Sequences

CONSTANT Entries    \* the requests

VARIABLE line       \* the open requests, the oldest first

Init == line = <<>>

Submit == \E r \in Entries : line' = Append(line, r)

Close ==
    /\ line # <<>>
    /\ line' = Tail(line)

Next == Submit \/ Close

Spec == Init /\ [][Next]_line

\* The line holds requests.
LineOK == line \in Seq(Entries)
============================================================================
