--------------------------- MODULE RequestService ---------------------------
(***************************************************************************)
(* What a client of T-PBFT is meant to see: its requests are taken one at  *)
(* a time and in order; the front of the line is either registered, once,  *)
(* and then retired by the client's acknowledgement, or it is dropped      *)
(* without a word.  A registered request is never dropped, and an          *)
(* acknowledgement never retires a request that was not registered.        *)
(***************************************************************************)
EXTENDS Sequences

CONSTANT Entries    \* the requests

VARIABLES
    line,           \* the open requests, the oldest first
    registered      \* the front is registered and not yet retired

vars == <<line, registered>>

Init ==
    /\ line = <<>>
    /\ registered = FALSE

Submit ==
    /\ \E r \in Entries : line' = Append(line, r)
    /\ UNCHANGED registered

Register ==
    /\ line # <<>>
    /\ ~registered
    /\ registered' = TRUE
    /\ UNCHANGED line

Retire ==
    /\ registered
    /\ registered' = FALSE
    /\ line' = Tail(line)

Drop ==
    /\ line # <<>>
    /\ ~registered
    /\ line' = Tail(line)
    /\ UNCHANGED registered

Next == Submit \/ Register \/ Retire \/ Drop

Spec == Init /\ [][Next]_vars

\* Only a request that is still in the line can be registered: what makes the
\* guard of Retire as strong as that of RequestLine's Close.
RegisteredIsOpen ==
    /\ line \in Seq(Entries)
    /\ registered \in BOOLEAN
    /\ registered => line # <<>>

Line == INSTANCE RequestLine
=============================================================================
