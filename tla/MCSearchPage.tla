---------------------------- MODULE MCSearchPage ----------------------------
(***************************************************************************)
(* Instance of SearchPage for TLC: texts with and without blanks, and the  *)
(* label itself, which a user may type as well; rows with and without      *)
(* children.                                                               *)
(***************************************************************************)
EXTENDS SearchPage

Letter == 109
SomeLabel == <<83>>
SomeValues == {<<>>, <<Letter, Blank, Letter>>, SomeLabel}
SomeRows == [e \in 0..2 |-> <<2, 0, 1>>[e + 1]]
=============================================================================
