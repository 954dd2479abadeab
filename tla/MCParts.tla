------------------------------ MODULE MCParts ------------------------------
(***************************************************************************)
(* TLC instance of the three parts that share no state with the round nor  *)
(* with each other: the configurations (GroupSizes), the text that is      *)
(* signed (SignedText) and the wire format (Messages).  The initial state  *)
(* says which of them moves; the others stay in one of their initial       *)
(* states.                                                                 *)
(***************************************************************************)
EXTENDS GroupSizes, Sequences

CONSTANTS Requests, MaxOrder, Base, Width, MaxLength

VARIABLES part, orderNumber, client_request, type, fields, writing, reading, stream, received

Letter == 97

\* Texts that hold digits, but not first.
SomeRequests == {<<Letter>>, <<Letter, 1>>, <<Letter, 1, 1>>, <<32, 1>>}

Text == INSTANCE SignedText
Wire == INSTANCE Messages

ASSUME PartsAssumption == Text!TextAssumption /\ Wire!WireAssumption

PartsInit ==
    /\ part \in {"sizes", "text", "wire"}
    /\ Init /\ Text!Init /\ Wire!Init
    /\ part = "wire" \/ type = "MsgInvalid"

sizeVars == <<NUM_NODES, D2, M2>>
textVars == <<orderNumber, client_request>>
wireVars == <<type, fields, writing, reading, stream, received>>

PartsNext ==
    /\ UNCHANGED part
    /\ \/ part = "sizes" /\ Next /\ UNCHANGED <<textVars, wireVars>>
       \/ part = "text" /\ Text!Next /\ UNCHANGED <<sizeVars, wireVars>>
       \/ part = "wire" /\ Wire!Next /\ UNCHANGED <<sizeVars, textVars>>

PartsSpec == PartsInit /\ [][PartsNext]_<<part, sizeVars, textVars, wireVars>>

\* The properties of the two instances, under their own names.
SignedTextIsPair == Text!SignedTextIsPair
MembersArrive == Wire!MembersArrive
=============================================================================
