------------------------------ MODULE Messages ------------------------------
(***************************************************************************)
(* The wire format of server/messages.cpp.  Every message type has two     *)
(* constructors, one that writes its fields to a DataStream and one that   *)
(* reads them back, and each lists the fields for itself.  A string goes   *)
(* with its length in front, in little-endian order; a number, a bool or a *)
(* PeerId goes as the bytes it has in memory.  DataStream is salticidae's  *)
(* and external: << appends, >> and get_data_inplace take from the front.  *)
(***************************************************************************)
EXTENDS Integers, Sequences

CONSTANTS
    Base,      \* values of a byte
    Width,     \* bytes of a uint32_t, which is also what an int takes here
    MaxLength  \* bound of the model: the longest string

\* What is left of a length when i bytes are taken off: a word holds those of
\* which nothing is left.
Rest(len) ==
    LET rest[i \in 0..Width] == IF i = 0 THEN len ELSE rest[i - 1] \div Base
    IN  rest

WireAssumption ==
    /\ Base \in Nat \ {0, 1}
    /\ Width \in Nat \ {0}
    /\ MaxLength \in Nat
    /\ \A len \in 0..MaxLength : Rest(len)[Width] = 0

VARIABLES
    type,     \* the message that is sent
    fields,   \* its members
    writing,  \* members still to be written
    reading,  \* members still to be read
    stream,   \* the DataStream
    received  \* members of the object built on the other side

vars == <<type, fields, writing, reading, stream, received>>

Byte == 0..(Base - 1)
Word(size) == [1..size -> Byte]
String == UNION {Word(size) : size \in 0..MaxLength}

Bools == {"result", "verified", "sendReply"}
Numbers == {"id", "sequence", "a", "b", "c", "order", "msghash", "connId"}
Strings == {"message", "operation", "orderNumber", "signature", "groupSign", "peerSign"}

Values(f) == CASE f \in Bools -> Word(1) [] f \in Numbers -> Word(Width) [] f \in Strings -> String

\* What the constructor from values writes, in its order.
Writes ==
    [MsgInvalid |-> <<>>, MsgAck |-> <<>>,
     MsgString |-> <<"message">>,
     MsgVote |-> <<"message", "id">>,
     MsgOp |-> <<"operation", "sequence">>,
     MsgRequest |-> <<"a", "b">>, MsgForward |-> <<"a", "b">>, MsgResult |-> <<"c">>,
     MsgReply |-> <<"orderNumber", "result">>,
     MsgPrepare |-> <<"message", "orderNumber", "groupSign", "peerSign">>,
     MsgCommit |-> <<"message", "order", "msghash">>,
     MsgPreprepare |-> <<"message", "signature", "orderNumber">>,
     MsgGroup |-> <<"message">>,
     MsgPrimaryConsensus |-> <<"message", "signature", "orderNumber">>,
     MsgPrimaryVerified |-> <<"verified">>,
     MsgSend |-> <<"orderNumber", "sendReply">>,
     MsgNextRequest |-> <<"sendReply">>,
     MsgNextAck |-> <<"message", "connId">>,
     MsgRequestViewChange |-> <<"message">>]

\* What the constructor from a DataStream reads, in its order.
Reads ==
    [MsgInvalid |-> <<>>, MsgAck |-> <<>>,
     MsgString |-> <<"message">>,
     MsgVote |-> <<"message", "id">>,
     MsgOp |-> <<"operation", "sequence">>,
     MsgRequest |-> <<"a", "b">>, MsgForward |-> <<"a", "b">>, MsgResult |-> <<"c">>,
     MsgReply |-> <<"orderNumber", "result">>,
     MsgPrepare |-> <<"message", "orderNumber", "groupSign", "peerSign">>,
     MsgCommit |-> <<"message", "order", "msghash">>,
     MsgPreprepare |-> <<"message", "signature", "orderNumber">>,
     MsgGroup |-> <<"message">>,
     MsgPrimaryConsensus |-> <<"message", "signature", "orderNumber">>,
     MsgPrimaryVerified |-> <<"verified">>,
     MsgSend |-> <<"orderNumber", "sendReply">>,
     MsgNextRequest |-> <<"sendReply">>,
     MsgNextAck |-> <<"message", "connId">>,
     MsgRequestViewChange |-> <<"message">>]

\* A length as the bytes of a little-endian word, and back.
htole(len) == [i \in 1..Width |-> Rest(len)[i - 1] % Base]

letoh(word) ==
    LET value[i \in 0..Width] ==
            IF i = 0 THEN 0 ELSE Base * value[i - 1] + word[Width - i + 1]
    IN  value[Width]

Init ==
    /\ type \in DOMAIN Writes
    /\ writing = Writes[type]
    /\ reading = Reads[type]
    /\ fields \in {f \in [{Writes[type][i] : i \in DOMAIN Writes[type]} ->
                              UNION {Values(k) : k \in Bools \cup Numbers \cup Strings}] :
                      \A k \in DOMAIN f : f[k] \in Values(k)}
    /\ stream = <<>>
    /\ received = <<>>

\* serialized << ...
put ==
    LET f == Head(writing) IN
    /\ writing # <<>>
    /\ writing' = Tail(writing)
    /\ stream' = stream \o (IF f \in Strings THEN htole(Len(fields[f])) ELSE <<>>) \o fields[f]
    /\ UNCHANGED <<type, fields, reading, received>>

\* What a string or a word of the stream takes: the bytes skipped before it
\* and the bytes of it.
Extent(f) == CASE f \in Strings -> <<Width, letoh(SubSeq(stream, 1, Width))>>
               [] f \in Bools -> <<0, 1>>
               [] f \in Numbers -> <<0, Width>>

\* Reading past the end of the stream throws.
Holds(f) == Extent(f)[1] + Extent(f)[2] <= Len(stream)

\* s >> ..., on the other side.
get_mut ==
    LET f == Head(reading)
        skip == Extent(f)[1]
        len == Extent(f)[2]
    IN
    /\ writing = <<>> /\ reading # <<>>
    /\ Holds(f)
    /\ received' = Append(received, SubSeq(stream, skip + 1, skip + len))
    /\ stream' = SubSeq(stream, len + 1, Len(stream))
    /\ reading' = Tail(reading)
    /\ UNCHANGED <<type, fields, writing>>
get ==
    LET f == Head(reading)
        skip == Extent(f)[1]
        len == Extent(f)[2]
    IN
    /\ writing = <<>> /\ reading # <<>>
    /\ Holds(f)
    /\ received' = Append(received, SubSeq(stream, skip + 1, skip + len))
    /\ stream' = SubSeq(stream, skip + len + 1, Len(stream))
    /\ reading' = Tail(reading)
    /\ UNCHANGED <<type, fields, writing>>

Next == put \/ get

Spec == Init /\ [][Next]_vars

----------------------------------------------------------------------------
\* Every member arrives as the value it was sent with, member by member, the
\* reading constructor never runs out of bytes, and it leaves nothing in the
\* stream: although the two constructors of a type list the members and handle
\* the byte order of lengths independently of each other.
MembersArrive ==
    /\ \A i \in DOMAIN received : received[i] = fields[Reads[type][i]]
    /\ writing = <<>> =>
          IF reading = <<>> THEN stream = <<>> ELSE Holds(Head(reading))
=============================================================================
