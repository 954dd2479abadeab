----------------------------- MODULE SignedText -----------------------------
(***************************************************************************)
(* What is signed (server/node.cpp): one string, the order number in       *)
(* decimal followed by the request, with nothing in between.  TPBFT treats *)
(* it as the pair of both; this module is why it may.  A character is a    *)
(* number, digits are 0..9.                                                *)
(***************************************************************************)
EXTENDS Integers, Sequences

CONSTANTS
    Requests,  \* the texts clients send
    MaxOrder   \* bound of the model: the last order number

Empty == <<>>     \* client_request after a round was closed
Space == <<32>>   \* client_request after process_next_request
Texts == Requests \cup {Empty, Space}

\* client/main.cpp sends "attackerrelease" and "retreat".
TextAssumption ==
    /\ MaxOrder \in Nat
    /\ \A text \in Requests : text \in Seq(Nat) /\ (text # <<>> => text[1] \notin 0..9)

VARIABLES
    orderNumber,    \* RSAKeyGenerator::orderNumber
    client_request  \* the text a node signs and verifies

vars == <<orderNumber, client_request>>

to_string(n) ==
    LET digits[i \in Nat] ==
            IF i < 10 THEN <<i>> ELSE Append(digits[i \div 10], i % 10)
    IN  digits[n]

combinedData_mut(order, text) == text \o <<order % 10>>
combinedData(order, text) == to_string(order) \o text

Init == orderNumber = 0 /\ client_request = Empty

\* The lead takes the next number; the other nodes only the text.
process_group_request(text, lead) ==
    /\ client_request' = text
    /\ lead => orderNumber < MaxOrder
    /\ orderNumber' = IF lead THEN orderNumber + 1 ELSE orderNumber

\* A round is closed and there is no other request.
close(idle) ==
    /\ client_request' = idle
    /\ UNCHANGED orderNumber

Next ==
    \/ \E text \in Requests, lead \in BOOLEAN : process_group_request(text, lead)
    \/ \E idle \in {Empty, Space} : close(idle)

Spec == Init /\ [][Next]_vars

----------------------------------------------------------------------------
\* A signature made for one order number and text verifies for no other of
\* the numbers handed out so far and no other text a node may hold, the blank
\* ones included, although numbers differ in length and nothing separates
\* number and text.
SignedTextIsPair ==
    \A order \in 0..orderNumber, text \in Texts :
        combinedData(order, text) = combinedData(orderNumber, client_request)
            => order = orderNumber /\ text = client_request
=============================================================================
