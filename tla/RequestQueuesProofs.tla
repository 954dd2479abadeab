------------------------ MODULE RequestQueuesProofs ------------------------
(***************************************************************************)
(* The queues of any number of nodes implement one line of requests.  Each *)
(* action changes what is before a node in one of three ways: it does not, *)
(* a request joins its end, or its front leaves; the lemmas on sequences   *)
(* say which.  The invariant QueuesAgree compares positions, so that none  *)
(* of its steps needs more than arithmetic on indices.                     *)
(* The service implements the line too, for every set of requests.         *)
(***************************************************************************)
EXTENDS RequestQueues, SequenceTheorems, TLAPS

----------------------------------------------------------------------------
(* Sequences.                                                              *)

\* A request sent joins the end of what is before a node.
LEMMA JoinsEnd ==
    ASSUME NEW S, NEW q \in Seq(S), NEW a \in Seq(S), NEW r \in S
    PROVE  q \o Append(a, r) = Append(q \o a, r)
<1>1. /\ Append(a, r) \in Seq(S) /\ q \o a \in Seq(S)
      /\ Len(Append(a, r)) = Len(a) + 1 /\ Len(q \o a) = Len(q) + Len(a)
  OBVIOUS
<1>2. q \o Append(a, r) \in Seq(S) /\ Append(q \o a, r) \in Seq(S)
  BY <1>1
<1>3. Len(q \o Append(a, r)) = Len(Append(q \o a, r))
  BY <1>1
<1>4. ASSUME NEW i \in 1..Len(q \o Append(a, r))
      PROVE  (q \o Append(a, r))[i] = Append(q \o a, r)[i]
  <2>1. CASE i <= Len(q)
    BY <1>1, <2>1
  <2>2. CASE Len(q) < i /\ i <= Len(q) + Len(a)
    BY <1>1, <2>2
  <2>3. CASE i = Len(q) + Len(a) + 1
    BY <1>1, <2>3
  <2> QED BY <1>1, <2>1, <2>2, <2>3
<1> QED BY <1>2, <1>3, <1>4, SeqEqual

\* Queueing a request that arrives moves it within what is before a node.
LEMMA MovesAcross ==
    ASSUME NEW S, NEW q \in Seq(S), NEW a \in Seq(S), a # <<>>
    PROVE  Append(q, Head(a)) \o Tail(a) = q \o a
<1>1. /\ Head(a) \in S /\ Tail(a) \in Seq(S) /\ Len(Tail(a)) = Len(a) - 1 /\ Len(a) >= 1
      /\ Head(a) = a[1] /\ \A i \in 1..Len(Tail(a)) : Tail(a)[i] = a[i + 1]
  BY HeadTailProperties, EmptySeq
<1>2. Append(q, Head(a)) \in Seq(S) /\ Len(Append(q, Head(a))) = Len(q) + 1
  BY <1>1
<1>3. /\ Append(q, Head(a)) \o Tail(a) \in Seq(S) /\ q \o a \in Seq(S)
      /\ Len(Append(q, Head(a)) \o Tail(a)) = Len(q \o a)
  BY <1>1, <1>2
<1>4. ASSUME NEW i \in 1..Len(Append(q, Head(a)) \o Tail(a))
      PROVE  (Append(q, Head(a)) \o Tail(a))[i] = (q \o a)[i]
  <2>1. CASE i <= Len(q)
    BY <1>1, <1>2, <2>1
  <2>2. CASE i = Len(q) + 1
    BY <1>1, <1>2, <2>2
  <2>3. CASE i > Len(q) + 1
    BY <1>1, <1>2, <2>3
  <2> QED BY <2>1, <2>2, <2>3
<1> QED BY <1>3, <1>4, SeqEqual

\* Popping the queue takes the front of what is before a node.
LEMMA FrontLeaves ==
    ASSUME NEW S, NEW q \in Seq(S), NEW a \in Seq(S), q # <<>>
    PROVE  /\ Len(Tail(q) \o a) = Len(q \o a) - 1
           /\ \A i \in 1..Len(Tail(q) \o a) : (Tail(q) \o a)[i] = (q \o a)[i + 1]
<1>1. /\ Tail(q) \in Seq(S) /\ Len(Tail(q)) = Len(q) - 1 /\ Len(q) >= 1
      /\ \A i \in 1..Len(Tail(q)) : Tail(q)[i] = q[i + 1]
  BY HeadTailProperties, EmptySeq
<1>2. /\ Len(Tail(q) \o a) = Len(q) - 1 + Len(a) /\ Len(q \o a) = Len(q) + Len(a)
  BY <1>1
<1>3. ASSUME NEW i \in 1..Len(Tail(q) \o a)
      PROVE  (Tail(q) \o a)[i] = (q \o a)[i + 1]
  <2>1. CASE i <= Len(q) - 1
    BY <1>1, <1>2, <2>1
  <2>2. CASE i > Len(q) - 1
    BY <1>1, <1>2, <2>2
  <2> QED BY <1>2, <2>1, <2>2
<1> QED BY <1>2, <1>3

----------------------------------------------------------------------------
(* Types.                                                                  *)

\* Queues and channels hold requests, closes on their way are counted.
THEOREM TypeCorrect == Spec => []TypeOK
<1>1. Init => TypeOK
  BY DEF Init, TypeOK
<1>2. TypeOK /\ [Next]_vars => TypeOK'
  <2> SUFFICES ASSUME TypeOK, [Next]_vars PROVE TypeOK'
    OBVIOUS
  <2> USE DEF TypeOK
  <2>1. ASSUME NEW r \in Entries, multicast(r) PROVE TypeOK'
    BY <2>1 DEF multicast
  <2>2. ASSUME NEW n \in Nodes, group_request_handler(n) PROVE TypeOK'
    <3>1. Head(arriving[n]) \in Entries /\ Tail(arriving[n]) \in Seq(Entries)
      BY <2>2, HeadTailProperties DEF group_request_handler
    <3>2. Append(requestQueue[n], Head(arriving[n])) \in Seq(Entries)
      BY <3>1
    <3> QED BY <2>2, <3>1, <3>2 DEF group_request_handler
  <2>3. ASSUME NEW n \in Nodes, CloseRound(n) PROVE TypeOK'
    <3>1. Tail(requestQueue[n]) \in Seq(Entries)
      BY <2>3, HeadTailProperties DEF CloseRound
    <3> QED BY <2>3, <3>1 DEF CloseRound
  <2>4. ASSUME NEW n \in Nodes, process_next_request(n) PROVE TypeOK'
    <3>1. Tail(requestQueue[n]) \in Seq(Entries)
      BY <2>4, HeadTailProperties DEF process_next_request
    <3>2. closing[n] - 1 \in Nat
      BY <2>4 DEF process_next_request
    <3> QED BY <2>4, <3>1, <3>2 DEF process_next_request
  <2>5. CASE UNCHANGED vars
    BY <2>5 DEF vars
  <2> QED BY <2>1, <2>2, <2>3, <2>4, <2>5 DEF Next
<1> QED BY <1>1, <1>2, PTL DEF Spec

LEMMA BeforeIsSeq ==
    ASSUME TypeOK, NEW n \in Nodes
    PROVE  /\ Before(n) \in Seq(Entries)
           /\ Len(Before(n)) = Len(requestQueue[n]) + Len(arriving[n])
           /\ Len(Before(n)) \in Nat
           /\ closing[n] \in Nat
BY ConcatProperties DEF TypeOK, Before

----------------------------------------------------------------------------
(* What each action does to what is before a node.                         *)

LEMMA SubmitJoins ==
    ASSUME TypeOK, NEW r \in Entries, multicast(r), NEW n \in Nodes
    PROVE  Before(n)' = Append(Before(n), r) /\ closing'[n] = closing[n]
<1> DEFINE q == requestQueue[n]
           a == arriving[n]
<1>1. q \in Seq(Entries) /\ a \in Seq(Entries)
  BY DEF TypeOK
<1>2. Before(n)' = q \o Append(a, r) /\ Before(n) = q \o a /\ closing'[n] = closing[n]
  BY DEF Before, multicast
<1> HIDE DEF q, a
<1>3. q \o Append(a, r) = Append(q \o a, r)
  BY <1>1, JoinsEnd
<1> QED BY <1>2, <1>3

LEMMA QueueingKeeps ==
    ASSUME TypeOK, NEW m \in Nodes, group_request_handler(m), NEW n \in Nodes
    PROVE  Before(n)' = Before(n) /\ closing'[n] = closing[n]
<1>1. requestQueue[n] \in Seq(Entries) /\ arriving[n] \in Seq(Entries)
  BY DEF TypeOK
<1>2. CASE n # m
  BY <1>2 DEF Before, group_request_handler, TypeOK
<1>3. CASE n = m
  <2>1. Before(n)' = Append(requestQueue[n], Head(arriving[n])) \o Tail(arriving[n])
    BY <1>3 DEF Before, group_request_handler, TypeOK
  <2> QED BY <1>1, <1>3, <2>1, MovesAcross DEF Before, group_request_handler
<1> QED BY <1>2, <1>3

\* A close takes one entry of every node: from the front of its queue, or by
\* one more that is on its way.
Shorter(n) ==
    /\ Len(Before(n)') - closing'[n] = Len(Before(n)) - closing[n] - 1
    /\ \A i \in 1..Len(Before(n)) :
          i <= Len(Before(n)) - closing[n] - 1
            => Before(n)'[i + closing'[n]] = Before(n)[i + 1 + closing[n]]

LEMMA CloseShortens ==
    ASSUME TypeOK, NEW m \in Nodes, CloseRound(m), NEW n \in Nodes
    PROVE  Shorter(n)
<1>1. requestQueue[n] \in Seq(Entries) /\ arriving[n] \in Seq(Entries)
  BY DEF TypeOK
<1> DEFINE b == Before(n)
           B == Before(n)'
<1>0. Len(b) \in Nat /\ closing[n] \in Nat
  BY BeforeIsSeq
<1>2. CASE n # m
  <2>1. B = b /\ closing'[n] = closing[n] + 1
    BY <1>2 DEF Before, CloseRound, TypeOK
  <2> HIDE DEF b, B
  <2>2. /\ Len(B) - closing'[n] = Len(b) - closing[n] - 1
        /\ \A i \in 1..Len(b) : i + closing'[n] = i + 1 + closing[n]
    BY <1>0, <2>1
  <2>3. \A i \in 1..Len(b) : B[i + closing'[n]] = b[i + 1 + closing[n]]
    BY <2>1, <2>2
  <2> QED BY <2>2, <2>3 DEF Shorter, b, B
<1>3. CASE n = m
  <2>1. Before(n)' = Tail(requestQueue[n]) \o arriving[n] /\ closing'[n] = closing[n]
    BY <1>3 DEF Before, CloseRound, TypeOK
  <2>2. requestQueue[n] # <<>>
    BY <1>3 DEF CloseRound
  <2>3. /\ Len(B) = Len(b) - 1
        /\ \A i \in 1..Len(B) : B[i] = b[i + 1]
    <3> DEFINE q == requestQueue[n]
               a == arriving[n]
    <3>1. b = q \o a /\ B = Tail(q) \o a
      BY <2>1 DEF Before
    <3>2. q \in Seq(Entries) /\ a \in Seq(Entries) /\ q # <<>>
      BY <1>1, <2>2
    <3> HIDE DEF q, a, b, B
    <3> QED BY <3>1, <3>2, FrontLeaves
  <2> HIDE DEF b, B
  <2>4. \A i \in 1..Len(b) : i <= Len(b) - closing[n] - 1 => i + closing[n] \in 1..Len(B)
    BY <1>0, <2>3
  <2>5. \A i \in 1..Len(b) :
           i <= Len(b) - closing[n] - 1 => B[i + closing'[n]] = b[i + 1 + closing[n]]
    <3>1. \A i \in 1..Len(b) : i + closing[n] + 1 = i + 1 + closing[n]
      BY <1>0
    <3>2. closing'[n] = closing[n]
      BY <2>1
    <3> QED BY <2>3, <2>4, <3>1, <3>2
  <2>6. Len(B) - closing'[n] = Len(b) - closing[n] - 1
    BY <1>0, <2>1, <2>3
  <2> QED BY <2>5, <2>6 DEF Shorter, b, B
<1> QED BY <1>2, <1>3

\* Obeying a close takes the front of what is before the node and the close
\* that asked for it, and nothing else.
LEMMA ObeyingKeeps ==
    ASSUME TypeOK, NEW m \in Nodes, process_next_request(m), NEW n \in Nodes
    PROVE  /\ Len(Before(n)') - closing'[n] = Len(Before(n)) - closing[n]
           /\ \A i \in 1..Len(Before(n)) :
                 i <= Len(Before(n)) - closing[n]
                   => Before(n)'[i + closing'[n]] = Before(n)[i + closing[n]]
<1>1. requestQueue[n] \in Seq(Entries) /\ arriving[n] \in Seq(Entries)
  BY DEF TypeOK
<1> DEFINE b == Before(n)
           B == Before(n)'
<1>0. Len(b) \in Nat /\ closing[n] \in Nat
  BY BeforeIsSeq
<1>2. CASE n # m
  BY <1>2 DEF Before, process_next_request, TypeOK
<1>3. CASE n = m
  <2>1. Before(n)' = Tail(requestQueue[n]) \o arriving[n] /\ closing'[n] = closing[n] - 1
    BY <1>3 DEF Before, process_next_request, TypeOK
  <2>2. requestQueue[n] # <<>> /\ closing[n] > 0
    BY <1>3 DEF process_next_request
  <2>3. /\ Len(B) = Len(b) - 1
        /\ \A i \in 1..Len(B) : B[i] = b[i + 1]
    <3> DEFINE q == requestQueue[n]
               a == arriving[n]
    <3>1. b = q \o a /\ B = Tail(q) \o a
      BY <2>1 DEF Before
    <3>2. q \in Seq(Entries) /\ a \in Seq(Entries) /\ q # <<>>
      BY <1>1, <2>2
    <3> HIDE DEF q, a, b, B
    <3> QED BY <3>1, <3>2, FrontLeaves
  <2> HIDE DEF b, B
  <2>4. ASSUME NEW i \in 1..Len(b), i <= Len(b) - closing[n]
        PROVE  B[i + closing'[n]] = b[i + closing[n]]
    <3>1. closing'[n] \in Nat /\ closing'[n] + 1 = closing[n]
      BY <1>0, <2>1, <2>2
    <3>2. i + closing'[n] \in 1..Len(B) /\ i + closing'[n] + 1 = i + closing[n]
      BY <3>1, <1>0, <2>1, <2>2, <2>3, <2>4
    <3> QED BY <2>3, <3>2
  <2>5. Len(B) - closing'[n] = Len(b) - closing[n]
    BY <1>0, <2>1, <2>3
  <2> QED BY <2>4, <2>5 DEF b, B
<1> QED BY <1>2, <1>3
----------------------------------------------------------------------------
(* The nodes agree.                                                        *)

\* What node n is left with once all is obeyed: how many, and which.
Left(n) == Len(Before(n)) - closing[n]
Entry(n, i) == Before(n)[i + closing[n]]

\* QueuesAgree, in these terms.
Agree ==
    \A m, n \in Nodes :
        /\ Left(m) = Left(n)
        /\ \A i \in Nat \ {0} : i <= Left(m) => Entry(m, i) = Entry(n, i)

LEMMA LeftIsInt ==
    ASSUME TypeOK, NEW n \in Nodes
    PROVE  /\ Left(n) \in Int
           /\ \A i \in Int : i \in 1..Len(Before(n)) /\ i <= Left(n) <=> i \in Nat \ {0} /\ i <= Left(n)
<1> DEFINE b == Before(n)
<1>1. Len(b) \in Nat /\ closing[n] \in Nat
  BY BeforeIsSeq
<1>2. Left(n) = Len(b) - closing[n]
  BY DEF Left
<1> HIDE DEF b
<1>3. Left(n) \in Int /\ Left(n) <= Len(b)
  BY <1>1, <1>2
<1>4. \A i \in Int : i \in 1..Len(b) /\ i <= Left(n) <=> i \in Nat \ {0} /\ i <= Left(n)
  BY <1>1, <1>3
<1> QED BY <1>3, <1>4 DEF b

LEMMA AgreeByIndex == TypeOK => (QueuesAgree <=> Agree)
<1> SUFFICES ASSUME TypeOK PROVE QueuesAgree <=> Agree
  OBVIOUS
<1>1. ASSUME NEW m \in Nodes, NEW n \in Nodes
      PROVE  (\A i \in 1..Len(Before(m)) : i <= Left(m) => Entry(m, i) = Entry(n, i))
                <=> (\A i \in Nat \ {0} : i <= Left(m) => Entry(m, i) = Entry(n, i))
  <2>1. \A i \in Int : i \in 1..Len(Before(m)) /\ i <= Left(m) <=> i \in Nat \ {0} /\ i <= Left(m)
    BY LeftIsInt
  <2>2. \A i : (i \in 1..Len(Before(m)) \/ i \in Nat \ {0}) => i \in Int
    OBVIOUS
  <2> QED BY <2>1, <2>2, Zenon
<1> QED BY <1>1 DEF QueuesAgree, Agree, Left, Entry

LEMMA JoinedEntries ==
    ASSUME TypeOK, NEW r \in Entries, multicast(r), NEW n \in Nodes
    PROVE  /\ Left(n)' = Left(n) + 1
           /\ \A i \in Nat \ {0} : i <= Left(n) => Entry(n, i)' = Entry(n, i)
           /\ \A i \in Nat \ {0} : i = Left(n) + 1 => Entry(n, i)' = r
<1> DEFINE b == Before(n)
           B == Before(n)'
<1>0. /\ Left(n) = Len(b) - closing[n] /\ Left(n)' = Len(B) - closing'[n]
      /\ \A i : Entry(n, i) = b[i + closing[n]] /\ Entry(n, i)' = B[i + closing'[n]]
  BY DEF Left, Entry
<1>1. B = Append(b, r) /\ closing'[n] = closing[n] /\ closing[n] \in Nat /\ b \in Seq(Entries)
  BY SubmitJoins, BeforeIsSeq
<1> HIDE DEF b, B
<1>2. /\ Len(b) \in Nat /\ Len(Append(b, r)) = Len(b) + 1
      /\ \A i \in 1..Len(b) : Append(b, r)[i] = b[i]
      /\ Append(b, r)[Len(b) + 1] = r
  BY <1>1
<1>3. \A i \in Nat \ {0} : i <= Len(b) - closing[n] => i + closing[n] \in 1..Len(b)
  BY <1>1, <1>2
<1>4. Len(b) - closing[n] + 1 + closing[n] = Len(b) + 1
  BY <1>1, <1>2
<1>5. Len(Append(b, r)) - closing[n] = Len(b) - closing[n] + 1
  BY <1>1, <1>2
<1>6. Left(n)' = Left(n) + 1
  BY <1>0, <1>1, <1>5
<1>7. ASSUME NEW i \in Nat \ {0}, i <= Left(n) PROVE Entry(n, i)' = Entry(n, i)
  BY <1>0, <1>1, <1>2, <1>3, <1>7
<1>8. ASSUME NEW i \in Nat \ {0}, i = Left(n) + 1 PROVE Entry(n, i)' = r
  <2>1. i + closing'[n] = Len(b) + 1
    BY <1>0, <1>1, <1>4, <1>8
  <2> QED BY <1>0, <1>1, <1>2, <2>1
<1> QED BY <1>6, <1>7, <1>8

\* However closes cross, the nodes agree on what is left and in which order.
THEOREM Agreement == Spec => []QueuesAgree
<1>1. Init => QueuesAgree
  BY DEF Init, QueuesAgree, Before
<1>2. TypeOK /\ TypeOK' /\ QueuesAgree /\ [Next]_vars => QueuesAgree'
  <2> SUFFICES ASSUME TypeOK, TypeOK', QueuesAgree, [Next]_vars,
                      NEW m \in Nodes, NEW n \in Nodes
               PROVE  /\ Left(m)' = Left(n)'
                      /\ \A i \in Nat \ {0} : i <= Left(m)' => Entry(m, i)' = Entry(n, i)'
    <3>1. TypeOK' => (QueuesAgree' <=> Agree')
      BY AgreeByIndex, PTL
    <3> QED BY <3>1 DEF Agree
  <2>1. /\ Left(m) = Left(n)
        /\ \A i \in Nat \ {0} : i <= Left(m) => Entry(m, i) = Entry(n, i)
    BY AgreeByIndex DEF Agree
  <2>2. Left(m) \in Int /\ Left(n) \in Int
    BY LeftIsInt
  <2>3. ASSUME NEW r \in Entries, multicast(r)
        PROVE  /\ Left(m)' = Left(n)'
               /\ \A i \in Nat \ {0} : i <= Left(m)' => Entry(m, i)' = Entry(n, i)'
    <3>1. /\ Left(m)' = Left(m) + 1 /\ Left(n)' = Left(n) + 1
          /\ \A i \in Nat \ {0} : i <= Left(m) => Entry(m, i)' = Entry(m, i)
          /\ \A i \in Nat \ {0} : i <= Left(n) => Entry(n, i)' = Entry(n, i)
          /\ \A i \in Nat \ {0} : i = Left(m) + 1 => Entry(m, i)' = r
          /\ \A i \in Nat \ {0} : i = Left(n) + 1 => Entry(n, i)' = r
      BY <2>3, JoinedEntries
    <3>2. ASSUME NEW i \in Nat \ {0}, i <= Left(m)'
          PROVE  Entry(m, i)' = Entry(n, i)'
      <4>1. CASE i <= Left(m)
        BY <2>1, <3>1, <4>1
      <4>2. CASE i = Left(m) + 1
        BY <2>1, <2>2, <3>1, <4>2
      <4> QED BY <2>2, <3>1, <3>2, <4>1, <4>2
    <3> QED BY <2>1, <3>1, <3>2
  <2>4. ASSUME NEW k \in Nodes, group_request_handler(k)
        PROVE  /\ Left(m)' = Left(n)'
               /\ \A i \in Nat \ {0} : i <= Left(m)' => Entry(m, i)' = Entry(n, i)'
    <3>1. \A l \in Nodes : Before(l)' = Before(l) /\ closing'[l] = closing[l]
      BY <2>4, QueueingKeeps
    <3> QED BY <2>1, <3>1 DEF Left, Entry
  <2>5. ASSUME NEW k \in Nodes, CloseRound(k)
        PROVE  /\ Left(m)' = Left(n)'
               /\ \A i \in Nat \ {0} : i <= Left(m)' => Entry(m, i)' = Entry(n, i)'
    <3>1. \A l \in Nodes : Left(l)' = Left(l) - 1
      BY <2>5, CloseShortens DEF Shorter, Left
    <3>2. ASSUME NEW l \in Nodes, NEW i \in Nat \ {0}, i <= Left(l) - 1
          PROVE  Entry(l, i)' = Entry(l, i + 1)
      <4>1. Left(l) \in Int /\ i <= Left(l)
        BY <3>2, LeftIsInt
      <4>2. i \in 1..Len(Before(l)) /\ i <= Len(Before(l)) - closing[l] - 1
        BY <3>2, <4>1, LeftIsInt DEF Left
      <4> QED BY <2>5, <4>2, CloseShortens DEF Shorter, Entry
    <3>3. ASSUME NEW i \in Nat \ {0}, i <= Left(m)'
          PROVE  Entry(m, i)' = Entry(n, i)'
      <4>1. i <= Left(m) - 1 /\ i <= Left(n) - 1 /\ i + 1 \in Nat \ {0} /\ i + 1 <= Left(m)
        BY <2>1, <2>2, <3>1, <3>3
      <4> QED BY <2>1, <3>2, <4>1
    <3> QED BY <2>1, <3>1, <3>3
  <2>6. ASSUME NEW k \in Nodes, process_next_request(k)
        PROVE  /\ Left(m)' = Left(n)'
               /\ \A i \in Nat \ {0} : i <= Left(m)' => Entry(m, i)' = Entry(n, i)'
    <3>1. \A l \in Nodes : Left(l)' = Left(l)
      BY <2>6, ObeyingKeeps DEF Left
    <3>2. ASSUME NEW l \in Nodes, NEW i \in Nat \ {0}, i <= Left(l)
          PROVE  Entry(l, i)' = Entry(l, i)
      <4>1. i \in 1..Len(Before(l)) /\ i <= Len(Before(l)) - closing[l]
        BY <3>2, LeftIsInt DEF Left
      <4> QED BY <2>6, <4>1, ObeyingKeeps DEF Entry
    <3> QED BY <2>1, <3>1, <3>2
  <2>7. CASE UNCHANGED vars
    BY <2>1, <2>7 DEF vars, Left, Entry, Before
  <2> QED BY <2>3, <2>4, <2>5, <2>6, <2>7 DEF Next
<1> QED BY <1>1, <1>2, TypeCorrect, PTL DEF Spec
----------------------------------------------------------------------------
(* One line.                                                               *)

LEMMA LineByIndex ==
    ASSUME TypeOK, NEW n \in Nodes
    PROVE  /\ LineOf(n) \in Seq(Entries)
           /\ Len(LineOf(n)) = IF Left(n) > 0 THEN Left(n) ELSE 0
           /\ \A i \in 1..Len(LineOf(n)) : LineOf(n)[i] = Entry(n, i)
<1> DEFINE b == Before(n)
<1>1. b \in Seq(Entries) /\ Len(b) \in Nat /\ closing[n] \in Nat
  BY BeforeIsSeq
<1>2. Left(n) = Len(b) - closing[n] /\ \A i : Entry(n, i) = b[i + closing[n]]
  BY DEF Left, Entry
<1>3. LineOf(n) = IF closing[n] > Len(b) THEN <<>> ELSE SubSeq(b, closing[n] + 1, Len(b))
  BY DEF LineOf
<1> HIDE DEF b
<1>4. CASE closing[n] > Len(b)
  BY <1>1, <1>2, <1>3, <1>4
<1>5. CASE closing[n] <= Len(b)
  <2>1. \A i \in closing[n] + 1..Len(b) : b[i] \in Entries
    BY <1>1
  <2>2. closing[n] + 1 \in Int /\ Len(b) \in Int
    BY <1>1
  <2> DEFINE s == SubSeq(b, closing[n] + 1, Len(b))
  <2>3. /\ s \in Seq(Entries)
        /\ Len(s) = IF closing[n] + 1 <= Len(b) THEN Len(b) - (closing[n] + 1) + 1 ELSE 0
        /\ \A i \in 1..Len(b) - (closing[n] + 1) + 1 : s[i] = b[closing[n] + 1 + i - 1]
    BY <2>1, <2>2, SubSeqProperties
  <2>4. LineOf(n) = s
    BY <1>1, <1>3, <1>5
  <2> HIDE DEF s
  <2>5. Len(s) = Left(n) /\ Left(n) \in Nat
    BY <1>1, <1>2, <1>5, <2>3
  <2>6. \A i \in 1..Len(s) : /\ i \in 1..Len(b) - (closing[n] + 1) + 1
                             /\ closing[n] + 1 + i - 1 = i + closing[n]
    BY <1>1, <1>2, <2>5
  <2> QED BY <1>2, <2>3, <2>4, <2>5, <2>6
<1> QED BY <1>1, <1>4, <1>5

\* So any node stands for all: what is left is the same line everywhere.
LEMMA SameLine == TypeOK /\ QueuesAgree => LinesAgree
<1> SUFFICES ASSUME TypeOK, QueuesAgree, NEW m \in Nodes, NEW n \in Nodes
             PROVE  LineOf(m) = LineOf(n)
  BY DEF LinesAgree
<1>1. /\ Left(m) = Left(n)
      /\ \A i \in Nat \ {0} : i <= Left(m) => Entry(m, i) = Entry(n, i)
  BY AgreeByIndex DEF Agree
<1>2. Left(m) \in Int
  BY LeftIsInt
<1>3. /\ LineOf(m) \in Seq(Entries) /\ LineOf(n) \in Seq(Entries)
      /\ Len(LineOf(m)) = Len(LineOf(n))
  BY <1>1, LineByIndex
<1>4. ASSUME NEW i \in 1..Len(LineOf(m)) PROVE LineOf(m)[i] = LineOf(n)[i]
  <2>1. i \in Nat \ {0} /\ i <= Left(m)
    BY <1>2, LineByIndex
  <2> QED BY <1>1, <1>3, <2>1, LineByIndex
<1> QED BY <1>3, <1>4, SeqEqual

THEOREM OneLine == Spec => []LinesAgree
BY SameLine, TypeCorrect, Agreement, PTL

Lines ==
    \A n \in Nodes :
        /\ LineOf(n) \in Seq(Entries)
        /\ Len(LineOf(n)) = IF Left(n) > 0 THEN Left(n) ELSE 0
        /\ \A i \in 1..Len(LineOf(n)) : LineOf(n)[i] = Entry(n, i)

LEMMA LinesByIndex == TypeOK => Lines
BY LineByIndex DEF Lines

\* A request sent joins the end of the line, or makes up for a close too many.
LEMMA LineJoins ==
    ASSUME TypeOK, TypeOK', NEW r \in Entries, multicast(r), NEW n \in Nodes
    PROVE  LineOf(n)' = Append(LineOf(n), r) \/ LineOf(n)' = LineOf(n)
<1> DEFINE l == LineOf(n)
           L == LineOf(n)'
<1>0. TypeOK' => Lines'
  BY LinesByIndex, PTL
<1>1. Lines /\ Lines' /\ Left(n) \in Int
  BY <1>0, LinesByIndex, LeftIsInt
<1>2. /\ l \in Seq(Entries) /\ L \in Seq(Entries)
      /\ Len(l) = IF Left(n) > 0 THEN Left(n) ELSE 0
      /\ Len(L) = IF Left(n)' > 0 THEN Left(n)' ELSE 0
      /\ \A i \in 1..Len(l) : l[i] = Entry(n, i)
      /\ \A i \in 1..Len(L) : L[i] = Entry(n, i)'
  BY <1>1 DEF Lines
<1>3. /\ Left(n)' = Left(n) + 1
      /\ \A i \in Nat \ {0} : i <= Left(n) => Entry(n, i)' = Entry(n, i)
      /\ \A i \in Nat \ {0} : i = Left(n) + 1 => Entry(n, i)' = r
  BY JoinedEntries
<1> HIDE DEF l, L
<1>4. CASE Left(n) < 0
  <2>1. Len(l) = 0 /\ Len(L) = 0
    BY <1>1, <1>2, <1>3, <1>4
  <2>2. l = L
    BY <1>2, <2>1, SeqEqual
  <2> QED BY <2>2 DEF l, L
<1>5. CASE Left(n) >= 0
  <2>1. Append(l, r) \in Seq(Entries) /\ Len(l) = Left(n) /\ Len(L) = Left(n) + 1
    BY <1>1, <1>2, <1>3, <1>5
  <2>2. Len(Append(l, r)) = Len(L)
    BY <1>2, <2>1
  <2>3. ASSUME NEW i \in 1..Len(L) PROVE L[i] = Append(l, r)[i]
    <3>1. CASE i <= Left(n)
      <4>1. i \in 1..Len(l) /\ i \in Nat \ {0}
        BY <1>1, <2>1, <3>1
      <4>2. Append(l, r)[i] = l[i]
        BY <1>2, <4>1
      <4> QED BY <1>2, <1>3, <3>1, <4>1, <4>2
    <3>2. CASE i = Left(n) + 1
      <4>1. i = Len(l) + 1 /\ i \in Nat \ {0}
        BY <1>5, <2>1, <3>2
      <4>2. Append(l, r)[i] = r
        BY <1>2, <4>1
      <4> QED BY <1>2, <1>3, <3>2, <4>1, <4>2
    <3> QED BY <1>1, <2>1, <3>1, <3>2
  <2>4. L = Append(l, r)
    BY <1>2, <2>1, <2>2, <2>3, SeqEqual
  <2> QED BY <2>4 DEF l, L
<1> QED BY <1>1, <1>4, <1>5

\* A close takes the front of the line, if there is one.
LEMMA LineShortens ==
    ASSUME TypeOK, TypeOK', NEW m \in Nodes, CloseRound(m), NEW n \in Nodes
    PROVE  LineOf(n)' = IF LineOf(n) = <<>> THEN <<>> ELSE Tail(LineOf(n))
<1> DEFINE l == LineOf(n)
           L == LineOf(n)'
<1>0. TypeOK' => Lines'
  BY LinesByIndex, PTL
<1>1. Lines /\ Lines' /\ Left(n) \in Int
  BY <1>0, LinesByIndex, LeftIsInt
<1>2. /\ l \in Seq(Entries) /\ L \in Seq(Entries)
      /\ Len(l) = IF Left(n) > 0 THEN Left(n) ELSE 0
      /\ Len(L) = IF Left(n)' > 0 THEN Left(n)' ELSE 0
      /\ \A i \in 1..Len(l) : l[i] = Entry(n, i)
      /\ \A i \in 1..Len(L) : L[i] = Entry(n, i)'
  BY <1>1 DEF Lines
<1>3. Left(n)' = Left(n) - 1
  BY CloseShortens DEF Shorter, Left
<1>4. ASSUME NEW i \in Nat \ {0}, i <= Left(n) - 1 PROVE Entry(n, i)' = Entry(n, i + 1)
  <2>1. i <= Left(n)
    BY <1>1, <1>4
  <2>2. i \in 1..Len(Before(n)) /\ i <= Len(Before(n)) - closing[n] - 1
    BY <1>4, <2>1, LeftIsInt DEF Left
  <2> QED BY <2>2, CloseShortens DEF Shorter, Entry
<1> HIDE DEF l, L
<1>5. CASE Left(n) <= 0
  <2>1. Len(l) = 0 /\ Len(L) = 0
    BY <1>1, <1>2, <1>3, <1>5
  <2>2. l = <<>> /\ L = <<>>
    BY <1>2, <2>1, EmptySeq
  <2> QED BY <2>2 DEF l, L
<1>6. CASE Left(n) > 0
  <2>1. Len(l) = Left(n) /\ Len(L) = Left(n) - 1 /\ l # <<>>
    BY <1>1, <1>2, <1>3, <1>6
  <2>2. /\ Tail(l) \in Seq(Entries) /\ Len(Tail(l)) = Len(L)
        /\ \A i \in 1..Len(Tail(l)) : Tail(l)[i] = l[i + 1]
    BY <1>2, <2>1, HeadTailProperties
  <2>3. ASSUME NEW i \in 1..Len(L) PROVE L[i] = Tail(l)[i]
    <3>1. i \in Nat \ {0} /\ i <= Left(n) - 1 /\ i + 1 \in 1..Len(l)
      BY <1>1, <2>1
    <3> QED BY <1>2, <1>4, <2>2, <3>1
  <2>4. L = Tail(l)
    BY <1>2, <2>2, <2>3, SeqEqual
  <2> QED BY <2>1, <2>4 DEF l, L
<1> QED BY <1>1, <1>5, <1>6

\* Queueing a request that arrives and obeying a close leave the line alone.
LEMMA LineStays ==
    ASSUME TypeOK, TypeOK', NEW m \in Nodes,
           group_request_handler(m) \/ process_next_request(m), NEW n \in Nodes
    PROVE  LineOf(n)' = LineOf(n)
<1>1. CASE group_request_handler(m)
  <2>1. Before(n)' = Before(n) /\ closing'[n] = closing[n]
    BY <1>1, QueueingKeeps
  <2> QED BY <2>1 DEF LineOf
<1>2. CASE process_next_request(m)
  <2> DEFINE l == LineOf(n)
             L == LineOf(n)'
  <2>0. TypeOK' => Lines'
    BY LinesByIndex, PTL
  <2>1. Lines /\ Lines' /\ Left(n) \in Int
    BY <2>0, LinesByIndex, LeftIsInt
  <2>2. /\ l \in Seq(Entries) /\ L \in Seq(Entries)
        /\ Len(l) = IF Left(n) > 0 THEN Left(n) ELSE 0
        /\ Len(L) = IF Left(n)' > 0 THEN Left(n)' ELSE 0
        /\ \A i \in 1..Len(l) : l[i] = Entry(n, i)
        /\ \A i \in 1..Len(L) : L[i] = Entry(n, i)'
    BY <2>1 DEF Lines
  <2>3. Left(n)' = Left(n)
    BY <1>2, ObeyingKeeps DEF Left
  <2>4. ASSUME NEW i \in Nat \ {0}, i <= Left(n) PROVE Entry(n, i)' = Entry(n, i)
    <3>1. i \in 1..Len(Before(n)) /\ i <= Len(Before(n)) - closing[n]
      BY <2>4, LeftIsInt DEF Left
    <3> QED BY <1>2, <3>1, ObeyingKeeps DEF Entry
  <2> HIDE DEF l, L
  <2>5. Len(l) = Len(L) /\ \A i \in 1..Len(l) : i \in Nat \ {0} /\ i <= Left(n)
    BY <2>1, <2>2, <2>3
  <2>6. l = L
    BY <2>2, <2>4, <2>5, SeqEqual
  <2> QED BY <2>6 DEF l, L
<1> QED BY <1>1, <1>2

\* The queues implement one line of requests: to send a request is to submit
\* it, to close a round at any node is to close the front of the line, and
\* everything else is invisible.
THEOREM QueuesAreLine ==
    ASSUME Nodes # {}
    PROVE  Spec => ImplementsLine
<1>1. AnyNode \in Nodes
  BY DEF AnyNode
<1>2. Init => Line!Init
  BY <1>1 DEF Init, Line!Init, LineOf, Before
<1>3. TypeOK /\ TypeOK' /\ [Next]_vars => [Line!Next]_(LineOf(AnyNode))
  <2> SUFFICES ASSUME TypeOK, TypeOK', [Next]_vars
               PROVE  [Line!Next]_(LineOf(AnyNode))
    OBVIOUS
  <2>1. ASSUME NEW r \in Entries, multicast(r) PROVE [Line!Next]_(LineOf(AnyNode))
    BY <1>1, <2>1, LineJoins DEF Line!Next, Line!Submit
  <2>2. ASSUME NEW n \in Nodes, group_request_handler(n)
        PROVE  [Line!Next]_(LineOf(AnyNode))
    BY <1>1, <2>2, LineStays
  <2>3. ASSUME NEW n \in Nodes, CloseRound(n) PROVE [Line!Next]_(LineOf(AnyNode))
    BY <1>1, <2>3, LineShortens DEF Line!Next, Line!Close
  <2>4. ASSUME NEW n \in Nodes, process_next_request(n)
        PROVE  [Line!Next]_(LineOf(AnyNode))
    BY <1>1, <2>4, LineStays
  <2>5. CASE UNCHANGED vars
    BY <2>5 DEF vars, LineOf, Before
  <2> QED BY <2>1, <2>2, <2>3, <2>4, <2>5 DEF Next
<1> QED BY <1>2, <1>3, TypeCorrect, PTL DEF Spec, Line!Spec, ImplementsLine

----------------------------------------------------------------------------
(* The service, which keeps a line of its own.                             *)

VARIABLES
    line,           \* the open requests, the oldest first
    registered      \* the front is registered and not yet retired

Service == INSTANCE RequestService

\* Registered requests are open: the service's inductive invariant.
THEOREM ServiceInvariant == Service!Spec => []Service!RegisteredIsOpen
<1>1. Service!Init => Service!RegisteredIsOpen
  <2> SUFFICES ASSUME Service!Init PROVE Service!RegisteredIsOpen
    OBVIOUS
  <2>1. line \in Seq(Entries)
    BY DEF Service!Init
  <2>2. registered \in BOOLEAN /\ ~registered
    BY DEF Service!Init
  <2> QED BY <2>1, <2>2 DEF Service!RegisteredIsOpen
<1>2. Service!RegisteredIsOpen /\ [Service!Next]_Service!vars => Service!RegisteredIsOpen'
  <2> SUFFICES ASSUME Service!RegisteredIsOpen, [Service!Next]_Service!vars
               PROVE  Service!RegisteredIsOpen'
    OBVIOUS
  <2>1. CASE Service!Submit
    BY <2>1 DEF Service!Submit, Service!RegisteredIsOpen
  <2>2. CASE Service!Register
    BY <2>2 DEF Service!Register, Service!RegisteredIsOpen
  <2>3. CASE Service!Retire
    <3>1. line \in Seq(Entries) /\ line # <<>>
      BY <2>3 DEF Service!Retire, Service!RegisteredIsOpen
    <3>2. line' \in Seq(Entries)
      BY <2>3, <3>1 DEF Service!Retire
    <3>3. registered' \in BOOLEAN /\ ~registered'
      BY <2>3 DEF Service!Retire
    <3> QED BY <3>2, <3>3 DEF Service!RegisteredIsOpen
  <2>4. CASE Service!Drop
    BY <2>4 DEF Service!Drop, Service!RegisteredIsOpen
  <2>5. CASE UNCHANGED Service!vars
    BY <2>5 DEF Service!vars, Service!RegisteredIsOpen
  <2> QED BY <2>1, <2>2, <2>3, <2>4, <2>5 DEF Service!Next
<1> QED BY <1>1, <1>2, PTL DEF Service!Spec

\* Retiring and dropping are the two ways the service closes the front of the
\* line, and registering is no step of the line: whoever implements the
\* service also implements the line.
THEOREM ServiceIsLine == Service!Spec => Service!Line!Spec
<1>1. Service!Init => Service!Line!Init
  BY DEF Service!Init, Service!Line!Init
<1>2. Service!RegisteredIsOpen /\ [Service!Next]_Service!vars => [Service!Line!Next]_line
  <2> SUFFICES ASSUME Service!RegisteredIsOpen, [Service!Next]_Service!vars
               PROVE  [Service!Line!Next]_line
    OBVIOUS
  <2>1. CASE Service!Submit
    BY <2>1 DEF Service!Submit, Service!Line!Next, Service!Line!Submit
  <2>2. CASE Service!Register
    BY <2>2 DEF Service!Register
  <2>3. CASE Service!Retire
    BY <2>3 DEF Service!Retire, Service!RegisteredIsOpen, Service!Line!Next, Service!Line!Close
  <2>4. CASE Service!Drop
    BY <2>4 DEF Service!Drop, Service!Line!Next, Service!Line!Close
  <2>5. CASE UNCHANGED Service!vars
    BY <2>5 DEF Service!vars
  <2> QED BY <2>1, <2>2, <2>3, <2>4, <2>5 DEF Service!Next
<1> QED BY <1>1, <1>2, ServiceInvariant, PTL DEF Service!Spec, Service!Line!Spec
=============================================================================
