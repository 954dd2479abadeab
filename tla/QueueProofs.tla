---------------------------- MODULE QueueProofs ----------------------------
(***************************************************************************)
(* The queues of the nodes, on any network: every node closes the same     *)
(* number of requests, with any number of clients; and with the one client *)
(* the program is written for, the request round implements RequestQueues  *)
(* and with it one line of requests.                                       *)
(*                                                                         *)
(* Last, with that client, nothing is counted twice (Ledger): each order   *)
(* number pays for one set of questions, the answers to them for one set   *)
(* of prepares, and every reward for the replies of one consensus group.   *)
(*                                                                         *)
(* All count messages on their way.  The messages of a kind are counted by *)
(* the places they have on the channels (Spots); MovedSpots says, once and *)
(* for all, what taking and sending does to their number.                  *)
(***************************************************************************)
EXTENDS OneClient, TPBFTProofs, FunctionTheorems, FiniteSetTheorems

----------------------------------------------------------------------------
(* Induction, for a set instead of a predicate: the numbers that are not   *)
(* in the set would have a least one.                                      *)

LEMMA NaturalsInSet ==
  ASSUME NEW S, 0 \in S, \A k \in Nat : k \in S => k + 1 \in S
  PROVE  Nat \subseteq S
<1> DEFINE R == OpToRel(<, Nat)
           T == Nat \ S
<1>1. SUFFICES ASSUME T # {} PROVE FALSE
  OBVIOUS
<1>2. IsWellFoundedOn(R, Nat)
  BY NatLessThanWellFounded
<1>3. T \subseteq Nat
  OBVIOUS
<1> HIDE DEF R, T
<1>4. PICK k \in T : \A j \in T : <<j, k>> \notin R
  BY <1>1, <1>2, <1>3, WFMin
<1>5. k \in Nat /\ k \notin S /\ k # 0
  BY <1>4 DEF T
<1>6. k - 1 \in Nat /\ k = (k - 1) + 1
  BY <1>5
<1>7. k - 1 \in T
  BY <1>5, <1>6 DEF T
<1>8. <<k - 1, k>> \in R
  BY <1>5, <1>6 DEF R, OpToRel
<1> QED BY <1>4, <1>7, <1>8

----------------------------------------------------------------------------
(* The requests on a channel, by recursion over the channel.               *)

\* f[i] is what the first i messages of s queue.
IsFirsts(f, s) ==
    f = [i \in 0..Len(s) |-> IF i = 0 THEN <<>> ELSE Queued(f[i - 1], s[i])]

\* There is such a function: it is built up message by message.
LEMMA FirstsExist == ASSUME NEW M, NEW s \in Seq(M) PROVE \E f : IsFirsts(f, s)
<1> DEFINE Upto(f, k) == f = [i \in 0..k |-> IF i = 0 THEN <<>> ELSE Queued(f[i - 1], s[i])]
           S == {k \in Nat : \E f : Upto(f, k)}
<1>1. 0 \in S
  <2>1. Upto([i \in 0..0 |-> <<>>], 0)
    OBVIOUS
  <2> QED BY <2>1
<1>2. ASSUME NEW k \in Nat, k \in S PROVE k + 1 \in S
  <2>1. PICK f : Upto(f, k)
    BY <1>2
  <2> DEFINE g == [i \in 0..(k + 1) |-> IF i <= k THEN f[i] ELSE Queued(f[k], s[k + 1])]
  <2>2. f[0] = <<>> /\ \A i \in 1..k : f[i] = Queued(f[i - 1], s[i])
    BY <2>1
  <2>3. \A i \in 0..(k + 1) : g[i] = IF i = 0 THEN <<>> ELSE Queued(g[i - 1], s[i])
    <3>1. g[0] = <<>>
      BY <2>2
    <3>2. ASSUME NEW i \in 1..k PROVE g[i] = Queued(g[i - 1], s[i])
      <4>1. g[i] = f[i] /\ g[i - 1] = f[i - 1]
        OBVIOUS
      <4> QED BY <2>2, <4>1
    <3>3. g[k + 1] = Queued(g[(k + 1) - 1], s[k + 1])
      OBVIOUS
    <3> HIDE DEF g
    <3> TAKE i \in 0..(k + 1)
    <3>4. i = 0 \/ i \in 1..k \/ i = k + 1
      OBVIOUS
    <3>5. CASE i = 0
      BY <3>1, <3>5
    <3>6. CASE i \in 1..k
      BY <3>2, <3>6
    <3>7. CASE i = k + 1
      BY <3>3, <3>7
    <3> QED BY <3>4, <3>5, <3>6, <3>7
  <2>4. g = [i \in 0..(k + 1) |-> g[i]]
    OBVIOUS
  <2> HIDE DEF g
  <2>5. g = [i \in 0..(k + 1) |-> IF i = 0 THEN <<>> ELSE Queued(g[i - 1], s[i])]
    BY <2>3, <2>4
  <2> QED BY <2>5
<1> HIDE DEF S
<1>3. Nat \subseteq S
  BY <1>1, <1>2, NaturalsInSet
<1>4. Len(s) \in S
  BY <1>3
<1> QED BY <1>4 DEF S, IsFirsts

Firsts(s) == CHOOSE f : IsFirsts(f, s)

\* What the recursion means, message by message.
LEMMA FirstsStep ==
  ASSUME NEW M, NEW s \in Seq(M)
  PROVE  /\ Requested(s) = Firsts(s)[Len(s)]
         /\ Firsts(s)[0] = <<>>
         /\ \A i \in 1..Len(s) : Firsts(s)[i] = Queued(Firsts(s)[i - 1], s[i])
<1>1. IsFirsts(Firsts(s), s)
  BY FirstsExist DEF Firsts
<1>2. Requested(s) = Firsts(s)[Len(s)]
  BY DEF Requested, Firsts, IsFirsts
<1> QED BY <1>1, <1>2 DEF IsFirsts

\* Nothing is requested on an empty channel.
LEMMA RequestedEmpty == Requested(<<>>) = <<>>
<1>1. <<>> \in Seq({}) /\ Len(<<>>) = 0
  BY EmptySeq
<1> QED BY <1>1, FirstsStep

\* A message at the end of the channel is queued last, if it is a request.
LEMMA RequestedAppend ==
  ASSUME NEW M, NEW s \in Seq(M), NEW m \in M
  PROVE  Requested(Append(s, m)) = Queued(Requested(s), m)
<1> DEFINE t == Append(s, m)
           S == {k \in Nat : k <= Len(s) => Firsts(t)[k] = Firsts(s)[k]}
<1>1. /\ t \in Seq(M) /\ Len(t) = Len(s) + 1 /\ Len(s) \in Nat
      /\ t[Len(s) + 1] = m /\ \A i \in 1..Len(s) : t[i] = s[i]
  BY AppendProperties
<1> HIDE DEF t
<1>2. /\ Firsts(s)[0] = <<>> /\ \A i \in 1..Len(s) : Firsts(s)[i] = Queued(Firsts(s)[i - 1], s[i])
      /\ Firsts(t)[0] = <<>> /\ \A i \in 1..Len(t) : Firsts(t)[i] = Queued(Firsts(t)[i - 1], t[i])
      /\ Requested(s) = Firsts(s)[Len(s)] /\ Requested(t) = Firsts(t)[Len(t)]
  BY <1>1, FirstsStep
<1>3. 0 \in S
  BY <1>2
<1>4. ASSUME NEW k \in Nat, k \in S PROVE k + 1 \in S
  <2> SUFFICES ASSUME k + 1 <= Len(s) PROVE Firsts(t)[k + 1] = Firsts(s)[k + 1]
    OBVIOUS
  <2>1. k + 1 \in 1..Len(s) /\ k + 1 \in 1..Len(t) /\ (k + 1) - 1 = k
    BY <1>1
  <2>2. Firsts(t)[k] = Firsts(s)[k]
    BY <1>1, <1>4, <2>1
  <2> QED BY <1>1, <1>2, <2>1, <2>2
<1> HIDE DEF S
<1>5. Nat \subseteq S
  BY <1>3, <1>4, NaturalsInSet
<1>6. Firsts(t)[Len(s)] = Firsts(s)[Len(s)]
  BY <1>1, <1>5 DEF S
<1>7. Len(t) \in 1..Len(t) /\ Len(t) - 1 = Len(s) /\ t[Len(t)] = m
  BY <1>1
<1> QED BY <1>2, <1>6, <1>7 DEF t

\* What is requested is a list of requests.
LEMMA RequestedTypes ==
  ASSUME NEW s \in Seq(ClientMessage)
  PROVE  Requested(s) \in Seq(Entry)
<1> DEFINE f == Firsts(s)
           S == {k \in Nat : k <= Len(s) => f[k] \in Seq(Entry)}
<1>1. /\ Len(s) \in Nat /\ Requested(s) = f[Len(s)] /\ f[0] = <<>>
      /\ \A i \in 1..Len(s) : f[i] = Queued(f[i - 1], s[i])
  BY FirstsStep
<1> HIDE DEF f
<1>2. 0 \in S
  BY <1>1, EmptySeq
<1>3. ASSUME NEW k \in Nat, k \in S PROVE k + 1 \in S
  <2> SUFFICES ASSUME k + 1 <= Len(s) PROVE f[k + 1] \in Seq(Entry)
    OBVIOUS
  <2>1. k + 1 \in 1..Len(s) /\ (k + 1) - 1 = k
    BY <1>1
  <2>2. f[k] \in Seq(Entry) /\ f[k + 1] = Queued(f[k], s[k + 1])
    BY <1>1, <1>3, <2>1
  <2>3. s[k + 1] \in ClientMessage
    BY <2>1, ElementOfSeq
  <2>4. s[k + 1].type = "MsgGroup" => [client |-> client, message |-> s[k + 1].message] \in Entry
    BY <2>3, ClientMessageFields, ClientAssumption DEF Entry
  <2> QED BY <2>2, <2>4 DEF Queued
<1> HIDE DEF S
<1>4. Nat \subseteq S
  BY <1>2, <1>3, NaturalsInSet
<1> QED BY <1>1, <1>4 DEF S

\* The oldest message of the channel is the first to be queued, if it is a
\* request, and taking it off leaves the rest.
LEMMA RequestedTail ==
  ASSUME NEW s \in Seq(ClientMessage), s # <<>>
  PROVE  IF Head(s).type = "MsgGroup"
         THEN /\ Requested(s) # <<>>
              /\ Head(Requested(s)) = [client |-> client, message |-> Head(s).message]
              /\ Requested(Tail(s)) = Tail(Requested(s))
         ELSE Requested(Tail(s)) = Requested(s)
<1> DEFINE t == Tail(s)
           e == [client |-> client, message |-> Head(s).message]
           Relates(a, b) == IF Head(s).type = "MsgGroup"
                            THEN b \in Seq(Entry) /\ b # <<>> /\ Head(b) = e /\ a = Tail(b)
                            ELSE a = b
           S == {k \in Nat : k <= Len(t) => Relates(Firsts(t)[k], Firsts(s)[k + 1])}
<1>1. /\ t \in Seq(ClientMessage) /\ Len(s) \in Nat /\ Len(t) = Len(s) - 1 /\ Len(t) \in Nat
      /\ s[1] = Head(s) /\ Head(s) \in ClientMessage
      /\ \A i \in 1..Len(t) : t[i] = s[i + 1] /\ t[i] \in ClientMessage
  BY HeadTailProperties, EmptySeq, ElementOfSeq
<1> HIDE DEF t
<1>2. /\ Firsts(s)[0] = <<>> /\ \A i \in 1..Len(s) : Firsts(s)[i] = Queued(Firsts(s)[i - 1], s[i])
      /\ Firsts(t)[0] = <<>> /\ \A i \in 1..Len(t) : Firsts(t)[i] = Queued(Firsts(t)[i - 1], t[i])
      /\ Requested(s) = Firsts(s)[Len(s)] /\ Requested(t) = Firsts(t)[Len(t)]
  BY <1>1, FirstsStep
<1>3. 0 \in S
  <2>1. Firsts(s)[1] = Queued(<<>>, Head(s))
    BY <1>1, <1>2
  <2>2. Head(s).type = "MsgGroup" => e \in Entry
    BY <1>1, ClientMessageFields, ClientAssumption DEF Entry
  <2>3. Relates(<<>>, Queued(<<>>, Head(s)))
    BY <2>2 DEF Queued
  <2> HIDE DEF Relates
  <2>4. Relates(Firsts(t)[0], Firsts(s)[0 + 1])
    BY <1>2, <2>1, <2>3
  <2> QED BY <2>4
<1>4. ASSUME NEW k \in Nat, k \in S PROVE k + 1 \in S
  <2> SUFFICES ASSUME k + 1 <= Len(t) PROVE Relates(Firsts(t)[k + 1], Firsts(s)[(k + 1) + 1])
    OBVIOUS
  <2> DEFINE a == Firsts(t)[k]
             b == Firsts(s)[k + 1]
             m == t[k + 1]
  <2>1. /\ k + 1 \in 1..Len(t) /\ (k + 1) - 1 = k
        /\ (k + 1) + 1 \in 1..Len(s) /\ ((k + 1) + 1) - 1 = k + 1
    BY <1>1
  <2>2. Relates(a, b)
    BY <1>1, <1>4, <2>1
  <2>3. m \in ClientMessage /\ s[(k + 1) + 1] = m
    BY <1>1, <2>1
  <2>4. Firsts(t)[k + 1] = Queued(a, m) /\ Firsts(s)[(k + 1) + 1] = Queued(b, m)
    BY <1>2, <2>1, <2>3
  <2>5. m.type = "MsgGroup" => [client |-> client, message |-> m.message] \in Entry
    BY <2>3, ClientMessageFields, ClientAssumption DEF Entry
  <2> HIDE DEF a, b, m
  <2>6. Relates(Queued(a, m), Queued(b, m))
    <3>1. ASSUME NEW r \in Entry, Head(s).type = "MsgGroup"
          PROVE  Relates(Append(a, r), Append(b, r))
      <4>1. b \in Seq(Entry) /\ b # <<>> /\ Head(b) = e /\ a = Tail(b)
        BY <2>2, <3>1
      <4>2. Head(Append(b, r)) = Head(b) /\ Tail(Append(b, r)) = Append(Tail(b), r)
        BY <4>1, HeadTailAppend
      <4> QED BY <3>1, <4>1, <4>2, AppendProperties
    <3> QED BY <2>2, <2>5, <3>1 DEF Queued
  <2> HIDE DEF Relates
  <2> QED BY <2>4, <2>6
<1> HIDE DEF S
<1>5. Nat \subseteq S
  BY <1>3, <1>4, NaturalsInSet
<1>6. Relates(Firsts(t)[Len(t)], Firsts(s)[Len(t) + 1])
  BY <1>1, <1>5 DEF S
<1>7. Len(t) + 1 = Len(s)
  BY <1>1
<1>8. Relates(Requested(t), Requested(s))
  BY <1>2, <1>6, <1>7
<1> QED BY <1>8 DEF t

----------------------------------------------------------------------------
(* Counting the messages on the channels.                                  *)

\* Two sets between whose elements a function pairs have the same size.
LEMMA SameSize ==
  ASSUME NEW S, NEW T, IsFiniteSet(S), NEW f \in [S -> T],
         \A a, b \in S : f[a] = f[b] => a = b, \A t \in T : \E s \in S : f[s] = t
  PROVE  IsFiniteSet(T) /\ Cardinality(T) = Cardinality(S)
<1>1. f \in Bijection(S, T)
  BY Fun_IsBij
<1>2. ExistsBijection(S, T)
  BY <1>1 DEF ExistsBijection
<1> QED BY <1>2, FS_Bijection

\* The sizes of disjoint sets add up.
LEMMA SizesAdd ==
  ASSUME NEW S, NEW T, IsFiniteSet(S), IsFiniteSet(T), S \cap T = {}
  PROVE  /\ IsFiniteSet(S \cup T)
         /\ Cardinality(S \cup T) = Cardinality(S) + Cardinality(T)
<1>1. Cardinality(S) \in Nat /\ Cardinality(T) \in Nat
  BY FS_CardinalityType
<1>2. Cardinality(S \cap T) = 0
  BY FS_EmptySet
<1>3. /\ IsFiniteSet(S \cup T)
      /\ Cardinality(S \cup T) = Cardinality(S) + Cardinality(T) - Cardinality(S \cap T)
  BY FS_Union
<1> QED BY <1>1, <1>2, <1>3

\* One of the messages W is at place i of the channel s.
At(s, i, W) == i \in DOMAIN s /\ s[i] \in W

\* Places on a channel, on the rest of it, and on two joined.
LEMMA AtPlaces ==
  ASSUME NEW M, NEW s \in Seq(M), NEW t \in Seq(M), NEW W, NEW i \in Nat
  PROVE  /\ At(s, i, W) => i # 0 /\ i <= Len(s)
         /\ s # <<>> => /\ At(s, 1, W) <=> Head(s) \in W
                        /\ At(Tail(s), i, W) <=> i # 0 /\ At(s, i + 1, W)
         /\ i <= Len(s) => (At(s \o t, i, W) <=> At(s, i, W))
         /\ i > Len(s) => (At(s \o t, i, W) <=> At(t, i - Len(s), W))
<1>1. /\ DOMAIN s = 1..Len(s) /\ Len(s) \in Nat
      /\ DOMAIN t = 1..Len(t) /\ Len(t) \in Nat
  BY LenProperties
<1>2. At(s, i, W) => i # 0 /\ i <= Len(s)
  BY <1>1 DEF At
<1>3. ASSUME s # <<>>
      PROVE  /\ At(s, 1, W) <=> Head(s) \in W
             /\ At(Tail(s), i, W) <=> i # 0 /\ At(s, i + 1, W)
  <2>1. /\ Head(s) = s[1] /\ Tail(s) \in Seq(M) /\ Len(Tail(s)) = Len(s) - 1
        /\ \A k \in 1..Len(Tail(s)) : Tail(s)[k] = s[k + 1]
    BY <1>3, HeadTailProperties
  <2>2. Len(s) > 0
    BY <1>1, <1>3, EmptySeq
  <2>3. DOMAIN Tail(s) = 1..(Len(s) - 1)
    BY <2>1, LenProperties
  <2>4. 1 \in DOMAIN s
    BY <1>1, <2>2
  <2>5. i \in DOMAIN Tail(s) <=> i # 0 /\ i + 1 \in DOMAIN s
    BY <1>1, <2>2, <2>3
  <2> QED BY <2>1, <2>3, <2>4, <2>5 DEF At
<1>4. /\ s \o t \in Seq(M) /\ Len(s \o t) = Len(s) + Len(t)
      /\ \A k \in 1..(Len(s) + Len(t)) :
            (s \o t)[k] = IF k <= Len(s) THEN s[k] ELSE t[k - Len(s)]
  BY ConcatProperties
<1>5. DOMAIN (s \o t) = 1..(Len(s) + Len(t))
  BY <1>4, LenProperties
<1>6. ASSUME i <= Len(s) PROVE At(s \o t, i, W) <=> At(s, i, W)
  <2>1. i \in DOMAIN (s \o t) <=> i \in DOMAIN s
    BY <1>1, <1>5, <1>6
  <2>2. i \in DOMAIN s => (s \o t)[i] = s[i]
    BY <1>1, <1>4, <1>6
  <2> QED BY <2>1, <2>2 DEF At
<1>7. ASSUME i > Len(s) PROVE At(s \o t, i, W) <=> At(t, i - Len(s), W)
  <2>1. i \in DOMAIN (s \o t) <=> i - Len(s) \in DOMAIN t
    BY <1>1, <1>5, <1>7
  <2>2. i - Len(s) \in DOMAIN t => (s \o t)[i] = t[i - Len(s)]
    BY <1>1, <1>4, <1>7
  <2> QED BY <2>1, <2>2 DEF At
<1> QED BY <1>2, <1>3, <1>6, <1>7

\* Where on the channels f, among the pairs P of peers, the messages W are.
Spots(f, P, W) ==
    {x \in Peers \X Peers \X Nat : <<x[1], x[2]>> \in P /\ At(f[x[1]][x[2]], x[3], W)}

\* What a peer sends, by receiver and place, of the same kind.
Sent(n, out, P, W) == {x \in Peers \X Nat : <<n, x[1]>> \in P /\ At(out[x[1]], x[2], W)}

AnyMessage == NodeMessage \cup ClientMessage

\* n sends out, having taken the oldest message from q or not; nothing it
\* sends to itself is one of W.
Moves(n, q, took, out, W) ==
    /\ net \in [Peers -> [Peers -> Seq(AnyMessage)]]
    /\ n \in Peers /\ q \in Peers
    /\ took \in {0, 1} /\ (took = 1 => net[q][n] # <<>>)
    /\ out \in [Peers -> Seq(AnyMessage)]
    /\ q = n => \A i \in Nat : ~At(out[n], i, W)
    /\ net' = [a \in Peers |-> [b \in Peers |->
                 IF took = 1 /\ a = q /\ b = n THEN Tail(net[a][b])
                 ELSE IF a = n THEN net[a][b] \o out[b]
                 ELSE net[a][b]]]

\* Taking a message takes one spot off, if the message is one of W, and
\* sending adds those of what is sent.
LEMMA MovedSpots ==
  ASSUME NEW n, NEW q, NEW took, NEW out, NEW P, NEW W, Moves(n, q, took, out, W),
         IsFiniteSet(Spots(net, P, W)), IsFiniteSet(Sent(n, out, P, W))
  PROVE  /\ IsFiniteSet(Spots(net', P, W))
         /\ Cardinality(Spots(net', P, W)) =
               Cardinality(Spots(net, P, W)) + Cardinality(Sent(n, out, P, W))
                 - (IF took = 1 /\ <<q, n>> \in P /\ Head(net[q][n]) \in W THEN 1 ELSE 0)
<1>0. /\ net \in [Peers -> [Peers -> Seq(AnyMessage)]]
      /\ n \in Peers /\ q \in Peers
      /\ took \in {0, 1} /\ (took = 1 => net[q][n] # <<>>)
      /\ out \in [Peers -> Seq(AnyMessage)]
      /\ q = n => \A i \in Nat : ~At(out[n], i, W)
  BY DEF Moves
<1> USE <1>0
<1> DEFINE old == Spots(net, P, W)
           new == Spots(net', P, W)
           sent == Sent(n, out, P, W)
           kept == IF took = 1 THEN old \ {<<q, n, 1>>} ELSE old
           added == {x \in new : x[1] = n /\ ~(took = 1 /\ x[1] = q /\ x[2] = n) /\ x[3] > Len(net[n][x[2]])}
           move == [x \in kept |-> IF took = 1 /\ x[1] = q /\ x[2] = n THEN <<q, n, x[3] - 1>> ELSE x]
           put == [x \in sent |-> <<n, x[1], Len(net[n][x[1]]) + x[2]>>]
<1>1. ASSUME NEW a \in Peers, NEW b \in Peers
      PROVE  /\ net[a][b] \in Seq(AnyMessage) /\ Len(net[a][b]) \in Nat /\ out[b] \in Seq(AnyMessage)
             /\ net'[a][b] = IF took = 1 /\ a = q /\ b = n THEN Tail(net[a][b])
                             ELSE IF a = n THEN net[a][b] \o out[b]
                             ELSE net[a][b]
  BY LenProperties DEF Moves
<1>5. ASSUME NEW a \in Peers, NEW b \in Peers, NEW i \in Nat
      PROVE  /\ <<a, b, i>> \in old <=> <<a, b>> \in P /\ At(net[a][b], i, W)
             /\ <<a, b, i>> \in new <=> <<a, b>> \in P /\ At(net'[a][b], i, W)
             /\ <<b, i>> \in sent <=> <<n, b>> \in P /\ At(out[b], i, W)
  BY DEF Spots, Sent
<1>6. /\ \A x \in old \cup new : \E a, b \in Peers, i \in Nat : x = <<a, b, i>>
      /\ \A x \in sent : \E b \in Peers, i \in Nat : x = <<b, i>>
  BY DEF Spots, Sent
<1> HIDE DEF old, new, sent
<1>7. IsFiniteSet(kept) /\ Cardinality(kept) = Cardinality(old)
                              - (IF took = 1 /\ <<q, n>> \in P /\ Head(net[q][n]) \in W THEN 1 ELSE 0)
  <2>1. net[q][n] \in Seq(AnyMessage) /\ <<q, n, 1>> \in old <=> <<q, n>> \in P /\ At(net[q][n], 1, W)
    BY <1>1, <1>5
  <2>2. took = 1 => (At(net[q][n], 1, W) <=> Head(net[q][n]) \in W)
    BY <1>1, AtPlaces
  <2>3. IsFiniteSet(old) /\ Cardinality(old) \in Nat
    BY FS_CardinalityType DEF old
  <2>4. /\ IsFiniteSet(kept)
        /\ Cardinality(kept) = IF took = 1 /\ <<q, n, 1>> \in old THEN Cardinality(old) - 1
                               ELSE Cardinality(old)
    <3>1. CASE took = 1
      BY <2>3, <3>1, FS_RemoveElement
    <3>2. CASE took = 0
      BY <2>3, <3>2
    <3> QED BY <3>1, <3>2
  <2> HIDE DEF kept
  <2> QED BY <2>1, <2>2, <2>3, <2>4
<1> DEFINE stay == new \ added
<1>8. ASSUME NEW a \in Peers, NEW b \in Peers, NEW i \in Nat
      PROVE  /\ <<a, b, i>> \in added <=> /\ a = n /\ ~(took = 1 /\ a = q /\ b = n) /\ i > Len(net[n][b])
                                          /\ <<b, i - Len(net[n][b])>> \in sent
             /\ <<a, b, i>> \in stay <=> IF took = 1 /\ a = q /\ b = n THEN <<a, b, i + 1>> \in kept /\ i # 0
                                         ELSE <<a, b, i>> \in kept
  <2>1. CASE took = 1 /\ a = q /\ b = n
    <3>1. At(net'[a][b], i, W) <=> i # 0 /\ At(net[a][b], i + 1, W)
      BY <1>1, <2>1, AtPlaces
    <3>2. <<a, b, i>> \in new <=> <<a, b>> \in P /\ At(net'[a][b], i, W)
      BY <1>5
    <3>4. i + 1 \in Nat
      OBVIOUS
    <3>5. <<a, b, i + 1>> \in old <=> <<a, b>> \in P /\ At(net[a][b], i + 1, W)
      BY <1>5, <3>4
    <3>3. i # 0 => <<a, b, i + 1>> # <<q, n, 1>>
      OBVIOUS
    <3> QED BY <2>1, <3>1, <3>2, <3>3, <3>5
  <2>2. CASE ~(took = 1 /\ a = q /\ b = n) /\ a = n
    <3>1. net'[a][b] = net[a][b] \o out[b] /\ net[n][b] \in Seq(AnyMessage) /\ out[b] \in Seq(AnyMessage)
      BY <1>1, <2>2
    <3>2. Len(net[n][b]) \in Nat
      BY <1>1
    <3>3. CASE i > Len(net[n][b])
      <4>1. i - Len(net[n][b]) \in Nat
        BY <3>2, <3>3
      <4>2. At(net'[a][b], i, W) <=> At(out[b], i - Len(net[n][b]), W)
        BY <2>2, <3>1, <3>3, AtPlaces
      <4>3. <<a, b, i>> \in new <=> <<b, i - Len(net[n][b])>> \in sent
        BY <1>5, <2>2, <4>1, <4>2
      <4>6. At(net[n][b], i, W) => i <= Len(net[n][b])
        BY <3>1, AtPlaces
      <4>4. ~At(net[n][b], i, W)
        BY <3>2, <3>3, <4>6
      <4>5. <<a, b, i>> \notin old
        BY <1>5, <2>2, <4>4
      <4> QED BY <2>2, <3>3, <4>3, <4>5
    <3>4. CASE ~(i > Len(net[n][b]))
      <4>1. i <= Len(net[n][b])
        BY <3>2, <3>4
      <4>2. At(net'[a][b], i, W) <=> At(net[a][b], i, W)
        BY <2>2, <3>1, <4>1, AtPlaces
      <4>3. <<a, b, i>> \in new <=> <<a, b, i>> \in old
        BY <1>5, <4>2
      <4> QED BY <2>2, <3>4, <4>3
    <3> QED BY <3>3, <3>4
  <2>3. CASE ~(took = 1 /\ a = q /\ b = n) /\ a # n
    <3>1. net'[a][b] = net[a][b]
      BY <1>1, <2>3
    <3>2. <<a, b, i>> \in new <=> <<a, b, i>> \in old
      BY <1>5, <3>1
    <3> QED BY <2>3, <3>2
  <2> QED BY <2>1, <2>2, <2>3
<1>9. /\ \A x \in stay \cup kept \cup added : \E a, b \in Peers, i \in Nat : x = <<a, b, i>>
      /\ \A x \in kept : took = 1 /\ x[1] = q /\ x[2] = n => x[3] # 0 /\ x[3] # 1
  <2>1. ASSUME NEW i \in Nat, took = 1, <<q, n, i>> \in kept PROVE i # 0 /\ i # 1
    <3>1. net[q][n] \in Seq(AnyMessage) /\ At(net[q][n], i, W)
      BY <1>1, <1>5, <2>1
    <3>2. i # 0
      BY <3>1, AtPlaces
    <3> QED BY <2>1, <3>2
  <2>2. \A x \in stay \cup kept \cup added : x \in old \cup new
    OBVIOUS
  <2> HIDE DEF stay, kept, added
  <2>3. \A x \in stay \cup kept \cup added : \E a, b \in Peers, i \in Nat : x = <<a, b, i>>
    BY <1>6, <2>2
  <2>4. ASSUME NEW x \in kept, took = 1 /\ x[1] = q /\ x[2] = n PROVE x[3] # 0 /\ x[3] # 1
    <3>1. PICK a \in Peers, b \in Peers, i \in Nat : x = <<a, b, i>>
      BY <2>3
    <3>2. took = 1 /\ a = q /\ b = n /\ x[3] = i
      BY <2>4, <3>1
    <3> QED BY <2>1, <3>1, <3>2
  <2> QED BY <2>3, <2>4
<1>10. IsFiniteSet(stay) /\ Cardinality(stay) = Cardinality(kept)
  <2> HIDE DEF stay, kept
  <2>1. move \in [kept -> stay]
    <3> SUFFICES ASSUME NEW x \in kept PROVE move[x] \in stay
      OBVIOUS
    <3>1. PICK a \in Peers, b \in Peers, i \in Nat : x = <<a, b, i>>
      BY <1>9
    <3>2. CASE took = 1 /\ a = q /\ b = n
      <4>0. took = 1 /\ x[1] = q /\ x[2] = n /\ x[3] = i
        BY <3>1, <3>2
      <4>3. i # 0 /\ i # 1
        BY <1>9, <4>0
      <4>1. i # 0 /\ i - 1 \in Nat /\ (i - 1) + 1 = i /\ i - 1 # 0
        BY <4>3
      <4>2. move[x] = <<q, n, i - 1>>
        BY <3>1, <3>2
      <4> QED BY <1>8, <3>1, <3>2, <4>1, <4>2
    <3>3. CASE ~(took = 1 /\ a = q /\ b = n)
      BY <1>8, <3>1, <3>3
    <3> QED BY <3>2, <3>3
  <2>4. ASSUME NEW a \in Peers, NEW b \in Peers, NEW i \in Nat, <<a, b, i>> \in kept
        PROVE  move[<<a, b, i>>] = <<a, b, IF took = 1 /\ a = q /\ b = n THEN i - 1 ELSE i>>
    BY <2>4
  <2>5. \A x \in kept : move[x] = IF took = 1 /\ x[1] = q /\ x[2] = n THEN <<q, n, x[3] - 1>> ELSE x
    OBVIOUS
  <2> HIDE DEF move
  <2>2. ASSUME NEW x \in kept, NEW y \in kept, move[x] = move[y] PROVE x = y
    <3>1. PICK a \in Peers, b \in Peers, i \in Nat : x = <<a, b, i>>
      BY <1>9
    <3>2. PICK c \in Peers, d \in Peers, j \in Nat : y = <<c, d, j>>
      BY <1>9
    <3>4. /\ move[x] = <<a, b, IF took = 1 /\ a = q /\ b = n THEN i - 1 ELSE i>>
          /\ move[y] = <<c, d, IF took = 1 /\ c = q /\ d = n THEN j - 1 ELSE j>>
      BY <2>4, <3>1, <3>2
    <3> DEFINE I == IF took = 1 /\ a = q /\ b = n THEN i - 1 ELSE i
               J == IF took = 1 /\ c = q /\ d = n THEN j - 1 ELSE j
    <3> HIDE DEF I, J
    <3>3. move[x] = <<a, b, I>> /\ move[y] = <<c, d, J>>
      BY <3>4 DEF I, J
    <3>6. <<a, b, I>> = <<c, d, J>>
      BY <2>2, <3>3
    <3>5. a = c /\ b = d /\ I = J
      BY <3>6
    <3>7. i = j
      BY <3>5 DEF I, J
    <3> QED BY <3>1, <3>2, <3>5, <3>7
  <2>3. ASSUME NEW t \in stay PROVE \E x \in kept : move[x] = t
    <3>1. PICK a \in Peers, b \in Peers, i \in Nat : t = <<a, b, i>>
      BY <1>9
    <3>2. CASE took = 1 /\ a = q /\ b = n
      <4>1. <<q, n, i + 1>> \in kept
        BY <1>8, <3>1, <3>2
      <4>2. i = (i + 1) - 1 /\ t = <<q, n, i>>
        BY <3>1, <3>2
      <4>3. move[<<q, n, i + 1>>] = <<q, n, (i + 1) - 1>>
        BY <2>5, <3>2, <4>1
      <4> QED BY <4>1, <4>2, <4>3
    <3>3. CASE ~(took = 1 /\ a = q /\ b = n)
      <4>1. t \in kept
        BY <1>8, <3>1, <3>3
      <4> QED BY <2>5, <3>1, <3>3, <4>1
    <3> QED BY <3>2, <3>3
  <2> QED BY <1>7, <2>1, <2>2, <2>3, SameSize
<1>11. IsFiniteSet(added) /\ Cardinality(added) = Cardinality(sent)
  <2> HIDE DEF added
  <2>1. ASSUME NEW b \in Peers, NEW i \in Nat, <<b, i>> \in sent
        PROVE  /\ Len(net[n][b]) \in Nat
               /\ <<n, b, Len(net[n][b]) + i>> \in added /\ (took = 1 => ~(b = n /\ q = n))
    <3> DEFINE l == Len(net[n][b])
    <3>0. out[b] \in Seq(AnyMessage) /\ At(out[b], i, W) /\ l \in Nat
      BY <1>1, <1>5, <2>1
    <3>1. i > 0 /\ l \in Nat
      BY <3>0, AtPlaces
    <3>2. (took = 1 => ~(b = n /\ q = n))
      BY <3>0
    <3>3. l + i \in Nat /\ (l + i) - l = i /\ l + i > l
      BY <3>1
    <3> HIDE DEF l
    <3> QED BY <1>8, <2>1, <3>1, <3>2, <3>3 DEF l
  <2>2. put \in [sent -> added]
    <3> SUFFICES ASSUME NEW x \in sent PROVE put[x] \in added
      OBVIOUS
    <3>1. PICK b \in Peers, i \in Nat : x = <<b, i>>
      BY <1>6
    <3>2. put[x] = <<n, b, Len(net[n][b]) + i>>
      BY <3>1
    <3> QED BY <2>1, <3>1, <3>2
  <2>3. ASSUME NEW x \in sent, NEW y \in sent, put[x] = put[y] PROVE x = y
    <3>1. PICK b \in Peers, i \in Nat : x = <<b, i>>
      BY <1>6
    <3>2. PICK d \in Peers, j \in Nat : y = <<d, j>>
      BY <1>6
    <3>3. <<n, b, Len(net[n][b]) + i>> = <<n, d, Len(net[n][d]) + j>>
      BY <2>3, <3>1, <3>2
    <3>4. b = d /\ Len(net[n][b]) + i = Len(net[n][b]) + j /\ Len(net[n][b]) \in Nat
      BY <1>1, <3>3
    <3> QED BY <3>1, <3>2, <3>4
  <2>4. ASSUME NEW t \in added PROVE \E x \in sent : put[x] = t
    <3>1. PICK a \in Peers, b \in Peers, i \in Nat : t = <<a, b, i>>
      BY <1>9
    <3>2. a = n /\ <<b, i - Len(net[n][b])>> \in sent
      BY <1>8, <3>1
    <3>3. Len(net[n][b]) \in Nat /\ i = Len(net[n][b]) + (i - Len(net[n][b]))
      BY <1>1
    <3> QED BY <3>1, <3>2, <3>3
  <2> HIDE DEF put
  <2> QED BY <2>2, <2>3, <2>4, SameSize DEF sent
<1>12. new = stay \cup added /\ stay \cap added = {}
  OBVIOUS
<1>13. /\ Cardinality(old) \in Nat /\ Cardinality(sent) \in Nat
       /\ Cardinality(stay) \in Nat /\ Cardinality(added) \in Nat
  BY <1>10, <1>11, FS_CardinalityType DEF old, sent
<1> HIDE DEF stay, added, kept
<1>14. IsFiniteSet(new) /\ Cardinality(new) = Cardinality(stay) + Cardinality(added)
  BY <1>10, <1>11, <1>12, <1>13, SizesAdd
<1> QED BY <1>7, <1>10, <1>11, <1>13, <1>14 DEF old, new, sent

----------------------------------------------------------------------------
(* Messages on their way to one node.                                      *)

OfType(type) == {m \in NodeMessage \cup ClientMessage : m.type = type}

\* The spots of the messages of a type on their way to k.
Coming(f, k, type) == Spots(f, Peers \X {k}, OfType(type))

\* They are the messages in flight.
LEMMA ComingInFlight ==
  ASSUME net \in Channels(NodeMessage, ClientMessage), NEW k \in Peers, NEW type,
         IsFiniteSet(Coming(net, k, type))
  PROVE  /\ IsFiniteSet(InFlight(k, type))
         /\ Cardinality(InFlight(k, type)) = Cardinality(Coming(net, k, type))
<1> DEFINE S == Coming(net, k, type)
           T == InFlight(k, type)
           f == [x \in S |-> <<x[1], x[3]>>]
<1>1. ASSUME NEW q \in Peers
      PROVE  /\ DOMAIN net[q][k] \subseteq Nat
             /\ \A i \in DOMAIN net[q][k] : net[q][k][i] \in NodeMessage \cup ClientMessage
  <2>1. net[q][k] \in Seq(NodeMessage \cup ClientMessage)
    BY DEF Channels
  <2> QED BY <2>1, LenProperties, ElementOfSeq
<1>2. ASSUME NEW q \in Peers, NEW i \in Nat
      PROVE  /\ <<q, k, i>> \in S <=> i \in DOMAIN net[q][k] /\ net[q][k][i].type = type
             /\ <<q, i>> \in T <=> i \in DOMAIN net[q][k] /\ net[q][k][i].type = type
  <2>1. <<q, k, i>> \in S <=> At(net[q][k], i, OfType(type))
    BY DEF Coming, Spots
  <2>2. <<q, i>> \in T <=> i \in DOMAIN net[q][k] /\ net[q][k][i].type = type
    BY DEF InFlight
  <2> QED BY <1>1, <2>1, <2>2 DEF At, OfType
<1>3. /\ \A x \in S : \E q \in Peers, i \in Nat : x = <<q, k, i>>
      /\ \A x \in T : \E q \in Peers, i \in Nat : x = <<q, i>>
  <2>1. \A x \in S : \E q \in Peers, i \in Nat : x = <<q, k, i>>
    BY DEF Coming, Spots
  <2>2. ASSUME NEW x \in T PROVE \E q \in Peers, i \in Nat : x = <<q, i>>
    <3>1. PICK q \in Peers : x \in {<<q, i>> : i \in {j \in DOMAIN net[q][k] : net[q][k][j].type = type}}
      BY DEF InFlight
    <3> QED BY <1>1, <3>1
  <2> QED BY <2>1, <2>2
<1> HIDE DEF S, T
<1>4. ASSUME NEW q \in Peers, NEW i \in Nat, <<q, k, i>> \in S PROVE f[<<q, k, i>>] = <<q, i>>
  BY <1>4
<1>5. f \in [S -> T]
  <2> SUFFICES ASSUME NEW x \in S PROVE f[x] \in T
    OBVIOUS
  <2> HIDE DEF f
  <2>1. PICK q \in Peers, i \in Nat : x = <<q, k, i>>
    BY <1>3
  <2> QED BY <1>2, <1>4, <2>1
<1> HIDE DEF f
<1>6. ASSUME NEW x \in S, NEW y \in S, f[x] = f[y] PROVE x = y
  <2>1. PICK q \in Peers, i \in Nat : x = <<q, k, i>>
    BY <1>3
  <2>2. PICK r \in Peers, j \in Nat : y = <<r, k, j>>
    BY <1>3
  <2>3. <<q, i>> = <<r, j>>
    BY <1>4, <1>6, <2>1, <2>2
  <2> QED BY <2>1, <2>2, <2>3
<1>7. ASSUME NEW t \in T PROVE \E x \in S : f[x] = t
  <2>1. PICK q \in Peers, i \in Nat : t = <<q, i>>
    BY <1>3
  <2>2. <<q, k, i>> \in S
    BY <1>2, <2>1
  <2> QED BY <1>4, <2>1, <2>2
<1>8. IsFiniteSet(S)
  BY DEF S
<1>9. IsFiniteSet(T) /\ Cardinality(T) = Cardinality(S)
  BY <1>5, <1>6, <1>7, <1>8, SameSize
<1> QED BY <1>9 DEF S, T

\* Of out, k gets at most one message of the kind W, as its first.
Puts(k, out, W, one) ==
    one \in {0, 1} /\ \A i \in Nat : At(out[k], i, W) <=> i = 1 /\ one = 1

LEMMA SentToOne ==
  ASSUME NEW n \in Peers, NEW k \in Peers, NEW out, NEW W, NEW one, Puts(k, out, W, one)
  PROVE  /\ IsFiniteSet(Sent(n, out, Peers \X {k}, W))
         /\ Cardinality(Sent(n, out, Peers \X {k}, W)) = one
<1>1. Sent(n, out, Peers \X {k}, W) = {<<k, i>> : i \in {j \in Nat : At(out[k], j, W)}}
  BY DEF Sent
<1>2. IsFiniteSet({}) /\ Cardinality({}) = 0
  BY FS_EmptySet
<1>3. IsFiniteSet({<<k, 1>>}) /\ Cardinality({<<k, 1>>}) = 1
  BY FS_Singleton
<1>4. ASSUME one = 0 PROVE Sent(n, out, Peers \X {k}, W) = {}
  BY <1>1, <1>4 DEF Puts
<1>5. ASSUME one = 1 PROVE Sent(n, out, Peers \X {k}, W) = {<<k, 1>>}
  BY <1>1, <1>5 DEF Puts
<1> QED BY <1>2, <1>3, <1>4, <1>5 DEF Puts

----------------------------------------------------------------------------
(* What a step of a node means to the queues.                              *)

Close == OfType("MsgNextRequest")

\* n sends no close, or sends one to every other node.
Quiet(out) ==
    out \in [Peers -> Seq(NodeMessage)] /\ \A b \in Peers : \A i \in Nat : ~At(out[b], i, Close)

Closes(n, out) ==
    /\ out \in [Peers -> Seq(NodeMessage)]
    /\ \A b \in Peers : \A i \in Nat : At(out[b], i, Close) <=> i = 1 /\ b \in Nodes \ {n}

\* Nothing, a message of another type, and two quiet sends in a row.
LEMMA QuietSends ==
  /\ Quiet(Nothing)
  /\ \A S : \A m \in NodeMessage : m.type # "MsgNextRequest" => Quiet(To(S, m))
  /\ \A f, g : Quiet(f) /\ Quiet(g) => Quiet(Then(f, g))
<1>1. Quiet(Nothing)
  <2>1. \A b \in Peers : Nothing[b] = <<>>
    BY DEF Nothing
  <2> QED BY <2>1, NothingSent DEF Quiet, At
<1>2. ASSUME NEW S, NEW m \in NodeMessage, m.type # "MsgNextRequest" PROVE Quiet(To(S, m))
  <2>1. ASSUME NEW b \in Peers, NEW i \in Nat PROVE ~At(To(S, m)[b], i, Close)
    <3>1. To(S, m)[b] = IF b \in S THEN <<m>> ELSE <<>>
      BY DEF To
    <3>2. i \in DOMAIN To(S, m)[b] => To(S, m)[b][i] = m
      BY <3>1
    <3> QED BY <1>2, <3>2 DEF At, Close, OfType
  <2> QED BY <2>1, ToSent DEF Quiet
<1>3. ASSUME NEW f, NEW g, Quiet(f), Quiet(g) PROVE Quiet(Then(f, g))
  <2>1. f \in [Peers -> Seq(NodeMessage)] /\ g \in [Peers -> Seq(NodeMessage)]
    BY <1>3 DEF Quiet
  <2>2. ASSUME NEW b \in Peers, NEW i \in Nat PROVE ~At(Then(f, g)[b], i, Close)
    <3>1. f[b] \in Seq(NodeMessage) /\ g[b] \in Seq(NodeMessage) /\ Then(f, g)[b] = f[b] \o g[b]
      BY <2>1 DEF Then
    <3>2. Len(f[b]) \in Nat
      BY <3>1, LenProperties
    <3>3. CASE i <= Len(f[b])
      BY <1>3, <3>1, <3>3, AtPlaces DEF Quiet
    <3>4. CASE i > Len(f[b])
      <4>1. i - Len(f[b]) \in Nat
        BY <3>2, <3>4
      <4> QED BY <1>3, <3>1, <3>4, <4>1, AtPlaces DEF Quiet
    <3> QED BY <3>2, <3>3, <3>4
  <2> QED BY <2>1, <2>2, ThenSent DEF Quiet
<1> QED BY <1>1, <1>2, <1>3

\* The lead's proposal is quiet, and what closes a round closes it at every
\* other node.
LEMMA ClosingSends ==
  ASSUME orderNumber \in Nat, NEW n \in Nodes, NEW q \in Seq(Entry)
  PROVE  Quiet(Proposal(n, q)) /\ Closes(n, Then(NextRequest(n), Proposal(n, q)))
<1> DEFINE m == [type |-> "MsgPrimaryConsensus", order |-> orderNumber + 1,
                 signature |-> Sign(n, orderNumber + 1, Head(q).message)]
           k == [type |-> "MsgNextRequest"]
<1>1. Proposal(n, q) \in [Peers -> Seq(NodeMessage)]
  BY ProposalSent DEF RoundMessage, NodeMessage
<1>2. Quiet(Proposal(n, q))
  <2>1. CASE q # <<>> /\ primaryGroup'[randomValue'] = n
    <3>1. Proposal(n, q) = To(Members(primaryGroup') \ {n}, m)
      BY <2>1 DEF Proposal
    <3>2. m.type # "MsgNextRequest"
      OBVIOUS
    <3>3. Sign(n, orderNumber + 1, Head(q).message) \in PeerSignature
      <4>1. Head(q) \in Entry
        BY <2>1
      <4>2. Head(q).message \in Texts
        BY <4>1 DEF Entry, Texts
      <4> QED BY <4>2, PeerSigned
    <3>4. m \in [type : {"MsgPrimaryConsensus"}, order : Nat, signature : PeerSignature]
      BY <3>3
    <3>5. m \in NodeMessage
      BY <3>4 DEF NodeMessage
    <3> HIDE DEF m
    <3> QED BY <3>1, <3>2, <3>5, QuietSends
  <2>2. CASE ~(q # <<>> /\ primaryGroup'[randomValue'] = n)
    BY <2>2, QuietSends DEF Proposal
  <2> QED BY <2>1, <2>2
<1>3. k \in NodeMessage /\ k \in Close
  <2>1. k \in NodeMessage
    BY DEF NodeMessage
  <2> QED BY <2>1 DEF Close, OfType
<1> HIDE DEF k
<1>4. NextRequest(n) = To(Nodes \ {n}, k)
  BY DEF NextRequest, k
<1>5. NextRequest(n) \in [Peers -> Seq(NodeMessage)]
  BY <1>3, <1>4, ToSent
<1>6. ASSUME NEW b \in Peers, NEW i \in Nat
      PROVE  At(Then(NextRequest(n), Proposal(n, q))[b], i, Close) <=> i = 1 /\ b \in Nodes \ {n}
  <2> DEFINE f == NextRequest(n)[b]
             g == Proposal(n, q)[b]
  <2>1. /\ f \in Seq(NodeMessage) /\ g \in Seq(NodeMessage)
        /\ Then(NextRequest(n), Proposal(n, q))[b] = f \o g
    BY <1>1, <1>5 DEF Then
  <2>2. f = IF b \in Nodes \ {n} THEN <<k>> ELSE <<>>
    BY <1>4 DEF To
  <2>3. \A j \in Nat : ~At(g, j, Close)
    BY <1>2 DEF Quiet
  <2> HIDE DEF f, g
  <2>4. CASE b \in Nodes \ {n}
    <3>1. Len(f) = 1
      BY <2>2, <2>4
    <3>2. At(f, i, Close) <=> i = 1
      BY <1>3, <2>2, <2>4 DEF At
    <3>3. CASE i <= 1
      BY <2>1, <2>4, <3>1, <3>2, <3>3, AtPlaces
    <3>4. CASE i > 1
      <4>1. i - 1 \in Nat
        BY <3>4
      <4>2. i > Len(f)
        BY <3>1, <3>4
      <4>3. At(f \o g, i, Close) <=> At(g, i - Len(f), Close)
        BY <2>1, <4>2, AtPlaces
      <4> QED BY <2>1, <2>3, <3>1, <3>4, <4>1, <4>3
    <3> QED BY <3>3, <3>4
  <2>5. CASE b \notin Nodes \ {n}
    <3>1. f \o g = g
      BY <2>1, <2>2, <2>5, ConcatEmptySeq
    <3> QED BY <2>1, <2>3, <2>5, <3>1
  <2> QED BY <2>4, <2>5
<1> QED BY <1>1, <1>2, <1>5, <1>6, ThenSent DEF Closes

\* What handling m from q does to the queue of n and to closes: a request
\* joins the queue; a close told by another node, or one decided here and
\* told to all others, takes its front; anything else leaves queues alone.
QueueStep(n, q) ==
    LET m == Head(net[q][n]) IN
    /\ net[q][n] # <<>>
    /\ \/ aborted' /\ UNCHANGED <<requestQueue, net>>
       \/ \E out \in [Peers -> Seq(NodeMessage)] :
             /\ Handle(n, q, out)
             /\ \/ /\ m.type = "MsgGroup" /\ q \in Clients /\ m \in ClientMessage
                   /\ Quiet(out)
                   /\ requestQueue' = [requestQueue EXCEPT ![n] =
                         Append(@, [client |-> q, message |-> m.message])]
                \/ /\ m.type \notin {"MsgGroup", "MsgNextRequest"}
                   /\ CloseRound(n, q) /\ Closes(n, out)
                   /\ requestQueue[n] # <<>>
                   /\ requestQueue' = [requestQueue EXCEPT ![n] = Tail(@)]
                \/ /\ m.type = "MsgNextRequest"
                   /\ Quiet(out)
                   /\ requestQueue[n] # <<>>
                   /\ requestQueue' = [requestQueue EXCEPT ![n] = Tail(@)]
                \/ /\ m.type \notin {"MsgGroup", "MsgNextRequest"}
                   /\ Quiet(out)
                   /\ UNCHANGED requestQueue

\* Every step of a node is one of these.
LEMMA NodeQueueStep ==
  ASSUME TypeOK, NEW n \in Nodes, NEW q \in Peers, Node(n, q)
  PROVE  QueueStep(n, q)
<1> DEFINE m == Head(net[q][n])
           Usual == \E out : Handle(n, q, out) /\ Quiet(out) /\ UNCHANGED requestQueue
<1>0. /\ NodeTypes /\ net \in Channels(NodeMessage, ClientMessage) /\ n \in Peers
      /\ orderNumber \in Nat /\ groupKey \in Nat /\ client_request[n] \in Texts
      /\ requestQueue[n] \in Seq(Entry) /\ requestQueue \in [Nodes -> Seq(Entry)]
  BY TypeParts DEF TypeOK, Peers
<1>1. net[q][n] # <<>>
  BY DEF Node, group_request_handler, primary_consensus_handler, primary_verified_handler,
     preprepare_handler, prepare_handler, send_reply_handler, ack_handler,
     process_next_request, Arrives
<1>2. (q \in Nodes => m \in NodeMessage) /\ (q \in Clients => m \in ClientMessage)
  BY <1>0, <1>1, HeadOnChannel
<1>3. ASSUME m.type \notin {"MsgGroup", "MsgNextRequest"}, Usual PROVE QueueStep(n, q)
  BY <1>1, <1>3 DEF QueueStep, Quiet
<1>4. ASSUME m.type \notin {"MsgGroup", "MsgNextRequest"}, CloseRound(n, q) PROVE QueueStep(n, q)
  <2> DEFINE rest == Tail(requestQueue[n])
             out == Then(NextRequest(n), Proposal(n, rest))
  <2>1. CASE requestQueue[n] # <<>> /\ Process(n, rest, Empty) /\ Handle(n, q, out)
    <3>1. rest \in Seq(Entry)
      BY <1>0, <2>1
    <3>2. Closes(n, out)
      BY <1>0, <3>1, ClosingSends
    <3>3. requestQueue' = [requestQueue EXCEPT ![n] = Tail(@)]
      BY <1>0, <2>1 DEF Process
    <3> HIDE DEF out, rest
    <3> QED BY <1>1, <1>4, <2>1, <3>2, <3>3 DEF QueueStep, Closes
  <2>2. CASE aborted' = TRUE /\ UNCHANGED <<nodeVars, net>>
    BY <1>1, <2>2 DEF QueueStep, nodeVars
  <2> QED BY <1>4, <2>1, <2>2 DEF CloseRound
<1> HIDE DEF Usual
<1>5. CASE group_request_handler(n, q)
  <2> DEFINE queue == Enqueue(requestQueue[n], [client |-> q, message |-> m.message])
  <2>1. m.type = "MsgGroup"
    BY <1>5 DEF group_request_handler, Arrives
  <2>2. m \in ClientMessage /\ m.message \in Requests /\ q \in Clients
    BY <1>2, <2>1, NodeMessageFields, ClientMessageFields DEF Peers
  <2>3. queue \in Seq(Entry)
    BY <1>0, <2>2, EnqueuedTypes
  <2>4. queue = Append(requestQueue[n], [client |-> q, message |-> m.message])
    BY DEF Enqueue
  <2>5. /\ Handle(n, q, Nothing) \/ Handle(n, q, Proposal(n, queue))
        /\ requestQueue' = [requestQueue EXCEPT ![n] = queue]
    BY <1>5 DEF group_request_handler, Process
  <2> HIDE DEF queue
  <2>6. Quiet(Nothing) /\ Quiet(Proposal(n, queue))
    BY <1>0, <2>3, QuietSends, ClosingSends
  <2>7. \E out : Handle(n, q, out) /\ Quiet(out)
    BY <2>5, <2>6
  <2>8. requestQueue' = [requestQueue EXCEPT ![n] = Append(@, [client |-> q, message |-> m.message])]
    BY <1>0, <2>4, <2>5
  <2> HIDE DEF m
  <2> QED BY <1>1, <2>1, <2>2, <2>7, <2>8 DEF QueueStep, Quiet, m
<1>6. CASE primary_consensus_handler(n, q)
  <2> DEFINE k == [type |-> "MsgPrimaryVerified",
                   verified |-> VerifySignature(m.order, client_request[n], m.signature, q)]
  <2>1. m.type = "MsgPrimaryConsensus" /\ Handle(n, q, To({q}, k)) /\ UNCHANGED requestQueue
    BY <1>6 DEF primary_consensus_handler, Arrives, nodeVars
  <2>2. k \in NodeMessage /\ k.type # "MsgNextRequest"
    BY DEF NodeMessage, VerifySignature
  <2> HIDE DEF k
  <2>3. Quiet(To({q}, k))
    BY <2>2, QuietSends
  <2>4. Usual
    BY <2>1, <2>3 DEF Usual
  <2> QED BY <1>3, <2>1, <2>4
<1>7. CASE primary_verified_handler(n, q)
  <2> DEFINE k == [type |-> "MsgPreprepare", order |-> orderNumber,
                   signature |-> Sign(groupKey, orderNumber, client_request[n])]
             S == Members(consensusGroup) \ Members(primaryGroup)
  <2>1. /\ m.type = "MsgPrimaryVerified"
        /\ \/ UNCHANGED requestQueue /\ Handle(n, q, To(S, k))
           \/ UNCHANGED requestQueue /\ Handle(n, q, Nothing)
           \/ CloseRound(n, q)
    BY <1>7 DEF primary_verified_handler, Arrives, nodeVars
  <2>2. Sign(groupKey, orderNumber, client_request[n]) \in GroupSignature
    BY <1>0, GroupSigned
  <2>3. k \in NodeMessage /\ k.type # "MsgNextRequest"
    BY <1>0, <2>2 DEF NodeMessage
  <2> HIDE DEF k, S
  <2>4. Quiet(To(S, k)) /\ Quiet(Nothing)
    BY <2>3, QuietSends
  <2>5. CloseRound(n, q) \/ Usual
    BY <2>1, <2>4 DEF Usual
  <2> QED BY <1>3, <1>4, <2>1, <2>5
<1>8. CASE preprepare_handler(n, q)
  <2> DEFINE k == [type |-> "MsgPrepare", order |-> m.order, groupSign |-> m.signature,
                   peerSign |-> Sign(n, m.order, client_request[n])]
             S == Members(consensusGroup) \ {n}
  <2>1. /\ m.type = "MsgPreprepare" /\ UNCHANGED requestQueue
        /\ Handle(n, q, To(S, k)) \/ Handle(n, q, Nothing)
    BY <1>8 DEF preprepare_handler, Arrives, nodeVars
  <2>2. m.order \in Nat /\ m.signature \in GroupSignature
    BY <1>2, <2>1, NodeMessageFields, ClientMessageFields DEF Peers
  <2>3. k \in NodeMessage /\ k.type # "MsgNextRequest"
    BY <1>0, <2>2, PeerSigned DEF NodeMessage
  <2> HIDE DEF k, S
  <2>4. Quiet(To(S, k)) /\ Quiet(Nothing)
    BY <2>3, QuietSends
  <2>5. Usual
    BY <2>1, <2>4 DEF Usual
  <2> QED BY <1>3, <2>1, <2>5
<1>9. ASSUME NEW order \in Nat, NEW result \in BOOLEAN PROVE Quiet(Reply(n, order, result))
  <2> DEFINE k == [type |-> "MsgReply", result |-> result, order |-> order]
  <2>1. k \in NodeMessage /\ k.type # "MsgNextRequest"
    BY DEF NodeMessage
  <2>2. Reply(n, order, result) = To({client_id[n]}, k)
    BY DEF Reply
  <2> HIDE DEF k
  <2> QED BY <2>1, <2>2, QuietSends
<1>10. CASE prepare_handler(n, q)
  <2> DEFINE k == [type |-> "MsgSend", sendReply |-> TRUE, order |-> m.order]
             S == Members(consensusGroup) \ {n}
  <2>1. /\ m.type = "MsgPrepare"
        /\ \/ UNCHANGED requestQueue /\ Handle(n, q, Then(To(S, k), Reply(n, m.order, TRUE)))
           \/ UNCHANGED requestQueue /\ Handle(n, q, Nothing)
           \/ CloseRound(n, q)
    BY <1>10 DEF prepare_handler, Arrives, nodeVars
  <2>2. m.order \in Nat
    BY <1>2, <2>1, NodeMessageFields, ClientMessageFields DEF Peers
  <2>3. k \in NodeMessage /\ k.type # "MsgNextRequest"
    BY <2>2 DEF NodeMessage
  <2>4. Quiet(Reply(n, m.order, TRUE))
    BY <1>9, <2>2
  <2> HIDE DEF k, S
  <2>5. Quiet(Then(To(S, k), Reply(n, m.order, TRUE))) /\ Quiet(Nothing)
    BY <2>3, <2>4, QuietSends
  <2>6. CloseRound(n, q) \/ Usual
    BY <2>1, <2>5 DEF Usual
  <2> QED BY <1>3, <1>4, <2>1, <2>6
<1>11. CASE send_reply_handler(n, q)
  <2>1. m.type = "MsgSend" /\ Handle(n, q, Reply(n, m.order, m.sendReply)) /\ UNCHANGED requestQueue
    BY <1>11 DEF send_reply_handler, Arrives, nodeVars
  <2>2. m.order \in Nat /\ m.sendReply \in BOOLEAN
    BY <1>2, <2>1, NodeMessageFields, ClientMessageFields DEF Peers
  <2>3. Quiet(Reply(n, m.order, m.sendReply))
    BY <1>9, <2>2
  <2>4. Usual
    BY <2>1, <2>3 DEF Usual
  <2> QED BY <1>3, <2>1, <2>4
<1>12. CASE ack_handler(n, q)
  <2>1. m.type = "MsgAck" /\ CloseRound(n, q)
    BY <1>12 DEF ack_handler, Arrives
  <2> QED BY <1>4, <2>1
<1>13. CASE process_next_request(n, q)
  <2> DEFINE rest == Tail(requestQueue[n])
  <2>1. m.type = "MsgNextRequest"
    BY <1>13 DEF process_next_request, Arrives
  <2>2. CASE requestQueue[n] # <<>> /\ Process(n, rest, Space) /\ Handle(n, q, Proposal(n, rest))
    <3>1. rest \in Seq(Entry)
      BY <1>0, <2>2
    <3>2. Quiet(Proposal(n, rest))
      BY <1>0, <3>1, ClosingSends
    <3>3. requestQueue' = [requestQueue EXCEPT ![n] = Tail(@)]
      BY <1>0, <2>2 DEF Process
    <3>4. requestQueue[n] # <<>> /\ \E out : Handle(n, q, out) /\ Quiet(out)
      BY <2>2, <3>2
    <3> HIDE DEF rest
    <3> QED BY <1>1, <2>1, <3>3, <3>4 DEF QueueStep, Quiet
  <2>3. CASE aborted' = TRUE /\ UNCHANGED <<nodeVars, net>>
    BY <1>1, <2>3 DEF QueueStep, nodeVars
  <2> QED BY <1>13, <2>2, <2>3 DEF process_next_request
<1> QED BY <1>5, <1>6, <1>7, <1>8, <1>10, <1>11, <1>12, <1>13 DEF Node

----------------------------------------------------------------------------
(* Closes are counted once.                                                *)

\* The set new has put more and taken fewer elements than old.
Balance(new, old, put, taken) == Cardinality(new) = Cardinality(old) + put - taken

Taken(n, q, k, took, type) ==
    IF took = 1 /\ n = k /\ Head(net[q][n]).type = type THEN 1 ELSE 0

\* What a step of n adds to the messages of a type on their way to k.
LEMMA MovedComing ==
  ASSUME NEW n, NEW q, NEW k \in Peers, NEW took, NEW out, NEW type,
         Moves(n, q, took, out, OfType(type)), IsFiniteSet(Coming(net, k, type)),
         NEW one, Puts(k, out, OfType(type), one)
  PROVE  /\ IsFiniteSet(Coming(net', k, type))
         /\ Balance(Coming(net', k, type), Coming(net, k, type), one, Taken(n, q, k, took, type))
<1> DEFINE P == Peers \X {k}
           W == OfType(type)
<1>1. /\ net \in [Peers -> [Peers -> Seq(AnyMessage)]]
      /\ n \in Peers /\ q \in Peers /\ took \in {0, 1} /\ (took = 1 => net[q][n] # <<>>)
  BY DEF Moves
<1> USE <1>1
<1>2. /\ IsFiniteSet(Sent(n, out, P, W))
      /\ Cardinality(Sent(n, out, P, W)) = one
  BY SentToOne
<1>3. IsFiniteSet(Spots(net, P, W))
  BY DEF Coming
<1>4. took = 1 => (Head(net[q][n]) \in W <=> Head(net[q][n]).type = type)
  <2>1. took = 1 => Head(net[q][n]) \in AnyMessage
    BY <1>1
  <2> QED BY <2>1 DEF OfType, AnyMessage
<1>5. Coming(net', k, type) = Spots(net', P, W) /\ Coming(net, k, type) = Spots(net, P, W)
  BY DEF Coming
<1>6. <<q, n>> \in P <=> n = k
  OBVIOUS
<1>8. Moves(n, q, took, out, W)
  OBVIOUS
<1> HIDE DEF P, W
<1>7. /\ IsFiniteSet(Spots(net', P, W))
      /\ Cardinality(Spots(net', P, W)) =
            Cardinality(Spots(net, P, W)) + Cardinality(Sent(n, out, P, W))
              - (IF took = 1 /\ <<q, n>> \in P /\ Head(net[q][n]) \in W THEN 1 ELSE 0)
  BY <1>2, <1>3, <1>8, MovedSpots
<1> QED BY <1>2, <1>4, <1>5, <1>6, <1>7 DEF Balance, Taken

Counted ==
    \A k \in Nodes : IsFiniteSet(Coming(net, k, "MsgGroup")) /\ IsFiniteSet(Coming(net, k, "MsgNextRequest"))

\* Open by spots, for given queues and channels.
Left(queue, f, k) == Len(queue[k]) + Cardinality(Coming(f, k, "MsgGroup"))
                        - Cardinality(Coming(f, k, "MsgNextRequest"))

\* No message of a node is a request; and messages of nodes are messages.
LEMMA NodesDoNotAsk ==
  ASSUME NEW out \in [Peers -> Seq(NodeMessage)]
  PROVE  /\ out \in [Peers -> Seq(NodeMessage \cup ClientMessage)]
         /\ \A b \in Peers : \A i \in Nat : ~At(out[b], i, OfType("MsgGroup"))
<1>1. out \in [Peers -> Seq(NodeMessage \cup ClientMessage)]
  <2>1. Seq(NodeMessage) \subseteq Seq(NodeMessage \cup ClientMessage)
    BY SeqMonotonic
  <2> QED BY <2>1
<1>2. ASSUME NEW b \in Peers, NEW i \in Nat, At(out[b], i, OfType("MsgGroup")) PROVE FALSE
  <2>1. out[b] \in Seq(NodeMessage)
    OBVIOUS
  <2>2. DOMAIN out[b] = 1..Len(out[b])
    BY <2>1, LenProperties
  <2>3. out[b][i] \in NodeMessage /\ out[b][i].type = "MsgGroup"
    BY <1>2, <2>1, <2>2, ElementOfSeq DEF At, OfType
  <2> QED BY <2>3, NodeMessageFields
<1> QED BY <1>1, <1>2

\* Whether n closes a round with what it sends.
Tells(n, out, closes) == IF closes = 1 THEN Closes(n, out) ELSE Quiet(out)

\* What is on its way to k after n has taken a message of the type and, if it
\* closes its round, told k.
Arrived(n, k, type, closes) ==
    /\ IsFiniteSet(Coming(net', k, "MsgGroup"))
    /\ IsFiniteSet(Coming(net', k, "MsgNextRequest"))
    /\ Cardinality(Coming(net', k, "MsgGroup")) = Cardinality(Coming(net, k, "MsgGroup"))
          - (IF n = k /\ type = "MsgGroup" THEN 1 ELSE 0)
    /\ Cardinality(Coming(net', k, "MsgNextRequest")) = Cardinality(Coming(net, k, "MsgNextRequest"))
          + (IF closes = 1 /\ n # k THEN 1 ELSE 0)
          - (IF n = k /\ type = "MsgNextRequest" THEN 1 ELSE 0)

\* How the messages on their way to k change when n handles one from q.
LEMMA NodeComing ==
  ASSUME TypeOK, Counted, NEW n \in Nodes, NEW q \in Peers, NEW k \in Nodes,
         net[q][n] # <<>>, NEW out \in [Peers -> Seq(NodeMessage)], Handle(n, q, out),
         NEW closes \in {0, 1}, Tells(n, out, closes)
  PROVE  Arrived(n, k, Head(net[q][n]).type, closes)
<1>1. /\ net \in Channels(NodeMessage, ClientMessage) /\ n \in Peers /\ k \in Peers
      /\ IsFiniteSet(Coming(net, k, "MsgGroup")) /\ IsFiniteSet(Coming(net, k, "MsgNextRequest"))
  BY DEF TypeOK, Peers, Counted
<1>2. net \in [Peers -> [Peers -> Seq(AnyMessage)]]
  BY <1>1 DEF Channels, AnyMessage
<1>3. /\ out \in [Peers -> Seq(NodeMessage \cup ClientMessage)]
      /\ \A b \in Peers : \A i \in Nat : ~At(out[b], i, OfType("MsgGroup"))
  BY NodesDoNotAsk
<1>4. \A b \in Peers : \A i \in Nat :
         At(out[b], i, OfType("MsgNextRequest")) <=> i = 1 /\ closes = 1 /\ b \in Nodes \ {n}
  BY DEF Closes, Quiet, Close, Tells
<1>5. /\ IsFiniteSet(Coming(net', k, "MsgGroup"))
      /\ Cardinality(Coming(net', k, "MsgGroup")) = Cardinality(Coming(net, k, "MsgGroup"))
               + 0
               - (IF n = k /\ Head(net[q][n]).type = "MsgGroup" THEN 1 ELSE 0)
  <2> DEFINE type == "MsgGroup"
             took == 1
             one == 0
  <2>1. Puts(k, out, OfType(type), one)
    BY <1>1, <1>3 DEF Puts
  <2>2. \A i \in Nat : ~At(out[n], i, OfType(type))
    BY <1>1, <1>3
  <2>3. Moves(n, q, took, out, OfType(type))
    BY <1>1, <1>2, <1>3, <2>2 DEF Handle, Moves, AnyMessage
  <2>5. IsFiniteSet(Coming(net, k, type))
    BY <1>1
  <2> HIDE DEF one, took, type
  <2>4. /\ IsFiniteSet(Coming(net', k, type))
        /\ Balance(Coming(net', k, type), Coming(net, k, type), one, Taken(n, q, k, took, type))
    BY <1>1, <2>1, <2>3, <2>5, MovedComing
  <2> QED BY <2>4 DEF one, took, type, Balance, Taken
<1>6. /\ IsFiniteSet(Coming(net', k, "MsgNextRequest"))
      /\ Cardinality(Coming(net', k, "MsgNextRequest")) = Cardinality(Coming(net, k, "MsgNextRequest"))
               + (IF closes = 1 /\ n # k THEN 1 ELSE 0)
               - (IF n = k /\ Head(net[q][n]).type = "MsgNextRequest" THEN 1 ELSE 0)
  <2> DEFINE type == "MsgNextRequest"
             took == 1
             one == IF closes = 1 /\ n # k THEN 1 ELSE 0
  <2>1. Puts(k, out, OfType(type), one)
    BY <1>1, <1>4 DEF Puts
  <2>2. \A i \in Nat : ~At(out[n], i, OfType(type))
    BY <1>1, <1>4
  <2>3. Moves(n, q, took, out, OfType(type))
    BY <1>1, <1>2, <1>3, <2>2 DEF Handle, Moves, AnyMessage
  <2>5. IsFiniteSet(Coming(net, k, type))
    BY <1>1
  <2> HIDE DEF one, took, type
  <2>4. /\ IsFiniteSet(Coming(net', k, type))
        /\ Balance(Coming(net', k, type), Coming(net, k, type), one, Taken(n, q, k, took, type))
    BY <1>1, <2>1, <2>3, <2>5, MovedComing
  <2> QED BY <2>4 DEF one, took, type, Balance, Taken
<1>7. /\ Cardinality(Coming(net, k, "MsgGroup")) \in Nat
      /\ Cardinality(Coming(net, k, "MsgNextRequest")) \in Nat
  BY <1>1, FS_CardinalityType
<1> QED BY <1>5, <1>6, <1>7 DEF Arrived

\* A client that sends one message m to the peers S puts it on the channels
\* to the nodes among them.
LEMMA SentPuts ==
  ASSUME NEW S, NEW m \in ClientMessage, NEW k \in Peers, NEW type, k \in S => m.type # type
  PROVE  /\ \A i \in Nat : ~At(To(S, m)[k], i, OfType(type))
         /\ Puts(k, To(S, m), OfType(type), 0)
<1>1. To(S, m)[k] = IF k \in S THEN <<m>> ELSE <<>>
  BY DEF To
<1>2. \A i \in DOMAIN To(S, m)[k] : To(S, m)[k][i] = m /\ k \in S
  BY <1>1
<1> QED BY <1>2 DEF Puts, At, OfType

\* A multicast adds one request to what is on its way to every node.
LEMMA MulticastComing ==
  ASSUME TypeOK, Counted, NEW t \in Threads, multicast(t), NEW k \in Nodes
  PROVE  /\ IsFiniteSet(Coming(net', k, "MsgGroup"))
         /\ IsFiniteSet(Coming(net', k, "MsgNextRequest"))
         /\ Cardinality(Coming(net', k, "MsgGroup")) = Cardinality(Coming(net, k, "MsgGroup")) + 1
         /\ Cardinality(Coming(net', k, "MsgNextRequest")) =
               Cardinality(Coming(net, k, "MsgNextRequest"))
<1> DEFINE c == ClientOf[t]
           m == [type |-> "MsgGroup", message |-> Head(script[t])]
           out == To(Nodes, m)
<1>1. /\ net \in [Peers -> [Peers -> Seq(AnyMessage)]] /\ c \in Clients /\ c \in Peers /\ c \notin Nodes
      /\ script[t] \in Seq(Requests) /\ script[t] # <<>> /\ k \in Peers
      /\ IsFiniteSet(Coming(net, k, "MsgGroup")) /\ IsFiniteSet(Coming(net, k, "MsgNextRequest"))
  BY RequestAssumption, PeerAssumption DEF TypeOK, Peers, multicast, Channels, AnyMessage, Counted
<1>2. m \in ClientMessage /\ m \in AnyMessage /\ m.type = "MsgGroup"
  BY <1>1 DEF ClientMessage, AnyMessage
<1>3. net' = [net EXCEPT ![c] = [p \in Peers |-> IF p \in Nodes THEN Append(net[c][p], m) ELSE net[c][p]]]
  BY <1>1 DEF multicast
<1> HIDE DEF m, c
<1>4. out \in [Peers -> Seq(AnyMessage)] /\ \A b \in Peers : out[b] = IF b \in Nodes THEN <<m>> ELSE <<>>
  BY <1>2, ToSent DEF To
<1> HIDE DEF out
<1>5. ASSUME NEW a \in Peers, NEW b \in Peers
      PROVE  net'[a][b] = IF a = c THEN net[a][b] \o out[b] ELSE net[a][b]
  <2>1. CASE a = c
    <3>1. net'[a][b] = IF b \in Nodes THEN Append(net[a][b], m) ELSE net[a][b]
      BY <1>1, <1>3, <2>1
    <3>2. net[a][b] \in Seq(AnyMessage)
      BY <1>1
    <3>3. net[a][b] \o <<m>> = Append(net[a][b], m)
      BY <1>2, <3>2, AppendIsConcat
    <3>4. net[a][b] \o <<>> = net[a][b]
      BY <3>2, ConcatEmptySeq
    <3> QED BY <1>4, <2>1, <3>1, <3>3, <3>4
  <2>2. CASE a # c
    BY <1>1, <1>3, <2>2
  <2> QED BY <2>1, <2>2
<1>6. net' = [a \in Peers |-> [b \in Peers |->
                IF 0 = 1 /\ a = c /\ b = c THEN Tail(net[a][b])
                ELSE IF a = c THEN net[a][b] \o out[b] ELSE net[a][b]]]
  <2>1. net' = [a \in Peers |-> [b \in Peers |-> net'[a][b]]]
    BY <1>1, <1>3
  <2>2. ASSUME NEW a \in Peers, NEW b \in Peers
        PROVE  net'[a][b] = IF 0 = 1 /\ a = c /\ b = c THEN Tail(net[a][b])
                            ELSE IF a = c THEN net[a][b] \o out[b] ELSE net[a][b]
    BY <1>5
  <2>3. ASSUME NEW a \in Peers
        PROVE  [b \in Peers |-> net'[a][b]] =
               [b \in Peers |-> IF 0 = 1 /\ a = c /\ b = c THEN Tail(net[a][b])
                                ELSE IF a = c THEN net[a][b] \o out[b] ELSE net[a][b]]
    BY <2>2
  <2> QED BY <2>1, <2>3
<1>7. ASSUME NEW W PROVE Moves(c, c, 0, out, W)
  <2>1. out[c] = <<>>
    BY <1>1, <1>4
  <2>2. \A i \in Nat : ~At(out[c], i, W)
    BY <2>1 DEF At
  <2> QED BY <1>1, <1>4, <1>6, <2>2 DEF Moves
<1>8. Puts(k, out, OfType("MsgGroup"), 1)
  <2>1. out[k] = <<m>>
    BY <1>1, <1>4
  <2> QED BY <1>2, <2>1 DEF Puts, At, OfType, AnyMessage
<1>9. Puts(k, out, OfType("MsgNextRequest"), 0)
  BY <1>1, <1>2, SentPuts DEF out
<1>10. ASSUME NEW type, NEW one, IsFiniteSet(Coming(net, k, type)), Puts(k, out, OfType(type), one)
       PROVE  /\ IsFiniteSet(Coming(net', k, type))
              /\ Balance(Coming(net', k, type), Coming(net, k, type), one, Taken(c, c, k, 0, type))
  BY <1>1, <1>7, <1>10, MovedComing
<1>11. /\ Cardinality(Coming(net, k, "MsgGroup")) \in Nat
       /\ Cardinality(Coming(net, k, "MsgNextRequest")) \in Nat
  BY <1>1, FS_CardinalityType
<1>12. \A type : Taken(c, c, k, 0, type) = 0
  BY DEF Taken
<1>13. /\ IsFiniteSet(Coming(net', k, "MsgGroup"))
       /\ Cardinality(Coming(net', k, "MsgGroup")) = Cardinality(Coming(net, k, "MsgGroup")) + 1
  BY <1>1, <1>8, <1>10, <1>11, <1>12 DEF Balance
<1>14. /\ IsFiniteSet(Coming(net', k, "MsgNextRequest"))
       /\ Cardinality(Coming(net', k, "MsgNextRequest")) = Cardinality(Coming(net, k, "MsgNextRequest"))
  BY <1>1, <1>9, <1>10, <1>11, <1>12 DEF Balance
<1> QED BY <1>13, <1>14

\* A client that handles a reply adds nothing to it.
LEMMA ReplyComing ==
  ASSUME TypeOK, Counted, NEW c \in Clients, NEW q \in Nodes, reply_handler(c, q), NEW k \in Nodes
  PROVE  /\ IsFiniteSet(Coming(net', k, "MsgGroup"))
         /\ IsFiniteSet(Coming(net', k, "MsgNextRequest"))
         /\ Cardinality(Coming(net', k, "MsgGroup")) = Cardinality(Coming(net, k, "MsgGroup"))
         /\ Cardinality(Coming(net', k, "MsgNextRequest")) =
               Cardinality(Coming(net, k, "MsgNextRequest"))
<1> DEFINE m == [type |-> "MsgAck"]
           S == {q}
<1>1. /\ net \in [Peers -> [Peers -> Seq(AnyMessage)]] /\ c \in Peers /\ c \notin Nodes
      /\ q \in Peers /\ k \in Peers /\ q # c /\ k # c /\ net[q][c] # <<>>
      /\ IsFiniteSet(Coming(net, k, "MsgGroup")) /\ IsFiniteSet(Coming(net, k, "MsgNextRequest"))
  BY PeerAssumption DEF TypeOK, Peers, reply_handler, Arrives, Channels, AnyMessage, Counted
<1>2. m \in ClientMessage /\ m \in AnyMessage /\ m.type = "MsgAck"
  BY DEF ClientMessage, AnyMessage
<1>3. PICK out : Handle(c, q, out) /\ (out = To(S, m) \/ out = Nothing)
  BY DEF reply_handler
<1> HIDE DEF m, S
<1>4. out \in [Peers -> Seq(AnyMessage)]
  BY <1>2, <1>3, ToSent, NothingSent
<1>5. ASSUME NEW W PROVE Moves(c, q, 1, out, W)
  BY <1>1, <1>3, <1>4 DEF Moves, Handle
<1>6. ASSUME NEW type, type # "MsgAck" PROVE Puts(k, out, OfType(type), 0)
  <2>1. CASE out = To(S, m)
    BY <1>1, <1>2, <1>6, <2>1, SentPuts
  <2>2. CASE out = Nothing
    <3>1. out[k] = <<>>
      BY <1>1, <2>2 DEF Nothing
    <3> QED BY <3>1 DEF Puts, At
  <2> QED BY <1>3, <2>1, <2>2
<1>7. ASSUME NEW type, NEW one, IsFiniteSet(Coming(net, k, type)), Puts(k, out, OfType(type), one)
       PROVE  /\ IsFiniteSet(Coming(net', k, type))
              /\ Balance(Coming(net', k, type), Coming(net, k, type), one, Taken(c, q, k, 1, type))
  BY <1>1, <1>5, <1>7, MovedComing
<1>8. /\ Cardinality(Coming(net, k, "MsgGroup")) \in Nat
      /\ Cardinality(Coming(net, k, "MsgNextRequest")) \in Nat
  BY <1>1, FS_CardinalityType
<1>9. \A type : Taken(c, q, k, 1, type) = 0
  BY <1>1 DEF Taken
<1>12. Puts(k, out, OfType("MsgGroup"), 0) /\ Puts(k, out, OfType("MsgNextRequest"), 0)
  BY <1>6
<1>10. /\ IsFiniteSet(Coming(net', k, "MsgGroup"))
       /\ Cardinality(Coming(net', k, "MsgGroup")) = Cardinality(Coming(net, k, "MsgGroup"))
  BY <1>1, <1>7, <1>8, <1>9, <1>12 DEF Balance
<1>11. /\ IsFiniteSet(Coming(net', k, "MsgNextRequest"))
       /\ Cardinality(Coming(net', k, "MsgNextRequest")) = Cardinality(Coming(net, k, "MsgNextRequest"))
  BY <1>1, <1>7, <1>8, <1>9, <1>12 DEF Balance
<1> QED BY <1>10, <1>11

\* What the steps have in common: the messages on their way to every node
\* stay finite, and what is left changes by d at every node alike.
Shifts(d) ==
    \A k \in Nodes :
        /\ IsFiniteSet(Coming(net', k, "MsgGroup"))
        /\ IsFiniteSet(Coming(net', k, "MsgNextRequest"))
        /\ Left(requestQueue', net', k) = Left(requestQueue, net, k) + d

\* A step of a node leaves the same to be done, or one request less.
LEMMA NodeShifts ==
  ASSUME TypeOK, Counted, NEW n \in Nodes, NEW q \in Peers, Node(n, q)
  PROVE  \/ aborted' /\ UNCHANGED <<requestQueue, net>>
         \/ Shifts(0)
         \/ CloseRound(n, q) /\ requestQueue[n] # <<>> /\ Shifts(-1)
<1> DEFINE m == Head(net[q][n])
<1>1. /\ requestQueue \in [Nodes -> Seq(Entry)] /\ net[q][n] # <<>> /\ QueueStep(n, q)
      /\ \A k \in Nodes : Len(requestQueue[k]) \in Nat
  BY NodeQueueStep, LenProperties DEF TypeOK, QueueStep
<1>2. ASSUME NEW k \in Nodes
      PROVE  /\ Len(requestQueue[k]) \in Nat
             /\ Cardinality(Coming(net, k, "MsgGroup")) \in Nat
             /\ Cardinality(Coming(net, k, "MsgNextRequest")) \in Nat
  BY <1>1, FS_CardinalityType DEF Counted
<1>3. ASSUME NEW out \in [Peers -> Seq(NodeMessage)], Handle(n, q, out), Quiet(out), NEW k \in Nodes
      PROVE  Arrived(n, k, m.type, 0)
  <2>1. Tells(n, out, 0)
    BY <1>3 DEF Tells
  <2> QED BY <1>1, <1>3, <2>1, NodeComing
<1>4. ASSUME NEW out \in [Peers -> Seq(NodeMessage)], Handle(n, q, out), Closes(n, out), NEW k \in Nodes
      PROVE  Arrived(n, k, m.type, 1)
  <2>1. Tells(n, out, 1)
    BY <1>4 DEF Tells
  <2> QED BY <1>1, <1>4, <2>1, NodeComing
<1>5. CASE aborted' /\ UNCHANGED <<requestQueue, net>>
  BY <1>5
<1>6. CASE ~(aborted' /\ UNCHANGED <<requestQueue, net>>)
  <2>1. PICK out \in [Peers -> Seq(NodeMessage)] :
          /\ Handle(n, q, out)
          /\ \/ /\ m.type = "MsgGroup" /\ q \in Clients /\ m \in ClientMessage
                /\ Quiet(out)
                /\ requestQueue' = [requestQueue EXCEPT ![n] =
                      Append(@, [client |-> q, message |-> m.message])]
             \/ /\ m.type \notin {"MsgGroup", "MsgNextRequest"}
                /\ CloseRound(n, q) /\ Closes(n, out)
                /\ requestQueue[n] # <<>>
                /\ requestQueue' = [requestQueue EXCEPT ![n] = Tail(@)]
             \/ /\ m.type = "MsgNextRequest"
                /\ Quiet(out)
                /\ requestQueue[n] # <<>>
                /\ requestQueue' = [requestQueue EXCEPT ![n] = Tail(@)]
             \/ /\ m.type \notin {"MsgGroup", "MsgNextRequest"}
                /\ Quiet(out)
                /\ UNCHANGED requestQueue
    BY <1>1, <1>6 DEF QueueStep
  <2> HIDE DEF m
  <2> DEFINE rest == Tail(requestQueue[n])
             Level(k, d) == Left(requestQueue', net', k) = Left(requestQueue, net, k) + d
  <2>2. /\ requestQueue[n] # <<>> => Len(rest) = Len(requestQueue[n]) - 1
        /\ [requestQueue EXCEPT ![n] = Tail(@)] = [requestQueue EXCEPT ![n] = rest]
    BY <1>1, HeadTailProperties
  <2> HIDE DEF rest
  <2>3. CASE /\ m.type = "MsgGroup" /\ q \in Clients /\ m \in ClientMessage
             /\ Quiet(out)
             /\ requestQueue' = [requestQueue EXCEPT ![n] =
                   Append(@, [client |-> q, message |-> m.message])]
    <3>1. [client |-> q, message |-> m.message] \in Entry
      BY <2>3, ClientMessageFields DEF Entry
    <3> DEFINE more == Append(requestQueue[n], [client |-> q, message |-> m.message])
    <3>8. requestQueue' = [requestQueue EXCEPT ![n] = more] /\ Len(more) = Len(requestQueue[n]) + 1
      BY <1>1, <2>3, <3>1, AppendProperties
    <3> HIDE DEF more
    <3>4. m.type = "MsgGroup" /\ m.type # "MsgNextRequest"
      BY <2>3
    <3>6. ASSUME NEW k \in Nodes PROVE Arrived(n, k, m.type, 0)
      BY <1>3, <2>1, <2>3
    <3>9. ASSUME NEW k \in Nodes PROVE Level(k, 0)
      <4>1. CASE n = k
        <5>1. Cardinality(Coming(net', k, "MsgGroup")) = Cardinality(Coming(net, k, "MsgGroup")) - 1
          BY <1>2, <3>4, <3>6, <4>1 DEF Arrived
        <5>2. Cardinality(Coming(net', k, "MsgNextRequest")) =
                 Cardinality(Coming(net, k, "MsgNextRequest"))
          BY <1>2, <3>4, <3>6, <4>1 DEF Arrived
        <5>3. Len(requestQueue'[k]) = Len(requestQueue[k]) + 1
          BY <1>1, <3>8, <4>1
        <5> QED BY <1>2, <5>1, <5>2, <5>3 DEF Left
      <4>2. CASE n # k
        <5>1. Cardinality(Coming(net', k, "MsgGroup")) = Cardinality(Coming(net, k, "MsgGroup"))
          BY <1>2, <3>4, <3>6, <4>2 DEF Arrived
        <5>2. Cardinality(Coming(net', k, "MsgNextRequest")) =
                 Cardinality(Coming(net, k, "MsgNextRequest"))
          BY <1>2, <3>4, <3>6, <4>2 DEF Arrived
        <5>3. requestQueue'[k] = requestQueue[k]
          BY <1>1, <3>8, <4>2
        <5> QED BY <1>2, <5>1, <5>2, <5>3 DEF Left
      <4> QED BY <4>1, <4>2
    <3>5. Shifts(0)
      BY <3>6, <3>9 DEF Shifts, Arrived
    <3> QED BY <3>5
  <2>4. CASE /\ m.type \notin {"MsgGroup", "MsgNextRequest"}
             /\ CloseRound(n, q) /\ Closes(n, out)
             /\ requestQueue[n] # <<>>
             /\ requestQueue' = [requestQueue EXCEPT ![n] = Tail(@)]
    <3>8. requestQueue' = [requestQueue EXCEPT ![n] = rest] /\ Len(rest) = Len(requestQueue[n]) - 1
      BY <2>2, <2>4
    <3>4. ASSUME NEW k \in Nodes PROVE Arrived(n, k, m.type, 1)
      BY <1>4, <2>1, <2>4
    <3>9. ASSUME NEW k \in Nodes PROVE Level(k, -1)
      <4>1. CASE n = k
        <5>1. Cardinality(Coming(net', k, "MsgGroup")) = Cardinality(Coming(net, k, "MsgGroup"))
          BY <1>2, <2>4, <3>4, <4>1 DEF Arrived
        <5>2. Cardinality(Coming(net', k, "MsgNextRequest")) =
                 Cardinality(Coming(net, k, "MsgNextRequest"))
          BY <1>2, <2>4, <3>4, <4>1 DEF Arrived
        <5>3. Len(requestQueue'[k]) = Len(requestQueue[k]) - 1
          BY <1>1, <3>8, <4>1
        <5> QED BY <1>2, <5>1, <5>2, <5>3 DEF Left
      <4>2. CASE n # k
        <5>1. Cardinality(Coming(net', k, "MsgGroup")) = Cardinality(Coming(net, k, "MsgGroup"))
          BY <1>2, <2>4, <3>4, <4>2 DEF Arrived
        <5>2. Cardinality(Coming(net', k, "MsgNextRequest")) =
                 Cardinality(Coming(net, k, "MsgNextRequest")) + 1
          BY <1>2, <2>4, <3>4, <4>2 DEF Arrived
        <5>3. requestQueue'[k] = requestQueue[k]
          BY <1>1, <3>8, <4>2
        <5> QED BY <1>2, <5>1, <5>2, <5>3 DEF Left
      <4> QED BY <4>1, <4>2
    <3>2. Shifts(-1)
      BY <3>4, <3>9 DEF Shifts, Arrived
    <3> QED BY <2>4, <3>2
  <2>5. CASE /\ m.type = "MsgNextRequest"
             /\ Quiet(out)
             /\ requestQueue[n] # <<>>
             /\ requestQueue' = [requestQueue EXCEPT ![n] = Tail(@)]
    <3>8. requestQueue' = [requestQueue EXCEPT ![n] = rest] /\ Len(rest) = Len(requestQueue[n]) - 1
      BY <2>2, <2>5
    <3>2. m.type = "MsgNextRequest" /\ m.type # "MsgGroup"
      BY <2>5
    <3>4. ASSUME NEW k \in Nodes PROVE Arrived(n, k, m.type, 0)
      BY <1>3, <2>1, <2>5
    <3>9. ASSUME NEW k \in Nodes PROVE Level(k, 0)
      <4>1. CASE n = k
        <5>1. Cardinality(Coming(net', k, "MsgGroup")) = Cardinality(Coming(net, k, "MsgGroup"))
          BY <1>2, <3>2, <3>4, <4>1 DEF Arrived
        <5>2. Cardinality(Coming(net', k, "MsgNextRequest")) =
                 Cardinality(Coming(net, k, "MsgNextRequest")) - 1
          BY <1>2, <3>2, <3>4, <4>1 DEF Arrived
        <5>3. Len(requestQueue'[k]) = Len(requestQueue[k]) - 1
          BY <1>1, <3>8, <4>1
        <5> DEFINE l == Len(requestQueue[k])
                   g == Cardinality(Coming(net, k, "MsgGroup"))
                   c == Cardinality(Coming(net, k, "MsgNextRequest"))
        <5>4. l \in Nat /\ g \in Nat /\ c \in Nat
          BY <1>2
        <5> HIDE DEF l, g, c
        <5>5. (l - 1) + (g - (c - 1)) = (l + (g - c)) + 0
          BY <5>4
        <5> QED BY <5>1, <5>2, <5>3, <5>5 DEF Left, l, g, c
      <4>2. CASE n # k
        <5>1. Cardinality(Coming(net', k, "MsgGroup")) = Cardinality(Coming(net, k, "MsgGroup"))
          BY <1>2, <3>2, <3>4, <4>2 DEF Arrived
        <5>2. Cardinality(Coming(net', k, "MsgNextRequest")) =
                 Cardinality(Coming(net, k, "MsgNextRequest"))
          BY <1>2, <3>2, <3>4, <4>2 DEF Arrived
        <5>3. requestQueue'[k] = requestQueue[k]
          BY <1>1, <3>8, <4>2
        <5> QED BY <1>2, <5>1, <5>2, <5>3 DEF Left
      <4> QED BY <4>1, <4>2
    <3>3. Shifts(0)
      BY <3>4, <3>9 DEF Shifts, Arrived
    <3> QED BY <3>3
  <2>6. CASE /\ m.type \notin {"MsgGroup", "MsgNextRequest"}
             /\ Quiet(out)
             /\ UNCHANGED requestQueue
    <3>4. ASSUME NEW k \in Nodes PROVE Arrived(n, k, m.type, 0)
      BY <1>3, <2>1, <2>6
    <3>9. ASSUME NEW k \in Nodes PROVE Level(k, 0)
      BY <1>2, <2>6, <3>4 DEF Left, Arrived
    <3>1. Shifts(0)
      BY <3>4, <3>9 DEF Shifts, Arrived
    <3> QED BY <3>1
  <2> QED BY <2>1, <2>3, <2>4, <2>5, <2>6
<1> QED BY <1>5, <1>6

\* The strengthening of ClosesCountedOnce: the messages counted are finitely
\* many, so that a message more or less changes their number by one.
Balanced == Counted /\ (~aborted => \A j, k \in Nodes : Left(requestQueue, net, j) = Left(requestQueue, net, k))

\* Nothing is on its way in the beginning.
LEMMA BalancedInit == ASSUME Init PROVE Balanced
<1>1. ASSUME NEW k \in Nodes, NEW type PROVE Coming(net, k, type) = {}
  BY DEF Init, Coming, Spots, At
<1>2. IsFiniteSet({}) /\ Cardinality({}) = 0
  BY FS_EmptySet
<1>3. \A k \in Nodes : requestQueue[k] = <<>>
  BY DEF Init
<1> QED BY <1>1, <1>2, <1>3 DEF Balanced, Counted, Left

\* Whatever is done, all nodes stay level.
LEMMA ShiftsBalance ==
  ASSUME TypeOK, Balanced, ~aborted, NEW d \in {0, 1, -1}, Shifts(d) PROVE Balanced'
<1>1. Counted'
  BY DEF Shifts, Counted
<1>2. ASSUME NEW j \in Nodes, NEW k \in Nodes
      PROVE  Left(requestQueue', net', j) = Left(requestQueue', net', k)
  BY DEF Shifts, Balanced
<1> QED BY <1>1, <1>2 DEF Balanced

LEMMA BalancedStep == ASSUME TypeOK, Balanced, [Next]_vars PROVE Balanced'
<1>1. CASE UNCHANGED vars
  BY <1>1 DEF vars, nodeVars, Balanced, Counted, Left
<1>2. ASSUME Next PROVE Balanced'
  <2>1. ~aborted /\ Counted
    BY <1>2 DEF Next, Balanced
  <2>2. ASSUME NEW n \in Nodes, NEW q \in Peers, Node(n, q) PROVE Balanced'
    <3>1. CASE aborted' /\ UNCHANGED net
      BY <3>1, <2>1 DEF Balanced, Counted
    <3>2. CASE Shifts(0)
      BY <2>1, <3>2, ShiftsBalance
    <3>3. CASE Shifts(-1)
      BY <2>1, <3>3, ShiftsBalance
    <3> QED BY <2>1, <2>2, <3>1, <3>2, <3>3, NodeShifts
  <2>3. ASSUME NEW k \in Nodes
        PROVE  /\ Len(requestQueue[k]) \in Nat
               /\ Cardinality(Coming(net, k, "MsgGroup")) \in Nat
               /\ Cardinality(Coming(net, k, "MsgNextRequest")) \in Nat
    BY <2>1, LenProperties, FS_CardinalityType DEF TypeOK, Counted
  <2>4. ASSUME NEW t \in Threads, multicast(t) PROVE Balanced'
    <3>1. UNCHANGED requestQueue
      BY <2>4 DEF multicast, nodeVars
    <3>2. Shifts(1)
      BY <2>1, <2>3, <2>4, <3>1, MulticastComing DEF Shifts, Left
    <3> QED BY <2>1, <3>2, ShiftsBalance
  <2>5. ASSUME NEW c \in Clients, NEW q \in Nodes, reply_handler(c, q) PROVE Balanced'
    <3>1. UNCHANGED requestQueue
      BY <2>5 DEF reply_handler, nodeVars
    <3>2. Shifts(0)
      BY <2>1, <2>3, <2>5, <3>1, ReplyComing DEF Shifts, Left
    <3> QED BY <2>1, <3>2, ShiftsBalance
  <2> QED BY <1>2, <2>2, <2>4, <2>5 DEF Next
<1> QED BY <1>1, <1>2

\* Every node will have closed the same number of requests: a close is taken
\* by each node exactly once, however closes of several nodes cross on the
\* network, with any number of nodes, clients and requests.
THEOREM CountedOnce == Spec => []ClosesCountedOnce
<1>1. TypeOK /\ Balanced => ClosesCountedOnce
  <2> SUFFICES ASSUME TypeOK, Balanced, ~aborted, NEW j \in Nodes, NEW k \in Nodes
               PROVE  Open(j) = Open(k)
    BY DEF ClosesCountedOnce
  <2>1. ASSUME NEW n \in Nodes PROVE Open(n) = Left(requestQueue, net, n)
    <3>1. /\ net \in Channels(NodeMessage, ClientMessage) /\ n \in Peers
          /\ IsFiniteSet(Coming(net, n, "MsgGroup")) /\ IsFiniteSet(Coming(net, n, "MsgNextRequest"))
      BY DEF TypeOK, Peers, Balanced, Counted
    <3>2. Cardinality(InFlight(n, "MsgGroup")) = Cardinality(Coming(net, n, "MsgGroup"))
      BY <3>1, ComingInFlight
    <3>3. Cardinality(InFlight(n, "MsgNextRequest")) = Cardinality(Coming(net, n, "MsgNextRequest"))
      BY <3>1, ComingInFlight
    <3> QED BY <3>2, <3>3 DEF Open, Left
  <2> QED BY <2>1 DEF Balanced
<1>2. Init => Balanced
  BY BalancedInit
<1>3. TypeOK /\ Balanced /\ [Next]_vars => Balanced'
  BY BalancedStep
<1> QED BY <1>1, <1>2, <1>3, TypeCorrect, PTL DEF Spec
----------------------------------------------------------------------------
(* The queues of the nodes are those of RequestQueues.                     *)

\* The requests the client has on its way to each node, and the closes.
Asked(f) == [n \in Nodes |-> Requested(f[client][n])]
Told(f) == [n \in Nodes |-> Cardinality(Coming(f, n, "MsgNextRequest"))]

\* They are what the refinement maps arriving and closing to.
Mapped ==
    /\ [n \in Nodes |-> Arriving(n)] = Asked(net)
    /\ [n \in Nodes |-> Cardinality(InFlight(n, "MsgNextRequest"))] = Told(net)

LEMMA MappedNow == TypeOK /\ Counted => Mapped
<1> SUFFICES ASSUME TypeOK, Counted PROVE Mapped
  OBVIOUS
<1>1. \A n \in Nodes : Arriving(n) = Requested(net[client][n])
  BY DEF Arriving
<1>2. ASSUME NEW n \in Nodes
      PROVE  Cardinality(InFlight(n, "MsgNextRequest")) = Cardinality(Coming(net, n, "MsgNextRequest"))
  <2>1. /\ net \in Channels(NodeMessage, ClientMessage) /\ n \in Peers
        /\ IsFiniteSet(Coming(net, n, "MsgNextRequest"))
    BY DEF TypeOK, Peers, Counted
  <2> QED BY <2>1, ComingInFlight
<1> QED BY <1>1, <1>2 DEF Mapped, Asked, Told

LEMMA MappedNext == ASSUME TypeOK', Counted' PROVE Mapped'
BY MappedNow, PTL

\* The channels of the client when the node n handles the oldest message m
\* of q: only if the client sent it one of them is changed, and only if it is
\* a request the requests on their way.
LEMMA AskedNode ==
  ASSUME TypeOK, NEW n \in Nodes, NEW q \in Peers, net[q][n] # <<>>,
         NEW out, Handle(n, q, out)
  PROVE  /\ Asked(net) \in [Nodes -> Seq(Entry)]
         /\ IF q = client /\ Head(net[q][n]).type = "MsgGroup"
            THEN /\ Asked(net)[n] # <<>>
                 /\ Head(Asked(net)[n]) = [client |-> client, message |-> Head(net[q][n]).message]
                 /\ Asked(net') = [Asked(net) EXCEPT ![n] = Tail(@)]
            ELSE Asked(net') = Asked(net)
<1>1. /\ client \in Clients /\ client \in Peers /\ client # n /\ n \in Peers
      /\ net \in Channels(NodeMessage, ClientMessage)
  BY ClientAssumption, PeerAssumption DEF Peers, TypeOK
<1>2. ASSUME NEW k \in Nodes PROVE net[client][k] \in Seq(ClientMessage) /\ Requested(net[client][k]) \in Seq(Entry)
  <2>1. net[client][k] \in Seq(ClientMessage)
    BY <1>1 DEF Channels, Peers
  <2> QED BY <2>1, RequestedTypes
<1>3. Asked(net) \in [Nodes -> Seq(Entry)]
  BY <1>2 DEF Asked
<1>4. ASSUME NEW k \in Nodes
      PROVE  net'[client][k] = IF q = client /\ k = n THEN Tail(net[client][k]) ELSE net[client][k]
  BY <1>1 DEF Handle, Peers
<1>5. CASE q # client
  BY <1>3, <1>4, <1>5 DEF Asked
<1>6. CASE q = client
  <2> DEFINE s == net[client][n]
  <2>1. s \in Seq(ClientMessage) /\ s # <<>> /\ s = net[q][n]
    BY <1>2, <1>6
  <2>2. IF Head(s).type = "MsgGroup"
        THEN /\ Requested(s) # <<>>
             /\ Head(Requested(s)) = [client |-> client, message |-> Head(s).message]
             /\ Requested(Tail(s)) = Tail(Requested(s))
        ELSE Requested(Tail(s)) = Requested(s)
    BY <2>1, RequestedTail
  <2>3. /\ Asked(net)[n] = Requested(s)
        /\ Requested(net'[client][n]) = Requested(Tail(s))
        /\ \A k \in Nodes \ {n} : Requested(net'[client][k]) = Requested(net[client][k])
    BY <1>4, <1>6 DEF Asked
  <2> HIDE DEF s
  <2>4. CASE Head(s).type = "MsgGroup"
    <3>1. Requested(net'[client][n]) = Tail(Requested(s))
      BY <2>2, <2>3, <2>4
    <3>2. Asked(net') = [Asked(net) EXCEPT ![n] = Tail(Requested(s))]
      BY <2>3, <3>1 DEF Asked
    <3> QED BY <1>3, <1>6, <2>1, <2>2, <2>3, <2>4, <3>2
  <2>5. CASE Head(s).type # "MsgGroup"
    <3>1. Requested(net'[client][n]) = Requested(net[client][n])
      BY <2>2, <2>3, <2>5 DEF s
    <3>2. Asked(net') = Asked(net)
      BY <2>3, <3>1 DEF Asked
    <3> QED BY <1>3, <1>6, <2>1, <2>5, <3>2
  <2> QED BY <2>4, <2>5
<1> QED BY <1>5, <1>6

\* The closes on their way to each node, after one of them was taken or one
\* was sent to all other nodes.
LEMMA ToldNode ==
  ASSUME Counted, Counted', NEW n \in Nodes, NEW type, NEW closes \in {0, 1},
         \A k \in Nodes : Arrived(n, k, type, closes)
  PROVE  /\ Told(net) \in [Nodes -> Nat]
         /\ type # "MsgNextRequest" /\ closes = 0 => Told(net') = Told(net)
         /\ type # "MsgNextRequest" /\ closes = 1 =>
               Told(net') = [k \in Nodes |-> IF k = n THEN Told(net)[k] ELSE Told(net)[k] + 1]
         /\ type = "MsgNextRequest" /\ closes = 0 =>
               Told(net)[n] > 0 /\ Told(net') = [Told(net) EXCEPT ![n] = @ - 1]
<1> DEFINE c(k) == Cardinality(Coming(net, k, "MsgNextRequest"))
           d(k) == Cardinality(Coming(net', k, "MsgNextRequest"))
<1>1. \A k \in Nodes : c(k) \in Nat /\ d(k) \in Nat
  BY FS_CardinalityType DEF Counted
<1>2. /\ Told(net) = [k \in Nodes |-> c(k)] /\ Told(net') = [k \in Nodes |-> d(k)]
      /\ Told(net) \in [Nodes -> Nat]
  BY <1>1 DEF Told
<1>3. \A k \in Nodes : d(k) = c(k) + (IF closes = 1 /\ n # k THEN 1 ELSE 0)
                                - (IF n = k /\ type = "MsgNextRequest" THEN 1 ELSE 0)
  BY DEF Arrived
<1> HIDE DEF c, d
<1>4. ASSUME type # "MsgNextRequest", closes = 0 PROVE \A k \in Nodes : d(k) = c(k)
  BY <1>1, <1>3, <1>4
<1>5. ASSUME type # "MsgNextRequest", closes = 1
      PROVE  \A k \in Nodes : d(k) = IF k = n THEN c(k) ELSE c(k) + 1
  <2>1. d(n) = c(n)
    BY <1>1, <1>3, <1>5
  <2>2. \A k \in Nodes : k # n => d(k) = c(k) + 1
    BY <1>1, <1>3, <1>5
  <2> QED BY <2>1, <2>2
<1>6. ASSUME type = "MsgNextRequest", closes = 0
      PROVE  c(n) > 0 /\ d(n) = c(n) - 1 /\ \A k \in Nodes : k # n => d(k) = c(k)
  <2>1. d(n) = c(n) - 1
    BY <1>1, <1>3, <1>6
  <2>2. \A k \in Nodes : k # n => d(k) = c(k)
    BY <1>1, <1>3, <1>6
  <2>3. c(n) \in Nat /\ d(n) \in Nat
    BY <1>1
  <2> QED BY <2>1, <2>2, <2>3
<1>7. ASSUME type # "MsgNextRequest", closes = 0 PROVE Told(net') = Told(net)
  BY <1>2, <1>4, <1>7
<1>8. ASSUME type # "MsgNextRequest", closes = 1
      PROVE  Told(net') = [k \in Nodes |-> IF k = n THEN Told(net)[k] ELSE Told(net)[k] + 1]
  BY <1>2, <1>5, <1>8
<1>9. ASSUME type = "MsgNextRequest", closes = 0
      PROVE  Told(net)[n] > 0 /\ Told(net') = [Told(net) EXCEPT ![n] = @ - 1]
  <2>1. Told(net)[n] = c(n)
    BY <1>2
  <2>2. Told(net') = [Told(net) EXCEPT ![n] = c(n) - 1]
    BY <1>2, <1>6, <1>9
  <2> QED BY <1>6, <1>9, <2>1, <2>2
<1> QED BY <1>2, <1>7, <1>8, <1>9

\* A step of a node is one of the queues, or none: which one, the message it
\* handles says.
QueueMove(n, q) ==
    LET type == Head(net[q][n]).type IN
    \/ type = "MsgGroup" /\ Queues!group_request_handler(n)
    \/ type \notin {"MsgGroup", "MsgNextRequest"} /\ CloseRound(n, q) /\ Queues!CloseRound(n)
    \/ type = "MsgNextRequest" /\ Queues!process_next_request(n)
    \/ UNCHANGED Queues!vars

LEMMA NodeQueueMove ==
  ASSUME TypeOK, TypeOK', Counted, Counted', NEW n \in Nodes, NEW q \in Peers, Node(n, q)
  PROVE  QueueMove(n, q)
<1> DEFINE m == Head(net[q][n])
           entry == [client |-> q, message |-> m.message]
<1>1. /\ requestQueue \in [Nodes -> Seq(Entry)] /\ net[q][n] # <<>> /\ QueueStep(n, q)
      /\ Mapped /\ Mapped'
  BY NodeQueueStep, MappedNow, MappedNext DEF TypeOK, QueueStep
<1>2. CASE aborted' /\ UNCHANGED <<requestQueue, net>>
  <2>1. Asked(net') = Asked(net) /\ Told(net') = Told(net)
    BY <1>2
  <2> QED BY <1>1, <1>2, <2>1 DEF Mapped, Queues!vars, QueueMove
<1>3. ASSUME NEW out \in [Peers -> Seq(NodeMessage)], Handle(n, q, out), NEW closes \in {0, 1},
             Tells(n, out, closes)
      PROVE  \A k \in Nodes : Arrived(n, k, m.type, closes)
  BY <1>1, <1>3, NodeComing
<1>4. ASSUME NEW out \in [Peers -> Seq(NodeMessage)], Handle(n, q, out), Quiet(out),
             m.type = "MsgGroup", q \in Clients, m \in ClientMessage,
             requestQueue' = [requestQueue EXCEPT ![n] = Append(@, entry)]
      PROVE  Queues!group_request_handler(n)
  <2>1. q = client /\ m.type # "MsgNextRequest"
    BY <1>4, ClientAssumption
  <2>2. /\ Asked(net)[n] # <<>> /\ Head(Asked(net)[n]) = entry
        /\ Asked(net') = [Asked(net) EXCEPT ![n] = Tail(@)]
    BY <1>1, <1>4, <2>1, AskedNode
  <2>3. Tells(n, out, 0)
    BY <1>4 DEF Tells
  <2>4. \A k \in Nodes : Arrived(n, k, m.type, 0)
    BY <1>3, <1>4, <2>3
  <2> HIDE DEF m, entry
  <2>5. Told(net') = Told(net)
    BY <2>1, <2>4, ToldNode
  <2>6. requestQueue' = [requestQueue EXCEPT ![n] = Append(@, Head(Asked(net)[n]))]
    BY <1>4, <2>2
  <2> QED BY <1>1, <2>2, <2>5, <2>6 DEF Mapped, Queues!group_request_handler
<1>5. ASSUME NEW out \in [Peers -> Seq(NodeMessage)], Handle(n, q, out), Closes(n, out),
             m.type \notin {"MsgGroup", "MsgNextRequest"}, requestQueue[n] # <<>>,
             requestQueue' = [requestQueue EXCEPT ![n] = Tail(@)]
      PROVE  Queues!CloseRound(n)
  <2>2. Asked(net') = Asked(net)
    BY <1>1, <1>5, AskedNode
  <2>3. Tells(n, out, 1)
    BY <1>5 DEF Tells
  <2>4. \A k \in Nodes : Arrived(n, k, m.type, 1)
    BY <1>3, <1>5, <2>3
  <2> HIDE DEF m
  <2>5. Told(net') = [k \in Nodes |-> IF k = n THEN Told(net)[k] ELSE Told(net)[k] + 1]
    BY <1>5, <2>4, ToldNode
  <2> QED BY <1>1, <1>5, <2>2, <2>5 DEF Mapped, Queues!CloseRound
<1>6. ASSUME NEW out \in [Peers -> Seq(NodeMessage)], Handle(n, q, out), Quiet(out),
             m.type = "MsgNextRequest", requestQueue[n] # <<>>,
             requestQueue' = [requestQueue EXCEPT ![n] = Tail(@)]
      PROVE  Queues!process_next_request(n)
  <2>2. Asked(net') = Asked(net)
    BY <1>1, <1>6, AskedNode
  <2>3. Tells(n, out, 0)
    BY <1>6 DEF Tells
  <2>4. \A k \in Nodes : Arrived(n, k, m.type, 0)
    BY <1>3, <1>6, <2>3
  <2> HIDE DEF m
  <2>5. Told(net)[n] > 0 /\ Told(net') = [Told(net) EXCEPT ![n] = @ - 1]
    BY <1>6, <2>4, ToldNode
  <2> QED BY <1>1, <1>6, <2>2, <2>5 DEF Mapped, Queues!process_next_request
<1>7. ASSUME NEW out \in [Peers -> Seq(NodeMessage)], Handle(n, q, out), Quiet(out),
             m.type \notin {"MsgGroup", "MsgNextRequest"}, UNCHANGED requestQueue
      PROVE  UNCHANGED Queues!vars
  <2>2. Asked(net') = Asked(net)
    BY <1>1, <1>7, AskedNode
  <2>3. Tells(n, out, 0)
    BY <1>7 DEF Tells
  <2>4. \A k \in Nodes : Arrived(n, k, m.type, 0)
    BY <1>3, <1>7, <2>3
  <2> HIDE DEF m
  <2>5. Told(net') = Told(net)
    BY <1>7, <2>4, ToldNode
  <2> QED BY <1>1, <1>7, <2>2, <2>5 DEF Mapped, Queues!vars
<1>8. CASE ~(aborted' /\ UNCHANGED <<requestQueue, net>>)
  <2>1. PICK out \in [Peers -> Seq(NodeMessage)] :
          /\ Handle(n, q, out)
          /\ \/ /\ m.type = "MsgGroup" /\ q \in Clients /\ m \in ClientMessage
                /\ Quiet(out)
                /\ requestQueue' = [requestQueue EXCEPT ![n] = Append(@, entry)]
             \/ /\ m.type \notin {"MsgGroup", "MsgNextRequest"}
                /\ CloseRound(n, q) /\ Closes(n, out)
                /\ requestQueue[n] # <<>>
                /\ requestQueue' = [requestQueue EXCEPT ![n] = Tail(@)]
             \/ /\ m.type = "MsgNextRequest"
                /\ Quiet(out)
                /\ requestQueue[n] # <<>>
                /\ requestQueue' = [requestQueue EXCEPT ![n] = Tail(@)]
             \/ /\ m.type \notin {"MsgGroup", "MsgNextRequest"}
                /\ Quiet(out)
                /\ UNCHANGED requestQueue
    BY <1>1, <1>8 DEF QueueStep
  <2> HIDE DEF m, entry
  <2>2. \/ m.type = "MsgGroup" /\ Queues!group_request_handler(n)
        \/ /\ m.type \notin {"MsgGroup", "MsgNextRequest"}
           /\ CloseRound(n, q) /\ Queues!CloseRound(n)
        \/ m.type = "MsgNextRequest" /\ Queues!process_next_request(n)
        \/ UNCHANGED Queues!vars
    BY <1>4, <1>5, <1>6, <1>7, <2>1
  <2> QED BY <2>2 DEF QueueMove, m
<1> QED BY <1>2, <1>8

LEMMA NodeQueues ==
  ASSUME TypeOK, TypeOK', Counted, Counted', NEW n \in Nodes, NEW q \in Peers, Node(n, q)
  PROVE  [Queues!Next]_Queues!vars
BY NodeQueueMove DEF QueueMove, Queues!Next

\* A multicast sends one request to every node.
LEMMA MulticastQueues ==
  ASSUME TypeOK, TypeOK', Counted, Counted', NEW t \in Threads, multicast(t)
  PROVE  \E r \in Entry : Queues!multicast(r)
<1> DEFINE m == [type |-> "MsgGroup", message |-> Head(script[t])]
           r == [client |-> client, message |-> Head(script[t])]
<1>1. /\ ClientOf[t] = client /\ script[t] \in Seq(Requests) /\ script[t] # <<>>
      /\ net \in Channels(NodeMessage, ClientMessage) /\ client \in Clients /\ client \in Peers
      /\ UNCHANGED requestQueue /\ Mapped /\ Mapped'
  BY ClientAssumption, RequestAssumption, MappedNow, MappedNext
     DEF TypeOK, multicast, nodeVars, Peers
<1>2. m \in ClientMessage /\ r \in Entry
  BY <1>1 DEF ClientMessage, Entry
<1>3. ASSUME NEW k \in Nodes
      PROVE  /\ net[client][k] \in Seq(ClientMessage)
             /\ net'[client][k] = Append(net[client][k], m)
  BY <1>1, <1>3 DEF Channels, Peers, multicast
<1>4. ASSUME NEW k \in Nodes PROVE Requested(net'[client][k]) = Append(Requested(net[client][k]), r)
  <2>1. m.type = "MsgGroup" /\ m.message = Head(script[t])
    OBVIOUS
  <2> HIDE DEF m
  <2> QED BY <1>2, <1>3, <2>1, RequestedAppend DEF Queued
<1> HIDE DEF m, r
<1>5. Asked(net') = [k \in Nodes |-> Append(Asked(net)[k], r)]
  BY <1>4 DEF Asked
<1>6. Told(net') = Told(net)
  BY MulticastComing DEF Told
<1>7. Queues!multicast(r)
  BY <1>1, <1>5, <1>6 DEF Mapped, Queues!multicast
<1> QED BY <1>2, <1>7

\* A reply changes nothing for the queues.
LEMMA ReplyQueues ==
  ASSUME TypeOK, TypeOK', Counted, Counted', NEW c \in Clients, NEW q \in Nodes, reply_handler(c, q)
  PROVE  UNCHANGED Queues!vars
<1> DEFINE m == [type |-> "MsgAck"]
           S == {q}
<1>1. /\ c = client /\ net \in Channels(NodeMessage, ClientMessage) /\ c \in Peers /\ c \notin Nodes
      /\ UNCHANGED requestQueue /\ Mapped /\ Mapped'
  BY ClientAssumption, PeerAssumption, MappedNow, MappedNext
     DEF TypeOK, reply_handler, nodeVars, Peers
<1>2. m \in ClientMessage /\ m.type # "MsgGroup"
  BY DEF ClientMessage
<1>3. PICK out : Handle(c, q, out) /\ (out = To(S, m) \/ out = Nothing)
  BY DEF reply_handler
<1> HIDE DEF m, S
<1>4. ASSUME NEW k \in Nodes PROVE Requested(net'[client][k]) = Requested(net[client][k])
  <2>1. k \in Peers /\ net[client][k] \in Seq(ClientMessage)
    BY <1>1 DEF Channels, Peers
  <2>2. net'[client][k] = net[client][k] \o out[k]
    BY <1>1, <1>3, <2>1 DEF Handle
  <2>3. out[k] = <<m>> \/ out[k] = <<>>
    BY <1>3, <2>1 DEF To, Nothing
  <2>4. CASE out[k] = <<m>>
    <3>1. net[client][k] \o <<m>> = Append(net[client][k], m)
      BY <1>2, <2>1, AppendIsConcat
    <3>2. Requested(Append(net[client][k], m)) = Queued(Requested(net[client][k]), m)
      BY <1>2, <2>1, RequestedAppend
    <3>3. net'[client][k] = Append(net[client][k], m)
      BY <2>2, <2>4, <3>1
    <3> QED BY <1>2, <3>2, <3>3 DEF Queued
  <2>5. CASE out[k] = <<>>
    BY <2>1, <2>2, <2>5, ConcatEmptySeq
  <2> QED BY <2>3, <2>4, <2>5
<1>5. Asked(net') = Asked(net)
  BY <1>4 DEF Asked
<1>6. Told(net') = Told(net)
  BY ReplyComing DEF Told
<1> QED BY <1>1, <1>5, <1>6 DEF Mapped, Queues!vars

\* As far as queues go, the nodes do nothing but queue in the order of the
\* client and pop their fronts, once for every round that any node closes:
\* with the one client the program is written for, the request round
\* implements the queues.
THEOREM QueuesImplemented == Spec => ImplementsQueues
<1>1. Init /\ TypeOK /\ Counted => Queues!Init
  <2> SUFFICES ASSUME Init, TypeOK, Counted PROVE Queues!Init
    OBVIOUS
  <2>1. client \in Peers /\ \A n \in Nodes : n \in Peers
    BY ClientAssumption DEF Peers
  <2>2. \A n \in Nodes : Requested(net[client][n]) = <<>>
    BY <2>1, RequestedEmpty DEF Init
  <2>3. ASSUME NEW n \in Nodes PROVE Cardinality(Coming(net, n, "MsgNextRequest")) = 0
    <3>1. Coming(net, n, "MsgNextRequest") = {}
      BY DEF Init, Coming, Spots, At
    <3> QED BY <3>1, FS_EmptySet
  <2>4. Asked(net) = [n \in Nodes |-> <<>>] /\ Told(net) = [n \in Nodes |-> 0]
    BY <2>2, <2>3 DEF Asked, Told
  <2> QED BY <2>4, MappedNow DEF Init, Mapped, Queues!Init
<1>2. TypeOK /\ TypeOK' /\ Balanced /\ Balanced' /\ [Next]_vars => [Queues!Next]_Queues!vars
  <2> SUFFICES ASSUME TypeOK, TypeOK', Balanced, Balanced', [Next]_vars
               PROVE  [Queues!Next]_Queues!vars
    OBVIOUS
  <2>1. Counted /\ Counted'
    BY DEF Balanced
  <2>2. CASE UNCHANGED vars
    <3>1. requestQueue' = requestQueue /\ net' = net
      BY <2>2 DEF vars, nodeVars
    <3>2. Mapped /\ Mapped' /\ Asked(net') = Asked(net) /\ Told(net') = Told(net)
      BY <2>1, <3>1, MappedNow, MappedNext
    <3> QED BY <3>1, <3>2 DEF Mapped, Queues!vars
  <2>3. ASSUME NEW n \in Nodes, NEW q \in Peers, Node(n, q) PROVE [Queues!Next]_Queues!vars
    BY <2>1, <2>3, NodeQueues
  <2>4. ASSUME NEW t \in Threads, multicast(t) PROVE [Queues!Next]_Queues!vars
    BY <2>1, <2>4, MulticastQueues DEF Queues!Next
  <2>5. ASSUME NEW c \in Clients, NEW q \in Nodes, reply_handler(c, q)
        PROVE  [Queues!Next]_Queues!vars
    BY <2>1, <2>5, ReplyQueues
  <2> QED BY <2>2, <2>3, <2>4, <2>5 DEF Next
<1>3. Init => Balanced
  BY BalancedInit
<1>4. TypeOK /\ Balanced /\ [Next]_vars => Balanced'
  BY BalancedStep
<1>5. Balanced => Counted
  BY DEF Balanced
<1> QED BY <1>1, <1>2, <1>3, <1>4, <1>5, TypeCorrect, PTL DEF Spec, ImplementsQueues, Queues!Spec

QP == INSTANCE RequestQueuesProofs WITH
          Entries <- Entry,
          arriving <- [n \in Nodes |-> Arriving(n)],
          closing <- [n \in Nodes |-> Cardinality(InFlight(n, "MsgNextRequest"))],
          line <- Queues!LineOf(Queues!AnyNode),
          registered <- FALSE   \* of the service, which has no part here

\* Nodes that have seen different parts of the traffic agree on what remains
\* to be done, and in which order: the queues do (OneLine), and the request
\* round implements them.
THEOREM AgreeOnLine == Spec => []NodesAgreeOnLine
<1>1. QP!Spec => []QP!LinesAgree
  BY QP!OneLine
<1>2. Queues!Init => QP!Init
  BY DEF Queues!Init, QP!Init
<1>3. [Queues!Next]_Queues!vars => [QP!Next]_QP!vars
  BY DEF Queues!Next, Queues!vars, Queues!multicast, Queues!group_request_handler,
     Queues!CloseRound, Queues!process_next_request, QP!Next, QP!vars, QP!multicast,
     QP!group_request_handler, QP!CloseRound, QP!process_next_request
<1>4. QP!LinesAgree => NodesAgreeOnLine
  BY DEF QP!LinesAgree, NodesAgreeOnLine, LineOf, QP!LineOf, QP!Before, Queues!LineOf, Queues!Before
<1> QED BY <1>1, <1>2, <1>3, <1>4, QueuesImplemented, PTL
        DEF ImplementsQueues, Queues!Spec, QP!Spec

\* So the round serves the client's requests as one line: any node will do to
\* read it off, a request sent joins it, a round closed at any node closes its
\* front, and nothing else changes it.
THEOREM OneLineServed ==
    ASSUME Nodes # {}
    PROVE  Spec => QP!ImplementsLine
<1>1. QP!Spec => QP!ImplementsLine
  BY QP!QueuesAreLine
<1>2. Queues!Init => QP!Init
  BY DEF Queues!Init, QP!Init
<1>3. [Queues!Next]_Queues!vars => [QP!Next]_QP!vars
  BY DEF Queues!Next, Queues!vars, Queues!multicast, Queues!group_request_handler,
     Queues!CloseRound, Queues!process_next_request, QP!Next, QP!vars, QP!multicast,
     QP!group_request_handler, QP!CloseRound, QP!process_next_request
<1> QED BY <1>1, <1>2, <1>3, QueuesImplemented, PTL DEF ImplementsQueues, Queues!Spec, QP!Spec

----------------------------------------------------------------------------
(* Counting what is on the channels and what a peer sends.                 *)

All == Peers \X Peers

\* The messages that are sent to members of groups or to single peers: a
\* finite number of them is on its way at any time.
Rest == {m \in AnyMessage : m.type \notin {"MsgGroup", "MsgNextRequest"}}

Count(f, W) == Cardinality(Spots(f, All, W))

\* Of the messages W the peer n sends d.
Gives(n, out, W, d) ==
    /\ IsFiniteSet(Sent(n, out, All, W))
    /\ Cardinality(Sent(n, out, All, W)) = d

\* What a peer sends, by receiver.
LEMMA SentByReceiver ==
  ASSUME NEW n \in Peers, NEW out, NEW W
  PROVE  /\ \A x : x \in Sent(n, out, All, W) => \E b \in Peers, i \in Nat : x = <<b, i>>
         /\ \A b \in Peers, i \in Nat : <<b, i>> \in Sent(n, out, All, W) <=> At(out[b], i, W)
BY DEF Sent, All

\* Nothing sent is nothing counted; a message to the peers S counts once for
\* each of them, if it is one of W.
LEMMA NoneGiven ==
  ASSUME NEW n \in Peers, NEW out, NEW W, \A b \in Peers : \A i \in Nat : ~At(out[b], i, W)
  PROVE  Gives(n, out, W, 0)
<1>1. Sent(n, out, All, W) = {}
  BY SentByReceiver
<1> QED BY <1>1, FS_EmptySet DEF Gives

\* What a message sent to a set S puts where: one at the front of each of S.
LEMMA ToAt ==
  /\ \A S, m, W : \A b \in Peers : \A i \in Nat :
        At(To(S, m)[b], i, W) <=> b \in S /\ i = 1 /\ m \in W
  /\ \A W : \A b \in Peers : \A i \in Nat : ~At(Nothing[b], i, W)
<1>1. ASSUME NEW S, NEW m, NEW W, NEW b \in Peers, NEW i \in Nat
      PROVE  At(To(S, m)[b], i, W) <=> b \in S /\ i = 1 /\ m \in W
  <2>1. To(S, m)[b] = IF b \in S THEN <<m>> ELSE <<>>
    BY DEF To
  <2> QED BY <2>1 DEF At
<1>2. ASSUME NEW W, NEW b \in Peers, NEW i \in Nat PROVE ~At(Nothing[b], i, W)
  BY DEF At, Nothing
<1> QED BY <1>1, <1>2

\* It gives a kind it belongs to one message for every member of S, another
\* kind none.
LEMMA ToGives ==
  ASSUME NEW n \in Peers, NEW S, NEW m, NEW W
  PROVE  /\ m \notin W => Gives(n, To(S, m), W, 0)
         /\ m \in W /\ S \subseteq Peers /\ IsFiniteSet(S) => Gives(n, To(S, m), W, Cardinality(S))
<1>1. CASE m \notin W
  BY <1>1, ToAt, NoneGiven
<1>2. CASE m \in W /\ S \subseteq Peers /\ IsFiniteSet(S)
  <2> DEFINE T == Sent(n, To(S, m), All, W)
             f == [b \in S |-> <<b, 1>>]
  <2>1. ASSUME NEW b \in Peers, NEW i \in Nat PROVE <<b, i>> \in T <=> b \in S /\ i = 1
    <3>1. At(To(S, m)[b], i, W) <=> b \in S /\ i = 1 /\ m \in W
      BY ToAt
    <3>2. <<b, i>> \in T <=> At(To(S, m)[b], i, W)
      BY SentByReceiver
    <3> QED BY <1>2, <3>1, <3>2
  <2>2. \A x : x \in T => \E b \in Peers, i \in Nat : x = <<b, i>>
    BY SentByReceiver
  <2> HIDE DEF T
  <2>3. f \in [S -> T]
    BY <1>2, <2>1
  <2>4. \A t \in T : \E s \in S : f[s] = t
    BY <2>1, <2>2
  <2>5. \A a, b \in S : f[a] = f[b] => a = b
    OBVIOUS
  <2> HIDE DEF f
  <2> QED BY <1>2, <2>3, <2>4, <2>5, SameSize DEF Gives, T
<1> QED BY <1>1, <1>2

\* What is sent in a row adds up.
LEMMA ThenGives ==
  ASSUME NEW n \in Peers, NEW f \in [Peers -> Seq(AnyMessage)], NEW g \in [Peers -> Seq(AnyMessage)],
         NEW W, NEW a, NEW b, Gives(n, f, W, a), Gives(n, g, W, b)
  PROVE  Gives(n, Then(f, g), W, a + b)
<1> DEFINE F == Sent(n, f, All, W)
           G == Sent(n, g, All, W)
           T == Sent(n, Then(f, g), All, W)
           put == [x \in G |-> <<x[1], Len(f[x[1]]) + x[2]>>]
           added == {x \in T : x[2] > Len(f[x[1]])}
<1>1. ASSUME NEW p \in Peers, NEW i \in Nat
      PROVE  /\ Len(f[p]) \in Nat
             /\ <<p, i>> \in F <=> At(f[p], i, W)
             /\ <<p, i>> \in G <=> At(g[p], i, W)
             /\ <<p, i>> \in T <=> At(f[p] \o g[p], i, W)
             /\ At(f[p], i, W) => i <= Len(f[p])
             /\ At(g[p], i, W) => i > 0
             /\ i <= Len(f[p]) => (At(f[p] \o g[p], i, W) <=> At(f[p], i, W))
             /\ i > Len(f[p]) => (At(f[p] \o g[p], i, W) <=> At(g[p], i - Len(f[p]), W))
  <2>1. f[p] \in Seq(AnyMessage) /\ g[p] \in Seq(AnyMessage) /\ Then(f, g)[p] = f[p] \o g[p]
    BY DEF Then
  <2>2. /\ At(g[p], i, W) => i # 0
        /\ At(f[p], i, W) => i <= Len(f[p])
    BY <2>1, AtPlaces
  <2>3. /\ i <= Len(f[p]) => (At(f[p] \o g[p], i, W) <=> At(f[p], i, W))
        /\ i > Len(f[p]) => (At(f[p] \o g[p], i, W) <=> At(g[p], i - Len(f[p]), W))
    BY <2>1, AtPlaces
  <2>4. /\ <<p, i>> \in F <=> At(f[p], i, W)
        /\ <<p, i>> \in G <=> At(g[p], i, W)
        /\ <<p, i>> \in T <=> At(Then(f, g)[p], i, W)
    BY SentByReceiver
  <2>5. Len(f[p]) \in Nat
    BY <2>1, LenProperties
  <2>6. At(g[p], i, W) => i > 0
    BY <2>2
  <2> QED BY <2>1, <2>2, <2>3, <2>4, <2>5, <2>6
<1>2. \A x : x \in F \cup G \cup T => \E p \in Peers, i \in Nat : x = <<p, i>>
  BY SentByReceiver
<1>0. IsFiniteSet(F) /\ IsFiniteSet(G) /\ Cardinality(F) = a /\ Cardinality(G) = b
  BY DEF Gives
<1> HIDE DEF F, G, T
<1>3. IsFiniteSet(added) /\ Cardinality(added) = Cardinality(G)
  <2>1. ASSUME NEW p \in Peers, NEW i \in Nat, <<p, i>> \in G
        PROVE  <<p, Len(f[p]) + i>> \in added
    <3> DEFINE l == Len(f[p])
    <3>0. l \in Nat
      BY <1>1
    <3>1. At(g[p], i, W)
      BY <1>1, <2>1
    <3>2. i > 0
      BY <1>1, <3>1
    <3>3. l + i \in Nat /\ l + i > l /\ (l + i) - l = i
      BY <3>0, <3>2
    <3> HIDE DEF l
    <3> QED BY <1>1, <3>1, <3>3 DEF l
  <2>2. put \in [G -> added]
    <3> SUFFICES ASSUME NEW x \in G PROVE put[x] \in added
      OBVIOUS
    <3>1. PICK p \in Peers, i \in Nat : x = <<p, i>>
      BY <1>2
    <3>2. put[x] = <<p, Len(f[p]) + i>>
      BY <3>1
    <3> QED BY <2>1, <3>1, <3>2
  <2>3. ASSUME NEW x \in G, NEW y \in G, put[x] = put[y] PROVE x = y
    <3>1. PICK p \in Peers, i \in Nat : x = <<p, i>>
      BY <1>2
    <3>2. PICK r \in Peers, j \in Nat : y = <<r, j>>
      BY <1>2
    <3>3. <<p, Len(f[p]) + i>> = <<r, Len(f[r]) + j>>
      BY <2>3, <3>1, <3>2
    <3>4. p = r /\ Len(f[p]) + i = Len(f[p]) + j /\ Len(f[p]) \in Nat
      BY <1>1, <3>3
    <3> QED BY <3>1, <3>2, <3>4
  <2>4. ASSUME NEW t \in added PROVE \E x \in G : put[x] = t
    <3>1. PICK p \in Peers, i \in Nat : t = <<p, i>>
      BY <1>2
    <3>2. i > Len(f[p]) /\ <<p, i>> \in T /\ Len(f[p]) \in Nat
      BY <1>1, <3>1
    <3>3. i - Len(f[p]) \in Nat /\ i = Len(f[p]) + (i - Len(f[p]))
      BY <3>2
    <3>4. <<p, i - Len(f[p])>> \in G
      BY <1>1, <3>2, <3>3
    <3> QED BY <3>1, <3>3, <3>4
  <2> HIDE DEF put, added
  <2> QED BY <1>0, <2>2, <2>3, <2>4, SameSize
<1>4. T = F \cup added /\ F \cap added = {}
  <2>1. ASSUME NEW p \in Peers, NEW i \in Nat
        PROVE  /\ <<p, i>> \in T <=> <<p, i>> \in F \/ <<p, i>> \in added
               /\ ~(<<p, i>> \in F /\ <<p, i>> \in added)
    <3>1. <<p, i>> \in added <=> <<p, i>> \in T /\ i > Len(f[p])
      OBVIOUS
    <3> HIDE DEF added
    <3>2. Len(f[p]) \in Nat
      BY <1>1
    <3>3. CASE i > Len(f[p])
      <4>1. ~(i <= Len(f[p]))
        BY <3>2, <3>3
      <4> QED BY <1>1, <3>1, <3>3, <4>1
    <3>4. CASE ~(i > Len(f[p]))
      <4>1. i <= Len(f[p])
        BY <3>2, <3>4
      <4> QED BY <1>1, <3>1, <3>4, <4>1
    <3> QED BY <3>3, <3>4
  <2>2. \A x : x \in F \cup T \cup added => \E p \in Peers, i \in Nat : x = <<p, i>>
    BY <1>2
  <2> HIDE DEF added
  <2> QED BY <2>1, <2>2
<1> HIDE DEF added
<1>5. IsFiniteSet(T) /\ Cardinality(T) = Cardinality(F) + Cardinality(added)
  BY <1>0, <1>3, <1>4, SizesAdd
<1> QED BY <1>0, <1>3, <1>5 DEF Gives, T

\* A message to some of the peers, some of which may be no peers at all.
LEMMA ToSomeGives ==
  ASSUME NEW n \in Peers, NEW S, IsFiniteSet(S), NEW m, NEW W
  PROVE  Gives(n, To(S, m), W, IF m \in W THEN Cardinality(S \cap Peers) ELSE 0)
<1>1. To(S, m) = To(S \cap Peers, m)
  BY DEF To
<1>2. IsFiniteSet(S \cap Peers) /\ S \cap Peers \subseteq Peers
  BY FS_Intersection
<1> HIDE DEF Peers
<1> QED BY <1>1, <1>2, ToGives

\* The number of messages W after n took the oldest from q and sent out.
LEMMA Flow ==
  ASSUME TypeOK, NEW n \in Peers, NEW q \in Peers, q # n, net[q][n] # <<>>,
         NEW out \in [Peers -> Seq(AnyMessage)], Handle(n, q, out),
         NEW W, NEW d, Gives(n, out, W, d), IsFiniteSet(Spots(net, All, W))
  PROVE  /\ IsFiniteSet(Spots(net', All, W))
         /\ Count(net', W) = Count(net, W) + d - (IF Head(net[q][n]) \in W THEN 1 ELSE 0)
<1>1. Moves(n, q, 1, out, W)
  <2>1. net \in [Peers -> [Peers -> Seq(AnyMessage)]]
    BY DEF TypeOK, Channels, AnyMessage
  <2>2. net' = [a \in Peers |-> [b \in Peers |->
                 IF 1 = 1 /\ a = q /\ b = n THEN Tail(net[a][b])
                 ELSE IF a = n THEN net[a][b] \o out[b]
                 ELSE net[a][b]]]
    BY DEF Handle
  <2> QED BY <2>1, <2>2 DEF Moves
<1>2. <<q, n>> \in All
  BY DEF All
<1> QED BY <1>1, <1>2, MovedSpots DEF Gives, Count

----------------------------------------------------------------------------
(* The groups as sets.                                                     *)

\* The members of the groups, counted: no node is listed twice.
LEMMA MembersCounted ==
  ASSUME NEW M, NEW k \in Nat, NEW s \in Seq(M), k <= Len(s),
         \A i, j \in 1..Len(s) : s[i] = s[j] => i = j
  PROVE  /\ IsFiniteSet(Members(SubSeq(s, 1, k)))
         /\ Cardinality(Members(SubSeq(s, 1, k))) = k
         /\ Len(SubSeq(s, 1, k)) = k
         /\ \A i \in 1..k : SubSeq(s, 1, k)[i] = s[i]
<1> DEFINE t == SubSeq(s, 1, k)
           f == [i \in 1..k |-> s[i]]
<1>1. Len(s) \in Nat
  OBVIOUS
<1>2. Len(t) = k /\ DOMAIN t = 1..k /\ \A i \in 1..k : t[i] = s[i]
  BY <1>1
<1>3. /\ \A i \in 1..k : s[i] \in Members(t)
      /\ \A x \in Members(t) : \E i \in 1..k : s[i] = x
  <2> HIDE DEF t
  <2>1. Members(t) = {t[i] : i \in 1..k}
    BY <1>2 DEF Members
  <2> QED BY <1>2, <2>1
<1>4. IsFiniteSet(1..k) /\ Cardinality(1..k) = k
  <2>1. 1 \in Int /\ k \in Int
    OBVIOUS
  <2>2. Cardinality(1..k) = IF 1 > k THEN 0 ELSE k - 1 + 1
    BY <2>1, FS_Interval, Zenon
  <2> QED BY <2>1, <2>2, FS_Interval
<1> HIDE DEF t
<1>5. f \in [1..k -> Members(t)] /\ \A x \in Members(t) : \E i \in 1..k : f[i] = x
  BY <1>3, Zenon
<1>6. \A i, j \in 1..k : f[i] = f[j] => i = j
  BY <1>1
<1> HIDE DEF f
<1>7. IsFiniteSet(Members(t)) /\ Cardinality(Members(t)) = Cardinality(1..k)
  BY <1>4, <1>5, <1>6, SameSize
<1> QED BY <1>2, <1>4, <1>7 DEF t

\* What the sets of members look like, in any state.
GroupSets ==
    /\ IsFiniteSet(Members(consensusGroup)) /\ Cardinality(Members(consensusGroup)) = ConsensusSize
    /\ IsFiniteSet(Members(primaryGroup)) /\ Cardinality(Members(primaryGroup)) = PrimarySize
    /\ Members(primaryGroup) \subseteq Members(consensusGroup)
    /\ Members(consensusGroup) \subseteq Nodes
    /\ Len(primaryGroup) = PrimarySize
    /\ primaryGroup[randomValue] \in Members(primaryGroup)

\* The groups of a state of the right type are groups as GroupSets says.
LEMMA GroupsAsSets == TypeOK => GroupSets
<1> SUFFICES ASSUME TypeOK PROVE GroupSets
  OBVIOUS
<1> DEFINE r == ranking
<1>1. /\ r \in Seq(Nodes) /\ ConsensusSize <= Len(r) /\ ConsensusSize \in Nat
      /\ \A i, j \in 1..Len(r) : r[i] = r[j] => i = j
      /\ PrimarySize \in Nat /\ PrimarySize <= ConsensusSize
  BY SizeAssumption DEF TypeOK
<1> DEFINE c == SubSeq(r, 1, ConsensusSize)
           p == SubSeq(c, 1, PrimarySize)
<1>2. consensusGroup = c /\ primaryGroup = p /\ randomValue \in 1..PrimarySize
  BY DEF TypeOK
<1>3. /\ IsFiniteSet(Members(c)) /\ Cardinality(Members(c)) = ConsensusSize
      /\ Len(c) = ConsensusSize /\ \A i \in 1..ConsensusSize : c[i] = r[i]
  BY <1>1, MembersCounted
<1>4. Len(r) \in Nat /\ c \in Seq(Nodes)
  BY <1>1
<1>5. \A i, j \in 1..Len(c) : c[i] = c[j] => i = j
  BY <1>1, <1>3, <1>4
<1> HIDE DEF c
<1>6. /\ IsFiniteSet(Members(p)) /\ Cardinality(Members(p)) = PrimarySize
      /\ Len(p) = PrimarySize /\ \A i \in 1..PrimarySize : p[i] = c[i]
  BY <1>1, <1>3, <1>4, <1>5, MembersCounted
<1>7. DOMAIN p = 1..PrimarySize /\ DOMAIN c = 1..ConsensusSize
  <2>1. p \in Seq(Nodes)
    BY <1>1, <1>3, <1>4
  <2> QED BY <1>3, <1>4, <1>6, <2>1
<1> HIDE DEF p
<1>8. Members(p) \subseteq Members(c) /\ p[randomValue] \in Members(p)
  <2>1. ASSUME NEW i \in 1..PrimarySize PROVE i \in 1..ConsensusSize
    BY <1>1
  <2> QED BY <1>2, <1>6, <1>7, <2>1 DEF Members
<1>9. Members(c) \subseteq Nodes
  <2>1. ASSUME NEW i \in DOMAIN c PROVE c[i] \in Nodes
    BY <1>3, <1>4, <1>7
  <2> QED BY <2>1 DEF Members
<1> QED BY <1>2, <1>3, <1>6, <1>8, <1>9 DEF GroupSets

----------------------------------------------------------------------------
(* Nobody sends to itself, and what is sent to groups is finite.           *)

Tidy ==
    /\ \A p \in Peers : net[p][p] = <<>>
    /\ IsFiniteSet(Spots(net, All, Rest))

\* What a peer n sends is finite and not for itself.
Tame(n, out) ==
    /\ out \in [Peers -> Seq(AnyMessage)]
    /\ out[n] = <<>>
    /\ \E d \in Nat : Gives(n, out, Rest, d)

\* Some messages of a finite number.
LEMMA PartOfRest ==
  ASSUME NEW f, IsFiniteSet(Spots(f, All, Rest)), NEW W, W \subseteq Rest
  PROVE  IsFiniteSet(Spots(f, All, W)) /\ Count(f, W) \in Nat
<1>1. Spots(f, All, W) \subseteq Spots(f, All, Rest)
  BY DEF Spots, At
<1>2. IsFiniteSet(Spots(f, All, W))
  BY <1>1, FS_Subset
<1> QED BY <1>2, FS_CardinalityType DEF Count

\* Sending nothing, a message to a finite set of others, a message that is
\* not counted to any others, and two such things in a row.
LEMMA TameSends ==
  ASSUME NEW n \in Peers
  PROVE  /\ Tame(n, Nothing)
         /\ \A S : \A m \in AnyMessage : IsFiniteSet(S) /\ n \notin S => Tame(n, To(S, m))
         /\ \A S : \A m \in AnyMessage : m \notin Rest /\ n \notin S => Tame(n, To(S, m))
         /\ \A f, g : Tame(n, f) /\ Tame(n, g) => Tame(n, Then(f, g))
<1>1. Tame(n, Nothing)
  <2>1. Nothing \in [Peers -> Seq(AnyMessage)] /\ Nothing[n] = <<>>
    BY NothingSent DEF Nothing
  <2>2. Gives(n, Nothing, Rest, 0)
    BY ToAt, NoneGiven
  <2> QED BY <2>1, <2>2 DEF Tame
<1>2. ASSUME NEW S, NEW m \in AnyMessage, n \notin S
      PROVE  To(S, m) \in [Peers -> Seq(AnyMessage)] /\ To(S, m)[n] = <<>>
  <2>1. To(S, m) \in [Peers -> Seq(AnyMessage)]
    BY ToSent
  <2> QED BY <1>2, <2>1 DEF To
<1>3. ASSUME NEW S, NEW m \in AnyMessage, IsFiniteSet(S), n \notin S PROVE Tame(n, To(S, m))
  <2>1. Cardinality(S \cap Peers) \in Nat
    BY <1>3, FS_Intersection, FS_CardinalityType
  <2> DEFINE d == IF m \in Rest THEN Cardinality(S \cap Peers) ELSE 0
  <2>2. Gives(n, To(S, m), Rest, d) /\ d \in Nat
    BY <1>3, <2>1, ToSomeGives
  <2> QED BY <1>2, <1>3, <2>2 DEF Tame
<1>4. ASSUME NEW S, NEW m \in AnyMessage, m \notin Rest, n \notin S PROVE Tame(n, To(S, m))
  <2>1. Gives(n, To(S, m), Rest, 0)
    BY <1>4, ToGives
  <2> QED BY <1>2, <1>4, <2>1 DEF Tame
<1>5. ASSUME NEW f, NEW g, Tame(n, f), Tame(n, g) PROVE Tame(n, Then(f, g))
  <2>1. /\ f \in [Peers -> Seq(AnyMessage)] /\ g \in [Peers -> Seq(AnyMessage)]
        /\ f[n] = <<>> /\ g[n] = <<>>
    BY <1>5 DEF Tame
  <2>2. Then(f, g) \in [Peers -> Seq(AnyMessage)]
    BY <2>1, ThenSent
  <2>3. Then(f, g)[n] = <<>>
    BY <2>1 DEF Then
  <2>4. PICK a \in Nat : Gives(n, f, Rest, a)
    BY <1>5 DEF Tame
  <2>5. PICK b \in Nat : Gives(n, g, Rest, b)
    BY <1>5 DEF Tame
  <2>6. Gives(n, Then(f, g), Rest, a + b)
    BY <2>1, <2>4, <2>5, ThenGives
  <2>7. a + b \in Nat
    OBVIOUS
  <2> QED BY <2>2, <2>3, <2>6, <2>7 DEF Tame
<1> QED BY <1>1, <1>3, <1>4, <1>5

\* The lead's proposal, the message that closes a round, and a reply.
LEMMA TameProposal ==
  ASSUME TypeOK, TypeOK', NEW n \in Nodes, NEW q \in Seq(Entry)
  PROVE  Tame(n, Proposal(n, q)) /\ Tame(n, NextRequest(n))
<1>0. n \in Peers /\ orderNumber \in Nat /\ GroupSets'
  <2>1. TypeOK' => GroupSets'
    BY GroupsAsSets, PTL
  <2> QED BY <2>1 DEF TypeOK, Peers
<1>1. Tame(n, NextRequest(n))
  <2> DEFINE k == [type |-> "MsgNextRequest"]
  <2>1. k \in AnyMessage /\ k \notin Rest
    BY DEF AnyMessage, NodeMessage, Rest
  <2>2. NextRequest(n) = To(Nodes \ {n}, k)
    BY DEF NextRequest
  <2> HIDE DEF k
  <2> QED BY <1>0, <2>1, <2>2, TameSends
<1>2. CASE q # <<>> /\ primaryGroup'[randomValue'] = n
  <2> DEFINE m == [type |-> "MsgPrimaryConsensus", order |-> orderNumber + 1,
                   signature |-> Sign(n, orderNumber + 1, Head(q).message)]
             S == Members(primaryGroup') \ {n}
  <2>1. Head(q) \in Entry
    BY <1>2
  <2>2. Sign(n, orderNumber + 1, Head(q).message) \in PeerSignature
    BY <1>0, <2>1, PeerSigned DEF Entry, Texts
  <2>3. m \in AnyMessage
    BY <1>0, <2>2 DEF AnyMessage, NodeMessage
  <2>4. Proposal(n, q) = To(S, m)
    BY <1>2 DEF Proposal
  <2>5. IsFiniteSet(S) /\ n \notin S
    <3>1. IsFiniteSet(Members(primaryGroup'))
      BY <1>0 DEF GroupSets
    <3> QED BY <3>1, FS_Difference
  <2> HIDE DEF m, S
  <2> QED BY <1>0, <1>1, <2>3, <2>4, <2>5, TameSends
<1>3. CASE ~(q # <<>> /\ primaryGroup'[randomValue'] = n)
  BY <1>0, <1>1, <1>3, TameSends DEF Proposal
<1> QED BY <1>2, <1>3

\* A reply of a node goes to the client or, as a MsgPrimaryVerified, to the lead.
LEMMA TameReply ==
  ASSUME TypeOK, NEW n \in Nodes, NEW order \in Nat, NEW result \in BOOLEAN
  PROVE  Tame(n, Reply(n, order, result))
<1> DEFINE k == [type |-> "MsgReply", result |-> result, order |-> order]
<1>1. k \in AnyMessage
  BY DEF AnyMessage, NodeMessage
<1>2. Reply(n, order, result) = To({client_id[n]}, k)
  BY DEF Reply
<1>3. n \in Peers /\ n \notin {client_id[n]}
  BY PeerAssumption DEF TypeOK, Peers
<1>4. IsFiniteSet({client_id[n]})
  BY FS_Singleton
<1> HIDE DEF k
<1> QED BY <1>1, <1>2, <1>3, <1>4, TameSends

\* Every step of a node takes its message and sends something tame.
LEMMA TameNode ==
  ASSUME TypeOK, TypeOK', Tidy, NEW n \in Nodes, NEW q \in Peers, Node(n, q)
  PROVE  \/ UNCHANGED net
         \/ \E out : Tame(n, out) /\ Handle(n, q, out)
<1> DEFINE m == Head(net[q][n])
<1>0. /\ net \in Channels(NodeMessage, ClientMessage) /\ n \in Peers /\ NodeTypes
      /\ orderNumber \in Nat /\ groupKey \in Nat /\ GroupSets
  BY TypeParts, GroupsAsSets DEF TypeOK, Peers
<1>1. net[q][n] # <<>> /\ q # n
  <2>1. net[q][n] # <<>>
    BY DEF Node, group_request_handler, primary_consensus_handler, primary_verified_handler,
       preprepare_handler, prepare_handler, send_reply_handler, ack_handler,
       process_next_request, Arrives
  <2> QED BY <1>0, <2>1 DEF Tidy
<1>2. (q \in Nodes => m \in NodeMessage) /\ (q \in Clients => m \in ClientMessage)
  BY <1>0, <1>1, HeadOnChannel
<1>3. Tame(n, Nothing)
  BY <1>0, TameSends
<1>4. ASSUME requestQueue[n] # <<>>,
             Handle(n, q, Then(NextRequest(n), Proposal(n, Tail(requestQueue[n]))))
      PROVE  \E out : Tame(n, out) /\ Handle(n, q, out)
  <2>1. Tail(requestQueue[n]) \in Seq(Entry)
    BY <1>0, <1>4 DEF NodeTypes
  <2>2. Tame(n, Then(NextRequest(n), Proposal(n, Tail(requestQueue[n]))))
    BY <1>0, <2>1, TameProposal, TameSends
  <2> QED BY <1>4, <2>2
<1>5. ASSUME CloseRound(n, q)
      PROVE  UNCHANGED net \/ \E out : Tame(n, out) /\ Handle(n, q, out)
  BY <1>4, <1>5 DEF CloseRound
<1>6. CASE group_request_handler(n, q)
  <2> DEFINE queue == Enqueue(requestQueue[n], [client |-> q, message |-> m.message])
  <2>1. m.type = "MsgGroup" /\ (Handle(n, q, Nothing) \/ Handle(n, q, Proposal(n, queue)))
    BY <1>6 DEF group_request_handler, Arrives
  <2>2. m.message \in Requests /\ q \in Clients
    BY <1>2, <2>1, NodeMessageFields, ClientMessageFields DEF Peers
  <2>3. queue \in Seq(Entry)
    BY <1>0, <2>2, EnqueuedTypes
  <2> HIDE DEF queue
  <2> QED BY <1>3, <2>1, <2>3, TameProposal
<1>7. CASE primary_consensus_handler(n, q)
  <2> DEFINE k == [type |-> "MsgPrimaryVerified",
                   verified |-> VerifySignature(m.order, client_request[n], m.signature, q)]
  <2>1. Handle(n, q, To({q}, k))
    BY <1>7 DEF primary_consensus_handler
  <2>2. k \in AnyMessage
    BY DEF AnyMessage, NodeMessage, VerifySignature
  <2> HIDE DEF k
  <2>3. IsFiniteSet({q}) /\ n \notin {q}
    BY <1>1, FS_Singleton
  <2> QED BY <1>0, <2>1, <2>2, <2>3, TameSends
<1>8. CASE primary_verified_handler(n, q)
  <2> DEFINE k == [type |-> "MsgPreprepare", order |-> orderNumber,
                   signature |-> Sign(groupKey, orderNumber, client_request[n])]
             S == Members(consensusGroup) \ Members(primaryGroup)
  <2>1. \/ n \in Members(primaryGroup) /\ Handle(n, q, To(S, k))
        \/ Handle(n, q, Nothing)
        \/ CloseRound(n, q)
    BY <1>8 DEF primary_verified_handler
  <2>2. k \in AnyMessage
    BY <1>0, GroupSigned DEF AnyMessage, NodeMessage, NodeTypes
  <2>3. IsFiniteSet(S) /\ (n \in Members(primaryGroup) => n \notin S)
    BY <1>0, FS_Difference DEF GroupSets
  <2> HIDE DEF k, S
  <2> QED BY <1>0, <1>3, <1>5, <2>1, <2>2, <2>3, TameSends
<1>9. CASE preprepare_handler(n, q)
  <2> DEFINE k == [type |-> "MsgPrepare", order |-> m.order, groupSign |-> m.signature,
                   peerSign |-> Sign(n, m.order, client_request[n])]
             S == Members(consensusGroup) \ {n}
  <2>1. m.type = "MsgPreprepare" /\ (Handle(n, q, To(S, k)) \/ Handle(n, q, Nothing))
    BY <1>9 DEF preprepare_handler, Arrives
  <2>2. m.order \in Nat /\ m.signature \in GroupSignature
    BY <1>2, <2>1, NodeMessageFields, ClientMessageFields DEF Peers
  <2>3. k \in AnyMessage
    BY <1>0, <2>2, PeerSigned DEF AnyMessage, NodeMessage, NodeTypes
  <2>4. IsFiniteSet(S) /\ n \notin S
    BY <1>0, FS_Difference DEF GroupSets
  <2> HIDE DEF k, S
  <2> QED BY <1>0, <1>3, <2>1, <2>3, <2>4, TameSends
<1>10. CASE prepare_handler(n, q)
  <2> DEFINE k == [type |-> "MsgSend", sendReply |-> TRUE, order |-> m.order]
             S == Members(consensusGroup) \ {n}
  <2>1. /\ m.type = "MsgPrepare"
        /\ \/ Handle(n, q, Then(To(S, k), Reply(n, m.order, TRUE)))
           \/ Handle(n, q, Nothing)
           \/ CloseRound(n, q)
    BY <1>10 DEF prepare_handler, Arrives
  <2>2. m.order \in Nat
    BY <1>2, <2>1, NodeMessageFields, ClientMessageFields DEF Peers
  <2>3. k \in AnyMessage
    BY <2>2 DEF AnyMessage, NodeMessage
  <2>4. IsFiniteSet(S) /\ n \notin S
    BY <1>0, FS_Difference DEF GroupSets
  <2> HIDE DEF m, k, S
  <2>5. Tame(n, Then(To(S, k), Reply(n, m.order, TRUE)))
    BY <1>0, <2>2, <2>3, <2>4, TameReply, TameSends
  <2> QED BY <1>3, <1>5, <2>1, <2>5
<1>11. CASE send_reply_handler(n, q)
  <2>1. m.type = "MsgSend" /\ Handle(n, q, Reply(n, m.order, m.sendReply))
    BY <1>11 DEF send_reply_handler, Arrives
  <2>2. m.order \in Nat /\ m.sendReply \in BOOLEAN
    BY <1>2, <2>1, NodeMessageFields, ClientMessageFields DEF Peers
  <2> QED BY <2>1, <2>2, TameReply
<1>12. CASE ack_handler(n, q)
  BY <1>5, <1>12 DEF ack_handler
<1>13. CASE process_next_request(n, q)
  <2>1. CASE requestQueue[n] # <<>> /\ Handle(n, q, Proposal(n, Tail(requestQueue[n])))
    <3>1. Tail(requestQueue[n]) \in Seq(Entry)
      BY <1>0, <2>1 DEF NodeTypes
    <3> QED BY <2>1, <3>1, TameProposal
  <2> QED BY <1>13, <2>1 DEF process_next_request
<1> QED BY <1>6, <1>7, <1>8, <1>9, <1>10, <1>11, <1>12, <1>13 DEF Node

\* Handling a message and sending something tame keeps the channels tidy.
LEMMA TameKeepsTidy ==
  ASSUME TypeOK, Tidy, NEW n \in Peers, NEW q \in Peers, net[q][n] # <<>>,
         NEW out, Tame(n, out), Handle(n, q, out)
  PROVE  Tidy'
<1>1. q # n /\ out \in [Peers -> Seq(AnyMessage)] /\ out[n] = <<>>
  BY DEF Tidy, Tame
<1>2. PICK d \in Nat : Gives(n, out, Rest, d)
  BY DEF Tame
<1>3. IsFiniteSet(Spots(net', All, Rest))
  BY <1>1, <1>2, Flow DEF Tidy
<1>4. ASSUME NEW p \in Peers PROVE net'[p][p] = <<>>
  <2>1. net'[p][p] = IF p = n THEN net[p][p] \o out[p] ELSE net[p][p]
    BY <1>1 DEF Handle
  <2> QED BY <1>1, <2>1 DEF Tidy
<1> QED BY <1>3, <1>4 DEF Tidy

\* The number of messages W after any move.
LEMMA MovedAll ==
  ASSUME NEW n, NEW q, NEW took, NEW out, NEW W, NEW d, Moves(n, q, took, out, W),
         Gives(n, out, W, d), IsFiniteSet(Spots(net, All, W))
  PROVE  /\ IsFiniteSet(Spots(net', All, W))
         /\ Count(net', W) = Count(net, W) + d
               - (IF took = 1 /\ <<q, n>> \in All /\ Head(net[q][n]) \in W THEN 1 ELSE 0)
BY MovedSpots DEF Count, Gives

\* A step that takes and sends none of a kind leaves the number of its
\* messages alone, and finite.
LEMMA MovedAside ==
  ASSUME NEW c, NEW out, NEW W, NEW took, NEW d, Moves(c, c, took, out, W), Gives(c, out, W, d),
         IsFiniteSet(Spots(net, All, W)), Count(net, W) \in Nat
  PROVE  /\ IsFiniteSet(Spots(net', All, W))
         /\ took = 0 /\ d = 0 => Count(net', W) = Count(net, W)
<1>1. /\ IsFiniteSet(Spots(net', All, W))
      /\ Count(net', W) = Count(net, W) + d
            - (IF took = 1 /\ <<c, c>> \in All /\ Head(net[c][c]) \in W THEN 1 ELSE 0)
  BY MovedAll
<1> QED BY <1>1

\* What the client multicasts changes the number of no other message.
LEMMA MulticastRest ==
  ASSUME TypeOK, Tidy, NEW t \in Threads, multicast(t), NEW W, W \subseteq Rest
  PROVE  /\ IsFiniteSet(Spots(net', All, W))
         /\ Count(net', W) = Count(net, W)
         /\ \A p \in Peers : net'[p][p] = <<>>
         /\ \A a, b \in Peers :
               \/ net'[a][b] = net[a][b]
               \/ \E k \in AnyMessage : k.type = "MsgGroup" /\ net'[a][b] = Append(net[a][b], k)
<1> DEFINE c == ClientOf[t]
           k == [type |-> "MsgGroup", message |-> Head(script[t])]
           out == To(Nodes, k)
<1>1. /\ c \in Clients /\ c \in Peers /\ c \notin Nodes /\ script[t] \in Seq(Requests) /\ script[t] # <<>>
      /\ net \in [Peers -> [Peers -> Seq(AnyMessage)]]
  BY RequestAssumption, PeerAssumption DEF TypeOK, Peers, multicast, Channels, AnyMessage
<1>2. k \in AnyMessage /\ k \notin Rest /\ k.type = "MsgGroup"
  <2>1. Head(script[t]) \in Requests
    BY <1>1
  <2> QED BY <2>1 DEF AnyMessage, ClientMessage, Rest
<1>3. net' = [net EXCEPT ![c] = [p \in Peers |-> IF p \in Nodes THEN Append(net[c][p], k) ELSE net[c][p]]]
  BY DEF multicast
<1> HIDE DEF k, c
<1>4. out \in [Peers -> Seq(AnyMessage)] /\ out[c] = <<>>
  <2>1. out \in [Peers -> Seq(AnyMessage)]
    BY <1>2, ToSent
  <2> QED BY <1>1, <2>1 DEF To
<1>5. Gives(c, out, W, 0)
  BY <1>1, <1>2, ToGives
<1>6. ASSUME NEW p \in Peers PROVE out[p] = IF p \in Nodes THEN <<k>> ELSE <<>>
  BY DEF To
<1> HIDE DEF out
<1>7. ASSUME NEW a \in Peers, NEW b \in Peers
      PROVE  net'[a][b] = IF a = c THEN net[a][b] \o out[b] ELSE net[a][b]
  <2>1. net[a][b] \in Seq(AnyMessage)
    BY <1>1
  <2>2. net[a][b] \o <<>> = net[a][b] /\ net[a][b] \o <<k>> = Append(net[a][b], k)
    BY <1>2, <2>1
  <2> QED BY <1>1, <1>3, <1>6, <2>2
<1>8. net' = [a \in Peers |-> [b \in Peers |->
               IF 0 = 1 /\ a = c /\ b = c THEN Tail(net[a][b])
               ELSE IF a = c THEN net[a][b] \o out[b]
               ELSE net[a][b]]]
  <2>1. /\ DOMAIN net' = Peers
        /\ net' = [a \in DOMAIN net' |-> net'[a]]
        /\ \A a \in Peers : net'[a] = [b \in Peers |-> net'[a][b]]
    BY <1>1, <1>3
  <2>2. \A a \in Peers : net'[a] = [b \in Peers |-> IF a = c THEN net[a][b] \o out[b] ELSE net[a][b]]
    BY <1>7, <2>1
  <2> DEFINE row(a) == [b \in Peers |->
               IF 0 = 1 /\ a = c /\ b = c THEN Tail(net[a][b])
               ELSE IF a = c THEN net[a][b] \o out[b]
               ELSE net[a][b]]
  <2>3. ~(0 = 1)
    OBVIOUS
  <2>4. ASSUME NEW a \in Peers PROVE net'[a] = row(a)
    BY <2>2, <2>3
  <2> HIDE DEF row
  <2>5. net' = [a \in Peers |-> row(a)]
    BY <2>1, <2>4
  <2> QED BY <2>5 DEF row
<1>9. Moves(c, c, 0, out, W)
  <2>1. \A i \in Nat : ~At(out[c], i, W)
    BY <1>4 DEF At
  <2> QED BY <1>1, <1>4, <1>8, <2>1 DEF Moves
<1>10. IsFiniteSet(Spots(net', All, W)) /\ Count(net', W) = Count(net, W)
  <2>1. IsFiniteSet(Spots(net, All, W)) /\ Count(net, W) \in Nat
    BY PartOfRest DEF Tidy
  <2>2. ASSUME NEW took, NEW d, took = 0, d = 0
        PROVE  IsFiniteSet(Spots(net', All, W)) /\ Count(net', W) = Count(net, W)
    <3>1. Moves(c, c, took, out, W) /\ Gives(c, out, W, d)
      BY <1>5, <1>9, <2>2
    <3> QED BY <2>1, <2>2, <3>1, MovedAside
  <2> QED BY <2>2
<1>11. ASSUME NEW p \in Peers PROVE net'[p][p] = <<>>
  <2>1. net'[p][p] = IF p = c THEN net[p][p] \o out[p] ELSE net[p][p]
    BY <1>7
  <2> QED BY <1>4, <2>1 DEF Tidy
<1>12. ASSUME NEW a \in Peers, NEW b \in Peers, net'[a][b] # net[a][b]
       PROVE  \E m \in AnyMessage : m.type = "MsgGroup" /\ net'[a][b] = Append(net[a][b], m)
  <2>1. net[a][b] \in Seq(AnyMessage)
    BY <1>1
  <2>2. net[a][b] \o <<>> = net[a][b] /\ net[a][b] \o <<k>> = Append(net[a][b], k)
    BY <1>2, <2>1
  <2>3. net'[a][b] = Append(net[a][b], k)
    BY <1>6, <1>7, <1>12, <2>2
  <2> QED BY <1>2, <2>3
<1> QED BY <1>10, <1>11, <1>12

\* On any network the channels stay tidy.
LEMMA NextTidy == TypeOK /\ TypeOK' /\ Tidy /\ [Next]_vars => Tidy'
<1> SUFFICES ASSUME TypeOK, TypeOK', Tidy, [Next]_vars PROVE Tidy'
  OBVIOUS
<1>1. ASSUME UNCHANGED net PROVE Tidy'
  BY <1>1 DEF Tidy, Spots
<1>2. ASSUME NEW n \in Nodes, NEW q \in Peers, Node(n, q) PROVE Tidy'
  <2>1. net[q][n] # <<>> /\ n \in Peers
    BY <1>2 DEF Node, group_request_handler, primary_consensus_handler, primary_verified_handler,
       preprepare_handler, prepare_handler, send_reply_handler, ack_handler,
       process_next_request, Arrives, Peers
  <2> QED BY <1>1, <1>2, <2>1, TameNode, TameKeepsTidy
<1>3. ASSUME NEW c \in Clients, NEW q \in Nodes, reply_handler(c, q) PROVE Tidy'
  <2> DEFINE k == [type |-> "MsgAck"]
  <2>1. /\ c \in Peers /\ q \in Peers /\ c # q /\ net[q][c] # <<>>
        /\ Handle(c, q, To({q}, k)) \/ Handle(c, q, Nothing)
    BY <1>3, PeerAssumption DEF reply_handler, Arrives, Peers
  <2>2. k \in AnyMessage
    BY DEF AnyMessage, ClientMessage
  <2>3. IsFiniteSet({q}) /\ c \notin {q}
    BY <2>1, FS_Singleton
  <2> HIDE DEF k
  <2> QED BY <2>1, <2>2, <2>3, TameSends, TameKeepsTidy
<1>4. ASSUME NEW t \in Threads, multicast(t) PROVE Tidy'
  <2>1. Rest \subseteq Rest
    OBVIOUS
  <2> QED BY <1>4, <2>1, MulticastRest DEF Tidy
<1> QED BY <1>1, <1>2, <1>3, <1>4 DEF Next, vars

\* At first the channels are empty, hence tidy.
LEMMA InitTidy == Init => Tidy
<1> SUFFICES ASSUME Init PROVE Tidy
  OBVIOUS
<1>1. \A p, q \in Peers : net[p][q] = <<>>
  BY DEF Init
<1>2. Spots(net, All, Rest) = {}
  BY <1>1 DEF Spots, At, All
<1> QED BY <1>1, <1>2, FS_EmptySet DEF Tidy

----------------------------------------------------------------------------
(* What every network keeps.                                               *)

PCs == OfType("MsgPrimaryConsensus")
PVs == OfType("MsgPrimaryVerified")
Results == OfType("MsgSend") \cup OfType("MsgReply")
Acks == OfType("MsgAck")

In(m, W) == IF m \in W THEN 1 ELSE 0

Lead == primaryGroup[randomValue]

\* The number of members of the primary group n asks if it goes on with the
\* requests q.
Asking1(n, q) == IF q # <<>> /\ Lead' = n THEN PrimarySize - 1 ELSE 0

\* All that is shown above of the states of the round, on any network.
Ground ==
    /\ TypeOK /\ WorksOnFront /\ PreparedBelowQuorum /\ SuccessOnly
    /\ AllPlaced /\ Balanced /\ Tidy

\* The sizes of groups and quorums are numbers, the groups' and the prepare
\* quorum at least one.
LEMMA Sizes == /\ ConsensusSize \in Nat /\ PrimarySize \in Nat /\ PrimarySize >= 1
               /\ ConsensusSize >= 1 /\ ConsensusSize - 1 \in Nat /\ PrimarySize - 1 \in Nat
               /\ PrepareQuorum \in Nat /\ PrepareQuorum >= 1 /\ ReplyQuorum \in Nat
               /\ MaxPrepared \in Nat
<1>1. /\ ConsensusSize \in Nat /\ PrimarySize \in Nat /\ PrimarySize >= 1
      /\ PrimarySize <= ConsensusSize
      /\ PrepareQuorum \in Nat /\ PrepareQuorum >= 1 /\ ReplyQuorum \in Nat
  BY SizeAssumption
<1>2. ConsensusSize - 1 \in Nat /\ PrimarySize - 1 \in Nat /\ ConsensusSize - PrimarySize \in Nat
      /\ ConsensusSize >= 1
  BY <1>1
<1>3. \A a, b \in Nat : a * b \in Nat
  OBVIOUS
<1> QED BY <1>1, <1>2, <1>3 DEF MaxPrepared

\* Arithmetic of the weights.
LEMMA Multiply ==
  /\ \A c, x, y \in Nat : y <= x => c * y <= c * x /\ c * y \in Nat
  /\ \A c, x \in Int : c * (x - 1) = c * x - c /\ c * (x + 1) = c * x + c
<1>1. ASSUME NEW c \in Nat, NEW x \in Nat, NEW y \in Nat, y <= x PROVE c * y <= c * x /\ c * y \in Nat
  <2>1. PICK d \in Nat : x = y + d
    <3>1. x - y \in Nat /\ x = y + (x - y)
      BY <1>1
    <3> QED BY <3>1
  <2>2. c * x = c * y + c * d /\ c * d \in Nat /\ c * y \in Nat
    BY <2>1
  <2> QED BY <2>2
<1> QED BY <1>1

\* What a node may find at the head of a connection.
LEMMA NodeHead ==
  ASSUME Ground, NEW n \in Nodes, NEW q \in Peers, net[q][n] # <<>>,
         NEW m, m = Head(net[q][n])
  PROVE  /\ m \in AnyMessage /\ m \in Members(net[q][n]) /\ n \in Peers
         /\ q # n
         /\ m.type \notin {"MsgGroup", "MsgAck"} => m \in NodeMessage /\ q \in Nodes
         /\ m.type \in {"MsgGroup", "MsgAck"} => m \in ClientMessage /\ q \in Clients
<1>1. net \in Channels(NodeMessage, ClientMessage) /\ n \in Peers
  BY DEF Ground, TypeOK, Peers
<1>2. q # n
  BY <1>1 DEF Ground, Tidy
<1>3. net[q][n] \in Seq(AnyMessage)
  BY <1>1 DEF Channels, AnyMessage
<1>4. m \in Members(net[q][n]) /\ m \in AnyMessage
  BY <1>3 DEF Members
<1>5. (q \in Nodes => m \in NodeMessage) /\ (q \in Clients => m \in ClientMessage)
  BY <1>1, HeadOnChannel
<1>6. (q \in Nodes => m.type \notin {"MsgGroup", "MsgAck"}) /\ (q \in Clients => m.type \in {"MsgGroup", "MsgAck"})
  BY <1>5, NodeMessageFields, ClientMessageFields
<1> QED BY <1>1, <1>2, <1>4, <1>5, <1>6 DEF Peers

\* A prepare taken, whether it was counted or not.
LEMMA PrepareTaken ==
  ASSUME Ground, NEW n \in Nodes, NEW q \in Peers, net[q][n] # <<>>,
         NEW m, m = Head(net[q][n]), m.type = "MsgPrepare"
  PROVE  \/ Prepared(n, q, m) = prepared_messages
         \/ /\ Prepared(n, q, m) = prepared_messages + 1
            /\ m.groupSign.key = groupKey
            /\ VerifySignature(m.order, client_request[n], m.peerSign, q)
            /\ n \in Members(consensusGroup)
<1>1. Placed(m, q, n)
  BY NodeHead DEF Ground, AllPlaced, Peers
<1>2. CASE /\ VerifySignature(m.order, client_request[n], m.groupSign, groupKey)
           /\ VerifySignature(m.order, client_request[n], m.peerSign, q)
  <2>1. m.groupSign.key = groupKey
    BY <1>2 DEF VerifySignature, Sign
  <2>2. Prepared(n, q, m) = prepared_messages + 1
    BY <1>2 DEF Prepared
  <2> QED BY <1>1, <1>2, <2>1, <2>2 DEF Placed
<1>3. CASE ~ (/\ VerifySignature(m.order, client_request[n], m.groupSign, groupKey)
              /\ VerifySignature(m.order, client_request[n], m.peerSign, q))
  BY <1>3 DEF Prepared
<1> QED BY <1>2, <1>3

\* The tally with one answer more.
LEMMA OneMore ==
  ASSUME NEW t \in [BOOLEAN -> Nat], NEW b \in BOOLEAN,
         NEW u, u = [t EXCEPT ![b] = @ + 1]
  PROVE  /\ u \in [BOOLEAN -> Nat] /\ Answers(u) = Answers(t) + 1
         /\ Answers(t) \in Nat /\ u[TRUE] \in Nat /\ u[FALSE] \in Nat
<1>1. u \in [BOOLEAN -> Nat]
  BY TallyTypes
<1>2. Answers(u) = Answers(t) + 1
  BY OneMoreAnswer
<1>3. t[TRUE] \in Nat /\ t[FALSE] \in Nat
  BY TRUE \in BOOLEAN, FALSE \in BOOLEAN
<1>4. u[TRUE] \in Nat /\ u[FALSE] \in Nat
  BY <1>1, TRUE \in BOOLEAN, FALSE \in BOOLEAN
<1>5. \A x, y \in Nat : x + y \in Nat
  OBVIOUS
<1>6. Answers(t) \in Nat
  BY <1>3, <1>5 DEF Answers
<1> QED BY <1>1, <1>2, <1>4, <1>6

OnlyMessages == \A a, b \in Peers : net[a][b] \in Seq(AnyMessage)

\* Only messages are on the channels.
LEMMA ChannelsTyped == TypeOK => OnlyMessages
<1> SUFFICES ASSUME TypeOK, NEW a \in Peers, NEW b \in Peers PROVE net[a][b] \in Seq(AnyMessage)
  BY DEF OnlyMessages
<1>1. net \in Channels(NodeMessage, ClientMessage)
  BY DEF TypeOK
<1>2. net \in [Peers -> [Peers -> Seq(NodeMessage \cup ClientMessage)]]
  BY <1>1 DEF Channels
<1> QED BY <1>2 DEF AnyMessage

\* It holds of every run, on any network.
LEMMA SpecGround == Spec => []Ground
<1>1. Init => WorksOnFront /\ PreparedBelowQuorum /\ SuccessOnly /\ AllPlaced /\ Balanced /\ Tidy
  <2> SUFFICES ASSUME Init PROVE WorksOnFront /\ PreparedBelowQuorum /\ SuccessOnly /\ AllPlaced /\ Balanced /\ Tidy
    OBVIOUS
  <2>1. WorksOnFront
    BY DEF Init, WorksOnFront
  <2>2. PreparedBelowQuorum
    BY SizeAssumption DEF Init, PreparedBelowQuorum
  <2>3. SuccessOnly
    BY InitChannels DEF Init, SuccessOnly, NoAnswer
  <2>4. AllPlaced
    BY DEF Init, AllPlaced, Members
  <2> QED BY <2>1, <2>2, <2>3, <2>4, BalancedInit, InitTidy
<1>2. TypeOK /\ TypeOK' /\ WorksOnFront /\ PreparedBelowQuorum /\ SuccessOnly /\ AllPlaced /\ Balanced
         /\ Tidy /\ [Next]_vars
      => WorksOnFront' /\ PreparedBelowQuorum' /\ SuccessOnly' /\ AllPlaced' /\ Balanced' /\ Tidy'
  BY NextOnFront, NextBelowQuorum, NextSuccess, NextPlaced, BalancedStep, NextTidy
<1> QED BY <1>1, <1>2, TypeCorrect, PTL DEF Spec, Ground

----------------------------------------------------------------------------
(* Nothing is counted twice, on any network and for all sizes.             *)

Questions == PCs \cup PVs
Prepares == OfType("MsgPrepare")
Preprepares == OfType("MsgPreprepare")

\* Of what n sends, c are proposals or answers to one, p prepares and pp
\* pre-prepares of any key, r results and a acknowledgements.
Bills(n, out, c, p, pp, r, a) ==
    /\ out \in [Peers -> Seq(AnyMessage)]
    /\ Gives(n, out, Questions, c)
    /\ Gives(n, out, Prepares, p)
    /\ Gives(n, out, Preprepares, pp)
    /\ Gives(n, out, Results, r)
    /\ Gives(n, out, Acks, a)

\* The kinds of messages by their type alone.
LEMMA BillKinds ==
  ASSUME NEW m \in AnyMessage
  PROVE  /\ m \in Questions <=> m.type \in {"MsgPrimaryConsensus", "MsgPrimaryVerified"}
         /\ m \in Prepares <=> m.type = "MsgPrepare"
         /\ m \in Preprepares <=> m.type = "MsgPreprepare"
         /\ m \in Results <=> m.type \in {"MsgSend", "MsgReply"}
         /\ m \in Acks <=> m.type = "MsgAck"
BY DEF Questions, PCs, PVs, Prepares, Preprepares, Results, Acks, OfType, AnyMessage

BillNumbers ==
    /\ Questions \subseteq Rest /\ Prepares \subseteq Rest /\ Preprepares \subseteq Rest
    /\ Results \subseteq Rest /\ Acks \subseteq Rest
    /\ IsFiniteSet(Spots(net, All, Questions)) /\ Count(net, Questions) \in Nat
    /\ IsFiniteSet(Spots(net, All, Prepares)) /\ Count(net, Prepares) \in Nat
    /\ IsFiniteSet(Spots(net, All, Preprepares)) /\ Count(net, Preprepares) \in Nat
    /\ IsFiniteSet(Spots(net, All, Results)) /\ Count(net, Results) \in Nat
    /\ IsFiniteSet(Spots(net, All, Acks)) /\ Count(net, Acks) \in Nat

\* There are finitely many of each.
LEMMA BillCounts == Tidy => BillNumbers
<1>1. /\ Questions \subseteq Rest /\ Prepares \subseteq Rest /\ Preprepares \subseteq Rest
      /\ Results \subseteq Rest /\ Acks \subseteq Rest
  BY DEF Questions, PCs, PVs, Prepares, Preprepares, Results, Acks, OfType, Rest, AnyMessage
<1> QED BY <1>1, PartOfRest DEF Tidy, BillNumbers

\* The same after a step.
LEMMA BillCountsNext == Tidy' => BillNumbers'
BY BillCounts, PTL

\* Sending nothing, or a message to S, by its type.
LEMMA BillsTo ==
  ASSUME NEW n \in Peers, NEW S, IsFiniteSet(S), NEW m \in AnyMessage,
         NEW s, s = Cardinality(S \cap Peers)
  PROVE  /\ m.type \in {"MsgPrimaryConsensus", "MsgPrimaryVerified"}
              => Bills(n, To(S, m), s, 0, 0, 0, 0)
         /\ m.type = "MsgPrepare" => Bills(n, To(S, m), 0, s, 0, 0, 0)
         /\ m.type = "MsgPreprepare" => Bills(n, To(S, m), 0, 0, s, 0, 0)
         /\ m.type \in {"MsgSend", "MsgReply"} => Bills(n, To(S, m), 0, 0, 0, s, 0)
         /\ m.type = "MsgAck" => Bills(n, To(S, m), 0, 0, 0, 0, s)
<1>1. ASSUME NEW W PROVE Gives(n, To(S, m), W, IF m \in W THEN s ELSE 0)
  BY ToSomeGives
<1>2. To(S, m) \in [Peers -> Seq(AnyMessage)]
  BY ToSent
<1>3. Bills(n, To(S, m), IF m \in Questions THEN s ELSE 0,
            IF m \in Prepares THEN s ELSE 0, IF m \in Preprepares THEN s ELSE 0,
            IF m \in Results THEN s ELSE 0, IF m \in Acks THEN s ELSE 0)
  BY <1>1, <1>2 DEF Bills
<1> QED BY <1>3, BillKinds

\* Sending nothing.
LEMMA BillsNothing ==
  ASSUME NEW n \in Peers
  PROVE  Bills(n, Nothing, 0, 0, 0, 0, 0)
BY ToAt, NoneGiven, NothingSent DEF Bills

\* What is sent one after the other adds up.
LEMMA BillsThen ==
  ASSUME NEW n \in Peers, NEW f, NEW g,
         NEW c, NEW p, NEW pp, NEW r, NEW a, Bills(n, f, c, p, pp, r, a),
         NEW c2, NEW p2, NEW pp2, NEW r2, NEW a2, Bills(n, g, c2, p2, pp2, r2, a2)
  PROVE  Bills(n, Then(f, g), c + c2, p + p2, pp + pp2, r + r2, a + a2)
<1>1. f \in [Peers -> Seq(AnyMessage)] /\ g \in [Peers -> Seq(AnyMessage)]
  BY DEF Bills
<1>2. ASSUME NEW W, NEW x, NEW y, Gives(n, f, W, x), Gives(n, g, W, y)
      PROVE  Gives(n, Then(f, g), W, x + y)
  BY <1>1, <1>2, ThenGives
<1>3. Then(f, g) \in [Peers -> Seq(AnyMessage)]
  BY <1>1, ThenSent
<1>4. Gives(n, Then(f, g), Questions, c + c2)
  BY <1>2 DEF Bills
<1>5. Gives(n, Then(f, g), Prepares, p + p2)
  BY <1>2 DEF Bills
<1>6. Gives(n, Then(f, g), Preprepares, pp + pp2)
  BY <1>2 DEF Bills
<1>7. Gives(n, Then(f, g), Results, r + r2)
  BY <1>2 DEF Bills
<1>8. Gives(n, Then(f, g), Acks, a + a2)
  BY <1>2 DEF Bills
<1> QED BY <1>3, <1>4, <1>5, <1>6, <1>7, <1>8 DEF Bills

\* A proposal asks as many members as Asking1 says, with the close of the
\* round before it or without.
LEMMA BillsProposal ==
  ASSUME TypeOK, TypeOK', NEW n \in Nodes, NEW q \in Seq(Entry)
  PROVE  /\ Bills(n, Proposal(n, q), Asking1(n, q), 0, 0, 0, 0)
         /\ Bills(n, Then(NextRequest(n), Proposal(n, q)), Asking1(n, q), 0, 0, 0, 0)
         /\ Asking1(n, q) \in Nat
<1>0. n \in Peers /\ orderNumber \in Nat /\ GroupSets'
  <2>1. TypeOK' => GroupSets'
    BY GroupsAsSets, PTL
  <2> QED BY <2>1 DEF Peers, TypeOK
<1>1. Asking1(n, q) \in Nat
  BY Sizes DEF Asking1
<1>2. Bills(n, Proposal(n, q), Asking1(n, q), 0, 0, 0, 0)
  <2>1. CASE q # <<>> /\ Lead' = n
    <3> DEFINE m == [type |-> "MsgPrimaryConsensus", order |-> orderNumber + 1,
                     signature |-> Sign(n, orderNumber + 1, Head(q).message)]
               S == Members(primaryGroup') \ {n}
    <3>1. Sign(n, orderNumber + 1, Head(q).message) \in PeerSignature
      <4>1. Head(q) \in Entry
        BY <2>1
      <4> QED BY <1>0, <4>1, PeerSigned DEF Entry, Texts
    <3>2. m \in AnyMessage /\ m.type = "MsgPrimaryConsensus"
      BY <1>0, <3>1 DEF AnyMessage, NodeMessage
    <3>3. Proposal(n, q) = To(S, m)
      BY <2>1 DEF Proposal, Lead
    <3>4. IsFiniteSet(S) /\ Cardinality(S \cap Peers) = PrimarySize - 1
      <4>1. /\ IsFiniteSet(Members(primaryGroup')) /\ Cardinality(Members(primaryGroup')) = PrimarySize
            /\ n \in Members(primaryGroup') /\ Members(primaryGroup') \subseteq Nodes
        BY <1>0, <2>1 DEF GroupSets, Lead
      <4>2. S \cap Peers = S
        BY <4>1 DEF Peers
      <4> QED BY <4>1, <4>2, FS_RemoveElement
    <3> HIDE DEF m, S
    <3>5. Bills(n, To(S, m), PrimarySize - 1, 0, 0, 0, 0)
      BY <1>0, <3>2, <3>4, BillsTo
    <3> QED BY <2>1, <3>3, <3>5 DEF Asking1
  <2>2. CASE ~(q # <<>> /\ Lead' = n)
    <3>1. Proposal(n, q) = Nothing /\ Asking1(n, q) = 0
      BY <2>2 DEF Proposal, Lead, Asking1
    <3> QED BY <1>0, <3>1, BillsNothing
  <2> QED BY <2>1, <2>2
<1>3. Bills(n, NextRequest(n), 0, 0, 0, 0, 0)
  <2> DEFINE m == [type |-> "MsgNextRequest"]
  <2>1. m \in AnyMessage /\ m.type = "MsgNextRequest"
    BY DEF AnyMessage, NodeMessage
  <2>2. NextRequest(n) = To(Nodes \ {n}, m)
    BY DEF NextRequest
  <2> HIDE DEF m
  <2>3. m \notin Questions /\ m \notin Prepares /\ m \notin Preprepares /\ m \notin Results /\ m \notin Acks
    BY <2>1, BillKinds
  <2>4. To(Nodes \ {n}, m) \in [Peers -> Seq(AnyMessage)]
    BY <2>1, ToSent
  <2>5. \A W : m \notin W => Gives(n, To(Nodes \ {n}, m), W, 0)
    BY <1>0, ToGives
  <2> QED BY <2>2, <2>3, <2>4, <2>5 DEF Bills
<1>4. Bills(n, Then(NextRequest(n), Proposal(n, q)), 0 + Asking1(n, q), 0 + 0, 0 + 0, 0 + 0, 0 + 0)
  BY <1>0, <1>2, <1>3, BillsThen
<1>5. 0 + Asking1(n, q) = Asking1(n, q) /\ 0 + 0 = 0
  BY <1>1
<1> QED BY <1>1, <1>2, <1>4, <1>5

\* What became of the counts when m was taken and these were sent.
Booked(m, c, p, pp, r, a) ==
    /\ Count(net', Questions) = Count(net, Questions) + c - In(m, Questions)
    /\ Count(net', Prepares) = Count(net, Prepares) + p - In(m, Prepares)
    /\ Count(net', Preprepares) = Count(net, Preprepares) + pp - In(m, Preprepares)
    /\ Count(net', Results) = Count(net, Results) + r - In(m, Results)
    /\ Count(net', Acks) = Count(net, Acks) + a - In(m, Acks)

\* What is on the channels after a step is what was, less the message read,
\* plus the messages sent.
LEMMA BillsBooked ==
  ASSUME TypeOK, Tidy, NEW n \in Peers, NEW q \in Peers, net[q][n] # <<>>,
         NEW out, Handle(n, q, out),
         NEW c, NEW p, NEW pp, NEW r, NEW a, Bills(n, out, c, p, pp, r, a)
  PROVE  Booked(Head(net[q][n]), c, p, pp, r, a)
<1>1. q # n /\ out \in [Peers -> Seq(AnyMessage)] /\ BillNumbers
  BY BillCounts DEF Tidy, Bills
<1>2. ASSUME NEW W, NEW d, Gives(n, out, W, d), IsFiniteSet(Spots(net, All, W))
      PROVE  Count(net', W) = Count(net, W) + d - In(Head(net[q][n]), W)
  BY <1>1, <1>2, Flow DEF In
<1> QED BY <1>1, <1>2 DEF Bills, BillNumbers, Booked

----------------------------------------------------------------------------
(* The answers noted.                                                      *)

\* The answers the nodes hold, by node and number.
Noted(v) == {x \in Nodes \X Nat : 1 <= x[2] /\ x[2] <= Answers(v[x[1]])}

\* One answer more.
LEMMA NotedMore ==
  ASSUME NEW v \in [Nodes -> [BOOLEAN -> Nat]], NEW n \in Nodes, NEW t,
         Answers(v[n]) \in Nat, Answers(t) = Answers(v[n]) + 1, IsFiniteSet(Noted(v)),
         NEW w, w = [v EXCEPT ![n] = t]
  PROVE  IsFiniteSet(Noted(w)) /\ Cardinality(Noted(w)) = Cardinality(Noted(v)) + 1
<1> DEFINE x == Answers(v[n])
           e == <<n, x + 1>>
<1>1. \A j \in Nodes : Answers(w[j]) = IF j = n THEN x + 1 ELSE Answers(v[j])
  OBVIOUS
<1>2. ASSUME NEW j \in Nodes, NEW i \in Nat
      PROVE  /\ <<j, i>> \in Noted(v) <=> 1 <= i /\ i <= Answers(v[j])
             /\ <<j, i>> \in Noted(w) <=> 1 <= i /\ i <= Answers(w[j])
  BY DEF Noted
<1>3. \A y : y \in Noted(v) \cup Noted(w) => \E j \in Nodes, i \in Nat : y = <<j, i>>
  BY DEF Noted
<1> HIDE DEF x
<1>4. x \in Nat /\ x = Answers(v[n])
  BY DEF x
<1>5. ASSUME NEW j \in Nodes, NEW i \in Nat
      PROVE  <<j, i>> \in Noted(w) <=> <<j, i>> \in Noted(v) \/ (j = n /\ i = x + 1)
  <2>1. CASE j = n
    <3>1. Answers(w[j]) = x + 1 /\ Answers(v[j]) = x
      BY <1>1, <1>4, <2>1
    <3>2. \A a, b \in Nat : 1 <= b /\ b <= a + 1 <=> (1 <= b /\ b <= a) \/ b = a + 1
      OBVIOUS
    <3>3. 1 <= i /\ i <= x + 1 <=> (1 <= i /\ i <= x) \/ i = x + 1
      BY <1>4, <3>2
    <3> QED BY <1>2, <2>1, <3>1, <3>3
  <2>2. CASE j # n
    BY <1>1, <1>2, <2>2
  <2> QED BY <2>1, <2>2
<1>6. e \notin Noted(v)
  <2>1. x + 1 \in Nat /\ ~(x + 1 <= x)
    BY <1>4
  <2> QED BY <1>2, <1>4, <2>1
<1>7. Noted(w) = Noted(v) \cup {e}
  <2>1. x + 1 \in Nat
    BY <1>4
  <2>2. \A y : y \in Noted(v) \cup Noted(w) \cup {e} => \E j \in Nodes, i \in Nat : y = <<j, i>>
    BY <1>3, <2>1
  <2>3. \A j \in Nodes, i \in Nat : <<j, i>> \in {e} <=> j = n /\ i = x + 1
    OBVIOUS
  <2> HIDE DEF e
  <2>4. ASSUME NEW y \in Noted(v) \cup Noted(w) \cup {e}
        PROVE  y \in Noted(w) <=> y \in Noted(v) \/ y \in {e}
    <3>1. PICK j \in Nodes, i \in Nat : y = <<j, i>>
      BY <2>2
    <3> QED BY <1>5, <2>3, <3>1
  <2> QED BY <2>4
<1> HIDE DEF e
<1>8. \A S, y : IsFiniteSet(S) /\ y \notin S
                => IsFiniteSet(S \cup {y}) /\ Cardinality(S \cup {y}) = Cardinality(S) + 1
  BY FS_AddElement
<1>9. IsFiniteSet(Noted(v) \cup {e}) /\ Cardinality(Noted(v) \cup {e}) = Cardinality(Noted(v)) + 1
  BY <1>6, <1>8
<1> QED BY <1>7, <1>9

\* A lead that has judged its answers holds none.
LEMMA NotedCleared ==
  ASSUME NEW v \in [Nodes -> [BOOLEAN -> Nat]], NEW n \in Nodes,
         Answers(v[n]) \in Nat, IsFiniteSet(Noted(v)),
         NEW w, w = [v EXCEPT ![n] = NoAnswer]
  PROVE  IsFiniteSet(Noted(w)) /\ Cardinality(Noted(w)) + Answers(v[n]) = Cardinality(Noted(v))
<1> DEFINE x == Answers(v[n])
           T == {<<n, i>> : i \in 1..x}
           f == [i \in 1..x |-> <<n, i>>]
<1>1. \A j \in Nodes : Answers(w[j]) = IF j = n THEN 0 ELSE Answers(v[j])
  BY DEF Answers, NoAnswer
<1>2. ASSUME NEW j \in Nodes, NEW i \in Nat
      PROVE  /\ <<j, i>> \in Noted(v) <=> 1 <= i /\ i <= Answers(v[j])
             /\ <<j, i>> \in Noted(w) <=> 1 <= i /\ i <= Answers(w[j])
  BY DEF Noted
<1>3. \A y : y \in Noted(v) \cup Noted(w) => \E j \in Nodes, i \in Nat : y = <<j, i>>
  BY DEF Noted
<1> HIDE DEF x
<1>4. x \in Nat /\ x = Answers(v[n])
  BY DEF x
<1>5. \A y : y \in T => \E i \in Nat : y = <<n, i>>
  BY <1>4
<1>6. ASSUME NEW j \in Nodes, NEW i \in Nat
      PROVE  /\ <<j, i>> \in T <=> j = n /\ 1 <= i /\ i <= x
             /\ <<j, i>> \in Noted(v) <=> <<j, i>> \in Noted(w) \/ <<j, i>> \in T
             /\ ~(<<j, i>> \in Noted(w) /\ <<j, i>> \in T)
  <2>1. <<j, i>> \in T <=> j = n /\ 1 <= i /\ i <= x
    BY <1>4
  <2> HIDE DEF T
  <2>2. CASE j = n
    <3>1. Answers(w[j]) = 0 /\ Answers(v[j]) = x
      BY <1>1, <1>4, <2>2
    <3>2. ~(1 <= i /\ i <= 0)
      OBVIOUS
    <3> QED BY <1>2, <2>1, <2>2, <3>1, <3>2
  <2>3. CASE j # n
    BY <1>1, <1>2, <2>1, <2>3
  <2> QED BY <2>1, <2>2, <2>3
<1>7. IsFiniteSet(T) /\ Cardinality(T) = x
  <2>1. IsFiniteSet(1..x) /\ Cardinality(1..x) = x
    BY <1>4, FS_Interval
  <2>2. f \in [1..x -> T] /\ (\A a, b \in 1..x : f[a] = f[b] => a = b) /\ \A t \in T : \E s \in 1..x : f[s] = t
    OBVIOUS
  <2> HIDE DEF f, T
  <2> QED BY <2>1, <2>2, SameSize
<1> HIDE DEF T
<1>8. Noted(v) = Noted(w) \cup T /\ Noted(w) \cap T = {}
  <2>1. \A y : y \in Noted(v) \cup Noted(w) \cup T => \E j \in Nodes, i \in Nat : y = <<j, i>>
    BY <1>3, <1>5
  <2>2. ASSUME NEW y \in Noted(v) \cup Noted(w) \cup T
        PROVE  /\ y \in Noted(v) <=> y \in Noted(w) \/ y \in T
               /\ ~(y \in Noted(w) /\ y \in T)
    <3>1. PICK j \in Nodes, i \in Nat : y = <<j, i>>
      BY <2>1
    <3> QED BY <1>6, <3>1
  <2> QED BY <2>2
<1>9. IsFiniteSet(Noted(w))
  BY <1>8, FS_Subset
<1> QED BY <1>4, <1>7, <1>8, <1>9, SizesAdd

----------------------------------------------------------------------------
(* The account: what was spent of the orders given out, and answered of    *)
(* the rewards.                                                            *)

\* The answers the nodes hold and the questions still to be answered; the
\* prepares rewarded, counted, on the wire and still to come; the replies on
\* the wire, counted and acknowledged.
Pending == Cardinality(Noted(verified_message)) + Count(net, Questions)
Spent == PrepareQuorum * trust.Sat
           + ((prepared_messages + Count(net, Prepares))
              + (ConsensusSize - 1) * Count(net, Preprepares))
Answered == (Count(net, Results) + replies[client][TRUE]) + ReplyQuorum * Count(net, Acks)

FinitelyNoted == IsFiniteSet(Noted(verified_message))

\* k of the orders were certified: the prepares are theirs, and the questions
\* and answers are those of the others.
Ledger ==
    /\ FinitelyNoted
    /\ \E k \in Nat :
          /\ k <= orderNumber /\ Spent <= MaxPrepared * k
          /\ ~aborted => (PrimarySize - 1) * k + Pending <= (PrimarySize - 1) * orderNumber
    /\ Answered <= ConsensusSize * trust.Sat

\* A proposal takes an order number for as many questions as it sends.
OrderFor(d) ==
    \/ d = 0 /\ orderNumber' = orderNumber
    \/ d = PrimarySize - 1 /\ orderNumber' = orderNumber + 1

Amounts ==
    /\ Count(net, Questions) \in Nat /\ Count(net, Prepares) \in Nat
    /\ Count(net, Preprepares) \in Nat /\ Count(net, Results) \in Nat /\ Count(net, Acks) \in Nat
    /\ prepared_messages \in Nat /\ replies[client][TRUE] \in Nat
    /\ trust.Sat \in Nat /\ orderNumber \in Nat
    /\ Cardinality(Noted(verified_message)) \in Nat
    /\ verified_message \in [Nodes -> [BOOLEAN -> Nat]]
    /\ \A n \in Nodes : Answers(verified_message[n]) \in Nat
    /\ Pending \in Nat /\ Spent \in Nat /\ Answered \in Nat

\* All that is added up are numbers.
LEMMA InAmounts == Ground /\ FinitelyNoted => Amounts
<1> SUFFICES ASSUME Ground, FinitelyNoted PROVE Amounts
  OBVIOUS
<1>1. /\ Count(net, Questions) \in Nat /\ Count(net, Prepares) \in Nat
      /\ Count(net, Preprepares) \in Nat /\ Count(net, Results) \in Nat /\ Count(net, Acks) \in Nat
  BY BillCounts DEF Ground, BillNumbers
<1>2. /\ prepared_messages \in Nat /\ replies[client][TRUE] \in Nat
      /\ trust.Sat \in Nat /\ orderNumber \in Nat
      /\ verified_message \in [Nodes -> [BOOLEAN -> Nat]]
  BY ClientAssumption DEF Ground, TypeOK
<1>3. Cardinality(Noted(verified_message)) \in Nat
  BY FS_CardinalityType DEF FinitelyNoted
<1>4. /\ \A a, b \in Nat : a * b \in Nat /\ a + b \in Nat
      /\ \A n \in Nodes : Answers(verified_message[n]) \in Nat
  <2>1. ASSUME NEW n \in Nodes PROVE Answers(verified_message[n]) \in Nat
    <3>1. verified_message[n] \in [BOOLEAN -> Nat]
      BY <1>2
    <3>2. verified_message[n][TRUE] \in Nat /\ verified_message[n][FALSE] \in Nat
      BY <3>1, TRUE \in BOOLEAN, FALSE \in BOOLEAN
    <3>3. \A a, b \in Nat : a + b \in Nat
      OBVIOUS
    <3> QED BY <3>2, <3>3 DEF Answers
  <2>2. \A a, b \in Nat : a * b \in Nat /\ a + b \in Nat
    OBVIOUS
  <2> QED BY <2>1, <2>2
<1>5. Pending \in Nat
  BY <1>1, <1>3, <1>4 DEF Pending
<1>6. Answered \in Nat
  <2>1. ReplyQuorum * Count(net, Acks) \in Nat
    BY <1>1, <1>4, Sizes
  <2> QED BY <1>1, <1>2, <1>4, <2>1 DEF Answered
<1>7. Spent \in Nat
  <2>1. /\ PrepareQuorum * trust.Sat \in Nat
        /\ (ConsensusSize - 1) * Count(net, Preprepares) \in Nat
        /\ prepared_messages + Count(net, Prepares) \in Nat
    BY <1>1, <1>2, <1>4, Sizes
  <2> QED BY <1>4, <2>1 DEF Spent
<1> QED BY <1>1, <1>2, <1>3, <1>4, <1>5, <1>6, <1>7 DEF Amounts

\* The same after a step.
LEMMA InAmountsNext == Ground' /\ FinitelyNoted' => Amounts'
BY InAmounts, PTL

\* A step that neither spends nor answers more, and has no more questions
\* than its order number is for, leaves the account even.
LEMMA LedgerEven ==
  ASSUME Amounts, Amounts', Ledger, ~aborted, FinitelyNoted',
         trust.Sat' = trust.Sat, Spent' <= Spent, Answered' <= Answered,
         NEW d \in Nat, OrderFor(d), ~aborted' => Pending' <= Pending + d
  PROVE  Ledger'
<1> DEFINE p == PrimarySize - 1
           o == orderNumber
<1>1. PICK k \in Nat : /\ k <= o /\ Spent <= MaxPrepared * k
                       /\ p * k + Pending <= p * o
  BY DEF Ledger
<1>2. p \in Nat /\ o \in Nat /\ o' \in Nat /\ MaxPrepared * k \in Nat /\ p * k \in Nat /\ p * o \in Nat
  <2>1. \A a, b \in Nat : a * b \in Nat
    OBVIOUS
  <2>2. p \in Nat /\ o \in Nat /\ o' \in Nat /\ MaxPrepared \in Nat
    BY Sizes DEF Amounts
  <2> QED BY <2>1, <2>2
<1>3. k <= o' /\ p * o + d = p * o'
  <2>1. p * (o + 1) = p * o + p
    BY <1>2, Multiply
  <2>2. CASE d = 0 /\ o' = o
    <3>1. p * o + 0 = p * o
      BY <1>2
    <3> QED BY <1>1, <2>2, <3>1
  <2>3. CASE d = p /\ o' = o + 1
    BY <1>1, <1>2, <2>1, <2>3
  <2> QED BY <2>2, <2>3 DEF OrderFor
<1>4. ~aborted' => p * k + Pending' <= p * o'
  <2> DEFINE x == p * k
             y == p * o
             z == p * o'
  <2>1. x \in Nat /\ y \in Nat /\ x + Pending <= y /\ y + d = z
    BY <1>1, <1>2, <1>3
  <2> HIDE DEF x, y, z
  <2>2. ~aborted' => x + Pending' <= z
    BY <2>1 DEF Amounts
  <2> QED BY <2>2 DEF x, z
<1>5. Spent' <= MaxPrepared * k
  <2> DEFINE x == MaxPrepared * k
  <2>1. x \in Nat /\ Spent <= x
    BY <1>1, <1>2
  <2> HIDE DEF x
  <2>2. Spent' <= x
    BY <2>1 DEF Amounts
  <2> QED BY <2>2 DEF x
<1>6. Answered' <= ConsensusSize * trust.Sat'
  <2> DEFINE x == ConsensusSize * trust.Sat
  <2>1. x \in Nat /\ Answered <= x
    <3>1. \A a, b \in Nat : a * b \in Nat
      OBVIOUS
    <3> QED BY <3>1, Sizes DEF Amounts, Ledger
  <2> HIDE DEF x
  <2>2. Answered' <= x
    BY <2>1 DEF Amounts
  <2> QED BY <2>2 DEF x
<1> HIDE DEF p
<1> QED BY <1>3, <1>4, <1>5, <1>6 DEF Ledger, p

\* What the counters and the channels hold of prepares and replies is no more
\* than before, for whatever reason.
LEMMA SpentFalls ==
  ASSUME Amounts, Amounts', trust.Sat' = trust.Sat,
         prepared_messages' + Count(net', Prepares) <= prepared_messages + Count(net, Prepares),
         Count(net', Preprepares) <= Count(net, Preprepares)
  PROVE  Spent' <= Spent
<1> DEFINE u == (ConsensusSize - 1) * Count(net, Preprepares)
           w == (ConsensusSize - 1) * Count(net', Preprepares)
           x == prepared_messages + Count(net, Prepares)
           y == prepared_messages' + Count(net', Prepares)
           z == PrepareQuorum * trust.Sat
<1>1. w <= u /\ u \in Nat /\ w \in Nat /\ z \in Nat
  <2>1. \A a, b \in Nat : a * b \in Nat
    OBVIOUS
  <2>2. /\ ConsensusSize - 1 \in Nat /\ PrepareQuorum \in Nat /\ trust.Sat \in Nat
        /\ Count(net, Preprepares) \in Nat /\ Count(net', Preprepares) \in Nat
    BY Sizes DEF Amounts
  <2> QED BY <2>1, <2>2, Multiply
<1>2. x \in Nat /\ y \in Nat /\ y <= x
  BY DEF Amounts
<1>3. Spent = z + (x + u) /\ Spent' = z + (y + w)
  BY DEF Spent
<1> HIDE DEF u, w, x, y, z
<1> QED BY <1>1, <1>2, <1>3

\* The same of replies.
LEMMA AnsweredFalls ==
  ASSUME Amounts, Amounts',
         Count(net', Results) + replies'[client][TRUE] <= Count(net, Results) + replies[client][TRUE],
         Count(net', Acks) <= Count(net, Acks)
  PROVE  Answered' <= Answered
<1> DEFINE u == ReplyQuorum * Count(net, Acks)
           w == ReplyQuorum * Count(net', Acks)
           x == Count(net, Results) + replies[client][TRUE]
           y == Count(net', Results) + replies'[client][TRUE]
<1>1. w <= u /\ u \in Nat /\ w \in Nat
  <2>1. \A a, b \in Nat : a * b \in Nat
    OBVIOUS
  <2>2. ReplyQuorum \in Nat /\ Count(net, Acks) \in Nat /\ Count(net', Acks) \in Nat
    BY Sizes DEF Amounts
  <2> QED BY <2>1, <2>2, Multiply
<1>2. x \in Nat /\ y \in Nat /\ y <= x
  <2>1. /\ Count(net, Results) \in Nat /\ Count(net', Results) \in Nat
        /\ replies[client][TRUE] \in Nat /\ replies'[client][TRUE] \in Nat
    BY DEF Amounts
  <2> DEFINE t == replies[client][TRUE]
             v == replies'[client][TRUE]
  <2>2. t \in Nat /\ v \in Nat /\ x = Count(net, Results) + t /\ y = Count(net', Results) + v
    BY <2>1
  <2> HIDE DEF t, v
  <2>3. y <= x
    OBVIOUS
  <2> HIDE DEF x, y
  <2> QED BY <2>1, <2>2, <2>3
<1>3. Answered = x + u /\ Answered' = y + w
  BY DEF Answered
<1> HIDE DEF u, w, x, y
<1> QED BY <1>1, <1>2, <1>3

\* A step that sends no prepares, no pre-prepares and no acknowledgements, a
\* reply for at most every result it reads, and keeps its books: it counts
\* no more than the prepare it reads, and has for every answer and question a
\* question it read or an order number.
LEMMA LedgerKept ==
  ASSUME Ground, Ground', Ledger, ~aborted,
         NEW m, NEW c \in Nat, NEW r \in Nat, NEW d \in Nat, Booked(m, c, 0, 0, r, 0),
         r <= In(m, Results),
         prepared_messages' <= prepared_messages + In(m, Prepares),
         UNCHANGED <<trust, replies>>, OrderFor(d),
         FinitelyNoted',
         Cardinality(Noted(verified_message')) + c
             <= (Cardinality(Noted(verified_message)) + In(m, Questions)) + d
  PROVE  Ledger'
<1>1. Amounts /\ Amounts'
  BY InAmounts, InAmountsNext DEF Ledger
<1>2. \A W : In(m, W) \in {0, 1}
  BY DEF In
<1> DEFINE iq == In(m, Questions)
           ip == In(m, Prepares)
           ipp == In(m, Preprepares)
           ir == In(m, Results)
           ia == In(m, Acks)
<1>3. iq \in {0, 1} /\ ip \in {0, 1} /\ ipp \in {0, 1} /\ ir \in {0, 1} /\ ia \in {0, 1}
  BY <1>2
<1>4. /\ Count(net', Questions) = Count(net, Questions) + c - iq
      /\ Count(net', Prepares) = Count(net, Prepares) + 0 - ip
      /\ Count(net', Preprepares) = Count(net, Preprepares) + 0 - ipp
      /\ Count(net', Results) = Count(net, Results) + r - ir
      /\ Count(net', Acks) = Count(net, Acks) + 0 - ia
      /\ r <= ir /\ prepared_messages' <= prepared_messages + ip
      /\ Cardinality(Noted(verified_message')) + c <= (Cardinality(Noted(verified_message)) + iq) + d
  BY DEF Booked
<1> HIDE DEF iq, ip, ipp, ir, ia
<1>5. prepared_messages' + Count(net', Prepares) <= prepared_messages + Count(net, Prepares)
  BY <1>1, <1>3, <1>4 DEF Amounts
<1>6. Count(net', Preprepares) <= Count(net, Preprepares) /\ Count(net', Acks) <= Count(net, Acks)
  BY <1>1, <1>3, <1>4 DEF Amounts
<1>7. Count(net', Results) + replies'[client][TRUE] <= Count(net, Results) + replies[client][TRUE]
  <2>1. /\ Count(net, Results) \in Nat /\ replies'[client][TRUE] = replies[client][TRUE]
        /\ replies[client][TRUE] \in Nat
    BY <1>1 DEF Amounts
  <2> DEFINE t == replies[client][TRUE]
  <2>2. t \in Nat /\ replies'[client][TRUE] = t
    BY <2>1
  <2> HIDE DEF t
  <2>3. Count(net', Results) + t <= Count(net, Results) + t
    BY <1>3, <1>4, <2>1, <2>2
  <2> QED BY <2>2, <2>3 DEF t
<1>8. Pending' <= Pending + d
  <2>1. Pending = Cardinality(Noted(verified_message)) + Count(net, Questions)
    BY DEF Pending
  <2>2. Pending' = Cardinality(Noted(verified_message')) + Count(net', Questions)
    BY DEF Pending
  <2> QED BY <1>1, <1>3, <1>4, <2>1, <2>2 DEF Amounts
<1>9. Spent' <= Spent /\ Answered' <= Answered
  BY <1>1, <1>5, <1>6, <1>7, SpentFalls, AnsweredFalls
<1> QED BY <1>1, <1>8, <1>9, LedgerEven DEF Ledger

----------------------------------------------------------------------------
(* The account over the steps of the nodes.                                *)

\* What is noted stays so where the answers do.
LEMMA NotedSame ==
  ASSUME UNCHANGED verified_message, FinitelyNoted
  PROVE  FinitelyNoted' /\ Cardinality(Noted(verified_message')) = Cardinality(Noted(verified_message))
BY DEF FinitelyNoted

\* A proposal takes the order number Asking1 pays for.
LEMMA ProcessAsks ==
  ASSUME NEW n \in Nodes, NEW q, NEW idle, Process(n, q, idle)
  PROVE  OrderFor(Asking1(n, q))
<1>1. CASE q # <<>> /\ Lead' = n
  <2>1. orderNumber' = orderNumber + 1
    BY <1>1 DEF Process, Lead
  <2> QED BY <1>1, <2>1 DEF OrderFor, Asking1
<1>2. CASE ~(q # <<>> /\ Lead' = n)
  <2>1. orderNumber' = orderNumber
    BY <1>2 DEF Process, Lead
  <2> QED BY <1>2, <2>1 DEF OrderFor, Asking1
<1> QED BY <1>1, <1>2

\* Closing a round spends nothing: the answers and the count it leaves are no
\* more than before, the message that closes it is gone, and the next proposal
\* is paid for.
LEMMA CloseLedger ==
  ASSUME Ground, Ground', Ledger, ~aborted, NEW n \in Nodes, NEW q \in Peers, net[q][n] # <<>>,
         NEW m, m = Head(net[q][n]), CloseRound(n, q), UNCHANGED trust,
         prepared_messages' <= prepared_messages,
         FinitelyNoted',
         Cardinality(Noted(verified_message')) <= Cardinality(Noted(verified_message)) + In(m, Questions)
  PROVE  Ledger'
<1> DEFINE rest == Tail(requestQueue[n])
<1>1. Amounts /\ Amounts' /\ UNCHANGED replies
  BY InAmounts, InAmountsNext DEF Ledger, CloseRound, clientVars
<1>2. CASE aborted' = TRUE /\ UNCHANGED <<nodeVars, net>>
  <2>1. /\ prepared_messages' + Count(net', Prepares) <= prepared_messages + Count(net, Prepares)
        /\ Count(net', Preprepares) <= Count(net, Preprepares)
        /\ Count(net', Acks) <= Count(net, Acks)
    BY <1>1, <1>2 DEF Amounts
  <2>2. Count(net', Results) + replies'[client][TRUE] <= Count(net, Results) + replies[client][TRUE]
    <3> DEFINE t == replies[client][TRUE]
               c == Count(net, Results)
    <3>1. t \in Nat /\ c \in Nat
      BY <1>1 DEF Amounts
    <3>2. Count(net', Results) = c /\ replies'[client][TRUE] = t
      BY <1>1, <1>2
    <3> HIDE DEF t, c
    <3>3. c + t <= c + t
      BY <3>1
    <3>4. Count(net', Results) + replies'[client][TRUE] <= c + t
      BY <3>2, <3>3
    <3> QED BY <3>4 DEF t, c
  <2>3. Spent' <= Spent /\ Answered' <= Answered
    BY <1>1, <2>1, <2>2, SpentFalls, AnsweredFalls
  <2>4. OrderFor(0) /\ 0 \in Nat
    BY <1>2 DEF OrderFor, nodeVars
  <2> QED BY <1>1, <1>2, <2>3, <2>4, LedgerEven
<1>3. CASE /\ requestQueue[n] # <<>> /\ Process(n, rest, Empty)
           /\ Handle(n, q, Then(NextRequest(n), Proposal(n, rest)))
  <2>1. rest \in Seq(Entry) /\ TypeOK /\ TypeOK' /\ Tidy /\ n \in Peers
    <3>1. requestQueue[n] \in Seq(Entry) /\ requestQueue[n] # <<>>
      BY <1>3, TypeParts DEF Ground, NodeTypes
    <3> DEFINE s == requestQueue[n]
    <3> HIDE DEF s
    <3>2. s \in Seq(Entry) /\ s # <<>> => Tail(s) \in Seq(Entry)
      OBVIOUS
    <3>3. Tail(s) \in Seq(Entry)
      BY <3>1, <3>2 DEF s
    <3> QED BY <3>3 DEF s, Ground, Peers
  <2>2. /\ Bills(n, Then(NextRequest(n), Proposal(n, rest)), Asking1(n, rest), 0, 0, 0, 0)
        /\ Asking1(n, rest) \in Nat
    BY <2>1, BillsProposal
  <2>3. Booked(m, Asking1(n, rest), 0, 0, 0, 0)
    BY <1>3, <2>1, <2>2, BillsBooked
  <2>4. OrderFor(Asking1(n, rest))
    BY <1>3, ProcessAsks
  <2>5. \A W : In(m, W) \in Nat
    BY DEF In
  <2> DEFINE c == Asking1(n, rest)
             ip == In(m, Prepares)
             ir == In(m, Results)
             iq == In(m, Questions)
  <2>6. c \in Nat /\ ip \in Nat /\ ir \in Nat /\ iq \in Nat
    BY <2>2, <2>5
  <2> HIDE DEF c, ip, ir, iq
  <2>7. prepared_messages' <= prepared_messages + ip /\ 0 <= ir
    <3>1. prepared_messages \in Nat /\ prepared_messages' \in Nat
      BY <1>1 DEF Amounts
    <3> QED BY <2>6, <3>1
  <2>8. Cardinality(Noted(verified_message')) + c <= (Cardinality(Noted(verified_message)) + iq) + c
    <3> DEFINE x == Cardinality(Noted(verified_message))
               y == Cardinality(Noted(verified_message'))
    <3>1. y <= x + iq
      BY DEF iq
    <3>2. x \in Nat /\ y \in Nat
      BY <1>1 DEF Amounts
    <3> HIDE DEF x, y
    <3>3. y + c <= (x + iq) + c
      BY <2>6, <3>1, <3>2
    <3> QED BY <3>3 DEF x, y
  <2>9. 0 \in Nat
    OBVIOUS
  <2> QED BY <1>1, <2>2, <2>3, <2>4, <2>7, <2>8, <2>9, LedgerKept DEF c, ip, ir, iq
<1> QED BY <1>2, <1>3 DEF CloseRound

\* A step that closes nothing, starts the next request or not, and leaves
\* answers, count and groups alone.
LEMMA ProposalLedger ==
  ASSUME Ground, Ground', Ledger, ~aborted, NEW n \in Nodes, NEW q \in Peers, net[q][n] # <<>>,
         NEW queue \in Seq(Entry), NEW idle, Process(n, queue, idle), Handle(n, q, Proposal(n, queue)),
         UNCHANGED <<verified_message, prepared_messages, trust, replies>>
  PROVE  Ledger'
<1> DEFINE m == Head(net[q][n])
           c == Asking1(n, queue)
           ip == In(m, Prepares)
           ir == In(m, Results)
           iq == In(m, Questions)
<1>1. TypeOK /\ TypeOK' /\ Tidy /\ n \in Peers /\ FinitelyNoted
  BY DEF Ground, Peers, Ledger
<1>2. Bills(n, Proposal(n, queue), c, 0, 0, 0, 0) /\ c \in Nat
  BY <1>1, BillsProposal
<1>3. Booked(m, c, 0, 0, 0, 0)
  BY <1>1, <1>2, BillsBooked
<1>4. OrderFor(c)
  BY ProcessAsks
<1>5. /\ FinitelyNoted'
      /\ Cardinality(Noted(verified_message')) = Cardinality(Noted(verified_message))
  BY <1>1, NotedSame
<1>6. ip \in Nat /\ ir \in Nat /\ iq \in Nat
  BY DEF In
<1>7. Amounts
  BY <1>1, InAmounts
<1> HIDE DEF m, c, ip, ir, iq
<1>8. prepared_messages' <= prepared_messages + ip /\ 0 <= ir
  BY <1>6, <1>7 DEF Amounts
<1>9. Cardinality(Noted(verified_message')) + c <= (Cardinality(Noted(verified_message)) + iq) + c
  BY <1>2, <1>5, <1>6, <1>7 DEF Amounts
<1>10. 0 \in Nat
  OBVIOUS
<1> QED BY <1>2, <1>3, <1>4, <1>5, <1>8, <1>9, <1>10, LedgerKept DEF ip, ir, iq

\* A step that sends c answers and r replies for what it reads.
LEMMA QuietLedger ==
  ASSUME Ground, Ground', Ledger, ~aborted, NEW n \in Nodes, NEW q \in Peers, net[q][n] # <<>>,
         NEW m, m = Head(net[q][n]),
         NEW c \in Nat, NEW r \in Nat, NEW out, Bills(n, out, c, 0, 0, r, 0), Handle(n, q, out),
         r <= In(m, Results), prepared_messages' <= prepared_messages + In(m, Prepares),
         UNCHANGED <<trust, replies, orderNumber>>, FinitelyNoted',
         Cardinality(Noted(verified_message')) + c
             <= Cardinality(Noted(verified_message)) + In(m, Questions)
  PROVE  Ledger'
<1>1. TypeOK /\ Tidy /\ n \in Peers /\ Amounts
  BY InAmounts DEF Ground, Peers, Ledger
<1>2. Booked(m, c, 0, 0, r, 0)
  BY <1>1, BillsBooked
<1>3. OrderFor(0) /\ 0 \in Nat
  BY DEF OrderFor
<1>4. In(m, Questions) \in Nat
  BY DEF In
<1> DEFINE x == Cardinality(Noted(verified_message)) + In(m, Questions)
<1>5. x \in Nat
  BY <1>1, <1>4 DEF Amounts
<1>6. Cardinality(Noted(verified_message')) + c <= x
  OBVIOUS
<1> HIDE DEF x
<1>7. Cardinality(Noted(verified_message')) + c <= x + 0
  BY <1>5, <1>6
<1> QED BY <1>2, <1>3, <1>7, LedgerKept DEF x

\* The client's request, queued or processed.
LEMMA GroupLedger ==
  ASSUME Ground, Ground', Ledger, ~aborted, NEW n \in Nodes, NEW q \in Peers,
         group_request_handler(n, q)
  PROVE  Ledger'
<1> DEFINE m == Head(net[q][n])
           queue == Enqueue(requestQueue[n], [client |-> q, message |-> m.message])
<1>1. /\ net[q][n] # <<>> /\ m.type = "MsgGroup"
      /\ UNCHANGED <<verified_message, prepared_messages, trust, replies>>
      /\ \/ Handle(n, q, Nothing) /\ UNCHANGED orderNumber
         \/ Process(n, queue, Empty) /\ Handle(n, q, Proposal(n, queue))
  BY DEF group_request_handler, Arrives, clientVars
<1>2. CASE Process(n, queue, Empty) /\ Handle(n, q, Proposal(n, queue))
  <2>1. m \in ClientMessage /\ q \in Clients
    BY <1>1, NodeHead
  <2>2. m.message \in Requests /\ NodeTypes
    BY <1>1, <2>1, ClientMessageFields, TypeParts DEF Ground
  <2>3. queue \in Seq(Entry)
    BY <2>1, <2>2, EnqueuedTypes
  <2> HIDE DEF queue
  <2> QED BY <1>1, <1>2, <2>3, ProposalLedger
<1>3. CASE Handle(n, q, Nothing) /\ UNCHANGED orderNumber
  <2>1. n \in Peers /\ FinitelyNoted /\ Amounts
    BY InAmounts DEF Peers, Ledger
  <2>2. Bills(n, Nothing, 0, 0, 0, 0, 0) /\ 0 \in Nat
    BY <2>1, BillsNothing
  <2>3. In(m, Results) \in Nat /\ In(m, Prepares) \in Nat /\ In(m, Questions) \in Nat
    BY DEF In
  <2>4. /\ FinitelyNoted'
        /\ Cardinality(Noted(verified_message')) = Cardinality(Noted(verified_message))
    BY <1>1, <2>1, NotedSame
  <2>5. /\ 0 <= In(m, Results) /\ prepared_messages' <= prepared_messages + In(m, Prepares)
        /\ Cardinality(Noted(verified_message')) + 0
              <= Cardinality(Noted(verified_message)) + In(m, Questions)
    BY <1>1, <2>1, <2>3, <2>4 DEF Amounts
  <2> QED BY <1>1, <1>3, <2>2, <2>4, <2>5, QuietLedger
<1> QED BY <1>1, <1>2, <1>3

\* An answer takes the place of the question.
LEMMA ConsensusLedger ==
  ASSUME Ground, Ground', Ledger, ~aborted, NEW n \in Nodes, NEW q \in Peers,
         primary_consensus_handler(n, q)
  PROVE  Ledger'
<1> DEFINE m == Head(net[q][n])
           k == [type |-> "MsgPrimaryVerified",
                 verified |-> VerifySignature(m.order, client_request[n], m.signature, q)]
<1>1. /\ net[q][n] # <<>> /\ m.type = "MsgPrimaryConsensus"
      /\ UNCHANGED <<verified_message, prepared_messages, trust, replies, orderNumber>>
      /\ Handle(n, q, To({q}, k))
  BY DEF primary_consensus_handler, Arrives, clientVars, nodeVars
<1>2. m \in AnyMessage /\ n \in Peers /\ FinitelyNoted /\ Amounts
  BY <1>1, NodeHead, InAmounts DEF Ledger
<1>3. k \in AnyMessage /\ k.type = "MsgPrimaryVerified"
  BY DEF AnyMessage, NodeMessage, VerifySignature
<1>4. In(m, Results) = 0 /\ In(m, Prepares) = 0 /\ In(m, Questions) = 1
  BY <1>1, <1>2, BillKinds DEF In
<1> HIDE DEF m, k
<1>5. IsFiniteSet({q}) /\ Cardinality({q} \cap Peers) = 1
  <2>1. {q} \cap Peers = {q}
    OBVIOUS
  <2> QED BY <2>1, FS_Singleton
<1>6. Bills(n, To({q}, k), 1, 0, 0, 0, 0)
  BY <1>2, <1>3, <1>5, BillsTo
<1>7. /\ FinitelyNoted'
      /\ Cardinality(Noted(verified_message')) = Cardinality(Noted(verified_message))
  BY <1>1, <1>2, NotedSame
<1>8. /\ 0 \in Nat /\ 1 \in Nat /\ 0 <= In(m, Results)
      /\ prepared_messages' <= prepared_messages + In(m, Prepares)
      /\ Cardinality(Noted(verified_message')) + 1
            <= Cardinality(Noted(verified_message)) + In(m, Questions)
  BY <1>1, <1>2, <1>4, <1>7 DEF Amounts
<1> QED BY <1>1, <1>6, <1>7, <1>8, QuietLedger DEF m

----------------------------------------------------------------------------
(* The account over the steps that count something.                        *)

\* An answer noted is one more.
LEMMA AnswerNoted ==
  ASSUME Ground, Ledger, NEW n \in Nodes, NEW b \in BOOLEAN,
         NEW answers, answers = [verified_message[n] EXCEPT ![b] = @ + 1]
  PROVE  /\ Answers(verified_message[n]) \in Nat
         /\ Answers(answers) = Answers(verified_message[n]) + 1
         /\ answers[TRUE] \in Nat /\ answers[FALSE] \in Nat
         /\ verified_message' = [verified_message EXCEPT ![n] = answers]
              => /\ FinitelyNoted'
                 /\ Cardinality(Noted(verified_message')) = Cardinality(Noted(verified_message)) + 1
<1>1. /\ verified_message \in [Nodes -> [BOOLEAN -> Nat]] /\ verified_message[n] \in [BOOLEAN -> Nat]
      /\ FinitelyNoted
  BY InAmounts DEF Amounts, Ledger
<1>2. /\ Answers(verified_message[n]) \in Nat
      /\ Answers(answers) = Answers(verified_message[n]) + 1
      /\ answers[TRUE] \in Nat /\ answers[FALSE] \in Nat
  BY <1>1, OneMore
<1>3. ASSUME NEW w, w = [verified_message EXCEPT ![n] = answers]
      PROVE  /\ IsFiniteSet(Noted(w))
             /\ Cardinality(Noted(w)) = Cardinality(Noted(verified_message)) + 1
  BY <1>1, <1>2, <1>3, NotedMore DEF FinitelyNoted
<1>4. ASSUME verified_message' = [verified_message EXCEPT ![n] = answers]
      PROVE  /\ FinitelyNoted'
             /\ Cardinality(Noted(verified_message')) = Cardinality(Noted(verified_message)) + 1
  BY <1>3, <1>4 DEF FinitelyNoted
<1> QED BY <1>2, <1>4

\* A certificate takes the answers of its order, and gives it its prepares.
LEMMA CertifiedLedger ==
  ASSUME Ground, Ground', Ledger, ~aborted, NEW n \in Nodes, NEW q \in Peers, net[q][n] # <<>>,
         NEW m, m = Head(net[q][n]), m.type = "MsgPrimaryVerified",
         Answers(verified_message[n]) + 1 = PrimarySize - 1,
         verified_message' = [verified_message EXCEPT ![n] = NoAnswer],
         NEW k, k \in AnyMessage, k.type = "MsgPreprepare",
         Handle(n, q, To(Members(consensusGroup) \ Members(primaryGroup), k)),
         UNCHANGED <<orderNumber, prepared_messages, trust, replies>>
  PROVE  Ledger'
<1> DEFINE S == Members(consensusGroup) \ Members(primaryGroup)
           g == ConsensusSize - PrimarySize
           v == Answers(verified_message[n])
           x == Cardinality(Noted(verified_message))
           y == Cardinality(Noted(verified_message'))
           p == PrimarySize - 1
           c == ConsensusSize - 1
           o == orderNumber
<1>1. TypeOK /\ Tidy /\ n \in Peers /\ GroupSets /\ FinitelyNoted /\ Amounts /\ m \in AnyMessage
  BY InAmounts, GroupsAsSets, NodeHead DEF Ground, Ledger
<1>2. IsFiniteSet(S) /\ Cardinality(S \cap Peers) = g
  <2>1. /\ IsFiniteSet(Members(consensusGroup)) /\ Cardinality(Members(consensusGroup)) = ConsensusSize
        /\ IsFiniteSet(Members(primaryGroup)) /\ Cardinality(Members(primaryGroup)) = PrimarySize
        /\ Members(primaryGroup) \subseteq Members(consensusGroup)
        /\ Members(consensusGroup) \subseteq Nodes
    BY <1>1 DEF GroupSets
  <2>2. S \cap Peers = S
    BY <2>1 DEF Peers
  <2>3. IsFiniteSet(S)
    BY <2>1, FS_Subset
  <2>4. S \cap Members(primaryGroup) = {} /\ S \cup Members(primaryGroup) = Members(consensusGroup)
    BY <2>1
  <2>5. ConsensusSize = Cardinality(S) + PrimarySize
    BY <2>1, <2>3, <2>4, SizesAdd
  <2>6. Cardinality(S) \in Nat
    BY <2>3, FS_CardinalityType
  <2>7. Cardinality(S) = g
    BY <2>5, <2>6, Sizes
  <2> QED BY <2>2, <2>3, <2>7
<1> HIDE DEF S
<1>3. Bills(n, To(S, k), 0, 0, g, 0, 0)
  BY <1>1, <1>2, BillsTo
<1>4. Booked(m, 0, 0, g, 0, 0)
  BY <1>1, <1>3, BillsBooked DEF S
<1>5. /\ In(m, Questions) = 1 /\ In(m, Prepares) = 0 /\ In(m, Preprepares) = 0
      /\ In(m, Results) = 0 /\ In(m, Acks) = 0
  BY <1>1, BillKinds DEF In
<1>6. g \in Nat /\ p \in Nat /\ c \in Nat /\ v + 1 = p /\ MaxPrepared = g * c
  <2>1. ConsensusSize - PrimarySize \in Nat
    BY SizeAssumption
  <2> QED BY <2>1, Sizes DEF MaxPrepared
<1>7. FinitelyNoted' /\ y + v = x /\ v \in Nat
  <2>1. verified_message \in [Nodes -> [BOOLEAN -> Nat]] /\ v \in Nat
    BY <1>1 DEF Amounts
  <2>2. IsFiniteSet(Noted(verified_message')) /\ y + v = x
    BY <1>1, <2>1, NotedCleared DEF FinitelyNoted
  <2> QED BY <2>1, <2>2 DEF FinitelyNoted
<1>8. Amounts'
  BY <1>7, InAmountsNext
<1>9. /\ Count(net', Questions) = Count(net, Questions) - 1
      /\ Count(net', Prepares) = Count(net, Prepares)
      /\ Count(net', Preprepares) = Count(net, Preprepares) + g
      /\ Count(net', Results) = Count(net, Results)
      /\ Count(net', Acks) = Count(net, Acks)
  <2>1. /\ Count(net', Questions) = Count(net, Questions) + 0 - 1
        /\ Count(net', Prepares) = Count(net, Prepares) + 0 - 0
        /\ Count(net', Preprepares) = Count(net, Preprepares) + g - 0
        /\ Count(net', Results) = Count(net, Results) + 0 - 0
        /\ Count(net', Acks) = Count(net, Acks) + 0 - 0
    BY <1>4, <1>5 DEF Booked
  <2> HIDE DEF g
  <2> QED BY <1>1, <1>6, <2>1 DEF Amounts
<1>10. PICK j \in Nat : /\ j <= o /\ Spent <= MaxPrepared * j
                        /\ p * j + Pending <= p * o
  BY DEF Ledger
<1>11. Pending' + p = Pending /\ Pending \in Nat /\ Pending' \in Nat
  <2> DEFINE d == Count(net, Questions)
             e == Count(net', Questions)
  <2>1. Pending = x + d /\ Pending' = y + e
    BY DEF Pending
  <2>2. x \in Nat /\ y \in Nat /\ d \in Nat /\ e \in Nat /\ e = d - 1
    BY <1>1, <1>8, <1>9 DEF Amounts
  <2> HIDE DEF x, y, v, p, d, e
  <2>3. (y + e) + p = x + d /\ x + d \in Nat /\ y + e \in Nat
    BY <1>6, <1>7, <2>2
  <2> QED BY <2>1, <2>3
<1>12. Spent' = Spent + MaxPrepared
  <2> DEFINE a == PrepareQuorum * trust.Sat
             b == prepared_messages + Count(net, Prepares)
             e == Count(net, Preprepares)
  <2>1. Spent = a + (b + c * e)
    BY DEF Spent
  <2>2. Spent' = a + (b + c * (e + g))
    BY <1>9 DEF Spent
  <2>3. a \in Nat /\ b \in Nat /\ e \in Nat
    <3>1. \A s, t \in Nat : s * t \in Nat
      OBVIOUS
    <3> QED BY <1>1, <3>1, Sizes DEF Amounts
  <2> HIDE DEF a, b, c, e, g
  <2>4. \A s, t, u \in Nat : s * (t + u) = s * t + u * s /\ s * t \in Nat /\ u * s \in Nat
    OBVIOUS
  <2>5. c * (e + g) = c * e + g * c /\ c * e \in Nat /\ g * c \in Nat
    BY <1>6, <2>3, <2>4
  <2> DEFINE w == c * e
             z == g * c
  <2> HIDE DEF w, z
  <2>6. Spent = a + (b + w) /\ Spent' = a + (b + (w + z)) /\ w \in Nat /\ z \in Nat /\ MaxPrepared = z
    BY <1>6, <2>1, <2>2, <2>5 DEF w, z
  <2> QED BY <2>3, <2>6
<1>13. Answered' = Answered
  BY <1>9 DEF Answered
<1> HIDE DEF p
<1>14. p * (j + 1) = p * j + p /\ MaxPrepared * (j + 1) = MaxPrepared * j + MaxPrepared
  BY <1>6, <1>10, Sizes, Multiply
<1>15. /\ p * j \in Nat /\ p * o \in Nat /\ MaxPrepared * j \in Nat /\ o \in Nat
  <2>1. \A s, t \in Nat : s * t \in Nat
    OBVIOUS
  <2> QED BY <1>1, <1>6, <2>1, Sizes DEF Amounts
<1>16. p \in Nat /\ p > 0
  BY <1>6, <1>7
<1>17. p * (j + 1) + Pending' <= p * o
  <2> DEFINE s == p * j
             t == p * o
  <2>1. s \in Nat /\ t \in Nat /\ s + Pending <= t
    BY <1>10, <1>15
  <2>2. p * (j + 1) = s + p
    BY <1>14
  <2> HIDE DEF s, t
  <2>3. (s + p) + Pending' <= t
    <3>1. \A a, b, d, e, f \in Nat : a + d <= b /\ e + f = d => (a + f) + e <= b
      OBVIOUS
    <3> QED BY <1>11, <1>16, <2>1, <3>1
  <2> QED BY <2>2, <2>3 DEF t
<1>18. j + 1 <= o
  <2>1. ~(j + 1 <= o) => o <= j
    BY <1>10, <1>15
  <2>2. o <= j => p * o <= p * j
    BY <1>10, <1>15, <1>16, Multiply
  <2> DEFINE s == p * j
             t == p * o
  <2>3. s \in Nat /\ t \in Nat /\ ~(t <= s)
    <3>1. s \in Nat /\ t \in Nat /\ (s + p) + Pending' <= t
      BY <1>14, <1>15, <1>17
    <3> HIDE DEF s, t
    <3>2. \A a, b, d, e \in Nat : (a + d) + e <= b /\ d > 0 => ~(b <= a)
      OBVIOUS
    <3>3. ~(t <= s)
      BY <1>11, <1>16, <3>1, <3>2
    <3> QED BY <3>1, <3>3
  <2> QED BY <2>1, <2>2, <2>3
<1>19. Spent' <= MaxPrepared * (j + 1)
  <2> DEFINE s == MaxPrepared * j
  <2>1. s \in Nat /\ Spent <= s /\ MaxPrepared * (j + 1) = s + MaxPrepared
    BY <1>10, <1>14, <1>15
  <2> HIDE DEF s
  <2>2. Spent \in Nat /\ MaxPrepared \in Nat
    BY <1>1, Sizes DEF Amounts
  <2>3. Spent + MaxPrepared <= s + MaxPrepared
    BY <2>1, <2>2
  <2> QED BY <1>12, <2>1, <2>3
<1>20. o' = o /\ trust' = trust /\ j + 1 \in Nat
  BY <1>10
<1> QED BY <1>7, <1>13, <1>17, <1>18, <1>19, <1>20 DEF Ledger, p

\* An answer is put aside, judged, or closes the round.
LEMMA VerifiedLedger ==
  ASSUME Ground, Ground', Ledger, ~aborted, NEW n \in Nodes, NEW q \in Peers,
         primary_verified_handler(n, q)
  PROVE  Ledger'
<1> DEFINE m == Head(net[q][n])
           answers == [verified_message[n] EXCEPT ![m.verified] = @ + 1]
           k == [type |-> "MsgPreprepare", order |-> orderNumber,
                 signature |-> Sign(groupKey, orderNumber, client_request[n])]
           S == Members(consensusGroup) \ Members(primaryGroup)
           noted == verified_message' = [verified_message EXCEPT ![n] = answers]
<1>1. /\ net[q][n] # <<>> /\ m.type = "MsgPrimaryVerified"
      /\ UNCHANGED <<prepared_messages, trust, replies>>
      /\ \/ /\ Answers(answers) = Len(primaryGroup) - 1
            /\ verified_message' = [verified_message EXCEPT ![n] = NoAnswer]
            /\ Handle(n, q, To(S, k)) /\ UNCHANGED orderNumber
         \/ noted /\ Handle(n, q, Nothing) /\ UNCHANGED orderNumber
         \/ noted /\ CloseRound(n, q)
  BY DEF primary_verified_handler, Arrives, clientVars, nodeVars, AllAnswered
<1>2. m = Head(net[q][n]) /\ m \in AnyMessage /\ m.verified \in BOOLEAN /\ n \in Peers
  BY <1>1, NodeHead, NodeMessageFields
<1>3. k \in AnyMessage /\ k.type = "MsgPreprepare"
  <2>1. orderNumber \in Nat /\ groupKey \in Nat /\ client_request[n] \in Texts
    BY DEF Ground, TypeOK
  <2> QED BY <2>1, GroupSigned DEF AnyMessage, NodeMessage
<1>4. TypeOK /\ Amounts /\ Len(primaryGroup) = PrimarySize
  BY InAmounts, GroupsAsSets DEF Ground, Ledger, GroupSets
<1>5. In(m, Results) = 0 /\ In(m, Prepares) = 0 /\ In(m, Questions) = 1
  BY <1>1, <1>2, BillKinds DEF In
<1> HIDE DEF k, S, m
<1>6. /\ Answers(verified_message[n]) \in Nat
      /\ Answers(answers) = Answers(verified_message[n]) + 1
      /\ noted => /\ FinitelyNoted'
                  /\ Cardinality(Noted(verified_message')) = Cardinality(Noted(verified_message)) + 1
  BY <1>2, AnswerNoted
<1> HIDE DEF answers
<1>7. CASE /\ Answers(answers) = Len(primaryGroup) - 1
           /\ verified_message' = [verified_message EXCEPT ![n] = NoAnswer]
           /\ Handle(n, q, To(S, k)) /\ UNCHANGED orderNumber
  <2>1. Answers(verified_message[n]) + 1 = PrimarySize - 1
    BY <1>4, <1>6, <1>7
  <2> QED BY <1>1, <1>2, <1>3, <1>7, <2>1, CertifiedLedger DEF S
<1>8. CASE noted /\ Handle(n, q, Nothing) /\ UNCHANGED orderNumber
  <2>1. Bills(n, Nothing, 0, 0, 0, 0, 0) /\ 0 \in Nat
    BY <1>2, BillsNothing
  <2>2. /\ 0 <= In(m, Results) /\ prepared_messages' <= prepared_messages + In(m, Prepares)
        /\ Cardinality(Noted(verified_message')) + 0
             <= Cardinality(Noted(verified_message)) + In(m, Questions)
    BY <1>1, <1>4, <1>5, <1>6, <1>8 DEF Amounts
  <2> QED BY <1>1, <1>2, <1>6, <1>8, <2>1, <2>2, QuietLedger
<1>9. CASE noted /\ CloseRound(n, q)
  <2>1. /\ prepared_messages' <= prepared_messages
        /\ Cardinality(Noted(verified_message')) <= Cardinality(Noted(verified_message)) + In(m, Questions)
    BY <1>1, <1>4, <1>5, <1>6, <1>9 DEF Amounts
  <2> QED BY <1>1, <1>2, <1>6, <1>9, <2>1, CloseLedger
<1> QED BY <1>1, <1>7, <1>8, <1>9

\* A member that verifies a pre-prepare sends the prepares it stands for.
LEMMA PreprepareLedger ==
  ASSUME Ground, Ground', Ledger, ~aborted, NEW n \in Nodes, NEW q \in Peers,
         preprepare_handler(n, q)
  PROVE  Ledger'
<1> DEFINE m == Head(net[q][n])
           verify == VerifySignature(m.order, client_request[n], m.signature, groupKey)
           k == [type |-> "MsgPrepare", order |-> m.order, groupSign |-> m.signature,
                 peerSign |-> Sign(n, m.order, client_request[n])]
           S == Members(consensusGroup) \ {n}
           c == ConsensusSize - 1
<1>1. /\ net[q][n] # <<>> /\ m.type = "MsgPreprepare"
      /\ UNCHANGED <<verified_message, prepared_messages, trust, replies, orderNumber>>
      /\ Handle(n, q, IF verify THEN To(S, k) ELSE Nothing)
  BY DEF preprepare_handler, Arrives, clientVars, nodeVars
<1>2. m \in AnyMessage /\ m \in NodeMessage /\ n \in Peers /\ m \in Members(net[q][n])
  BY <1>1, NodeHead
<1>3. m.order \in Nat /\ m.signature \in GroupSignature
  BY <1>1, <1>2, NodeMessageFields
<1>4. k \in AnyMessage /\ k.type = "MsgPrepare"
  <2>1. client_request[n] \in Texts
    BY DEF Ground, TypeOK
  <2> QED BY <1>3, <2>1, PeerSigned DEF AnyMessage, NodeMessage
<1>5. TypeOK /\ Tidy /\ FinitelyNoted /\ Amounts
  BY InAmounts DEF Ground, Ledger
<1>6. /\ In(m, Questions) = 0 /\ In(m, Prepares) = 0 /\ In(m, Preprepares) = 1
      /\ In(m, Results) = 0 /\ In(m, Acks) = 0
  BY <1>1, <1>2, BillKinds DEF In
<1>7. /\ FinitelyNoted' /\ Amounts'
      /\ Cardinality(Noted(verified_message')) = Cardinality(Noted(verified_message))
  BY <1>1, <1>5, NotedSame, InAmountsNext
<1>8. ASSUME verify PROVE Ledger'
  <2>1. n \in Members(consensusGroup)
    <3>1. Placed(m, q, n) /\ m.signature.key = groupKey
      BY <1>2, <1>8 DEF Ground, AllPlaced, VerifySignature, Sign
    <3> QED BY <1>1, <3>1 DEF Placed
  <2>2. IsFiniteSet(S) /\ Cardinality(S \cap Peers) = c
    <3>1. /\ IsFiniteSet(Members(consensusGroup)) /\ Cardinality(Members(consensusGroup)) = ConsensusSize
          /\ Members(consensusGroup) \subseteq Nodes
      BY GroupsAsSets DEF GroupSets, Ground
    <3>2. S \cap Peers = S
      BY <3>1 DEF Peers
    <3> QED BY <2>1, <3>1, <3>2, FS_RemoveElement
  <2> HIDE DEF S, k
  <2>3. Bills(n, To(S, k), 0, c, 0, 0, 0)
    BY <1>2, <1>4, <2>2, BillsTo
  <2>4. Booked(m, 0, c, 0, 0, 0)
    BY <1>1, <1>2, <1>5, <1>8, <2>3, BillsBooked
  <2>5. c \in Nat
    BY Sizes
  <2> HIDE DEF c, m
  <2>6. /\ Count(net', Questions) = Count(net, Questions) + 0 - 0
        /\ Count(net', Prepares) = Count(net, Prepares) + c - 0
        /\ Count(net', Preprepares) = Count(net, Preprepares) + 0 - 1
        /\ Count(net', Results) = Count(net, Results) + 0 - 0
        /\ Count(net', Acks) = Count(net, Acks) + 0 - 0
    BY <1>6, <2>4 DEF Booked
  <2>7. /\ Count(net', Questions) = Count(net, Questions)
        /\ Count(net', Prepares) = Count(net, Prepares) + c
        /\ Count(net', Preprepares) = Count(net, Preprepares) - 1
        /\ Count(net', Results) = Count(net, Results)
        /\ Count(net', Acks) = Count(net, Acks)
    BY <1>5, <2>5, <2>6 DEF Amounts
  <2>8. Spent' = Spent
    <3> DEFINE a == PrepareQuorum * trust.Sat
               u == prepared_messages
               b == Count(net, Prepares)
               e == Count(net, Preprepares)
    <3>1. Spent = a + ((u + b) + c * e)
      BY DEF Spent, c
    <3>2. Spent' = a + ((u + (b + c)) + c * (e - 1))
      BY <1>1, <2>7 DEF Spent, c
    <3>3. a \in Nat /\ u \in Nat /\ b \in Nat /\ e \in Nat
      <4>1. \A s, t \in Nat : s * t \in Nat
        OBVIOUS
      <4> QED BY <1>5, <4>1, Sizes DEF Amounts
    <3> HIDE DEF a, b, u, e
    <3> DEFINE w == c * e
    <3>4. w \in Nat /\ c * (e - 1) = w - c
      BY <2>5, <3>3, Multiply
    <3> HIDE DEF w
    <3>5. Spent = a + ((u + b) + w) /\ Spent' = a + ((u + (b + c)) + (w - c))
      BY <3>1, <3>2, <3>4 DEF w
    <3> QED BY <2>5, <3>3, <3>4, <3>5
  <2>9. Answered' = Answered /\ Pending' = Pending
    BY <1>1, <1>7, <2>7 DEF Answered, Pending
  <2>10. /\ Spent' <= Spent /\ Answered' <= Answered /\ Pending' <= Pending + 0
         /\ OrderFor(0) /\ 0 \in Nat /\ trust.Sat' = trust.Sat
    BY <1>1, <1>5, <2>8, <2>9 DEF Amounts, OrderFor
  <2> QED BY <1>5, <1>7, <2>10, LedgerEven
<1>9. ASSUME ~verify PROVE Ledger'
  <2>1. Bills(n, Nothing, 0, 0, 0, 0, 0) /\ 0 \in Nat /\ Handle(n, q, Nothing)
    BY <1>1, <1>2, <1>9, BillsNothing
  <2>2. /\ 0 <= In(m, Results) /\ prepared_messages' <= prepared_messages + In(m, Prepares)
        /\ Cardinality(Noted(verified_message')) + 0
             <= Cardinality(Noted(verified_message)) + In(m, Questions)
    BY <1>1, <1>5, <1>6, <1>7 DEF Amounts
  <2> HIDE DEF m
  <2> QED BY <1>1, <1>7, <2>1, <2>2, QuietLedger DEF m
<1> QED BY <1>8, <1>9

\* A reply reaches one client or nobody.
LEMMA BillsReply ==
  ASSUME NEW n \in Peers, NEW order \in Nat, NEW result \in BOOLEAN
  PROVE  \E b \in Nat : b <= 1 /\ Bills(n, Reply(n, order, result), 0, 0, 0, b, 0)
<1> DEFINE k == [type |-> "MsgReply", result |-> result, order |-> order]
           C == {client_id[n]}
           b == Cardinality(C \cap Peers)
<1>1. k \in AnyMessage /\ k.type = "MsgReply"
  BY DEF AnyMessage, NodeMessage
<1>2. Reply(n, order, result) = To(C, k)
  BY DEF Reply
<1> HIDE DEF k
<1>3. IsFiniteSet(C) /\ b \in Nat /\ b <= 1
  <2>1. IsFiniteSet(C) /\ Cardinality(C) = 1
    BY FS_Singleton
  <2>2. C \cap Peers \subseteq C
    OBVIOUS
  <2> HIDE DEF C
  <2>3. b \in Nat /\ b <= Cardinality(C)
    BY <2>1, <2>2, FS_Subset, FS_CardinalityType
  <2> QED BY <2>1, <2>3
<1> HIDE DEF C
<1>4. Bills(n, To(C, k), 0, 0, 0, b, 0)
  BY <1>1, <1>3, BillsTo
<1> QED BY <1>2, <1>3, <1>4

\* The results of a quorum are those of one consensus group.
LEMMA BillsResults ==
  ASSUME Ground, NEW n \in Members(consensusGroup), NEW order \in Nat
  PROVE  \E r \in Nat : /\ r <= ConsensusSize
                        /\ Bills(n, Then(To(Members(consensusGroup) \ {n},
                                            [type |-> "MsgSend", sendReply |-> TRUE, order |-> order]),
                                         Reply(n, order, TRUE)), 0, 0, 0, r, 0)
<1> DEFINE k == [type |-> "MsgSend", sendReply |-> TRUE, order |-> order]
           S == Members(consensusGroup) \ {n}
           c == ConsensusSize - 1
           f == To(S, k)
           g == Reply(n, order, TRUE)
<1>1. k \in AnyMessage /\ k.type = "MsgSend"
  BY DEF AnyMessage, NodeMessage
<1>2. n \in Peers /\ IsFiniteSet(S) /\ Cardinality(S \cap Peers) = c
  <2>1. /\ IsFiniteSet(Members(consensusGroup)) /\ Cardinality(Members(consensusGroup)) = ConsensusSize
        /\ Members(consensusGroup) \subseteq Nodes
    BY GroupsAsSets DEF GroupSets, Ground
  <2>2. S \cap Peers = S /\ n \in Peers
    BY <2>1 DEF Peers
  <2> QED BY <2>1, <2>2, FS_RemoveElement
<1>3. PICK b \in Nat : b <= 1 /\ Bills(n, g, 0, 0, 0, b, 0)
  BY <1>2, BillsReply
<1>4. c \in Nat /\ c + b \in Nat /\ c + b <= ConsensusSize
  BY <1>3, Sizes
<1>5. f = To(Members(consensusGroup) \ {n}, [type |-> "MsgSend", sendReply |-> TRUE, order |-> order])
  OBVIOUS
<1> HIDE DEF k, S, g
<1>6. Bills(n, f, 0, 0, 0, c, 0)
  BY <1>1, <1>2, BillsTo
<1> HIDE DEF f, c
<1>7. Bills(n, Then(f, g), 0 + 0, 0 + 0, 0 + 0, c + b, 0 + 0)
  BY <1>2, <1>3, <1>6, BillsThen
<1>8. Bills(n, Then(f, g), 0, 0, 0, c + b, 0)
  BY <1>7
<1> QED BY <1>4, <1>5, <1>8 DEF g

\* A reward takes a quorum of prepares, and pays for the replies of one
\* consensus group.
LEMMA RewardedLedger ==
  ASSUME Ground, Ground', Ledger, ~aborted, NEW m, m \in AnyMessage, m.type = "MsgPrepare",
         prepared_messages + 1 = PrepareQuorum, prepared_messages' = 0,
         trust'.Sat = trust.Sat + 1, NEW r \in Nat, r <= ConsensusSize, Booked(m, 0, 0, 0, r, 0),
         UNCHANGED <<verified_message, orderNumber, replies>>
  PROVE  Ledger'
<1> DEFINE s == trust.Sat
           u == prepared_messages
           b == Count(net, Prepares)
           w == (ConsensusSize - 1) * Count(net, Preprepares)
           a == PrepareQuorum * s
           f == Count(net, Results)
           t == replies[client][TRUE]
           h == ReplyQuorum * Count(net, Acks)
           z == ConsensusSize * s
<1>1. Amounts /\ FinitelyNoted
  BY InAmounts DEF Ledger
<1>2. /\ FinitelyNoted' /\ Amounts'
      /\ Cardinality(Noted(verified_message')) = Cardinality(Noted(verified_message))
  BY <1>1, NotedSame, InAmountsNext
<1>3. /\ In(m, Questions) = 0 /\ In(m, Prepares) = 1 /\ In(m, Preprepares) = 0
      /\ In(m, Results) = 0 /\ In(m, Acks) = 0
  BY BillKinds DEF In
<1>4. /\ Count(net', Questions) = Count(net, Questions)
      /\ Count(net', Prepares) = b - 1
      /\ Count(net', Preprepares) = Count(net, Preprepares)
      /\ Count(net', Results) = f + r
      /\ Count(net', Acks) = Count(net, Acks)
  <2>1. /\ Count(net', Questions) = Count(net, Questions) + 0 - 0
        /\ Count(net', Prepares) = Count(net, Prepares) + 0 - 1
        /\ Count(net', Preprepares) = Count(net, Preprepares) + 0 - 0
        /\ Count(net', Results) = Count(net, Results) + r - 0
        /\ Count(net', Acks) = Count(net, Acks) + 0 - 0
    BY <1>3 DEF Booked
  <2> QED BY <1>1, <2>1 DEF Amounts
<1>5. /\ s \in Nat /\ u \in Nat /\ b \in Nat /\ w \in Nat /\ a \in Nat /\ f \in Nat /\ t \in Nat
      /\ h \in Nat /\ z \in Nat /\ PrepareQuorum * (s + 1) = a + PrepareQuorum
      /\ ConsensusSize * (s + 1) = z + ConsensusSize
  <2>1. \A x, y \in Nat : x * y \in Nat
    OBVIOUS
  <2>2. s \in Nat /\ u \in Nat /\ b \in Nat /\ f \in Nat /\ t \in Nat
        /\ Count(net, Preprepares) \in Nat /\ Count(net, Acks) \in Nat
    BY <1>1 DEF Amounts
  <2>3. w \in Nat /\ a \in Nat /\ h \in Nat /\ z \in Nat
    BY <2>1, <2>2, Sizes
  <2> HIDE DEF s
  <2>4. /\ PrepareQuorum * (s + 1) = PrepareQuorum * s + PrepareQuorum
        /\ ConsensusSize * (s + 1) = ConsensusSize * s + ConsensusSize
    BY <2>2, Sizes, Multiply
  <2> HIDE DEF u, b, f, t, w, h
  <2> QED BY <2>2, <2>3, <2>4
<1>6. /\ Spent = a + ((u + b) + w)
      /\ Spent' = PrepareQuorum * (s + 1) + ((0 + (b - 1)) + w)
      /\ Answered = (f + t) + h
      /\ Answered' = ((f + r) + t) + h
      /\ Answered <= z /\ trust'.Sat = s + 1 /\ u + 1 = PrepareQuorum
  BY <1>4 DEF Spent, Answered, Ledger
<1>7. Pending' = Pending
  BY <1>2, <1>4 DEF Pending
<1> HIDE DEF s, u, b, w, a, f, t, h, z
<1>8. Spent' = Spent
  BY <1>5, <1>6, Sizes
<1>9. Answered' <= ConsensusSize * trust'.Sat
  <2>1. Answered' <= z + ConsensusSize
    BY <1>5, <1>6, Sizes
  <2> QED BY <1>5, <1>6, <2>1
<1>10. PICK k \in Nat : /\ k <= orderNumber /\ Spent <= MaxPrepared * k
                        /\ (PrimarySize - 1) * k + Pending <= (PrimarySize - 1) * orderNumber
  BY DEF Ledger
<1> QED BY <1>2, <1>7, <1>8, <1>9, <1>10 DEF Ledger

\* A prepare is counted, completes a quorum, or closes the round.
LEMMA PrepareLedger ==
  ASSUME Ground, Ground', Ledger, ~aborted, NEW n \in Nodes, NEW q \in Peers,
         prepare_handler(n, q)
  PROVE  Ledger'
<1> DEFINE m == Head(net[q][n])
           send == [type |-> "MsgSend", sendReply |-> TRUE, order |-> m.order]
           out == Then(To(Members(consensusGroup) \ {n}, send), Reply(n, m.order, TRUE))
           prepared == Prepared(n, q, m)
<1>1. /\ net[q][n] # <<>> /\ m.type = "MsgPrepare"
      /\ UNCHANGED <<verified_message, replies>>
      /\ \/ /\ QuorumReached(prepared) /\ prepared_messages' = 0
            /\ trust' = updateTrust(VerifySignature(m.order, client_request[n], m.peerSign, q))
            /\ Handle(n, q, out) /\ UNCHANGED orderNumber
         \/ /\ prepared_messages' = prepared /\ Handle(n, q, Nothing)
            /\ UNCHANGED <<orderNumber, trust>>
         \/ prepared_messages' = 0 /\ UNCHANGED trust /\ CloseRound(n, q)
  BY DEF prepare_handler, Arrives, clientVars, nodeVars, clearPreparedMessages
<1>2. m = Head(net[q][n]) /\ m \in AnyMessage /\ m \in NodeMessage /\ n \in Peers
  BY <1>1, NodeHead
<1>3. m.order \in Nat
  BY <1>1, <1>2, NodeMessageFields
<1>4. TypeOK /\ Tidy /\ FinitelyNoted /\ Amounts /\ prepared_messages < PrepareQuorum
  BY InAmounts DEF Ground, Ledger, PreparedBelowQuorum
<1>5. /\ In(m, Questions) = 0 /\ In(m, Prepares) = 1 /\ In(m, Preprepares) = 0
      /\ In(m, Results) = 0 /\ In(m, Acks) = 0
  BY <1>1, <1>2, BillKinds DEF In
<1>6. /\ FinitelyNoted'
      /\ Cardinality(Noted(verified_message')) = Cardinality(Noted(verified_message))
  BY <1>1, <1>4, NotedSame
<1>7. \/ prepared = prepared_messages
      \/ /\ prepared = prepared_messages + 1
         /\ VerifySignature(m.order, client_request[n], m.peerSign, q)
         /\ n \in Members(consensusGroup)
  BY <1>1, <1>2, PrepareTaken
<1>8. prepared_messages \in Nat /\ PrepareQuorum \in Nat
  BY <1>4, Sizes DEF Amounts
<1> HIDE DEF m, prepared
<1>9. CASE /\ QuorumReached(prepared) /\ prepared_messages' = 0
           /\ trust' = updateTrust(VerifySignature(m.order, client_request[n], m.peerSign, q))
           /\ Handle(n, q, out) /\ UNCHANGED orderNumber
  <2>1. /\ prepared_messages + 1 = PrepareQuorum
        /\ VerifySignature(m.order, client_request[n], m.peerSign, q)
        /\ n \in Members(consensusGroup)
    BY <1>4, <1>7, <1>8, <1>9 DEF QuorumReached
  <2>2. trust'.Sat = trust.Sat + 1
    <3>1. trust \in [Sat : Nat, Unsat : Nat]
      BY <1>4 DEF TypeOK
    <3> QED BY <1>9, <2>1, <3>1 DEF updateTrust
  <2>3. PICK r \in Nat : r <= ConsensusSize /\ Bills(n, out, 0, 0, 0, r, 0)
    BY <1>3, <2>1, BillsResults
  <2> HIDE DEF out
  <2>4. Booked(m, 0, 0, 0, r, 0)
    BY <1>1, <1>2, <1>4, <1>9, <2>3, BillsBooked
  <2> QED BY <1>1, <1>2, <1>9, <2>1, <2>2, <2>3, <2>4, RewardedLedger
<1>10. CASE /\ prepared_messages' = prepared /\ Handle(n, q, Nothing)
            /\ UNCHANGED <<orderNumber, trust>>
  <2>1. Bills(n, Nothing, 0, 0, 0, 0, 0) /\ 0 \in Nat
    BY <1>2, BillsNothing
  <2>2. /\ 0 <= In(m, Results) /\ prepared_messages' <= prepared_messages + In(m, Prepares)
        /\ Cardinality(Noted(verified_message')) + 0
             <= Cardinality(Noted(verified_message)) + In(m, Questions)
    BY <1>4, <1>5, <1>6, <1>7, <1>8, <1>10 DEF Amounts
  <2> QED BY <1>1, <1>2, <1>6, <1>10, <2>1, <2>2, QuietLedger
<1>11. CASE prepared_messages' = 0 /\ UNCHANGED trust /\ CloseRound(n, q)
  <2>1. /\ prepared_messages' <= prepared_messages
        /\ Cardinality(Noted(verified_message')) <= Cardinality(Noted(verified_message)) + In(m, Questions)
    BY <1>4, <1>5, <1>6, <1>8, <1>11 DEF Amounts
  <2> QED BY <1>1, <1>2, <1>6, <1>11, <2>1, CloseLedger
<1> QED BY <1>1, <1>9, <1>10, <1>11

\* A reply takes the place of the result.
LEMMA SendLedger ==
  ASSUME Ground, Ground', Ledger, ~aborted, NEW n \in Nodes, NEW q \in Peers,
         send_reply_handler(n, q)
  PROVE  Ledger'
<1> DEFINE m == Head(net[q][n])
<1>1. /\ net[q][n] # <<>> /\ m.type = "MsgSend"
      /\ prepared_messages' = 0
      /\ Handle(n, q, Reply(n, m.order, m.sendReply))
      /\ UNCHANGED <<verified_message, trust, replies, orderNumber>>
  BY DEF send_reply_handler, Arrives, clientVars, nodeVars, clearPreparedMessages
<1>2. m = Head(net[q][n]) /\ m \in AnyMessage /\ m \in NodeMessage /\ n \in Peers
  BY <1>1, NodeHead
<1>3. m.order \in Nat /\ m.sendReply \in BOOLEAN
  BY <1>1, <1>2, NodeMessageFields
<1>4. Amounts /\ FinitelyNoted
  BY InAmounts DEF Ledger
<1>5. In(m, Questions) = 0 /\ In(m, Prepares) = 0 /\ In(m, Results) = 1
  BY <1>1, <1>2, BillKinds DEF In
<1>6. /\ FinitelyNoted'
      /\ Cardinality(Noted(verified_message')) = Cardinality(Noted(verified_message))
  BY <1>1, <1>4, NotedSame
<1> HIDE DEF m
<1>7. PICK b \in Nat : b <= 1 /\ Bills(n, Reply(n, m.order, m.sendReply), 0, 0, 0, b, 0)
  BY <1>2, <1>3, BillsReply
<1>8. /\ b <= In(m, Results) /\ prepared_messages' <= prepared_messages + In(m, Prepares)
      /\ Cardinality(Noted(verified_message')) + 0
           <= Cardinality(Noted(verified_message)) + In(m, Questions)
  BY <1>1, <1>4, <1>5, <1>6, <1>7 DEF Amounts
<1>9. 0 \in Nat
  OBVIOUS
<1> QED BY <1>1, <1>2, <1>6, <1>7, <1>8, <1>9, QuietLedger

\* An acknowledgement closes the round.
LEMMA AckLedger ==
  ASSUME Ground, Ground', Ledger, ~aborted, NEW n \in Nodes, NEW q \in Peers, ack_handler(n, q)
  PROVE  Ledger'
<1> DEFINE m == Head(net[q][n])
<1>1. /\ net[q][n] # <<>> /\ prepared_messages' = 0 /\ CloseRound(n, q)
      /\ UNCHANGED <<verified_message, trust>>
  BY DEF ack_handler, Arrives, clearPreparedMessages
<1>2. Amounts /\ FinitelyNoted /\ In(m, Questions) \in Nat
  BY InAmounts DEF Ledger, In
<1>3. /\ FinitelyNoted'
      /\ Cardinality(Noted(verified_message')) = Cardinality(Noted(verified_message))
  BY <1>1, <1>2, NotedSame
<1>4. m = Head(net[q][n])
  OBVIOUS
<1> HIDE DEF m
<1>5. /\ prepared_messages' <= prepared_messages
      /\ Cardinality(Noted(verified_message')) <= Cardinality(Noted(verified_message)) + In(m, Questions)
  BY <1>1, <1>2, <1>3 DEF Amounts
<1> QED BY <1>1, <1>3, <1>4, <1>5, CloseLedger

\* A peer's close starts the next request, or ends the process.
LEMMA NextLedger ==
  ASSUME Ground, Ground', Ledger, ~aborted, NEW n \in Nodes, NEW q \in Peers,
         process_next_request(n, q)
  PROVE  Ledger'
<1> DEFINE rest == Tail(requestQueue[n])
<1>1. /\ net[q][n] # <<>>
      /\ UNCHANGED <<verified_message, prepared_messages, trust, replies>>
      /\ \/ /\ requestQueue[n] # <<>>
            /\ Process(n, rest, Space) /\ Handle(n, q, Proposal(n, rest))
         \/ aborted' = TRUE /\ UNCHANGED <<orderNumber, net>>
  BY DEF process_next_request, Arrives, clientVars, nodeVars
<1>2. CASE /\ requestQueue[n] # <<>>
           /\ Process(n, rest, Space) /\ Handle(n, q, Proposal(n, rest))
  <2>1. requestQueue[n] \in Seq(Entry)
    BY TypeParts DEF Ground, NodeTypes
  <2> DEFINE s == requestQueue[n]
  <2> HIDE DEF s
  <2>2. s \in Seq(Entry) /\ s # <<>> => Tail(s) \in Seq(Entry)
    OBVIOUS
  <2>3. Tail(s) \in Seq(Entry)
    BY <1>2, <2>1, <2>2 DEF s
  <2>4. rest \in Seq(Entry)
    BY <2>3 DEF s
  <2> HIDE DEF rest
  <2> QED BY <1>1, <1>2, <2>4, ProposalLedger
<1>3. CASE aborted' = TRUE /\ UNCHANGED <<orderNumber, net>>
  <2>1. Amounts /\ FinitelyNoted
    BY InAmounts DEF Ledger
  <2>2. FinitelyNoted' /\ Amounts'
    BY <1>1, <2>1, NotedSame, InAmountsNext
  <2>3. Spent' = Spent /\ Answered' = Answered /\ trust.Sat' = trust.Sat
    BY <1>1, <1>3 DEF Spent, Answered
  <2>4. Spent' <= Spent /\ Answered' <= Answered /\ OrderFor(0) /\ 0 \in Nat
    BY <1>3, <2>1, <2>3 DEF Amounts, OrderFor
  <2> QED BY <1>3, <2>1, <2>2, <2>3, <2>4, LedgerEven
<1> QED BY <1>1, <1>2, <1>3

\* The replies of a tally are counted once: an acknowledgement takes the place
\* of a tally of them.
LEMMA ReplyLedger ==
  ASSUME Ground, Ground', Ledger, ~aborted, NEW c \in Clients, NEW q \in Nodes, reply_handler(c, q)
  PROVE  Ledger'
<1> DEFINE m == Head(net[q][c])
           tally == [replies[c] EXCEPT ![m.result] = @ + 1]
           ack == [type |-> "MsgAck"]
           out == IF Enough(tally) THEN To({q}, ack) ELSE Nothing
           a == IF Enough(tally) THEN 1 ELSE 0
           f == Count(net, Results)
           t == replies[client][TRUE]
           t2 == replies'[client][TRUE]
           k == Count(net, Acks)
           h == ReplyQuorum * k
<1>1. /\ UNCHANGED <<verified_message, prepared_messages, trust, orderNumber>>
      /\ replies' = [replies EXCEPT ![c] = Judged(tally)]
      /\ Handle(c, q, out) /\ net[q][c] # <<>> /\ m.type = "MsgReply"
      /\ c \in Peers /\ q \in Peers /\ c = client
  BY ClientAssumption DEF reply_handler, nodeVars, Arrives, Peers
<1>2. TypeOK /\ Tidy /\ SuccessOnly /\ Amounts /\ FinitelyNoted
  BY InAmounts DEF Ground, Ledger
<1>3. m \in AnyMessage /\ m.result = TRUE
  <2>1. net \in Channels(SuccessMessage, ClientMessage)
    BY <1>2 DEF SuccessOnly
  <2>2. m \in SuccessMessage
    BY <1>1, <2>1, HeadOnChannel
  <2> QED BY <1>1, <2>2 DEF SuccessMessage, AnyMessage
<1>4. /\ replies[c] \in [BOOLEAN -> Nat] /\ replies[c][FALSE] = 0
      /\ replies \in [Clients -> [BOOLEAN -> Nat]]
  BY <1>2 DEF TypeOK, SuccessOnly
<1>5. tally[TRUE] = t + 1 /\ tally[FALSE] = 0 /\ t \in Nat
  BY <1>1, <1>3, <1>4
<1>6. t2 = IF Enough(tally) THEN 0 ELSE t + 1
  <2>1. replies'[c] = Judged(tally)
    BY <1>1, <1>4
  <2> DEFINE y == tally[TRUE]
  <2>2. replies'[c][TRUE] = IF Enough(tally) THEN 0 ELSE y
    <3> HIDE DEF tally
    <3> QED BY <2>1 DEF Judged, NoAnswer
  <2>3. y = t + 1
    BY <1>5
  <2> HIDE DEF y, tally
  <2> QED BY <1>1, <2>2, <2>3
<1>7. Enough(tally) => t + 1 >= ReplyQuorum
  <2> SUFFICES ASSUME Enough(tally) PROVE tally[TRUE] >= ReplyQuorum
    BY <1>5
  <2> HIDE DEF tally
  <2> DEFINE yes == tally[TRUE]
             no == tally[FALSE]
  <2>1. ReplyQuorum \in Nat /\ ReplyQuorum > 0
    BY SizeAssumption
  <2>2. yes >= ReplyQuorum \/ no >= ReplyQuorum
    BY DEF Enough
  <2>3. no = 0
    BY <1>5
  <2> HIDE DEF yes, no
  <2>4. yes >= ReplyQuorum
    BY <2>1, <2>2, <2>3
  <2> QED BY <2>4 DEF yes
<1>8. ack \in AnyMessage /\ ack.type = "MsgAck"
  BY DEF AnyMessage, ClientMessage
<1> HIDE DEF ack, tally, m
<1>9. Bills(c, out, 0, 0, 0, 0, a)
  <2>1. IsFiniteSet({q}) /\ Cardinality({q} \cap Peers) = 1
    <3>1. {q} \cap Peers = {q}
      BY <1>1
    <3> QED BY <3>1, FS_Singleton
  <2>2. Bills(c, To({q}, ack), 0, 0, 0, 0, 1)
    BY <1>1, <1>8, <2>1, BillsTo
  <2>3. Bills(c, Nothing, 0, 0, 0, 0, 0)
    BY <1>1, BillsNothing
  <2> QED BY <2>2, <2>3
<1> HIDE DEF out
<1>10. Booked(m, 0, 0, 0, 0, a)
  BY <1>1, <1>2, <1>9, BillsBooked DEF m
<1>11. /\ In(m, Questions) = 0 /\ In(m, Prepares) = 0 /\ In(m, Preprepares) = 0
       /\ In(m, Results) = 1 /\ In(m, Acks) = 0
  BY <1>1, <1>3, BillKinds DEF In
<1>12. /\ Count(net', Questions) = Count(net, Questions)
       /\ Count(net', Prepares) = Count(net, Prepares)
       /\ Count(net', Preprepares) = Count(net, Preprepares)
       /\ Count(net', Results) = f - 1
       /\ Count(net', Acks) = k + a
  <2>1. /\ Count(net', Questions) = Count(net, Questions) + 0 - 0
        /\ Count(net', Prepares) = Count(net, Prepares) + 0 - 0
        /\ Count(net', Preprepares) = Count(net, Preprepares) + 0 - 0
        /\ Count(net', Results) = Count(net, Results) + 0 - 1
        /\ Count(net', Acks) = Count(net, Acks) + a - 0
    BY <1>10, <1>11 DEF Booked
  <2>2. a \in Nat
    OBVIOUS
  <2> HIDE DEF a
  <2> QED BY <1>2, <2>1, <2>2 DEF Amounts
<1>13. /\ FinitelyNoted' /\ Amounts'
       /\ Cardinality(Noted(verified_message')) = Cardinality(Noted(verified_message))
  BY <1>1, <1>2, NotedSame, InAmountsNext
<1>14. Spent' = Spent /\ Pending' = Pending
  BY <1>1, <1>12, <1>13 DEF Spent, Pending
<1>15. Answered' <= Answered
  <2>1. /\ f \in Nat /\ k \in Nat /\ h \in Nat /\ ReplyQuorum \in Nat
        /\ ReplyQuorum * (k + 1) = h + ReplyQuorum
    <3>1. f \in Nat /\ k \in Nat /\ ReplyQuorum \in Nat
      BY <1>2, Sizes DEF Amounts
    <3> HIDE DEF k
    <3> QED BY <3>1, Multiply
  <2>2. /\ Answered = (f + t) + h
        /\ Answered' = ((f - 1) + t2) + ReplyQuorum * (k + a)
    BY <1>12 DEF Answered
  <2>3. CASE Enough(tally)
    <3>1. Answered' = ((f - 1) + 0) + (h + ReplyQuorum) /\ t + 1 >= ReplyQuorum
      BY <1>6, <1>7, <2>1, <2>2, <2>3
    <3>2. t \in Nat
      BY <1>5
    <3>3. Answered = (f + t) + h /\ f \in Nat /\ h \in Nat /\ ReplyQuorum \in Nat
      BY <2>1, <2>2
    <3> HIDE DEF f, t, k, h
    <3> QED BY <3>1, <3>2, <3>3
  <2>4. CASE ~Enough(tally)
    <3>1. k + 0 = k
      BY <2>1
    <3>2. Answered' = ((f - 1) + (t + 1)) + h
      BY <1>6, <2>2, <2>4, <3>1
    <3>3. t \in Nat
      BY <1>5
    <3>4. Answered = (f + t) + h /\ f \in Nat /\ h \in Nat
      BY <2>1, <2>2
    <3> HIDE DEF f, t, k, h
    <3> QED BY <3>2, <3>3, <3>4
  <2> QED BY <2>3, <2>4
<1>16. /\ Spent' <= Spent /\ Pending' <= Pending + 0 /\ trust.Sat' = trust.Sat
       /\ OrderFor(0) /\ 0 \in Nat
  BY <1>1, <1>2, <1>14 DEF Amounts, OrderFor
<1> QED BY <1>2, <1>13, <1>15, <1>16, LedgerEven

\* A new request of the client changes nothing of what is counted.
LEMMA MulticastLedger ==
  ASSUME Ground, Ground', Ledger, ~aborted, NEW t \in Threads, multicast(t)
  PROVE  Ledger'
<1>1. TypeOK /\ Tidy /\ BillNumbers /\ Amounts /\ FinitelyNoted
  BY InAmounts, BillCounts DEF Ground, Ledger
<1>2. UNCHANGED <<verified_message, prepared_messages, trust, orderNumber, replies>>
  BY DEF multicast, nodeVars
<1>3. ASSUME NEW W, W \subseteq Rest PROVE Count(net', W) = Count(net, W)
  BY <1>1, <1>3, MulticastRest
<1>4. /\ Count(net', Questions) = Count(net, Questions)
      /\ Count(net', Prepares) = Count(net, Prepares)
      /\ Count(net', Preprepares) = Count(net, Preprepares)
      /\ Count(net', Results) = Count(net, Results)
      /\ Count(net', Acks) = Count(net, Acks)
  BY <1>1, <1>3 DEF BillNumbers
<1>5. /\ FinitelyNoted' /\ Amounts'
      /\ Cardinality(Noted(verified_message')) = Cardinality(Noted(verified_message))
  BY <1>1, <1>2, NotedSame, InAmountsNext
<1>6. Spent' = Spent /\ Answered' = Answered /\ Pending' = Pending
  BY <1>2, <1>4, <1>5 DEF Spent, Answered, Pending
<1>7. /\ Spent' <= Spent /\ Answered' <= Answered /\ Pending' <= Pending + 0
      /\ trust.Sat' = trust.Sat /\ OrderFor(0) /\ 0 \in Nat
  BY <1>1, <1>2, <1>6 DEF Amounts, OrderFor
<1> QED BY <1>1, <1>5, <1>7, LedgerEven

\* Every step keeps the account.
LEMMA LedgerNext == Ground /\ Ground' /\ Ledger /\ [Next]_vars => Ledger'
<1> SUFFICES ASSUME Ground, Ground', Ledger, [Next]_vars PROVE Ledger'
  OBVIOUS
<1>1. CASE ~aborted
  <2>1. ASSUME NEW n \in Nodes, NEW q \in Peers, Node(n, q) PROVE Ledger'
    BY <1>1, <2>1, GroupLedger, ConsensusLedger, VerifiedLedger, PreprepareLedger, PrepareLedger,
       SendLedger, AckLedger, NextLedger DEF Node
  <2>2. ASSUME NEW t \in Threads, multicast(t) PROVE Ledger'
    BY <1>1, <2>2, MulticastLedger
  <2>3. ASSUME NEW c \in Clients, NEW q \in Nodes, reply_handler(c, q) PROVE Ledger'
    BY <1>1, <2>3, ReplyLedger
  <2>4. CASE UNCHANGED vars
    BY <2>4 DEF vars, nodeVars, groupVars, clientVars, Ledger, Spent, Answered, Pending, FinitelyNoted
  <2> QED BY <2>1, <2>2, <2>3, <2>4 DEF Next
<1>2. CASE aborted
  <2>1. UNCHANGED vars
    BY <1>2 DEF Next
  <2> QED BY <2>1 DEF vars, nodeVars, groupVars, clientVars, Ledger, Spent, Answered, Pending, FinitelyNoted
<1> QED BY <1>1, <1>2

\* At the start nothing was asked, and nothing spent.
LEMMA LedgerInit == Init /\ Ground => Ledger
<1> SUFFICES ASSUME Init, Ground PROVE Ledger
  OBVIOUS
<1>1. Noted(verified_message) = {}
  <2>1. ASSUME NEW j \in Nodes, NEW i \in Nat PROVE ~(1 <= i /\ i <= Answers(verified_message[j]))
    BY DEF Init, NoAnswer, Answers
  <2> QED BY <2>1 DEF Noted
<1>2. FinitelyNoted /\ Cardinality(Noted(verified_message)) = 0
  BY <1>1, FS_EmptySet DEF FinitelyNoted
<1>3. ASSUME NEW W PROVE Count(net, W) = 0
  <2>1. Spots(net, All, W) = {}
    <3>1. ASSUME NEW p \in Peers, NEW q \in Peers, NEW i PROVE ~At(net[p][q], i, W)
      BY DEF Init, At
    <3> QED BY <3>1 DEF Spots
  <2> QED BY <2>1, FS_EmptySet DEF Count
<1>4. Spent = 0 /\ Answered = 0 /\ Pending = 0
  <2>1. prepared_messages = 0 /\ trust.Sat = 0 /\ replies[client][TRUE] = 0
    BY ClientAssumption DEF Init, NoAnswer
  <2>2. PrepareQuorum * 0 = 0 /\ (ConsensusSize - 1) * 0 = 0 /\ ReplyQuorum * 0 = 0
    BY Sizes
  <2> QED BY <1>2, <1>3, <2>1, <2>2 DEF Spent, Answered, Pending
<1>5. /\ 0 <= orderNumber /\ Spent <= MaxPrepared * 0
      /\ (PrimarySize - 1) * 0 + Pending <= (PrimarySize - 1) * orderNumber
      /\ Answered <= ConsensusSize * trust.Sat
  <2>1. MaxPrepared * 0 = 0 /\ (PrimarySize - 1) * 0 = 0 /\ ConsensusSize * 0 = 0
    BY Sizes
  <2>2. orderNumber = 0 /\ trust.Sat = 0
    BY DEF Init
  <2> QED BY <1>4, <2>1, <2>2
<1> QED BY <1>2, <1>5 DEF Ledger

\* The messages of a type on their way are those the account counts.
LEMMA UnderwayCounted ==
  ASSUME Ground, NEW type, OfType(type) \subseteq Rest
  PROVE  /\ Underway(type) = Spots(net, All, OfType(type)) /\ IsFiniteSet(Underway(type))
         /\ Cardinality(Underway(type)) = Count(net, OfType(type))
<1>1. OnlyMessages
  BY ChannelsTyped DEF Ground
<1>2. ASSUME NEW p \in Peers, NEW q \in Peers, NEW i
      PROVE  /\ At(net[p][q], i, OfType(type)) <=> i \in DOMAIN net[p][q] /\ net[p][q][i].type = type
             /\ i \in DOMAIN net[p][q] => i \in Nat
  <2>1. net[p][q] \in Seq(AnyMessage)
    BY <1>1 DEF OnlyMessages
  <2>2. i \in DOMAIN net[p][q] => i \in Nat /\ net[p][q][i] \in AnyMessage
    BY <2>1, LenProperties, ElementOfSeq
  <2> QED BY <2>2 DEF At, OfType, AnyMessage
<1>3. ASSUME NEW x
      PROVE  x \in Underway(type) <=> x \in Spots(net, All, OfType(type))
  <2>1. x \in Underway(type)
          <=> \E p, q \in Peers : \E i \in DOMAIN net[p][q] : net[p][q][i].type = type /\ x = <<p, q, i>>
    <3> DEFINE S(p, q) == {<<p, q, i>> : i \in {j \in DOMAIN net[p][q] : net[p][q][j].type = type}}
    <3>1. ASSUME NEW p \in Peers, NEW q \in Peers
          PROVE  x \in S(p, q) <=> \E i \in DOMAIN net[p][q] : net[p][q][i].type = type /\ x = <<p, q, i>>
      OBVIOUS
    <3>2. Underway(type) = UNION {S(p, q) : p \in Peers, q \in Peers}
      BY DEF Underway
    <3> HIDE DEF S
    <3>3. x \in Underway(type) <=> \E p, q \in Peers : x \in S(p, q)
      BY <3>2
    <3> QED BY <3>1, <3>3
  <2>2. x \in Spots(net, All, OfType(type))
          <=> \E p, q \in Peers, i \in Nat : At(net[p][q], i, OfType(type)) /\ x = <<p, q, i>>
    BY DEF Spots, All
  <2> QED BY <1>2, <2>1, <2>2
<1>4. Underway(type) = Spots(net, All, OfType(type))
  BY <1>3
<1>5. IsFiniteSet(Spots(net, All, OfType(type)))
  BY PartOfRest DEF Ground, Tidy
<1> QED BY <1>4, <1>5 DEF Count

\* Results are sent on or replied.
LEMMA ResultsCounted ==
  ASSUME Ground
  PROVE  /\ Cardinality(Underway("MsgSend")) + Cardinality(Underway("MsgReply")) = Count(net, Results)
         /\ Cardinality(Underway("MsgSend")) \in Nat /\ Cardinality(Underway("MsgReply")) \in Nat
<1> DEFINE S == Spots(net, All, OfType("MsgSend"))
           R == Spots(net, All, OfType("MsgReply"))
<1>1. OfType("MsgSend") \subseteq Rest /\ OfType("MsgReply") \subseteq Rest
  BY DEF OfType, Rest, AnyMessage
<1>2. /\ Underway("MsgSend") = S /\ IsFiniteSet(S)
      /\ Underway("MsgReply") = R /\ IsFiniteSet(R)
  BY <1>1, UnderwayCounted
<1>3. Spots(net, All, Results) = S \cup R
  BY DEF Spots, At, Results
<1>4. S \cap R = {}
  BY DEF Spots, At, OfType
<1> HIDE DEF S, R
<1>5. Cardinality(S \cup R) = Cardinality(S) + Cardinality(R)
  BY <1>2, <1>4, SizesAdd
<1> QED BY <1>2, <1>3, <1>5, FS_CardinalityType DEF Count

\* The account tells that nothing was counted twice.
LEMMA LedgerTells == Ground /\ Ledger => NothingCountedTwice
<1> SUFFICES ASSUME Ground, Ledger PROVE NothingCountedTwice
  OBVIOUS
<1>1. Amounts /\ BillNumbers
  BY InAmounts, BillCounts DEF Ground, Ledger
<1>2. /\ Cardinality(Underway("MsgPrepare")) = Count(net, Prepares)
      /\ Cardinality(Underway("MsgPreprepare")) = Count(net, Preprepares)
      /\ Cardinality(Underway("MsgAck")) = Count(net, Acks)
  BY <1>1, UnderwayCounted DEF BillNumbers, Prepares, Preprepares, Acks
<1>3. /\ Cardinality(Underway("MsgSend")) + Cardinality(Underway("MsgReply")) = Count(net, Results)
      /\ Cardinality(Underway("MsgSend")) \in Nat /\ Cardinality(Underway("MsgReply")) \in Nat
  BY ResultsCounted
<1>4. /\ Spent <= MaxPrepared * orderNumber
  <2>1. PICK k \in Nat : k <= orderNumber /\ Spent <= MaxPrepared * k
    BY DEF Ledger
  <2>2. /\ MaxPrepared * k <= MaxPrepared * orderNumber
        /\ MaxPrepared * k \in Nat /\ MaxPrepared * orderNumber \in Nat /\ Spent \in Nat
    <3>1. MaxPrepared \in Nat /\ orderNumber \in Nat /\ Spent \in Nat
      BY <1>1, Sizes DEF Amounts
    <3> QED BY <2>1, <3>1, Multiply
  <2> QED BY <2>1, <2>2
<1>5. PrepareQuorum * trust.Sat + prepared_messages + Cardinality(Underway("MsgPrepare"))
        + (ConsensusSize - 1) * Cardinality(Underway("MsgPreprepare")) = Spent
  <2> DEFINE a == PrepareQuorum * trust.Sat
             u == prepared_messages
             b == Count(net, Prepares)
             w == (ConsensusSize - 1) * Count(net, Preprepares)
  <2>1. a \in Nat /\ u \in Nat /\ b \in Nat /\ w \in Nat
    <3>1. \A x, y \in Nat : x * y \in Nat
      OBVIOUS
    <3>2. /\ trust.Sat \in Nat /\ Count(net, Preprepares) \in Nat /\ u \in Nat /\ b \in Nat
          /\ PrepareQuorum \in Nat /\ ConsensusSize - 1 \in Nat
      BY <1>1, Sizes DEF Amounts
    <3> QED BY <3>1, <3>2
  <2>2. Spent = a + ((u + b) + w)
    BY DEF Spent
  <2>3. PrepareQuorum * trust.Sat + prepared_messages + Cardinality(Underway("MsgPrepare"))
          + (ConsensusSize - 1) * Cardinality(Underway("MsgPreprepare")) = ((a + u) + b) + w
    BY <1>2
  <2> HIDE DEF a, u, b, w
  <2>4. ((a + u) + b) + w = a + ((u + b) + w)
    BY <2>1
  <2> QED BY <2>2, <2>3, <2>4
<1>6. Cardinality(Underway("MsgSend")) + Cardinality(Underway("MsgReply"))
         + replies[client][TRUE] + ReplyQuorum * Cardinality(Underway("MsgAck")) = Answered
  BY <1>2, <1>3 DEF Answered
<1>7. Answered <= ConsensusSize * trust.Sat
  BY DEF Ledger
<1> QED BY <1>4, <1>5, <1>6, <1>7 DEF NothingCountedTwice

\* However rounds overlap, on any network and for all sizes, the prepares
\* rewarded, counted and on their way are no more than those of the orders
\* given out, and the replies counted, on their way and acknowledged no more
\* than those of one consensus group for every reward: neither
\* clearPreparedMessages in send_reply_handler and ack_handler nor the count
\* shared by all nodes lets a prepare or a reply count twice.
THEOREM NoneCountedTwice == Spec => []NothingCountedTwice
<1>1. Init /\ Ground => Ledger
  BY LedgerInit
<1>2. Ground /\ Ground' /\ Ledger /\ [Next]_vars => Ledger'
  BY LedgerNext
<1>3. Ground /\ Ledger => NothingCountedTwice
  BY LedgerTells
<1> QED BY <1>1, <1>2, <1>3, SpecGround, PTL DEF Spec
=============================================================================
