----------------------------- MODULE PartsProofs -----------------------------
(***************************************************************************)
(* What the run "parts" checks up to a bound, for every value of the       *)
(* constants: the group sizes of config.h for every number of nodes        *)
(* (GroupSizes), the signed text for all texts and order numbers           *)
(* (SignedText), and the wire format for all bytes, widths and lengths     *)
(* (Messages).  The sections are independent, as the parts are.            *)
(* Two of the parts are recursive functions; what they compute is shown    *)
(* from the least number for which it would fail (LeastNumber).            *)
(***************************************************************************)
EXTENDS MCParts, SequenceTheorems, WellFoundedInduction, TLAPS

\* What an editor can put into config.h.
Values ==
    /\ NUM_NODES \in Nat \ {0}
    /\ D2 \in Int
    /\ M2 \in Int

\* They stay such values, whatever is edited.
LEMMA ValuesKept == Spec => []Values
<1>1. Init => Values
  BY DEF Init, Values
<1>2. Values /\ [Next]_vars => Values'
  BY BoundAssumption DEF Values, Next, vars, SetNodes, SetFractions, One
<1> QED BY <1>1, <1>2, PTL DEF Spec

----------------------------------------------------------------------------
(* The groups.                                                             *)

\* A clamped fraction of a number, truncated, is not above that number.
LEMMA FractionFits ==
    ASSUME NEW n \in Nat, NEW d \in Int
    PROVE  Cast(Clamp(d) * n, One) \in 0..n
<1> DEFINE c == Clamp(d)
<1>1. c \in 0..10
  BY DEF Clamp, One
<1> HIDE DEF c
<1>2. \A k \in 0..10 : c = k => c * n \in Nat /\ c * n <= 10 * n
  <2>1. c * n \in Nat
    BY <1>1
  <2>2. (10 - c) * n \in Nat
    BY <1>1
  <2>3. (10 - c) * n = 10 * n - c * n
    BY <1>1
  <2> QED BY <2>1, <2>2, <2>3
<1>3. c * n \in Nat /\ c * n <= 10 * n
  BY <1>1, <1>2
<1>4. \A a \in Nat : a <= 10 * n => Cast(a, One) \in 0..n
  BY DEF Cast, One
<1> QED BY <1>3, <1>4 DEF c

\* However config.h is edited, no group reaches past the list it is cut from.
THEOREM GroupsNested == Spec => []SizesNested
<1>1. Values => SizesNested
  <2> SUFFICES ASSUME Values PROVE SizesNested
    OBVIOUS
  <2>1. consensusGroup \in 0..NUM_NODES
    BY FractionFits DEF Values, consensusGroup, Consensus
  <2>2. primaryGroup \in 0..consensusGroup
    <3> DEFINE c == consensusGroup
    <3>1. c \in Nat /\ M2 \in Int
      BY <2>1 DEF Values
    <3>2. primaryGroup = Cast(Clamp(M2) * c, One)
      BY DEF primaryGroup, Primary
    <3> HIDE DEF c
    <3>3. primaryGroup \in 0..c
      BY <3>1, <3>2, FractionFits
    <3> QED BY <3>3 DEF c
  <2> QED BY <2>1, <2>2 DEF Values, SizesNested
<1> QED BY <1>1, ValuesKept, PTL

----------------------------------------------------------------------------
(* The shipped fractions.                                                  *)

\* The sizes with the fractions config.h comes with, in tenths and thirtieths.
LEMMA ShippedSizes ==
    ASSUME Values, ShippedFractions
    PROVE  /\ consensusGroup = (6 * NUM_NODES) \div 10
           /\ primaryGroup = (5 * consensusGroup) \div 10
           /\ prepare_tolerance = (36 * NUM_NODES - 20) \div 30
           /\ reply_tolerance = (18 * NUM_NODES + 20) \div 30
           /\ Faulty30(NUM_NODES, D2) = 18 * NUM_NODES - 10
<1>1. consensusGroup = (6 * NUM_NODES) \div 10
  BY DEF Values, ShippedFractions, consensusGroup, Consensus, Clamp, Cast, One
<1>2. consensusGroup \in Nat
  BY <1>1 DEF Values
<1> QED BY <1>1, <1>2 DEF Values, ShippedFractions, primaryGroup, Primary, prepare_tolerance,
        Prepares, reply_tolerance, Replies, Faulty30, Clamp, Cast, One

\* The client's quorum exceeds the group for three residues of five.
THEOREM RepliesFitByResidue == Spec => []RepliesFit
<1>1. Values => RepliesFit
  <2> SUFFICES ASSUME Values, ShippedFractions
               PROVE  reply_tolerance <= consensusGroup <=> NUM_NODES % 5 \in {0, 2}
    BY DEF RepliesFit
  <2>1. /\ consensusGroup = (6 * NUM_NODES) \div 10
        /\ reply_tolerance = (18 * NUM_NODES + 20) \div 30
    BY ShippedSizes
  <2>2. PICK k \in Nat, r \in 0..9 : NUM_NODES = 10 * k + r
    <3>1. NUM_NODES = 10 * (NUM_NODES \div 10) + (NUM_NODES % 10)
      BY DEF Values
    <3> QED BY <3>1 DEF Values
  <2>3. /\ consensusGroup = 6 * k + (6 * r) \div 10
        /\ reply_tolerance = 6 * k + (18 * r + 20) \div 30
        /\ NUM_NODES % 5 = r % 5
    BY <2>1, <2>2
  <2>4. (18 * r + 20) \div 30 <= (6 * r) \div 10 <=> r % 5 \in {0, 2}
    BY <2>2
  <2> QED BY <2>2, <2>3, <2>4
<1> QED BY <1>1, ValuesKept, PTL

\* Whatever the number of nodes, no quorum hangs on the rounding of a double.
THEOREM NoBoundary == Spec => []QuorumsOffBoundary
<1>1. Values => QuorumsOffBoundary
  <2> SUFFICES ASSUME Values, ShippedFractions
               PROVE  /\ (2 * (18 * NUM_NODES - 10)) % 30 # 0
                      /\ (18 * NUM_NODES - 10) % 30 # 0
    BY ShippedSizes DEF QuorumsOffBoundary, One
  <2> QED BY DEF Values
<1> QED BY <1>1, ValuesKept, PTL

\* The sizes that serve, and those among them with one quorum per round.
LEMMA SmallestServes ==
    ASSUME Values, ShippedFractions
    PROVE  /\ Serves => NUM_NODES >= 10
           /\ Serves /\ ~Doubled <=> NUM_NODES \in {10, 12}
<1> DEFINE n == NUM_NODES
           c == consensusGroup
           p == primaryGroup
           t == prepare_tolerance
           r == reply_tolerance
<1>1. /\ n \in Nat \ {0}
      /\ c = (6 * n) \div 10
      /\ p = (5 * c) \div 10
      /\ t = (36 * n - 20) \div 30
      /\ r = (18 * n + 20) \div 30
  BY ShippedSizes DEF Values
<1>2. /\ Serves <=> p >= 2 /\ (c - p) * (c - 1) >= t /\ r <= c
      /\ Doubled <=> Serves /\ (c - p) * (c - 1) >= 2 * t
  BY DEF Serves, Doubled, max_prepared, Prepared
<1> HIDE DEF n, c, p, t, r
<1>3. CASE n \in 1..14
  <2>1. ASSUME n \in 1..6 PROVE ~Serves
    BY <1>1, <1>2, <2>1
  <2>2. ASSUME n \in 7..9 PROVE ~Serves
    BY <1>1, <1>2, <2>2
  <2>3. ASSUME n \in {11, 13, 14} PROVE ~Serves
    BY <1>1, <1>2, <2>3
  <2>4. ASSUME n = 10 PROVE Serves /\ ~Doubled
    <3>1. c = 6 /\ p = 3 /\ t = 11 /\ r = 6
      BY <1>1, <2>4
    <3> QED BY <1>2, <3>1
  <2>5. ASSUME n = 12 PROVE Serves /\ ~Doubled
    <3>1. c = 7 /\ p = 3 /\ t = 13 /\ r = 7
      BY <1>1, <2>5
    <3> QED BY <1>2, <3>1
  <2> QED BY <1>3, <2>1, <2>2, <2>3, <2>4, <2>5 DEF n
<1>4. CASE n >= 15
  <2>1. /\ c \in Nat /\ p \in Nat /\ t \in Nat
        /\ c >= 9 /\ p >= 2 /\ c - p >= 5
    BY <1>1, <1>4
  <2>2. 2 * t <= 5 * (c - 1)
    BY <1>1, <1>4, <2>1
  <2>3. 5 * (c - 1) <= (c - p) * (c - 1)
    <3>1. (c - p - 5) * (c - 1) >= 0
      BY <2>1
    <3>2. (c - p - 5) * (c - 1) = (c - p) * (c - 1) - 5 * (c - 1)
      BY <2>1
    <3> QED BY <2>1, <3>1, <3>2
  <2>4. (c - p) * (c - 1) >= 2 * t
    BY <2>1, <2>2, <2>3
  <2>5. (Doubled <=> Serves) /\ n >= 10 /\ n \notin {10, 12}
    BY <1>1, <1>2, <1>4, <2>4
  <2> QED BY <2>5 DEF n
<1> QED BY <1>1, <1>3, <1>4

\* Nothing below ten nodes registers a request; every size that registers one
\* has, but for ten and twelve, prepares for two quorums in each round.
THEOREM ShippedSmallest == Spec => []ShippedIsSmallest
<1>1. Values => ShippedIsSmallest
  BY SmallestServes DEF ShippedIsSmallest
<1> QED BY <1>1, ValuesKept, PTL

----------------------------------------------------------------------------
(* The sizes the round needs for one quorum in each round.                 *)

\* The three conditions of OneQuorum in LockStepProofs, for the sizes that
\* config.h makes.
RoomForOneQuorum ==
    /\ primaryGroup < consensusGroup
    /\ max_prepared < 2 * prepare_tolerance
    /\ consensusGroup <= reply_tolerance

\* With the shipped fractions they are exactly what tells a configuration with
\* one quorum per round from one with several, among those that register
\* requests: ten nodes, as shipped, and twelve meet them, and no other does.
THEOREM OneQuorumAsShipped ==
    Spec => [](ShippedFractions /\ Serves => (RoomForOneQuorum <=> ~Doubled))
<1>1. Values => (ShippedFractions /\ Serves => (RoomForOneQuorum <=> ~Doubled))
  <2> SUFFICES ASSUME Values, ShippedFractions, Serves PROVE RoomForOneQuorum <=> ~Doubled
    OBVIOUS
  <2> DEFINE n == NUM_NODES
             c == consensusGroup
             p == primaryGroup
             t == prepare_tolerance
             r == reply_tolerance
  <2>1. /\ n \in Nat \ {0}
        /\ c = (6 * n) \div 10
        /\ p = (5 * c) \div 10
        /\ t = (36 * n - 20) \div 30
        /\ r = (18 * n + 20) \div 30
    BY ShippedSizes DEF Values
  <2>2. /\ Doubled <=> max_prepared >= 2 * t
        /\ RoomForOneQuorum <=> p < c /\ max_prepared < 2 * t /\ c <= r
        /\ max_prepared = (c - p) * (c - 1)
    BY DEF Doubled, RoomForOneQuorum, max_prepared, Prepared
  <2> HIDE DEF n, c, p, t, r
  <2>3. c \in Nat /\ p \in Nat /\ t \in Int /\ r \in Int
    BY <2>1
  <2>4. c <= r
    BY <2>1
  <2>5. n >= 10
    BY SmallestServes DEF n
  <2>6. p < c
    BY <2>1, <2>5
  <2>7. (c - p) * (c - 1) \in Int
    BY <2>3
  <2> QED BY <2>2, <2>3, <2>4, <2>6, <2>7
<1> QED BY <1>1, ValuesKept, PTL

----------------------------------------------------------------------------
(* The text that is signed.                                                *)

\* A set of numbers has a least one.
LEMMA LeastNumber ==
  ASSUME NEW T \in SUBSET Nat, T # {}
  PROVE  \E k \in T : \A j \in T : k <= j
<1> DEFINE R == OpToRel(<, Nat)
<1>1. IsWellFoundedOn(R, Nat)
  BY NatLessThanWellFounded
<1> HIDE DEF R
<1>2. PICK k \in T : \A j \in T : <<j, k>> \notin R
  BY <1>1, WFMin
<1>3. ASSUME NEW j \in T PROVE k <= j
  <2>1. j \in Nat /\ k \in Nat /\ <<j, k>> \notin R
    BY <1>2
  <2> QED BY <2>1 DEF R, OpToRel
<1> QED BY <1>3

\* d gives the digits of each number.
IsDigits(d) ==
    d = [i \in Nat |-> IF i < 10 THEN <<i>> ELSE Append(d[i \div 10], i % 10)]

\* d gives those of the numbers up to k.
DigitsUpto(d, k) ==
    \A i \in 0..k : d[i] = IF i < 10 THEN <<i>> ELSE Append(d[i \div 10], i % 10)

\* Digits do not depend on how far they are given.
LEMMA DigitsAgree ==
  ASSUME NEW d, NEW e, NEW k \in Nat, NEW l \in Nat, k <= l, DigitsUpto(d, k), DigitsUpto(e, l)
  PROVE  \A i \in 0..k : d[i] = e[i]
<1> DEFINE T == {i \in 0..k : d[i] # e[i]}
<1>1. SUFFICES ASSUME T # {} PROVE FALSE
  OBVIOUS
<1>2. PICK i \in T : \A j \in T : i <= j
  <2>1. T \in SUBSET Nat
    OBVIOUS
  <2> HIDE DEF T
  <2> QED BY <1>1, <2>1, LeastNumber
<1>3. i \in 0..k /\ i \in 0..l /\ d[i] # e[i]
  OBVIOUS
<1>4. /\ d[i] = IF i < 10 THEN <<i>> ELSE Append(d[i \div 10], i % 10)
      /\ e[i] = IF i < 10 THEN <<i>> ELSE Append(e[i \div 10], i % 10)
  BY <1>3 DEF DigitsUpto
<1>5. i >= 10
  BY <1>3, <1>4
<1>6. i \div 10 \in 0..k /\ i \div 10 < i
  BY <1>3, <1>5
<1>7. d[i \div 10] = e[i \div 10]
  BY <1>2, <1>3, <1>6
<1> QED BY <1>3, <1>4, <1>7

\* Up to any number they can be given.
LEMMA DigitsUptoExist == \A k \in Nat : \E d : DigitsUpto(d, k)
<1> DEFINE T == {k \in Nat : ~\E d : DigitsUpto(d, k)}
<1>1. SUFFICES ASSUME T # {} PROVE FALSE
  OBVIOUS
<1>2. PICK k \in T : \A j \in T : k <= j
  <2> HIDE DEF T
  <2>1. T \in SUBSET Nat
    BY DEF T
  <2> QED BY <1>1, <2>1, LeastNumber
<1>3. \E d : DigitsUpto(d, k)
  <2>1. CASE k = 0
    <3> DEFINE d == [i \in 0..0 |-> <<i>>]
    <3>1. DigitsUpto(d, 0)
      BY DEF DigitsUpto
    <3> QED BY <2>1, <3>1
  <2>2. CASE k # 0
    <3>1. k - 1 \in Nat /\ k - 1 \notin T
      BY <1>2, <2>2
    <3>2. PICK e : DigitsUpto(e, k - 1)
      BY <3>1
    <3> DEFINE d == [i \in 0..k |-> IF i < k THEN e[i]
                                    ELSE IF k < 10 THEN <<k>>
                                    ELSE Append(e[k \div 10], k % 10)]
    <3>3. ASSUME NEW i \in 0..k
          PROVE  d[i] = IF i < 10 THEN <<i>> ELSE Append(d[i \div 10], i % 10)
      <4>1. i >= 10 => i \div 10 \in 0..(k - 1) /\ i \div 10 \in 0..k
        OBVIOUS
      <4>2. i >= 10 => d[i \div 10] = e[i \div 10]
        BY <4>1
      <4>3. CASE i = k
        BY <4>2, <4>3
      <4>4. CASE i # k
        <5>1. i \in 0..(k - 1) /\ d[i] = e[i]
          BY <4>4
        <5>2. d[i] = IF i < 10 THEN <<i>> ELSE Append(e[i \div 10], i % 10)
          BY <3>2, <5>1 DEF DigitsUpto
        <5> HIDE DEF d
        <5> QED BY <4>2, <5>1, <5>2
      <4> QED BY <4>3, <4>4
    <3> HIDE DEF d
    <3>4. DigitsUpto(d, k)
      BY <3>3 DEF DigitsUpto
    <3> QED BY <3>4
  <2> QED BY <2>1, <2>2
<1> QED BY <1>3

\* So there is such a function: for each number, take it as far as needed.
LEMMA DigitsExist == \E d : IsDigits(d)
<1> DEFINE upto == [k \in Nat |-> CHOOSE d : DigitsUpto(d, k)]
           d == [i \in Nat |-> upto[i][i]]
<1>1. ASSUME NEW k \in Nat PROVE DigitsUpto(upto[k], k)
  BY DigitsUptoExist
<1> HIDE DEF upto
<1>2. ASSUME NEW i \in Nat
      PROVE  d[i] = IF i < 10 THEN <<i>> ELSE Append(d[i \div 10], i % 10)
  <2>1. upto[i][i] = IF i < 10 THEN <<i>> ELSE Append(upto[i][i \div 10], i % 10)
    BY <1>1 DEF DigitsUpto
  <2>2. i >= 10 => /\ i \div 10 \in Nat /\ i \div 10 <= i /\ i \div 10 \in 0..(i \div 10)
    OBVIOUS
  <2>3. i >= 10 => upto[i \div 10][i \div 10] = upto[i][i \div 10]
    BY <1>1, <2>2, DigitsAgree
  <2> QED BY <2>1, <2>2, <2>3
<1>3. d = [i \in Nat |-> d[i]]
  OBVIOUS
<1> HIDE DEF d
<1>4. d = [i \in Nat |-> IF i < 10 THEN <<i>> ELSE Append(d[i \div 10], i % 10)]
  BY <1>2, <1>3
<1> QED BY <1>4 DEF IsDigits

\* The function to_string defines.
Digits == CHOOSE d : IsDigits(d)

\* What the recursion means, digit by digit.
LEMMA StringSteps ==
  ASSUME NEW n \in Nat
  PROVE  /\ n < 10 => Text!to_string(n) = <<n>>
         /\ n >= 10 => Text!to_string(n) = Append(Text!to_string(n \div 10), n % 10)
<1>1. IsDigits(Digits)
  BY DigitsExist DEF Digits
<1>2. \A i \in Nat : Text!to_string(i) = Digits[i]
  BY DEF Text!to_string, Digits, IsDigits
<1>3. n >= 10 => n \div 10 \in Nat /\ ~(n < 10)
  OBVIOUS
<1> HIDE DEF Digits
<1>4. Digits[n] = IF n < 10 THEN <<n>> ELSE Append(Digits[n \div 10], n % 10)
  BY <1>1 DEF IsDigits
<1>5. n < 10 => Text!to_string(n) = <<n>>
  BY <1>2, <1>4
<1>6. ASSUME n >= 10 PROVE Text!to_string(n) = Append(Text!to_string(n \div 10), n % 10)
  <2>1. Digits[n] = Append(Digits[n \div 10], n % 10)
    BY <1>3, <1>4, <1>6
  <2>2. Text!to_string(n \div 10) = Digits[n \div 10] /\ Text!to_string(n) = Digits[n]
    BY <1>2, <1>3, <1>6
  <2> QED BY <2>1, <2>2
<1> QED BY <1>5, <1>6

\* A number is written in digits, and there is one.
LEMMA StringTypes ==
  \A n \in Nat : Text!to_string(n) \in Seq(0..9) /\ Len(Text!to_string(n)) >= 1
<1> DEFINE T == {n \in Nat : ~(Text!to_string(n) \in Seq(0..9) /\ Len(Text!to_string(n)) >= 1)}
<1>1. SUFFICES ASSUME T # {} PROVE FALSE
  OBVIOUS
<1>2. PICK n \in T : \A j \in T : n <= j
  <2> HIDE DEF T
  <2>1. T \in SUBSET Nat
    BY DEF T
  <2> QED BY <1>1, <2>1, LeastNumber
<1>3. CASE n < 10
  <2>1. n \in 0..9 /\ Text!to_string(n) = <<n>>
    BY <1>3, StringSteps
  <2>2. \A i \in 0..9 : <<i>> \in Seq(0..9) /\ Len(<<i>>) = 1
    OBVIOUS
  <2>3. Text!to_string(n) \in Seq(0..9) /\ Len(Text!to_string(n)) >= 1
    BY <2>1, <2>2
  <2> QED BY <2>3
<1>4. CASE n >= 10
  <2> DEFINE s == Text!to_string(n \div 10)
  <2>1. n \div 10 \in Nat /\ n \div 10 < n /\ n % 10 \in 0..9
    BY <1>4
  <2>2. s \in Seq(0..9) /\ Len(s) >= 1
    BY <1>2, <2>1
  <2>3. Text!to_string(n) = Append(s, n % 10)
    BY <1>4, StringSteps
  <2> HIDE DEF s
  <2>4. Append(s, n % 10) \in Seq(0..9) /\ Len(Append(s, n % 10)) = Len(s) + 1 /\ Len(s) \in Nat
    BY <2>1, <2>2, AppendProperties
  <2> QED BY <2>2, <2>3, <2>4, SMTT(30)
<1> QED BY <1>3, <1>4

\* The last digit is the remainder, the others are those of the quotient.
LEMMA LastDigit ==
  ASSUME NEW k \in Nat, k >= 10
  PROVE  /\ k \div 10 \in Nat /\ k \div 10 < k /\ k = 10 * (k \div 10) + (k % 10)
         /\ Text!to_string(k \div 10) \in Seq(0..9) /\ Len(Text!to_string(k \div 10)) \in Nat \ {0}
         /\ Len(Text!to_string(k)) = Len(Text!to_string(k \div 10)) + 1
         /\ Text!to_string(k)[Len(Text!to_string(k \div 10)) + 1] = k % 10
         /\ \A i \in 1..Len(Text!to_string(k \div 10)) :
               Text!to_string(k)[i] = Text!to_string(k \div 10)[i]
<1>1. k \div 10 \in Nat /\ k \div 10 < k /\ k = 10 * (k \div 10) + (k % 10) /\ k % 10 \in 0..9
  OBVIOUS
<1> DEFINE s == Text!to_string(k \div 10)
<1>2. s \in Seq(0..9) /\ Len(s) >= 1
  BY <1>1, StringTypes
<1>3. Text!to_string(k) = Append(s, k % 10)
  BY StringSteps
<1> HIDE DEF s
<1>4. Len(s) \in Nat \ {0}
  BY <1>2
<1>5. /\ Len(Append(s, k % 10)) = Len(s) + 1 /\ Append(s, k % 10)[Len(s) + 1] = k % 10
      /\ \A i \in 1..Len(s) : Append(s, k % 10)[i] = s[i]
  BY <1>1, <1>2, AppendProperties
<1> QED BY <1>1, <1>2, <1>3, <1>4, <1>5 DEF s

\* The digits tell the number.
LEMMA StringTells ==
  \A m, n \in Nat : Text!to_string(m) = Text!to_string(n) => m = n
<1> DEFINE T == {m \in Nat : \E n \in Nat : Text!to_string(m) = Text!to_string(n) /\ m # n}
<1>1. SUFFICES ASSUME T # {} PROVE FALSE
  OBVIOUS
<1>2. PICK m \in T : \A j \in T : m <= j
  <2> HIDE DEF T
  <2>1. T \in SUBSET Nat
    BY DEF T
  <2> QED BY <1>1, <2>1, LeastNumber
<1>3. PICK n \in Nat : Text!to_string(m) = Text!to_string(n) /\ m # n
  OBVIOUS
<1>4. m \in Nat /\ \A j \in Nat : j < m => j \notin T
  BY <1>2
<1>5. \A j, k \in Nat : j \notin T /\ Text!to_string(j) = Text!to_string(k) => j = k
  OBVIOUS
<1> HIDE DEF T
<1>6. ASSUME NEW k \in Nat, k < 10 PROVE Len(Text!to_string(k)) = 1 /\ Text!to_string(k)[1] = k
  <2>1. Text!to_string(k) = <<k>>
    BY <1>6, StringSteps
  <2> QED BY <2>1
<1>7. ASSUME NEW k \in Nat, k >= 10 PROVE Len(Text!to_string(k)) # 1
  <2>1. /\ Len(Text!to_string(k)) = Len(Text!to_string(k \div 10)) + 1
        /\ Len(Text!to_string(k \div 10)) \in Nat \ {0}
    BY <1>7, LastDigit
  <2> QED BY <2>1
<1>8. CASE m < 10
  <2>1. Len(Text!to_string(m)) = 1 /\ Text!to_string(m)[1] = m
    BY <1>4, <1>6, <1>8
  <2>2. n < 10
    BY <1>3, <1>7, <2>1
  <2>3. Text!to_string(n)[1] = n
    BY <1>6, <2>2
  <2> QED BY <1>3, <2>1, <2>3
<1>9. CASE m >= 10
  <2> DEFINE s == Text!to_string(m \div 10)
             t == Text!to_string(n \div 10)
  <2>1. n >= 10
    <3>1. Len(Text!to_string(n)) # 1
      BY <1>3, <1>4, <1>7, <1>9
    <3> QED BY <1>6, <3>1
  <2>2. /\ m \div 10 \in Nat /\ m \div 10 < m /\ m = 10 * (m \div 10) + (m % 10)
        /\ s \in Seq(0..9) /\ Len(s) \in Nat \ {0}
        /\ Len(Text!to_string(m)) = Len(s) + 1
        /\ Text!to_string(m)[Len(s) + 1] = m % 10
        /\ \A i \in 1..Len(s) : Text!to_string(m)[i] = s[i]
    BY <1>4, <1>9, LastDigit
  <2>3. /\ n \div 10 \in Nat /\ n = 10 * (n \div 10) + (n % 10)
        /\ t \in Seq(0..9) /\ Len(t) \in Nat \ {0}
        /\ Len(Text!to_string(n)) = Len(t) + 1
        /\ Text!to_string(n)[Len(t) + 1] = n % 10
        /\ \A i \in 1..Len(t) : Text!to_string(n)[i] = t[i]
    BY <2>1, LastDigit
  <2> HIDE DEF s, t
  <2>4. Len(s) = Len(t)
    BY <1>3, <2>2, <2>3
  <2>5. m % 10 = n % 10
    BY <1>3, <2>2, <2>3, <2>4
  <2>6. \A i \in 1..Len(s) : s[i] = t[i]
    BY <1>3, <2>2, <2>3, <2>4
  <2>7. s = t
    BY <2>2, <2>3, <2>4, <2>6, SeqEqual
  <2>8. m \div 10 = n \div 10
    BY <1>4, <1>5, <2>2, <2>3, <2>7 DEF s, t
  <2>9. m = n
    BY <2>2, <2>3, <2>5, <2>8
  <2> QED BY <1>3, <2>9
<1> QED BY <1>4, <1>8, <1>9

\* The characters a node may hold.
LEMMA TextTypes ==
  ASSUME Text!TextAssumption, NEW text \in Text!Texts
  PROVE  text \in Seq(Nat) /\ (text # <<>> => text[1] \notin 0..9)
<1>1. CASE text \in Requests
  BY <1>1 DEF Text!TextAssumption
<1>2. CASE text = Text!Empty
  BY <1>2, EmptySeq DEF Text!Empty
<1>3. CASE text = Text!Space
  <2>1. <<32>> \in Seq(Nat) /\ <<32>>[1] = 32
    OBVIOUS
  <2> QED BY <1>3, <2>1 DEF Text!Space
<1> QED BY <1>1, <1>2, <1>3 DEF Text!Texts

\* Where a number ends and the text begins: at the first character that is no
\* digit, or at the end.
LEMMA NumberEnds ==
  ASSUME NEW p \in Seq(0..9), NEW q \in Seq(0..9), NEW s \in Seq(Nat), NEW t \in Seq(Nat),
         s # <<>> => s[1] \notin 0..9, p \o s = q \o t
  PROVE  Len(q) <= Len(p)
<1> SUFFICES ASSUME Len(p) < Len(q) PROVE FALSE
  <2>1. Len(p) \in Nat /\ Len(q) \in Nat
    OBVIOUS
  <2> QED BY <2>1
<1> DEFINE i == Len(p) + 1
<1>1. p \in Seq(Nat) /\ q \in Seq(Nat)
  <2>1. 0..9 \subseteq Nat
    OBVIOUS
  <2> QED BY <2>1, SMTT(30)
<1>2. /\ Len(p \o s) = Len(p) + Len(s) /\ Len(q \o t) = Len(q) + Len(t)
      /\ \A j \in 1..Len(p) + Len(s) : (p \o s)[j] = IF j <= Len(p) THEN p[j] ELSE s[j - Len(p)]
      /\ \A j \in 1..Len(q) + Len(t) : (q \o t)[j] = IF j <= Len(q) THEN q[j] ELSE t[j - Len(q)]
  BY <1>1, ConcatProperties
<1>3. Len(p) \in Nat /\ Len(q) \in Nat /\ Len(s) \in Nat /\ Len(t) \in Nat
  BY SMTT(30)
<1>4. Len(p) + Len(s) = Len(q) + Len(t)
  BY <1>2
<1>5. i \in 1..Len(p) + Len(s) /\ i \in 1..Len(q) + Len(t) /\ i \in 1..Len(q) /\ Len(s) # 0
  BY <1>3, <1>4
<1>6. (p \o s)[i] = s[1] /\ (q \o t)[i] = q[i]
  <2>1. ~(i <= Len(p)) /\ i - Len(p) = 1 /\ i <= Len(q)
    BY <1>3, <1>5
  <2> HIDE DEF i
  <2> QED BY <1>2, <1>5, <2>1
<1>7. q[i] \in 0..9
  BY <1>5, ElementOfSeq
<1>8. s # <<>>
  BY <1>5
<1> QED BY <1>6, <1>7, <1>8

\* Number and text can be told from what is signed, although nothing separates
\* them.
LEMMA PairTold ==
  ASSUME Text!TextAssumption, NEW m \in Nat, NEW n \in Nat,
         NEW s \in Text!Texts, NEW t \in Text!Texts,
         Text!combinedData(m, s) = Text!combinedData(n, t)
  PROVE  m = n /\ s = t
<1> DEFINE p == Text!to_string(m)
           q == Text!to_string(n)
<1>1. p \in Seq(0..9) /\ q \in Seq(0..9)
  BY StringTypes
<1>2. s \in Seq(Nat) /\ t \in Seq(Nat)
  BY TextTypes
<1>3. p \o s = q \o t
  BY DEF Text!combinedData
<1>4. p = q => m = n
  BY StringTells
<1>5. (s # <<>> => s[1] \notin 0..9) /\ (t # <<>> => t[1] \notin 0..9)
  BY TextTypes
<1> HIDE DEF p, q
<1>6. Len(p) = Len(q) /\ Len(p) \in Nat
  <2>1. Len(q) <= Len(p)
    BY <1>1, <1>2, <1>3, <1>5, NumberEnds
  <2>2. Len(p) <= Len(q)
    BY <1>1, <1>2, <1>3, <1>5, NumberEnds
  <2>3. Len(p) \in Nat /\ Len(q) \in Nat
    BY <1>1
  <2> QED BY <2>1, <2>2, <2>3
<1>7. p \in Seq(Nat) /\ q \in Seq(Nat)
  <2>1. 0..9 \subseteq Nat
    OBVIOUS
  <2> QED BY <1>1, <2>1
<1>8. /\ Len(p \o s) = Len(p) + Len(s) /\ Len(q \o t) = Len(q) + Len(t)
      /\ \A j \in 1..Len(p) + Len(s) : (p \o s)[j] = IF j <= Len(p) THEN p[j] ELSE s[j - Len(p)]
      /\ \A j \in 1..Len(q) + Len(t) : (q \o t)[j] = IF j <= Len(q) THEN q[j] ELSE t[j - Len(q)]
  BY <1>2, <1>7, ConcatProperties
<1>9. Len(s) = Len(t) /\ Len(s) \in Nat
  <2>1. Len(s) \in Nat /\ Len(t) \in Nat
    BY <1>2
  <2> QED BY <1>3, <1>6, <1>8, <2>1
<1>10. p = q
  <2>1. ASSUME NEW j \in 1..Len(p) PROVE p[j] = q[j]
    <3>1. j \in 1..Len(p) + Len(s) /\ j \in 1..Len(q) + Len(t) /\ j <= Len(p) /\ j <= Len(q)
      BY <1>6, <1>9
    <3> QED BY <1>3, <1>8, <3>1
  <2> QED BY <1>6, <1>7, <2>1, SeqEqual
<1>11. s = t
  <2>1. ASSUME NEW j \in 1..Len(s) PROVE s[j] = t[j]
    <3> DEFINE i == Len(p) + j
    <3>1. /\ i \in 1..Len(p) + Len(s) /\ i \in 1..Len(q) + Len(t)
          /\ ~(i <= Len(p)) /\ ~(i <= Len(q))
          /\ i - Len(p) = j /\ i - Len(q) = j
      BY <1>6, <1>9
    <3> HIDE DEF i
    <3> QED BY <1>3, <1>8, <3>1
  <2> QED BY <1>2, <1>9, <2>1, SeqEqual
<1> QED BY <1>4, <1>10, <1>11

\* Order numbers are numbers, and nodes hold texts.
TextTypesOK == orderNumber \in Nat /\ client_request \in Text!Texts

\* A signature verifies for its own order number and text only, for all texts
\* that do not begin with a digit and all order numbers ever handed out.
THEOREM TextIsPair == PartsSpec => []SignedTextIsPair
<1>1. PartsInit => TextTypesOK
  BY DEF PartsInit, TextTypesOK, Text!Init, Text!Texts
<1>2. TextTypesOK /\ [PartsNext]_<<part, sizeVars, textVars, wireVars>> => TextTypesOK'
  <2> SUFFICES ASSUME TextTypesOK, [PartsNext]_<<part, sizeVars, textVars, wireVars>>
               PROVE  TextTypesOK'
    OBVIOUS
  <2>1. CASE Text!Next
    <3>1. ASSUME NEW text \in Requests, NEW lead \in BOOLEAN, Text!process_group_request(text, lead)
          PROVE  TextTypesOK'
      BY <3>1 DEF TextTypesOK, Text!process_group_request, Text!Texts
    <3>2. ASSUME NEW idle \in {Text!Empty, Text!Space}, Text!close(idle) PROVE TextTypesOK'
      BY <3>2 DEF TextTypesOK, Text!close, Text!Texts
    <3> QED BY <2>1, <3>1, <3>2 DEF Text!Next
  <2>2. CASE UNCHANGED textVars
    BY <2>2 DEF TextTypesOK, textVars
  <2> QED BY <2>1, <2>2 DEF PartsNext
<1>3. TextTypesOK => SignedTextIsPair
  <2> SUFFICES ASSUME TextTypesOK, NEW order \in 0..orderNumber, NEW text \in Text!Texts,
                      Text!combinedData(order, text)
                          = Text!combinedData(orderNumber, client_request)
               PROVE  order = orderNumber /\ text = client_request
    BY DEF SignedTextIsPair, Text!SignedTextIsPair
  <2>1. order \in Nat /\ orderNumber \in Nat /\ client_request \in Text!Texts /\ Text!TextAssumption
    BY PartsAssumption DEF TextTypesOK
  <2> QED BY <2>1, PairTold
<1> QED BY <1>1, <1>2, <1>3, PTL DEF PartsSpec

----------------------------------------------------------------------------
(* The wire format.                                                        *)

\* f starts from base and takes one step for each number.
IsTurns(f, base, n, step) ==
    f = [i \in 0..n |-> IF i = 0 THEN base ELSE step[<<i, f[i - 1]>>]]

\* There is such a function: it is built up turn by turn.
LEMMA TurnsExist ==
  ASSUME NEW n \in Nat, NEW V, NEW base \in V, NEW step \in [(1..n) \X V -> V]
  PROVE  \E f \in [0..n -> V] : IsTurns(f, base, n, step)
<1> DEFINE T == {k \in 0..n : ~\E f \in [0..k -> V] : IsTurns(f, base, k, step)}
<1>1. SUFFICES ASSUME T # {} PROVE FALSE
  OBVIOUS
<1>2. PICK k \in T : \A j \in T : k <= j
  <2> HIDE DEF T
  <2>1. T \in SUBSET Nat
    BY DEF T
  <2> QED BY <1>1, <2>1, LeastNumber
<1>3. \E f \in [0..k -> V] : IsTurns(f, base, k, step)
  <2>1. CASE k = 0
    <3> DEFINE f == [i \in 0..0 |-> base]
    <3>1. f \in [0..0 -> V] /\ IsTurns(f, base, 0, step)
      BY DEF IsTurns
    <3> QED BY <2>1, <3>1
  <2>2. CASE k # 0
    <3>1. k - 1 \in 0..n /\ k - 1 \notin T /\ k \in 1..n
      BY <1>2, <2>2
    <3>2. PICK e \in [0..(k - 1) -> V] : IsTurns(e, base, k - 1, step)
      BY <3>1
    <3> DEFINE f == [i \in 0..k |-> IF i < k THEN e[i] ELSE step[<<k, e[k - 1]>>]]
    <3>3. ASSUME NEW i \in 0..k
          PROVE  f[i] \in V /\ f[i] = IF i = 0 THEN base ELSE step[<<i, f[i - 1]>>]
      <4>1. i # 0 => i - 1 \in 0..(k - 1) /\ f[i - 1] = e[i - 1]
        OBVIOUS
      <4>2. CASE i = k
        <5>1. f[i] = step[<<k, e[k - 1]>>] /\ e[k - 1] \in V
          BY <3>1, <4>2
        <5> HIDE DEF f
        <5> QED BY <2>2, <3>1, <4>1, <4>2, <5>1
      <4>3. CASE i # k
        <5>1. i \in 0..(k - 1) /\ f[i] = e[i] /\ e[i] \in V
          BY <4>3
        <5>2. e[i] = IF i = 0 THEN base ELSE step[<<i, e[i - 1]>>]
          BY <3>2, <5>1 DEF IsTurns
        <5> HIDE DEF f
        <5> QED BY <4>1, <5>1, <5>2
      <4> QED BY <4>2, <4>3
    <3>4. f = [i \in 0..k |-> f[i]]
      OBVIOUS
    <3> HIDE DEF f
    <3>5. f \in [0..k -> V] /\ IsTurns(f, base, k, step)
      BY <3>3, <3>4 DEF IsTurns
    <3> QED BY <3>5
  <2> QED BY <2>1, <2>2
<1> QED BY <1>3

\* A quotient is a number, and the remainder completes it.
LEMMA Quotient ==
  ASSUME NEW b \in Nat \ {0}, NEW a \in Nat
  PROVE  /\ a \div b \in Nat
         /\ a % b \in 0..(b - 1)
         /\ b * (a \div b) + (a % b) = a
OBVIOUS

\* What is left of len, byte by byte.
IsRest(f, len) == f = [i \in 0..Width |-> IF i = 0 THEN len ELSE f[i - 1] \div Base]

\* Each byte leaves the quotient of what was left before it.
LEMMA RestSteps ==
  ASSUME NEW len \in Nat
  PROVE  /\ \A i \in 0..Width : Wire!Rest(len)[i] \in Nat
         /\ Wire!Rest(len)[0] = len
         /\ \A i \in 1..Width : Wire!Rest(len)[i] = Wire!Rest(len)[i - 1] \div Base
<1>1. Width \in Nat /\ Base \in Nat \ {0}
  BY PartsAssumption DEF Wire!WireAssumption
<1> DEFINE step == [p \in (1..Width) \X Nat |-> p[2] \div Base]
<1>2. step \in [(1..Width) \X Nat -> Nat]
  BY <1>1, Quotient
<1>3. \A i \in 1..Width, v \in Nat : step[<<i, v>>] = v \div Base
  OBVIOUS
<1> HIDE DEF step
<1>4. PICK f \in [0..Width -> Nat] : IsTurns(f, len, Width, step)
  BY <1>1, <1>2, TurnsExist
<1>5. ASSUME NEW i \in 0..Width PROVE f[i] = IF i = 0 THEN len ELSE f[i - 1] \div Base
  <2>1. f[i] = IF i = 0 THEN len ELSE step[<<i, f[i - 1]>>]
    BY <1>4 DEF IsTurns
  <2>2. i # 0 => i \in 1..Width /\ f[i - 1] \in Nat
    BY <1>1
  <2> QED BY <1>3, <2>1, <2>2
<1>6. IsRest(f, len)
  <2>1. f = [i \in 0..Width |-> f[i]]
    OBVIOUS
  <2> QED BY <1>5, <2>1 DEF IsRest
<1> DEFINE g == CHOOSE h : IsRest(h, len)
<1>7. IsRest(g, len) /\ Wire!Rest(len) = g
  BY <1>6 DEF IsRest, Wire!Rest
<1> HIDE DEF g
<1>8. /\ g[0] = len
      /\ \A i \in 1..Width : g[i] = g[i - 1] \div Base
  BY <1>1, <1>7 DEF IsRest
<1> DEFINE T == {i \in 0..Width : g[i] \notin Nat}
<1>9. T = {}
  <2> SUFFICES ASSUME T # {} PROVE FALSE
    OBVIOUS
  <2>1. PICK k \in T : \A j \in T : k <= j
    <3>1. T \in SUBSET Nat
      OBVIOUS
    <3> HIDE DEF T
    <3> QED BY <3>1, LeastNumber
  <2>2. k # 0
    BY <1>8, <2>1
  <2>3. k \in 1..Width /\ k - 1 \in 0..Width /\ k - 1 \notin T
    BY <1>1, <2>1, <2>2
  <2>4. g[k - 1] \in Nat /\ g[k] = g[k - 1] \div Base
    BY <1>8, <2>3
  <2> QED BY <1>1, <2>1, <2>4, Quotient
<1> QED BY <1>7, <1>8, <1>9

\* What a word is worth, from its last byte on.
IsWorth(f, word) ==
    f = [i \in 0..Width |-> IF i = 0 THEN 0 ELSE Base * f[i - 1] + word[Width - i + 1]]

\* A length arrives as the length it was: what is read so far is what was left
\* when the bytes read had still to be written.
LEMMA LengthArrives ==
  ASSUME NEW len \in 0..MaxLength
  PROVE  Wire!letoh(Wire!htole(len)) = len /\ Wire!htole(len) \in Wire!Word(Width)
<1>1. /\ Width \in Nat /\ Base \in Nat \ {0} /\ len \in Nat /\ MaxLength \in Nat
      /\ Wire!Rest(len)[Width] = 0
  BY PartsAssumption DEF Wire!WireAssumption
<1> DEFINE r == Wire!Rest(len)
           word == Wire!htole(len)
           f == [i \in 0..Width |-> r[Width - i]]
<1>2. /\ \A i \in 0..Width : r[i] \in Nat
      /\ r[0] = len
      /\ \A i \in 1..Width : r[i] = r[i - 1] \div Base
  BY <1>1, RestSteps
<1>3. word = [i \in 1..Width |-> r[i - 1] % Base]
  BY DEF Wire!htole
<1> HIDE DEF r, word
<1>4. ASSUME NEW i \in 1..Width
      PROVE  word[i] \in 0..(Base - 1) /\ Base * r[i] + word[i] = r[i - 1]
  <2>1. PICK a \in Nat : r[i - 1] = a /\ r[i] = a \div Base /\ word[i] = a % Base
    <3>1. i - 1 \in 0..Width
      BY <1>1
    <3>2. word[i] = r[i - 1] % Base
      BY <1>3
    <3>3. r[i - 1] \in Nat /\ r[i] = r[i - 1] \div Base
      BY <1>2, <3>1
    <3> QED BY <3>2, <3>3, Zenon
  <2>2. a % Base \in 0..(Base - 1) /\ Base * (a \div Base) + (a % Base) = a
    BY <1>1, Quotient
  <2> QED BY <2>1, <2>2
<1>5. word \in Wire!Word(Width)
  BY <1>3, <1>4 DEF Wire!Word, Wire!Byte
<1>6. ASSUME NEW i \in 0..Width
      PROVE  f[i] = IF i = 0 THEN 0 ELSE Base * f[i - 1] + word[Width - i + 1]
  <2>1. CASE i = 0
    <3>1. r[Width] = 0 /\ Width - i = Width
      BY <1>1, <2>1 DEF r
    <3>2. f[i] = r[Width - i]
      OBVIOUS
    <3> QED BY <2>1, <3>1, <3>2
  <2>2. CASE i # 0
    <3>1. /\ Width - i + 1 \in 1..Width /\ (Width - i + 1) - 1 = Width - i
          /\ i - 1 \in 0..Width /\ Width - (i - 1) = Width - i + 1
      BY <1>1, <2>2
    <3>2. f[i - 1] = r[Width - i + 1] /\ f[i] = r[Width - i]
      BY <3>1
    <3> HIDE DEF f
    <3>3. Base * r[Width - i + 1] + word[Width - i + 1] = r[Width - i]
      BY <1>4, <3>1
    <3> QED BY <2>2, <3>2, <3>3
  <2> QED BY <2>1, <2>2
<1>7. IsWorth(f, word)
  <2>1. f = [i \in 0..Width |-> f[i]]
    OBVIOUS
  <2> HIDE DEF f
  <2> QED BY <1>6, <2>1 DEF IsWorth
<1>8. f[Width] = len
  <2>1. Width \in 0..Width /\ Width - Width = 0
    BY <1>1
  <2> QED BY <1>2, <2>1
<1> HIDE DEF f
<1> DEFINE g == CHOOSE h : IsWorth(h, word)
<1>9. IsWorth(g, word) /\ Wire!letoh(word) = g[Width]
  BY <1>7 DEF IsWorth, Wire!letoh
<1> HIDE DEF g
<1> DEFINE T == {i \in 0..Width : g[i] # f[i]}
<1>10. T = {}
  <2> SUFFICES ASSUME T # {} PROVE FALSE
    OBVIOUS
  <2>1. PICK k \in T : \A j \in T : k <= j
    <3>1. T \in SUBSET Nat
      OBVIOUS
    <3> HIDE DEF T
    <3> QED BY <3>1, LeastNumber
  <2>2. /\ g[k] = IF k = 0 THEN 0 ELSE Base * g[k - 1] + word[Width - k + 1]
        /\ f[k] = IF k = 0 THEN 0 ELSE Base * f[k - 1] + word[Width - k + 1]
    BY <1>7, <1>9, <2>1 DEF IsWorth
  <2>3. k # 0 => k - 1 \in 0..Width /\ k - 1 \notin T
    BY <1>1, <2>1
  <2> QED BY <2>1, <2>2, <2>3
<1>11. Wire!letoh(word) = len
  BY <1>1, <1>8, <1>9, <1>10
<1> QED BY <1>5, <1>11 DEF word

\* The names of members.
Fields == Wire!Bools \cup Wire!Numbers \cup Wire!Strings

\* Both constructors of each type list the same members.
LEMMA SameMembers ==
  /\ Wire!Writes = Wire!Reads
  /\ \A t \in DOMAIN Wire!Writes : Wire!Writes[t] \in Seq(Fields)
<1>1. Wire!Writes = Wire!Reads
  BY DEF Wire!Writes, Wire!Reads
<1>2. {"result", "verified", "sendReply", "id", "sequence", "a", "b", "c", "order", "msghash",
       "connId", "message", "operation", "orderNumber", "signature", "groupSign", "peerSign"}
         \subseteq Fields
  BY DEF Fields, Wire!Bools, Wire!Numbers, Wire!Strings
<1> HIDE DEF Fields
<1> DEFINE lists ==
             {<<>>,
              <<"message">>,
              <<"message", "id">>,
              <<"operation", "sequence">>,
              <<"a", "b">>,
              <<"c">>,
              <<"orderNumber", "result">>,
              <<"message", "orderNumber", "groupSign", "peerSign">>,
              <<"message", "order", "msghash">>,
              <<"message", "signature", "orderNumber">>,
              <<"verified">>,
              <<"orderNumber", "sendReply">>,
              <<"sendReply">>,
              <<"message", "connId">>}
<1>3. \A list \in lists : list \in Seq(Fields)
  <2>1. <<>> \in Seq(Fields) /\ \A f \in Fields : <<f>> \in Seq(Fields)
    OBVIOUS
  <2>2. \A f, g \in Fields : <<f, g>> \in Seq(Fields)
    OBVIOUS
  <2>3. \A f, g, h \in Fields : <<f, g, h>> \in Seq(Fields)
    OBVIOUS
  <2>4. \A f, g, h, k \in Fields : <<f, g, h, k>> \in Seq(Fields)
    OBVIOUS
  <2>5. /\ <<"message">> \in Seq(Fields)
       /\ <<"c">> \in Seq(Fields)
       /\ <<"verified">> \in Seq(Fields)
       /\ <<"sendReply">> \in Seq(Fields)
    BY <1>2, <2>1
  <2>6. /\ <<"message", "id">> \in Seq(Fields)
       /\ <<"operation", "sequence">> \in Seq(Fields)
       /\ <<"a", "b">> \in Seq(Fields)
       /\ <<"orderNumber", "result">> \in Seq(Fields)
       /\ <<"orderNumber", "sendReply">> \in Seq(Fields)
       /\ <<"message", "connId">> \in Seq(Fields)
    BY <1>2, <2>2
  <2>7. /\ <<"message", "order", "msghash">> \in Seq(Fields)
       /\ <<"message", "signature", "orderNumber">> \in Seq(Fields)
    BY <1>2, <2>3
  <2>8. /\ <<"message", "orderNumber", "groupSign", "peerSign">> \in Seq(Fields)
    BY <1>2, <2>4
  <2> QED BY <2>1, <2>5, <2>6, <2>7, <2>8
<1>4. ASSUME NEW t \in DOMAIN Wire!Writes PROVE Wire!Writes[t] \in Seq(Fields)
  <2>1. Wire!Writes[t] \in lists
    BY DEF Wire!Writes
  <2> HIDE DEF lists
  <2> QED BY <1>3, <2>1
<1> QED BY <1>1, <1>4

\* A value has as many bytes as its type says.
LEMMA WordTypes ==
  ASSUME NEW size \in Nat, NEW word \in Wire!Word(size)
  PROVE  word \in Seq(Wire!Byte) /\ Len(word) = size /\ DOMAIN word = 1..size
<1>1. word \in [1..size -> Wire!Byte] /\ word \in Seq(Wire!Byte)
  BY SeqDef DEF Wire!Word
<1>2. DOMAIN word = 1..size /\ DOMAIN word = 1..Len(word) /\ Len(word) \in Nat
  BY <1>1, LenProperties
<1> QED BY <1>1, <1>2

\* What put appends for a member.
Encoded(f) == (IF f \in Wire!Strings THEN Wire!htole(Len(fields[f])) ELSE <<>>) \o fields[f]

\* How many bytes of it are the length.
Prefix(f) == IF f \in Wire!Strings THEN Width ELSE 0

\* It is the length, if any, and the value.
LEMMA EncodedBytes ==
  ASSUME NEW f \in Fields, fields[f] \in Wire!Values(f)
  PROVE  /\ fields[f] \in Seq(Wire!Byte) /\ Len(fields[f]) \in Nat
         /\ Prefix(f) \in Nat
         /\ Encoded(f) \in Seq(Wire!Byte)
         /\ Len(Encoded(f)) = Prefix(f) + Len(fields[f])
         /\ \A i \in 1..Len(fields[f]) : Encoded(f)[Prefix(f) + i] = fields[f][i]
         /\ f \in Wire!Bools => Len(fields[f]) = 1 /\ f \notin Wire!Strings
         /\ f \in Wire!Numbers => Len(fields[f]) = Width /\ f \notin Wire!Strings
         /\ f \in Wire!Strings =>
               /\ Wire!letoh(Wire!htole(Len(fields[f]))) = Len(fields[f])
               /\ Wire!htole(Len(fields[f])) \in Seq(Wire!Byte)
               /\ Len(Wire!htole(Len(fields[f]))) = Width
               /\ \A i \in 1..Width : Encoded(f)[i] = Wire!htole(Len(fields[f]))[i]
<1> DEFINE v == fields[f]
           w == Wire!htole(Len(v))
<1>1. Width \in Nat /\ MaxLength \in Nat
  BY PartsAssumption DEF Wire!WireAssumption
<1>2. /\ f \in Wire!Bools => f \notin Wire!Strings /\ f \notin Wire!Numbers
      /\ f \in Wire!Numbers => f \notin Wire!Strings /\ f \notin Wire!Bools
      /\ f \in Wire!Strings => f \notin Wire!Numbers /\ f \notin Wire!Bools
  BY DEF Wire!Bools, Wire!Numbers, Wire!Strings
<1>3. /\ f \in Wire!Bools => v \in Wire!Word(1)
      /\ f \in Wire!Numbers => v \in Wire!Word(Width)
      /\ f \in Wire!Strings => v \in Wire!String
  BY <1>2 DEF Wire!Values
<1>4. f \in Wire!Strings => \E size \in 0..MaxLength : v \in Wire!Word(size)
  BY <1>3 DEF Wire!String
<1> HIDE DEF v, w
<1>5. /\ v \in Seq(Wire!Byte) /\ Len(v) \in Nat
      /\ f \in Wire!Bools => Len(v) = 1
      /\ f \in Wire!Numbers => Len(v) = Width
      /\ f \in Wire!Strings => Len(v) \in 0..MaxLength
  <2>1. CASE f \in Wire!Bools
    <3>1. v \in Seq(Wire!Byte) /\ Len(v) = 1
      BY <1>3, <2>1, WordTypes
    <3> QED BY <1>2, <2>1, <3>1
  <2>2. CASE f \in Wire!Numbers
    <3>1. v \in Seq(Wire!Byte) /\ Len(v) = Width
      BY <1>1, <1>3, <2>2, WordTypes
    <3> QED BY <1>1, <1>2, <2>2, <3>1
  <2>3. CASE f \in Wire!Strings
    <3>1. PICK size \in 0..MaxLength : v \in Wire!Word(size)
      BY <1>4, <2>3
    <3>2. size \in Nat
      BY <1>1
    <3>3. v \in Seq(Wire!Byte) /\ Len(v) = size
      BY <3>1, <3>2, WordTypes
    <3> QED BY <1>2, <2>3, <3>2, <3>3
  <2> QED BY <2>1, <2>2, <2>3 DEF Fields
<1>6. CASE f \in Wire!Strings
  <2>1. Wire!letoh(w) = Len(v) /\ w \in Wire!Word(Width)
    BY <1>5, <1>6, LengthArrives DEF w
  <2>2. w \in Seq(Wire!Byte) /\ Len(w) = Width
    BY <1>1, <2>1, WordTypes
  <2>3. Encoded(f) = w \o v /\ Prefix(f) = Width
    BY <1>6 DEF Encoded, Prefix, v, w
  <2>4. /\ w \o v \in Seq(Wire!Byte) /\ Len(w \o v) = Width + Len(v)
        /\ \A i \in 1..Width + Len(v) : (w \o v)[i] = IF i <= Width THEN w[i] ELSE v[i - Width]
    BY <1>5, <2>2, ConcatProperties
  <2>5. ASSUME NEW i \in 1..Width PROVE (w \o v)[i] = w[i]
    BY <1>1, <1>5, <2>4
  <2>6. ASSUME NEW i \in 1..Len(v) PROVE (w \o v)[Width + i] = v[i]
    <3>1. PICK j \in 1..Width + Len(v) : j = Width + i /\ ~(j <= Width) /\ j - Width = i
      BY <1>1, <1>5
    <3> QED BY <2>4, <3>1
  <2> QED BY <1>1, <1>2, <1>5, <1>6, <2>1, <2>2, <2>3, <2>4, <2>5, <2>6 DEF v, w
<1>7. CASE f \notin Wire!Strings
  <2>1. Encoded(f) = v /\ Prefix(f) = 0
    <3>1. <<>> \o v = v
      BY <1>5, ConcatEmptySeq
    <3> QED BY <1>7, <3>1 DEF Encoded, Prefix, v
  <2>2. \A i \in 1..Len(v) : 0 + i = i
    BY <1>5
  <2>3. Len(v) = 0 + Len(v)
    BY <1>5
  <2> QED BY <1>2, <1>5, <1>7, <2>1, <2>2, <2>3 DEF v
<1> QED BY <1>6, <1>7

\* The members of the message that is sent, and what is written for each.
List == Wire!Writes[type]
Code == [i \in 1..Len(List) |-> Encoded(List[i])]

\* A message of some type with members of their types.
Message ==
    /\ type \in DOMAIN Wire!Writes
    /\ \A i \in 1..Len(List) : fields[List[i]] \in Wire!Values(List[i])

\* The first w members are written and the first r of them read; nothing is
\* read before all is written.
Halfway(r, w) ==
    /\ w \in 0..Len(List) /\ r \in 0..w /\ (w < Len(List) => r = 0)
    /\ writing \in Seq(Fields) /\ Len(writing) = Len(List) - w
    /\ \A i \in 1..Len(List) - w : writing[i] = List[w + i]
    /\ reading \in Seq(Fields) /\ Len(reading) = Len(List) - r
    /\ \A i \in 1..Len(List) - r : reading[i] = List[r + i]
    /\ received \in Seq(Seq(Wire!Byte)) /\ Len(received) = r
    /\ \A i \in 1..r : received[i] = fields[List[i]]

\* Counted from the first byte ever written, member i ends at byte off[i]; the
\* stream holds the members between the r-th and the w-th, in full.
Places(off, r, w) ==
    /\ off \in [0..Len(List) -> Nat]
    /\ \A i, j \in 0..w : i <= j => off[i] <= off[j]
    /\ \A i \in 1..w : off[i] = off[i - 1] + Len(Code[i])
    /\ stream \in Seq(Wire!Byte) /\ Len(stream) = off[w] - off[r]
    /\ \A i \in (r + 1)..w : \A k \in 1..Len(Code[i]) :
          stream[(off[i - 1] - off[r]) + k] = Code[i][k]

\* The inductive invariant: a message is on its way, so many members written
\* and read, and what is between them lies in the stream member by member.
WireInv == Message /\ \E r, w : Halfway(r, w) /\ \E off : Places(off, r, w)

\* What is known of each member of a message.
LEMMA MemberTypes ==
  ASSUME Message
  PROVE  /\ List \in Seq(Fields) /\ Len(List) \in Nat /\ Wire!Reads[type] = List
         /\ \A i \in 1..Len(List) :
               /\ List[i] \in Fields /\ fields[List[i]] \in Wire!Values(List[i])
               /\ Code[i] = Encoded(List[i])
               /\ Code[i] \in Seq(Wire!Byte) /\ Len(Code[i]) \in Nat
<1>1. List \in Seq(Fields) /\ Len(List) \in Nat /\ Wire!Reads[type] = List
  <2>1. List \in Seq(Fields)
    BY SameMembers DEF Message, List
  <2> QED BY <2>1, SameMembers, LenProperties DEF List
<1>2. ASSUME NEW i \in 1..Len(List)
      PROVE  /\ List[i] \in Fields /\ fields[List[i]] \in Wire!Values(List[i])
             /\ Code[i] = Encoded(List[i])
             /\ Code[i] \in Seq(Wire!Byte) /\ Len(Code[i]) \in Nat
  <2>1. List[i] \in Fields /\ fields[List[i]] \in Wire!Values(List[i])
    BY <1>1, ElementOfSeq DEF Message
  <2>2. Encoded(List[i]) \in Seq(Wire!Byte)
    BY <2>1, EncodedBytes
  <2>3. Code[i] = Encoded(List[i])
    BY DEF Code
  <2> QED BY <2>1, <2>2, <2>3, LenProperties
<1> QED BY <1>1, <1>2

\* At first nothing is written and nothing read.
LEMMA WireStarts == Wire!Init => WireInv
<1> SUFFICES ASSUME Wire!Init PROVE WireInv
  OBVIOUS
<1>1. type \in DOMAIN Wire!Writes /\ writing = List /\ reading = List
  BY SameMembers DEF Wire!Init, List
<1>2. List \in Seq(Fields) /\ Len(List) \in Nat /\ DOMAIN List = 1..Len(List)
  BY <1>1, SameMembers, LenProperties DEF List
<1>3. Message
  <2>1. \A k \in {List[i] : i \in DOMAIN List} : fields[k] \in Wire!Values(k)
    BY DEF Wire!Init, List
  <2> QED BY <1>1, <1>2, <2>1 DEF Message
<1>4. stream = <<>> /\ received = <<>>
  BY DEF Wire!Init
<1>5. Halfway(0, 0)
  <2>1. <<>> \in Seq(Seq(Wire!Byte)) /\ Len(<<>>) = 0
    BY EmptySeq
  <2>2. \A i \in 1..Len(List) : 0 + i = i
    BY <1>2
  <2> QED BY <1>1, <1>2, <1>4, <2>1, <2>2 DEF Halfway
<1>6. Places([i \in 0..Len(List) |-> 0], 0, 0)
  <2>1. <<>> \in Seq(Wire!Byte) /\ Len(<<>>) = 0
    BY EmptySeq
  <2> QED BY <1>2, <1>4, <2>1 DEF Places
<1> QED BY <1>3, <1>5, <1>6 DEF WireInv

\* A member more is written.
LEMMA WirePut == WireInv /\ Wire!put => WireInv'
<1> SUFFICES ASSUME WireInv, Wire!put PROVE WireInv'
  OBVIOUS
<1>1. PICK r, w : Halfway(r, w) /\ \E off : Places(off, r, w)
  BY DEF WireInv
<1>2. PICK off : Places(off, r, w)
  BY <1>1
<1>3. /\ List' = List /\ (\A f : Encoded(f)' = Encoded(f)) /\ Code' = Code
      /\ reading' = reading /\ received' = received /\ fields' = fields /\ type' = type
  BY DEF Wire!put, List, Code, Encoded
<1>4. Message /\ Message'
  BY <1>3 DEF WireInv, Message
<1>5. /\ List \in Seq(Fields) /\ Len(List) \in Nat
      /\ \A i \in 1..Len(List) : Code[i] = Encoded(List[i]) /\ Code[i] \in Seq(Wire!Byte)
                                 /\ Len(Code[i]) \in Nat /\ List[i] \in Fields
                                 /\ fields[List[i]] \in Wire!Values(List[i])
  BY <1>4, MemberTypes
<1>6. w \in 0..Len(List) /\ r \in 0..w /\ w \in Nat /\ r \in Nat
  BY <1>1, <1>5 DEF Halfway
<1>7. writing # <<>> /\ writing \in Seq(Fields) /\ Len(writing) = Len(List) - w
  BY <1>1 DEF Halfway, Wire!put
<1>8. w + 1 \in 1..Len(List) /\ w < Len(List) /\ r = 0
  <2>1. Len(writing) \in Nat \ {0}
    BY <1>7, EmptySeq
  <2> QED BY <1>1, <1>5, <1>6, <1>7, <2>1 DEF Halfway
<1>9. Head(writing) = List[w + 1]
  BY <1>1, <1>7, <1>8 DEF Halfway
<1>10. Halfway(0, w + 1)'
  <2>1. /\ writing' = Tail(writing) /\ Tail(writing) \in Seq(Fields)
        /\ Len(Tail(writing)) = Len(List) - (w + 1)
        /\ \A i \in 1..Len(List) - (w + 1) : Tail(writing)[i] = writing[i + 1]
    <3>1. Len(writing) - 1 = Len(List) - (w + 1)
      BY <1>5, <1>6, <1>7
    <3> QED BY <1>7, <3>1, HeadTailProperties DEF Wire!put
  <2>2. ASSUME NEW i \in 1..Len(List) - (w + 1) PROVE Tail(writing)[i] = List[(w + 1) + i]
    <3>1. i + 1 \in 1..Len(List) - w /\ w + (i + 1) = (w + 1) + i
      BY <1>5, <1>6
    <3> QED BY <1>1, <2>1, <3>1 DEF Halfway
  <2>3. /\ w + 1 \in 0..Len(List) /\ 0 \in 0..(w + 1)
    BY <1>5, <1>8
  <2> QED BY <1>1, <1>3, <1>8, <2>1, <2>2, <2>3 DEF Halfway
<1> DEFINE e == Code[w + 1]
<1>11. e \in Seq(Wire!Byte) /\ Len(e) \in Nat
  BY <1>5, <1>8
<1>12. /\ off \in [0..Len(List) -> Nat] /\ off[w] \in Nat /\ off[0] \in Nat
       /\ stream \in Seq(Wire!Byte) /\ Len(stream) = off[w] - off[0]
  BY <1>2, <1>5, <1>6, <1>8 DEF Places
<1>13. stream' = stream \o e
  <2>1. LET f == Head(writing) IN
        stream' = stream \o (IF f \in Wire!Strings THEN Wire!htole(Len(fields[f])) ELSE <<>>)
                         \o fields[f]
    BY DEF Wire!put
  <2> DEFINE f == List[w + 1]
             p == IF f \in Wire!Strings THEN Wire!htole(Len(fields[f])) ELSE <<>>
  <2>2. stream' = (stream \o p) \o fields[f]
    BY <1>9, <2>1
  <2>3. f \in Fields /\ fields[f] \in Wire!Values(f)
    BY <1>5, <1>8
  <2>4. p \in Seq(Wire!Byte) /\ fields[f] \in Seq(Wire!Byte)
    BY <2>3, EncodedBytes, EmptySeq
  <2>5. e = p \o fields[f]
    BY <1>5, <1>8 DEF Encoded
  <2> DEFINE v == fields[f]
  <2>6. p \in Seq(Wire!Byte) /\ v \in Seq(Wire!Byte) /\ stream' = (stream \o p) \o v /\ e = p \o v
    BY <2>2, <2>4, <2>5
  <2> HIDE DEF p, f, e, v
  <2>7. \A a, b, c \in Seq(Wire!Byte) : (a \o b) \o c = a \o (b \o c)
    BY ConcatAssociative
  <2> QED BY <1>12, <2>6, <2>7
<1> HIDE DEF e
<1>14. /\ stream' \in Seq(Wire!Byte) /\ Len(stream') = Len(stream) + Len(e)
       /\ \A i \in 1..Len(stream) : stream'[i] = stream[i]
       /\ \A i \in 1..Len(e) : stream'[Len(stream) + i] = e[i]
  <2>1. Len(stream) \in Nat
    BY <1>12, LenProperties
  <2>2. /\ stream' \in Seq(Wire!Byte) /\ Len(stream') = Len(stream) + Len(e)
        /\ \A i \in 1..Len(stream) + Len(e) :
              stream'[i] = IF i <= Len(stream) THEN stream[i] ELSE e[i - Len(stream)]
    BY <1>11, <1>12, <1>13, ConcatProperties
  <2>3. ASSUME NEW i \in 1..Len(e) PROVE stream'[Len(stream) + i] = e[i]
    <3>1. PICK j \in 1..Len(stream) + Len(e) :
             j = Len(stream) + i /\ ~(j <= Len(stream)) /\ j - Len(stream) = i
      BY <1>11, <2>1
    <3> QED BY <2>2, <3>1
  <2>4. ASSUME NEW i \in 1..Len(stream) PROVE stream'[i] = stream[i]
    BY <1>11, <2>1, <2>2
  <2> QED BY <2>2, <2>3, <2>4
<1>15. PICK to : to = [off EXCEPT ![w + 1] = off[w] + Len(e)]
  OBVIOUS
<1>16. /\ to \in [0..Len(List) -> Nat] /\ to[w + 1] = off[w] + Len(e)
       /\ \A i \in 0..w : to[i] = off[i] /\ off[i] \in Nat
  <2>1. w + 1 \in 0..Len(List) /\ off[w] + Len(e) \in Nat
    BY <1>5, <1>8, <1>11, <1>12
  <2>2. \A i \in 0..w : i \in 0..Len(List) /\ i # w + 1
    BY <1>5, <1>6, <1>8
  <2> QED BY <1>12, <1>15, <2>1, <2>2
<1>17. Places(to, 0, w + 1)'
  <2>1. ASSUME NEW i \in 0..(w + 1), NEW j \in 0..(w + 1), i <= j PROVE to[i] <= to[j]
    <3>1. \A k, l \in 0..w : k <= l => off[k] <= off[l]
      BY <1>2 DEF Places
    <3>2. CASE j \in 0..w
      <4>1. i \in 0..w
        BY <1>6, <2>1, <3>2
      <4> QED BY <1>16, <2>1, <3>1, <3>2, <4>1
    <3>3. CASE j = w + 1 /\ i \in 0..w
      <4>1. w \in 0..w /\ i <= w
        BY <1>6, <3>3
      <4>2. off[i] <= off[w]
        BY <3>1, <3>3, <4>1
      <4> QED BY <1>11, <1>16, <3>3, <4>1, <4>2
    <3>4. CASE i = w + 1 /\ j = w + 1
      BY <1>11, <1>12, <1>16, <3>4
    <3> QED BY <1>6, <2>1, <3>2, <3>3, <3>4
  <2>2. ASSUME NEW i \in 1..(w + 1) PROVE to[i] = to[i - 1] + Len(Code[i])
    <3>1. CASE i \in 1..w
      <4>1. off[i] = off[i - 1] + Len(Code[i])
        BY <1>2, <3>1 DEF Places
      <4>2. i \in 0..w /\ i - 1 \in 0..w
        BY <1>6, <3>1
      <4> QED BY <1>16, <4>1, <4>2
    <3>2. CASE i = w + 1
      <4>1. i - 1 = w /\ w \in 0..w
        BY <1>6, <3>2
      <4> QED BY <1>16, <3>2, <4>1 DEF e
    <3> QED BY <1>6, <3>1, <3>2
  <2>3. Len(stream') = to[w + 1] - to[0]
    BY <1>6, <1>11, <1>12, <1>14, <1>16
  <2>4. ASSUME NEW i \in 1..(w + 1), NEW k \in 1..Len(Code[i])
        PROVE  stream'[(to[i - 1] - to[0]) + k] = Code[i][k]
    <3>1. CASE i \in 1..w
      <4>1. /\ i \in 0..w /\ i - 1 \in 0..w /\ 0 \in 0..w /\ w \in 0..w
            /\ i \in 1..Len(List) /\ i \in (r + 1)..w
        BY <1>5, <1>6, <1>8, <3>1
      <4>2. /\ stream[(off[i - 1] - off[0]) + k] = Code[i][k]
            /\ off[i] = off[i - 1] + Len(Code[i]) /\ off[i] <= off[w] /\ off[0] <= off[i - 1]
        BY <1>2, <1>6, <1>8, <2>4, <3>1, <4>1 DEF Places
      <4>3. off[i] \in Nat /\ off[i - 1] \in Nat /\ Len(Code[i]) \in Nat
        BY <1>5, <1>16, <4>1
      <4>4. (off[i - 1] - off[0]) + k \in 1..Len(stream)
        <5>1. \A a, b, c, d, l \in Nat : a <= b /\ c = b + l /\ c <= d =>
                 \A x \in 1..l : (b - a) + x \in 1..(d - a)
          OBVIOUS
        <5>2. Len(stream) = off[w] - off[0] /\ off[w] \in Nat /\ off[0] \in Nat
          BY <1>12
        <5>3. \A x \in 1..Len(Code[i]) : (off[i - 1] - off[0]) + x \in 1..(off[w] - off[0])
          BY <4>2, <4>3, <5>1, <5>2
        <5> QED BY <5>2, <5>3
      <4>5. to[i - 1] = off[i - 1] /\ to[0] = off[0]
        BY <1>16, <4>1
      <4> QED BY <1>14, <4>2, <4>4, <4>5
    <3>2. CASE i = w + 1
      <4>1. i - 1 = w /\ w \in 0..w /\ 0 \in 0..w
        BY <1>6, <3>2
      <4>2. to[i - 1] - to[0] = Len(stream)
        BY <1>12, <1>16, <4>1
      <4>3. k \in 1..Len(e) /\ Code[i] = e
        BY <3>2 DEF e
      <4> QED BY <1>14, <4>2, <4>3
    <3> QED BY <1>6, <3>1, <3>2
  <2>5. \A i \in (0 + 1)..(w + 1) : i \in 1..(w + 1)
    OBVIOUS
  <2>6. /\ to \in [0..Len(List') -> Nat]
        /\ \A i, j \in 0..(w + 1) : i <= j => to[i] <= to[j]
        /\ \A i \in 1..(w + 1) : to[i] = to[i - 1] + Len(Code'[i])
        /\ stream' \in Seq(Wire!Byte) /\ Len(stream') = to[w + 1] - to[0]
        /\ \A i \in (0 + 1)..(w + 1) : \A k \in 1..Len(Code'[i]) :
              stream'[(to[i - 1] - to[0]) + k] = Code'[i][k]
    <3> QED BY <1>3, <1>14, <1>16, <2>1, <2>2, <2>3, <2>4, <2>5
  <2> QED BY <2>6 DEF Places
<1> QED BY <1>4, <1>10, <1>17 DEF WireInv

\* What get finds for a member that lies at the front of the stream.
LEMMA MemberRead ==
  ASSUME NEW f \in Fields, fields[f] \in Wire!Values(f), stream \in Seq(Wire!Byte),
         Len(Encoded(f)) <= Len(stream),
         \A k \in 1..Len(Encoded(f)) : stream[k] = Encoded(f)[k]
  PROVE  /\ Wire!Extent(f) = <<Prefix(f), Len(fields[f])>>
         /\ Wire!Holds(f)
         /\ SubSeq(stream, Prefix(f) + 1, Prefix(f) + Len(fields[f])) = fields[f]
<1> DEFINE v == fields[f]
           p == Prefix(f)
           c == Encoded(f)
           h == Wire!htole(Len(v))
<1>1. /\ v \in Seq(Wire!Byte) /\ Len(v) \in Nat /\ p \in Nat
      /\ Len(c) = p + Len(v)
      /\ \A i \in 1..Len(v) : c[p + i] = v[i]
      /\ f \in Wire!Bools => Len(v) = 1 /\ f \notin Wire!Strings
      /\ f \in Wire!Numbers => Len(v) = Width /\ f \notin Wire!Strings
      /\ f \in Wire!Strings => /\ Wire!letoh(h) = Len(v)
                               /\ h \in Seq(Wire!Byte) /\ Len(h) = Width
                               /\ \A i \in 1..Width : c[i] = h[i]
  BY EncodedBytes
<1>2. /\ Len(stream) \in Nat /\ \A i \in 1..Len(stream) : stream[i] \in Wire!Byte
      /\ Width \in Nat
  BY LenProperties, ElementOfSeq, PartsAssumption DEF Wire!WireAssumption
<1>3. Len(c) <= Len(stream) /\ \A k \in 1..Len(c) : stream[k] = c[k]
  OBVIOUS
<1>4. Wire!Extent(f) = <<p, Len(v)>>
  <2>1. CASE f \in Wire!Strings
    <3>1. p = Width /\ Len(c) = Width + Len(v)
      BY <1>1, <2>1 DEF Prefix
    <3>2. \A i \in 1..Width : i \in 1..Len(c) /\ i \in 1..Len(stream)
      BY <1>1, <1>2, <1>3, <3>1
    <3>3. \A i \in 1..Width : stream[i] = h[i] /\ stream[i] \in Wire!Byte
      BY <1>1, <1>2, <1>3, <2>1, <3>2
    <3>4. SubSeq(stream, 1, Width) = h
      <4> DEFINE q == SubSeq(stream, 1, Width)
      <4>1. q \in Seq(Wire!Byte) /\ Len(q) = Width /\ \A i \in 1..Width : q[i] = stream[i]
        <5>1. /\ q \in Seq(Wire!Byte) /\ Len(q) = IF 1 <= Width THEN Width - 1 + 1 ELSE 0
              /\ \A i \in 1..(Width - 1 + 1) : q[i] = stream[1 + i - 1]
          BY <1>2, <3>3, SubSeqProperties
        <5>2. \A i \in 1..Width : 1 + i - 1 = i /\ i \in 1..(Width - 1 + 1)
          BY <1>2
        <5> QED BY <1>2, <5>1, <5>2
      <4> HIDE DEF q, h
      <4>2. Len(q) = Len(h) /\ \A i \in 1..Len(q) : q[i] = h[i]
        BY <1>1, <2>1, <3>3, <4>1
      <4>3. q = h
        BY <1>1, <2>1, <4>1, <4>2, SeqEqual
      <4> QED BY <4>3 DEF q
    <3>5. Wire!Extent(f) = <<Width, Wire!letoh(SubSeq(stream, 1, Width))>>
      BY <1>1, <2>1 DEF Wire!Extent
    <3> QED BY <1>1, <2>1, <3>1, <3>4, <3>5
  <2>2. CASE f \in Wire!Bools
    BY <1>1, <2>2 DEF Wire!Extent, Wire!Bools, Wire!Numbers, Wire!Strings, Prefix
  <2>3. CASE f \in Wire!Numbers
    BY <1>1, <2>3 DEF Wire!Extent, Wire!Bools, Wire!Numbers, Wire!Strings, Prefix
  <2> QED BY <2>1, <2>2, <2>3 DEF Fields
<1>5. Wire!Holds(f)
  BY <1>1, <1>2, <1>3, <1>4 DEF Wire!Holds
<1> DEFINE q == SubSeq(stream, p + 1, p + Len(v))
<1>6. q = v
  <2> HIDE DEF v, p, c, h
  <2>1. \A i \in (p + 1)..(p + Len(v)) : stream[i] \in Wire!Byte
    BY <1>1, <1>2, <1>3
  <2>2. /\ q \in Seq(Wire!Byte)
        /\ Len(q) = IF p + 1 <= p + Len(v) THEN (p + Len(v)) - (p + 1) + 1 ELSE 0
        /\ \A i \in 1..((p + Len(v)) - (p + 1) + 1) : q[i] = stream[(p + 1) + i - 1]
    BY <1>1, <2>1, SubSeqProperties
  <2>3. Len(q) = Len(v) /\ (p + Len(v)) - (p + 1) + 1 = Len(v)
    BY <1>1, <2>2
  <2>4. ASSUME NEW i \in 1..Len(v) PROVE q[i] = v[i]
    <3>1. (p + 1) + i - 1 = p + i /\ p + i \in 1..Len(c)
      BY <1>1
    <3>2. q[i] = stream[p + i]
      BY <2>2, <2>3, <3>1
    <3> QED BY <1>1, <1>3, <3>1, <3>2
  <2> HIDE DEF q
  <2> QED BY <1>1, <2>2, <2>3, <2>4, SeqEqual
<1> QED BY <1>4, <1>5, <1>6

\* When all is written and not all is read, the next member lies at the front
\* of the stream.
LEMMA NextMember ==
  ASSUME Message, NEW r, NEW w, NEW off, Halfway(r, w), Places(off, r, w),
         writing = <<>>, reading # <<>>
  PROVE  /\ w = Len(List) /\ r + 1 \in 1..Len(List) /\ r \in Nat
         /\ Head(reading) = List[r + 1]
         /\ Wire!Extent(List[r + 1]) = <<Prefix(List[r + 1]), Len(fields[List[r + 1]])>>
         /\ Wire!Holds(List[r + 1])
         /\ SubSeq(stream, Prefix(List[r + 1]) + 1, Prefix(List[r + 1]) + Len(fields[List[r + 1]]))
               = fields[List[r + 1]]
         /\ Len(Code[r + 1]) = Prefix(List[r + 1]) + Len(fields[List[r + 1]])
         /\ Len(Code[r + 1]) \in Nat /\ Len(Code[r + 1]) <= Len(stream)
<1>1. /\ List \in Seq(Fields) /\ Len(List) \in Nat
      /\ \A i \in 1..Len(List) : Code[i] = Encoded(List[i]) /\ Code[i] \in Seq(Wire!Byte)
                                 /\ Len(Code[i]) \in Nat /\ List[i] \in Fields
                                 /\ fields[List[i]] \in Wire!Values(List[i])
  BY MemberTypes
<1>2. w = Len(List) /\ r \in 0..w
  BY <1>1, EmptySeq DEF Halfway
<1>3. Len(reading) \in Nat \ {0} /\ Len(reading) = Len(List) - r
  BY EmptySeq DEF Halfway
<1>4. /\ r + 1 \in 1..Len(List) /\ r \in Nat /\ r + 1 \in (r + 1)..w /\ r + 1 \in 1..w
      /\ (r + 1) - 1 = r
      /\ r \in 0..w /\ r + 1 \in 0..w /\ w \in 0..w
  BY <1>1, <1>2, <1>3
<1>5. Head(reading) = List[r + 1]
  BY <1>3, <1>4 DEF Halfway
<1> DEFINE i == r + 1
           f == List[i]
<1>6. f \in Fields /\ fields[f] \in Wire!Values(f) /\ Code[i] = Encoded(f) /\ Len(Code[i]) \in Nat
  BY <1>1, <1>4
<1>7. Len(Code[i]) <= Len(stream) /\ \A k \in 1..Len(Code[i]) : stream[k] = Code[i][k]
  <2>1. /\ off[i] = off[r] + Len(Code[i]) /\ off[i] <= off[w]
        /\ Len(stream) = off[w] - off[r]
        /\ \A k \in 1..Len(Code[i]) : stream[(off[r] - off[r]) + k] = Code[i][k]
    BY <1>4, SMTT(30) DEF Places
  <2>2. off[i] \in Nat /\ off[r] \in Nat /\ off[w] \in Nat
    BY <1>1, <1>2, <1>4 DEF Places
  <2>3. \A k \in 1..Len(Code[i]) : (off[r] - off[r]) + k = k
    BY <1>6, <2>2
  <2> QED BY <1>6, <2>1, <2>2, <2>3
<1>8. stream \in Seq(Wire!Byte)
  BY DEF Places
<1>9. Len(Code[i]) = Prefix(f) + Len(fields[f])
  BY <1>6, EncodedBytes
<1> HIDE DEF f
<1>10. /\ Wire!Extent(f) = <<Prefix(f), Len(fields[f])>>
       /\ Wire!Holds(f)
       /\ SubSeq(stream, Prefix(f) + 1, Prefix(f) + Len(fields[f])) = fields[f]
  BY <1>6, <1>7, <1>8, MemberRead
<1> QED BY <1>2, <1>4, <1>5, <1>6, <1>7, <1>9, <1>10 DEF f

\* A member more is read.
LEMMA WireGet == WireInv /\ Wire!get => WireInv'
<1> SUFFICES ASSUME WireInv, Wire!get PROVE WireInv'
  OBVIOUS
<1>1. PICK r, w : Halfway(r, w) /\ \E off : Places(off, r, w)
  BY DEF WireInv
<1>2. PICK off : Places(off, r, w)
  BY <1>1
<1>3. /\ List' = List /\ (\A f : Encoded(f)' = Encoded(f)) /\ Code' = Code
      /\ writing' = writing /\ fields' = fields /\ type' = type
  BY DEF Wire!get, List, Code, Encoded
<1>4. Message /\ Message'
  BY <1>3 DEF WireInv, Message
<1>5. writing = <<>> /\ reading # <<>> /\ reading' = Tail(reading)
  BY DEF Wire!get
<1> DEFINE f == List[r + 1]
           p == Prefix(f)
           v == fields[f]
           l == Len(Code[r + 1])
<1>6. /\ w = Len(List) /\ r + 1 \in 1..Len(List) /\ r \in Nat
      /\ Head(reading) = f
      /\ Wire!Extent(f) = <<p, Len(v)>>
      /\ SubSeq(stream, p + 1, p + Len(v)) = v
      /\ l = p + Len(v)
      /\ l \in Nat /\ l <= Len(stream)
  BY <1>1, <1>2, <1>4, <1>5, NextMember
<1>7. /\ received' = Append(received, v)
      /\ stream' = SubSeq(stream, l + 1, Len(stream))
  <2> DEFINE skip == Wire!Extent(f)[1]
             len == Wire!Extent(f)[2]
  <2>1. /\ received' = Append(received, SubSeq(stream, skip + 1, skip + len))
        /\ stream' = SubSeq(stream, skip + len + 1, Len(stream))
    BY <1>6 DEF Wire!get
  <2> HIDE DEF f, p, v, l
  <2>2. skip = p /\ len = Len(v)
    BY <1>6
  <2> HIDE DEF skip, len
  <2> QED BY <1>6, <2>1, <2>2
<1>8. f \in Fields /\ v \in Seq(Wire!Byte) /\ Len(List) \in Nat
      /\ \A i \in 1..Len(List) : Len(Code[i]) \in Nat
  BY <1>4, <1>6, MemberTypes, EncodedBytes
<1> HIDE DEF f, p, v, l
<1>9. Halfway(r + 1, w)'
  <2>1. /\ Tail(reading) \in Seq(Fields) /\ Len(Tail(reading)) = Len(List) - (r + 1)
        /\ \A i \in 1..Len(List) - (r + 1) : Tail(reading)[i] = List[(r + 1) + i]
    <3>1. reading \in Seq(Fields) /\ Len(reading) = Len(List) - r
      BY <1>1 DEF Halfway
    <3>2. /\ Tail(reading) \in Seq(Fields) /\ Len(Tail(reading)) = Len(reading) - 1
          /\ \A i \in 1..Len(Tail(reading)) : Tail(reading)[i] = reading[i + 1]
      BY <1>5, <3>1, HeadTailProperties
    <3>3. Len(reading) - 1 = Len(List) - (r + 1)
      BY <1>6, <1>8, <3>1
    <3>4. ASSUME NEW i \in 1..Len(List) - (r + 1) PROVE Tail(reading)[i] = List[(r + 1) + i]
      <4>1. i + 1 \in 1..Len(List) - r /\ r + (i + 1) = (r + 1) + i
        BY <1>6, <1>8
      <4> QED BY <1>1, <3>2, <3>3, <4>1 DEF Halfway
    <3> QED BY <3>2, <3>3, <3>4
  <2>2. /\ received' \in Seq(Seq(Wire!Byte)) /\ Len(received') = r + 1
        /\ \A i \in 1..(r + 1) : received'[i] = fields[List[i]]
    <3>1. /\ received \in Seq(Seq(Wire!Byte)) /\ Len(received) = r
          /\ \A i \in 1..r : received[i] = fields[List[i]]
      BY <1>1 DEF Halfway
    <3>2. /\ Append(received, v) \in Seq(Seq(Wire!Byte)) /\ Len(Append(received, v)) = r + 1
          /\ \A i \in 1..r : Append(received, v)[i] = received[i]
          /\ Append(received, v)[r + 1] = v
      BY <1>8, <3>1, AppendProperties
    <3>3. v = fields[List[r + 1]]
      BY DEF v, f
    <3>4. \A i \in 1..(r + 1) : i \in 1..r \/ i = r + 1
      BY <1>6
    <3> QED BY <1>7, <3>1, <3>2, <3>3, <3>4
  <2>3. /\ w \in 0..Len(List) /\ r + 1 \in 0..w /\ ~(w < Len(List))
        /\ writing \in Seq(Fields) /\ Len(writing) = Len(List) - w
        /\ \A i \in 1..Len(List) - w : writing[i] = List[w + i]
    BY <1>1, <1>6, <1>8 DEF Halfway
  <2> QED BY <1>3, <1>5, <2>1, <2>2, <2>3 DEF Halfway
<1>10. Places(off, r + 1, w)'
  <2>1. /\ off \in [0..Len(List) -> Nat]
        /\ \A i, j \in 0..w : i <= j => off[i] <= off[j]
        /\ \A i \in 1..w : off[i] = off[i - 1] + Len(Code[i])
        /\ stream \in Seq(Wire!Byte) /\ Len(stream) = off[w] - off[r]
        /\ \A i \in (r + 1)..w : \A k \in 1..Len(Code[i]) :
              stream[(off[i - 1] - off[r]) + k] = Code[i][k]
    BY <1>2 DEF Places
  <2>2. /\ off[r + 1] = off[r] + l /\ off[r] \in Nat /\ off[r + 1] \in Nat /\ off[w] \in Nat
    <3>1. r + 1 \in 1..w /\ (r + 1) - 1 = r /\ r \in 0..Len(List) /\ r + 1 \in 0..Len(List)
          /\ w \in 0..Len(List)
      BY <1>6, <1>8
    <3> QED BY <2>1, <3>1 DEF l
  <2>3. Len(stream) \in Nat /\ \A i \in 1..Len(stream) : stream[i] \in Wire!Byte
    BY <2>1, LenProperties, ElementOfSeq
  <2>4. /\ stream' \in Seq(Wire!Byte) /\ Len(stream') = Len(stream) - l
        /\ \A i \in 1..Len(stream) - l : stream'[i] = stream[l + i]
    <3>1. \A i \in (l + 1)..Len(stream) : stream[i] \in Wire!Byte
      BY <1>6, <2>3
    <3>2. /\ stream' \in Seq(Wire!Byte)
          /\ Len(stream') = IF l + 1 <= Len(stream) THEN Len(stream) - (l + 1) + 1 ELSE 0
          /\ \A i \in 1..(Len(stream) - (l + 1) + 1) : stream'[i] = stream[(l + 1) + i - 1]
      BY <1>6, <1>7, <2>3, <3>1, SubSeqProperties, SMTT(30)
    <3>3. /\ Len(stream) - (l + 1) + 1 = Len(stream) - l
          /\ \A i \in 1..Len(stream) - l : (l + 1) + i - 1 = l + i
      BY <1>6, <2>3
    <3>4. Len(stream') = Len(stream) - l
      BY <1>6, <2>3, <3>2
    <3> QED BY <3>2, <3>3, <3>4
  <2>5. Len(stream') = off[w] - off[r + 1]
    BY <1>6, <2>1, <2>2, <2>3, <2>4, SMTT(30)
  <2>6. ASSUME NEW i \in ((r + 1) + 1)..w, NEW k \in 1..Len(Code[i])
        PROVE  stream'[(off[i - 1] - off[r + 1]) + k] = Code[i][k]
    <3>1. /\ i \in (r + 1)..w /\ i \in 1..w /\ i - 1 \in 0..w /\ i \in 0..w /\ r + 1 \in 0..w
          /\ w \in 0..w /\ r + 1 <= i - 1 /\ i <= w /\ w = Len(List)
      BY <1>6, <1>8
    <3>2. /\ off[r + 1] <= off[i - 1] /\ off[i] <= off[w] /\ off[i] = off[i - 1] + Len(Code[i])
          /\ stream[(off[i - 1] - off[r]) + k] = Code[i][k]
      BY <2>1, <3>1
    <3>3. off[i] \in Nat /\ off[i - 1] \in Nat /\ Len(Code[i]) \in Nat
      BY <1>8, <2>1, <3>1
    <3> DEFINE j == (off[i - 1] - off[r + 1]) + k
    <3>4. j \in 1..Len(stream) - l /\ l + j = (off[i - 1] - off[r]) + k
      <4> DEFINE a == off[r + 1]
                 b == off[r]
                 c == off[i - 1]
                 d == off[i]
                 x == off[w]
                 e == Len(Code[i])
      <4>1. /\ a \in Nat /\ b \in Nat /\ c \in Nat /\ d \in Nat /\ x \in Nat /\ e \in Nat
            /\ a = b + l /\ a <= c /\ d = c + e /\ d <= x /\ k \in 1..e
        BY <2>2, <3>2, <3>3
      <4>2. l \in Nat /\ Len(stream) = x - b /\ j = (c - a) + k
        BY <1>6, <2>1
      <4>3. (off[i - 1] - off[r]) + k = (c - b) + k
        OBVIOUS
      <4> HIDE DEF a, b, c, d, x, e, j
      <4> QED BY <4>1, <4>2, <4>3
    <3> HIDE DEF j
    <3>5. stream'[j] = stream[l + j]
      BY <2>4, <3>4
    <3> QED BY <3>2, <3>4, <3>5 DEF j
  <2>7. /\ off \in [0..Len(List') -> Nat]
        /\ \A i, j \in 0..w : i <= j => off[i] <= off[j]
        /\ \A i \in 1..w : off[i] = off[i - 1] + Len(Code'[i])
        /\ stream' \in Seq(Wire!Byte) /\ Len(stream') = off[w] - off[r + 1]
        /\ \A i \in ((r + 1) + 1)..w : \A k \in 1..Len(Code'[i]) :
              stream'[(off[i - 1] - off[r + 1]) + k] = Code'[i][k]
    BY <1>3, <2>1, <2>4, <2>5, <2>6
  <2> QED BY <2>7 DEF Places
<1> QED BY <1>4, <1>9, <1>10 DEF WireInv

\* Every member of every message type arrives as it was sent, whatever the
\* bytes, the width of a length and the lengths: the two constructors of a type
\* agree.
THEOREM AllArrive == PartsSpec => []MembersArrive
<1>1. PartsInit => WireInv
  BY WireStarts DEF PartsInit
<1>2. WireInv /\ [PartsNext]_<<part, sizeVars, textVars, wireVars>> => WireInv'
  <2> SUFFICES ASSUME WireInv, [PartsNext]_<<part, sizeVars, textVars, wireVars>> PROVE WireInv'
    OBVIOUS
  <2>1. CASE Wire!Next
    BY <2>1, WirePut, WireGet DEF Wire!Next
  <2>2. CASE UNCHANGED wireVars
    <3>1. /\ type' = type /\ fields' = fields /\ writing' = writing /\ reading' = reading
          /\ stream' = stream /\ received' = received
      BY <2>2 DEF wireVars
    <3>2. List' = List /\ (\A f : Encoded(f)' = Encoded(f)) /\ Code' = Code
      BY <3>1 DEF List, Code, Encoded
    <3>3. Message'
      BY <3>1, <3>2 DEF WireInv, Message
    <3>4. PICK r, w : Halfway(r, w) /\ \E off : Places(off, r, w)
      BY DEF WireInv
    <3>5. PICK off : Places(off, r, w)
      BY <3>4
    <3>6. Halfway(r, w)'
      BY <3>1, <3>2, <3>4 DEF Halfway
    <3>7. Places(off, r, w)'
      BY <3>1, <3>2, <3>5 DEF Places
    <3> QED BY <3>3, <3>6, <3>7 DEF WireInv
  <2> QED BY <2>1, <2>2 DEF PartsNext
<1>3. WireInv => MembersArrive
  <2> SUFFICES ASSUME WireInv PROVE MembersArrive
    OBVIOUS
  <2>1. PICK r, w : Halfway(r, w) /\ \E off : Places(off, r, w)
    BY DEF WireInv
  <2>2. PICK off : Places(off, r, w)
    BY <2>1
  <2>3. Message
    BY DEF WireInv
  <2>4. Wire!Reads[type] = List /\ Len(List) \in Nat
    BY <2>3, MemberTypes
  <2>5. ASSUME NEW i \in DOMAIN received PROVE received[i] = fields[Wire!Reads[type][i]]
    <3>1. received \in Seq(Seq(Wire!Byte)) /\ Len(received) = r
      BY <2>1 DEF Halfway
    <3>2. i \in 1..r
      BY <3>1, LenProperties
    <3> QED BY <2>1, <2>4, <3>2 DEF Halfway
  <2>6. ASSUME writing = <<>>, reading = <<>> PROVE stream = <<>>
    <3>1. w = Len(List) /\ r = Len(List)
      BY <2>1, <2>4, <2>6, EmptySeq DEF Halfway
    <3>2. off[w] \in Nat /\ Len(stream) = off[w] - off[w] /\ stream \in Seq(Wire!Byte)
      BY <2>2, <2>4, <3>1 DEF Places
    <3>3. Len(stream) = 0
      BY <3>2
    <3> QED BY <3>2, <3>3, EmptySeq
  <2>7. ASSUME writing = <<>>, reading # <<>> PROVE Wire!Holds(Head(reading))
    BY <2>1, <2>2, <2>3, <2>7, NextMember
  <2> QED BY <2>5, <2>6, <2>7 DEF MembersArrive, Wire!MembersArrive
<1> QED BY <1>1, <1>2, <1>3, PTL DEF PartsSpec
==============================================================================
