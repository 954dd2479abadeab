------------------------------- MODULE Sizes -------------------------------
(***************************************************************************)
(* How server/config.h's NUM_NODES, D2 and M2 become the sizes of the      *)
(* groups (server/TrustManager.cpp) and the two fault tolerances           *)
(* (prepare_handler of server/node.cpp, reply_handler of client/main.cpp). *)
(*                                                                         *)
(* D2 and M2 are given in tenths.  The code computes in doubles; the       *)
(* quotients here are exact.  README.md says where the two could differ.   *)
(***************************************************************************)
EXTENDS Integers

One == 10   \* 1.0 in tenths

\* A C++ cast to an integer type drops the fraction, towards zero.
Cast(num, den) == IF num >= 0 THEN num \div den ELSE -((-num) \div den)

\* std::max(std::min(d, 1.0), 0.0)
Clamp_mut(d) == IF d < 0 THEN 0 ELSE d
Clamp(d) == IF d < 0 THEN 0 ELSE IF d > One THEN One ELSE d

Consensus(n, d) == Cast(Clamp(d) * n, One)

Primary(c, m) == Cast(Clamp(m) * c, One)

\* 30 times ((d * n) - 1) / 3 + (1 - d) * n, the faulty nodes tolerated.
Faulty30_mut(n, d) == d * n + 3 * (One - d) * n
Faulty30(n, d) == (d * n - One) + 3 * (One - d) * n

\* The prepares prepare_handler waits for, and the most a round can have.
Prepares(n, d) == Cast(2 * Faulty30(n, d), 3 * One)
Prepared_mut(c, p) == (c - p) * c
Prepared(c, p) == (c - p) * (c - 1)

\* The equal replies the client waits for.
Replies_mut(n, d) == Cast(Faulty30(n, d), 3 * One)
Replies(n, d) == Cast(Faulty30(n, d) + 3 * One, 3 * One)
============================================================================
