------------------------------ MODULE VectorOps ------------------------------
(***************************************************************************)
(* std::find_if and std::vector::erase as the C++ components use them: a   *)
(* vector is a sequence, an iterator is a position in it.                  *)
(*                                                                         *)
(* The operators are written without recursion so that proofs can reason   *)
(* about them: an erasure is described by the set of positions it keeps.   *)
(***************************************************************************)
EXTENDS Integers, Sequences, FiniteSets

\* How many of the positions K lie at or before position i.
Rank(K, i) == Cardinality({j \in K : j <= i})

\* The n-th position of K in vector order; Nth(K, 1) is what find_if returns.
Nth(K, n) == CHOOSE i \in K : Rank(K, i) = n

\* The vector that is left when only the positions K survive, in order.
Keep(s, K) == [n \in 1 .. Cardinality(K) |-> s[Nth(K, n)]]

\* vector::erase of the entries at the positions K.
Erase(s, K) == Keep(s, DOMAIN s \ K)

(***************************************************************************)
(* vector::erase(v.end()), which the code calls when a find_if it does not *)
(* check has found nothing.  It is undefined; the builds either drop the   *)
(* last entry or kill the process (see the callers).                       *)
(***************************************************************************)
DropLast(s) == [n \in 1 .. (Len(s) - 1) |-> s[n]]
==============================================================================
