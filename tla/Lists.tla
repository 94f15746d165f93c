------------------------------- MODULE Lists --------------------------------
(***************************************************************************)
(* Lists by their positions: what Go's and Python's library do when they   *)
(* filter, sort and add up a list.                                         *)
(***************************************************************************)
EXTENDS Integers, Sequences, FiniteSets

\* The numbers of S from the smallest to the largest.
Ascending(S) ==
    [k \in 1 .. Cardinality(S) |-> CHOOSE x \in S : Cardinality({y \in S : y < x}) = k - 1]

\* The elements of s at the positions P, in their order.
Picked(s, P) ==
    LET at == Ascending(P)
    IN [k \in DOMAIN at |-> s[at[k]]]

\* A stable sort of the elements of s at the positions P, of which less has the
\* pairs that the comparison puts in order: equal elements keep the order they
\* came in.
SliceStable(s, P, less) ==
    LET Earlier(i, j) == <<i, j>> \in less \/ (<<j, i>> \notin less /\ i < j)
        Nth(n) == CHOOSE i \in P : Cardinality({j \in P : Earlier(j, i)}) = n - 1
    IN  [n \in 1 .. Cardinality(P) |-> s[Nth(n)]]

\* The numbers of s from the smallest to the largest.
Sorted(s) ==
    LET P == DOMAIN s
    IN SliceStable(s, P, {p \in P \X P : s[p[1]] < s[p[2]]})

SumOf(s) ==
    LET upto[n \in 0 .. Len(s)] == IF n = 0 THEN 0 ELSE upto[n - 1] + s[n]
    IN upto[Len(s)]
=============================================================================
