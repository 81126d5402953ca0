-------------------------------- MODULE Lists --------------------------------
(***************************************************************************)
(* Lists by the rank of what is on them. What the library sorts and selects    *)
(* with (SortSeq, SelectSeq) is built into the tools and has no definition a     *)
(* proof could expand: components whose lists are proved about use these.       *)
(***************************************************************************)
EXTENDS Integers, Sequences, FiniteSets

\* The members of S in a total order, a set of pairs of which the first is ahead.
InOrder(S, order) ==
    [k \in 1..Cardinality(S) |-> CHOOSE x \in S : Cardinality({y \in S : <<y, x>> \in order}) = k - 1]

\* What a list has at some of its places, in an order of the places.
Placed(s, I, order) == LET places == InOrder(I, order) IN [k \in DOMAIN places |-> s[places[k]]]

\* What a list has at some of its places, and what of it is in a set.
AtPlaces(s, I) == Placed(s, I, {p \in I \X I : p[1] < p[2]})
Those(s, T) == AtPlaces(s, {i \in DOMAIN s : s[i] \in T})

\* A list with what val gives most first; of equals, the one that was ahead.
Descending(s, val) ==
    Placed(s, DOMAIN s, {p \in (DOMAIN s) \X (DOMAIN s) :
        val[s[p[1]]] > val[s[p[2]]] \/ (val[s[p[1]]] = val[s[p[2]]] /\ p[1] < p[2])})
=============================================================================
