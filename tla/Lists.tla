-------------------------------- MODULE Lists --------------------------------
(***************************************************************************)
(* The linked lists of records that the core keeps, as sequences: what is  *)
(* in one, and what is left of one when records are unlinked from it.      *)
(***************************************************************************)
EXTENDS Naturals, Sequences, FiniteSets

Elems(s) == {s[k] : k \in DOMAIN s}
NoDup(s) == \A m, n \in DOMAIN s : s[m] = s[n] => m = n

\* The n-th of a set of places: n of them are counted up to it.
Rank(places, k) == Cardinality({j \in places : j <= k})
Nth(places, n) == CHOOSE k \in places : Rank(places, k) = n

\* s with every entry that is in D unlinked; the others keep their order.
Without(s, D) ==
    LET kept == {k \in DOMAIN s : s[k] \notin D}
    IN  [n \in 1 .. Cardinality(kept) |-> s[Nth(kept, n)]]
==============================================================================
