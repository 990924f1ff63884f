--------------------------- MODULE ListSelection ---------------------------
(***************************************************************************)
(* What [e for e in list if ...] leaves of a list.  It is SelectSeq in a   *)
(* closed form, which tells where each element ends up.                    *)
(***************************************************************************)
EXTENDS Naturals, FiniteSets

\* How many of these places come no later than i
Upto(places, i) == Cardinality({j \in places : j <= i})

\* The elements at these places of a list, in its order
Keep(s, places) ==
    [k \in 1..Cardinality(places) |-> s[CHOOSE i \in places : Upto(places, i) = k]]
=============================================================================
