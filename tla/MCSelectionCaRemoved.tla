------------------------- MODULE MCSelectionCaRemoved -------------------------
(* Two submissions and two selections at a time while the CA is removed    *)
(* and pinned again, over bodies with and without a wrapped s3.            *)
EXTENDS MCReleaseSelection

CONSTANTS h2, w1, w2, MaxInProgress

(* Two policies of one generation, at different events; at both events the *)
(* higher one and none; the first also with either of two wrapped s3.      *)
WrappedOffers ==
  {o \in AllOffers : o.record # IF o.event = 1 THEN firstB ELSE first}
  \cup [event : {1}, type : {"Sealing"}, record : {first}, wrapped : Wraps]

InProgress ==
  Cardinality({h \in Handlers : handler[h] # Idle})
  + Cardinality({g \in Readers : reader[g] # NotReading})

BoundedSpec ==
  SelectionInit /\ [][SelectionNext /\ InProgress' <= MaxInProgress]_svars

Symmetry ==
  Permutations(Handlers) \cup Permutations(Readers) \cup Permutations(Wraps)
===============================================================================
