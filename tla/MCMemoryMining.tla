-------------------------- MODULE MCMemoryMining --------------------------
(***************************************************************************)
(* MemoryMining with two processes, one attempt in each, three sessions,   *)
(* and two of them enough for a candidate.                                 *)
(***************************************************************************)
EXTENDS MemoryMining, TLC
CONSTANTS m1, m2, p1, p2

MCOwner == m1 :> p1 @@ m2 :> p2
\* Exchanging the processes exchanges their attempts.
MCSwap == m1 :> m2 @@ m2 :> m1 @@ p1 :> p2 @@ p2 :> p1
MCSymmetry == Permutations(Sessions) \union Permutations(Phrases) \union {MCSwap}

\* One kind of lapse at a time; a third session sees one phrase, without lapses.
MCFocus ==
  LET often == {h \in Phrases : Cardinality(occ[h]) > 2} IN
  /\ Cardinality(lapses) <= 1
  /\ Cardinality(often) <= 1
  /\ often # {} => lapses \subseteq {"cut"}
============================================================================
