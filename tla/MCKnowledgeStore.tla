-------------------------- MODULE MCKnowledgeStore --------------------------
(* Small instances of KnowledgeStore. *)
EXTENDS KnowledgeStore, FiniteSets, TLC

MCEvidence == [supports : BOOLEAN]

(* A delta's claim may come with one of relation and object only. *)
MCHalves == {Dangling} \cup Alone

Symmetry == Permutations(Workers) \cup Permutations(Claims)
              \cup Permutations(Entities) \cup Permutations(Provenances)

(* The revisions of a claim, one that is being written included. *)
Revs(c) == {claims[c][r] : r \in 1..LatestRev(c)}
             \cup {call[w].body : w \in {v \in Workers : call[v] # Idle /\ call[v].claim = c}}

Half(c) == \E v \in Revs(c) : v.object \in Halves

Named(c) == UNION {{v.subject} \cup PointsAt(v.object) : v \in Revs(c)}

(* Bound: a claim that came with half a relation is the only one; the      *)
(* others are all about one entity.                                        *)
HalvesAreAlone ==
  /\ \A c, d \in Claims : Half(c) /\ Revs(d) # {} => c = d
  /\ Cardinality(UNION {Named(c) : c \in {d \in Claims : ~Half(d)}}) <= 1

MCSerialSpec == Init /\ [][Next /\ NoOverlap' /\ HalvesAreAlone']_vars
=============================================================================
