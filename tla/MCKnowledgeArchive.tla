------------------------ MODULE MCKnowledgeArchive ------------------------
(* Small instances of KnowledgeArchive. *)
EXTENDS KnowledgeArchive, FiniteSets, TLC

MCEvidence == [supports : BOOLEAN]

(* No claim is refuted, which nothing here tells from verified. *)
Supporting == [supports : {TRUE}]

Symmetry == Permutations(Claims)

(* Claims in use: in the store, being written to it, or in the target. *)
InUse ==
  {c \in Claims : \/ Exists(c) \/ tClaims[c][1] # Absent
                  \/ \E w \in Workers : call[w] # Idle /\ call[w].claim = c}

(* Bound: a claim on its own goes through its statuses for three revisions;
   two are only proposed, related and marked stale, for two revisions each. *)
OneOrShort ==
  Cardinality(InUse) > 1 =>
    /\ \A c \in Claims, r \in Revisions :
         claims[c][r] # Absent => r <= 2 /\ claims[c][r].evidence = <<>>
    /\ \A w \in Workers :
         call[w] # Idle => call[w].revision <= 2 /\ call[w].body.evidence = <<>>

(* Bound: a failed read loses one status, and one of the first export. *)
OneLost ==
  export # None =>
    /\ Cardinality(export.lost) <= 1
    /\ export.lost # {} => archive = None

MCSpec ==
  ArchiveInit /\ [][ArchiveNext /\ NoOverlap' /\ OneOrShort' /\ OneLost']_archiveVars
=============================================================================
