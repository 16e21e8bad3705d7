-------------------------- MODULE KnowledgeTables --------------------------
(***************************************************************************)
(* The redb tables of qo-knowledge (src/qo/qo-knowledge/src/store.rs) and  *)
(* the one write transaction that changes them, write_revision.            *)
(*                                                                         *)
(* k_claims maps (claim id, revision) to a claim; it is modelled as the    *)
(* function claims[c][r] with Absent for a key that was never written.     *)
(* k_idx_subject, k_idx_object and k_idx_status map an entity or a status  *)
(* to a set of claim ids.  redb has a single writer and a transaction is   *)
(* atomic and durable, so a transaction is one step.                       *)
(***************************************************************************)
EXTENDS Integers, Sequences

CONSTANTS Claims,       \* claim ids
          Entities,     \* entity ids: subjects and objects of claims
          Provenances,  \* who recorded a revision, and when
          Evidence,     \* items of evidence; e.supports says for or against
          MaxRevision,  \* bound: revisions of one claim (a u32 in the code)
          NoEntity,     \* neither a relation nor an object
          Dangling,     \* a relation without an object
          Halves,       \* what claims may come with that have only one of the
                        \* two: Dangling, or an object without a relation
          Absent        \* a key of k_claims that holds nothing

Statuses == {"Observed", "Proposed", "Verified", "Stale", "Refuted"}

Revisions == 1..MaxRevision

(* An object without a relation.  Claim::relating sets both, but a claim   *)
(* that comes in a delta is stored as it is.                               *)
Alone == [alone : Entities]

(* What a claim's fields relation and object say: an entity stands for a   *)
(* relation with that object.                                              *)
Objects == Entities \cup {NoEntity} \cup Halves

HasRelation(object) == object \in Entities \cup {Dangling}

(* The entity that the field object names, if any. *)
PointsAt(object) ==
  {e \in Entities : object = e \/ object = [alone |-> e]}

(* A stored claim.  The id and the revision are the key; the statement     *)
(* stands with the subject (two claims with one id and different content   *)
(* differ in subject); object stands for relation and object.              *)
(* superseded = 0 is superseded_by = None.                                 *)
Revision == [subject    : Entities,
             object     : Objects,
             status     : Statuses,
             evidence   : Seq(Evidence),
             by         : Provenances,
             superseded : 0..MaxRevision]

ASSUME BoundAssumption == MaxRevision \in Nat \ {0}
ASSUME EvidenceAssumption == \A e \in Evidence : e.supports \in BOOLEAN
ASSUME AbsentAssumption == Absent \notin Revision /\ NoEntity \notin Entities
ASSUME HalvesAssumption ==
  /\ Halves \subseteq {Dangling} \cup Alone
  /\ NoEntity \notin Halves /\ Dangling \notin Entities \cup {NoEntity}
  /\ Alone \cap (Entities \cup {NoEntity, Dangling}) = {}

VARIABLES claims, idxSubject, idxObject, idxStatus

tables == <<claims, idxSubject, idxObject, idxStatus>>

History == [Revisions -> Revision \cup {Absent}]

TablesTypeOK ==
  /\ claims \in [Claims -> History]
  /\ idxSubject \in [Entities -> SUBSET Claims]
  /\ idxObject \in [Entities -> SUBSET Claims]
  /\ idxStatus \in [Statuses -> SUBSET Claims]

TablesInit ==
  /\ claims = [c \in Claims |-> [r \in Revisions |-> Absent]]
  /\ idxSubject = [e \in Entities |-> {}]
  /\ idxObject = [e \in Entities |-> {}]
  /\ idxStatus = [s \in Statuses |-> {}]

(* latest(): the last key in the range of one claim id; 0 when none. *)
LatestIn(history) ==
  CHOOSE n \in 0..MaxRevision :
    /\ n = 0 \/ history[n] # Absent
    /\ \A r \in Revisions : history[r] # Absent => r =< n

LatestRev(c) == LatestIn(claims[c])
Latest(c) == claims[c][LatestRev(c)]
Exists(c) == LatestRev(c) # 0

(* The arguments of write_revision(claim, previous): body goes to key      *)
(* (claim, revision); base and previous are the key and the copy of the    *)
(* revision read earlier, base = 0 when previous is None.                  *)
Write == [claim    : Claims,
          revision : Revisions,
          body     : Revision,
          base     : 0..MaxRevision,
          previous : Revision \cup {Absent}]

(* Not the code: the copy of the previous revision is put back unmarked. *)
ClaimsAfter_Unmarked(w) ==
  [claims EXCEPT ![w.claim][w.revision] = w.body]

(* Not the code: the copy is put back under the new revision's key. *)
ClaimsAfter_WrongKey(w) ==
  [claims EXCEPT ![w.claim][w.revision] =
     IF w.base = 0 THEN w.body ELSE [w.previous EXCEPT !.superseded = w.revision]]

(* Not the code: the previous revision is edited in place. *)
ClaimsAfter_InPlace(w) ==
  [claims EXCEPT ![w.claim][IF w.base = 0 THEN w.revision ELSE w.base] = w.body]

(* Not the code: the previous revision is linked to itself. *)
ClaimsAfter_SelfLink(w) ==
  [claims EXCEPT ![w.claim] =
     [r \in Revisions |->
        CASE r = w.base -> [w.previous EXCEPT !.superseded = w.base]
          [] r = w.revision -> w.body
          [] OTHER -> claims[w.claim][r]]]

(* The claims table after the transaction: the new revision is inserted,   *)
(* then the copy of the previous one is put back with superseded_by set.   *)
ClaimsAfter(w) ==
  [claims EXCEPT ![w.claim] =
     [r \in Revisions |->
        CASE r = w.base -> [w.previous EXCEPT !.superseded = w.revision]
          [] r = w.revision /\ r # w.base -> w.body
          [] OTHER -> claims[w.claim][r]]]

(* Not the code: the old status keeps the claim. *)
StatusIndexAfter_KeepsOld(w) ==
  [idxStatus EXCEPT ![w.body.status] = @ \cup {w.claim}]

(* The old status no longer describes the claim; the new one does. *)
StatusIndexAfter(w) ==
  [s \in Statuses |->
     CASE s = w.body.status -> idxStatus[s] \cup {w.claim}
       [] s # w.body.status /\ w.base # 0 /\ s = w.previous.status -> idxStatus[s] \ {w.claim}
       [] OTHER -> idxStatus[s]]

SubjectIndexAfter(w) ==
  [idxSubject EXCEPT ![w.body.subject] = @ \cup {w.claim}]

(* Not the code: only the first revision is put in the object index. *)
ObjectIndexAfter_FirstOnly(w) ==
  [e \in Entities |->
     IF e \in PointsAt(w.body.object) /\ w.base = 0
     THEN idxObject[e] \cup {w.claim} ELSE idxObject[e]]

ObjectIndexAfter(w) ==
  [e \in Entities |->
     IF e \in PointsAt(w.body.object)
     THEN idxObject[e] \cup {w.claim} ELSE idxObject[e]]

WriteRevision(w) ==
  /\ claims' = ClaimsAfter(w)
  /\ idxStatus' = StatusIndexAfter(w)
  /\ idxSubject' = SubjectIndexAfter(w)
  /\ idxObject' = ObjectIndexAfter(w)
=============================================================================
