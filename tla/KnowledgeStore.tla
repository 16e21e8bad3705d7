--------------------------- MODULE KnowledgeStore ---------------------------
(***************************************************************************)
(* The mutating calls of KnowledgeStore                                    *)
(* (src/qo/qo-knowledge/src/store.rs), made by concurrent callers.         *)
(*                                                                         *)
(* The server keeps one KnowledgeStore in AppState with no lock around it, *)
(* and its handlers run in parallel.  Every mutating call is two           *)
(* transactions: latest() in a read transaction, then write_revision in a  *)
(* write transaction of its own.  The first is the action that fills       *)
(* call[w] with the arguments of write_revision, the second is Commit(w);  *)
(* anything may happen in between.                                         *)
(***************************************************************************)
EXTENDS KnowledgeTables

CONSTANTS Workers,  \* callers: HTTP and MCP handlers, the indexer, a sweep
          Idle      \* a caller with no call under way

ASSUME IdleAssumption == Idle \notin Write

VARIABLE call

vars == <<claims, idxSubject, idxObject, idxStatus, call>>

TypeOK ==
  /\ TablesTypeOK
  /\ call \in [Workers -> Write \cup {Idle}]

Init ==
  /\ TablesInit
  /\ call = [w \in Workers |-> Idle]

-----------------------------------------------------------------------------
(* The read half of each call. *)

Begin(w, write) ==
  /\ call[w] = Idle
  /\ call' = [call EXCEPT ![w] = write]
  /\ UNCHANGED tables

(* Not the code: revisions start at 0. *)
AddClaim_FromZero(w, c, body) ==
  /\ ~Exists(c)
  /\ Begin(w, [claim |-> c, revision |-> 0, body |-> body,
               base |-> 0, previous |-> Absent])

(* add_claim: refused when the id is taken; otherwise revision 1, live. *)
AddClaim(w, c, body) ==
  /\ ~Exists(c)
  /\ Begin(w, [claim |-> c, revision |-> 1,
               body |-> [body EXCEPT !.superseded = 0],
               base |-> 0, previous |-> Absent])

(* A proposal: Claim::proposed, with a relation when the caller has one,   *)
(* or the claim of a worker's delta, which is added as it came; bound: at  *)
(* most one piece of evidence.  An observation: Claim::observed.           *)
AddProposal(w, c) ==
  \E subject \in Entities, object \in Objects,
     evidence \in {<<>>} \cup {<<e>> : e \in Evidence}, by \in Provenances :
    AddClaim(w, c, [subject |-> subject, object |-> object, status |-> "Proposed",
                    evidence |-> evidence, by |-> by, superseded |-> 0])

AddObservation(w, c) ==
  \E subject \in Entities, e \in Evidence, by \in Provenances :
    AddClaim(w, c, [subject |-> subject, object |-> NoEntity, status |-> "Observed",
                    evidence |-> <<e>>, by |-> by, superseded |-> 0])

(* Not the code: the number is advanced twice. *)
NextRevision_Twice(n) == n + 2

(* next.revision = prev.revision + 1 *)
NextRevision(n) == n + 1

(* The common part of advance and attach_relation: the newest revision is  *)
(* copied, changed into next, and next and the copy are handed to          *)
(* write_revision.                                                         *)
Replace(w, c, next) ==
  /\ Exists(c)
  /\ LatestRev(c) < MaxRevision  \* bound
  /\ Begin(w, [claim |-> c, revision |-> NextRevision(LatestRev(c)),
               body |-> [next EXCEPT !.superseded = 0],
               base |-> LatestRev(c), previous |-> Latest(c)])

Advance(w, c, status, evidence, by) ==
  Replace(w, c, [Latest(c) EXCEPT !.status = status,
                                  !.evidence = @ \o evidence,
                                  !.by = by])

(* Not the code: counter-evidence is accepted. *)
VerifyClaim_AnyEvidence(w, c) ==
  \E e \in Evidence, by \in Provenances : Advance(w, c, "Verified", <<e>>, by)

VerifyClaim(w, c) ==
  \E e \in Evidence, by \in Provenances :
    e.supports /\ Advance(w, c, "Verified", <<e>>, by)

RefuteClaim(w, c) ==
  \E e \in Evidence, by \in Provenances :
    ~e.supports /\ Advance(w, c, "Refuted", <<e>>, by)

MarkStale(w, c) ==
  \E by \in Provenances : Advance(w, c, "Stale", <<>>, by)

RefreshObserved(w, c) ==
  \E e \in Evidence, by \in Provenances :
    e.supports /\ Advance(w, c, "Observed", <<e>>, by)

(* Not the code: an existing relation is re-pointed. *)
AttachRelation_Repoints(w, c) ==
  \E object \in Entities, by \in Provenances :
    Replace(w, c, [Latest(c) EXCEPT !.object = object, !.by = by])

(* attach_relation refuses to re-point an existing relation. *)
AttachRelation(w, c) ==
  \E object \in Entities, by \in Provenances :
    /\ Exists(c) /\ ~HasRelation(Latest(c).object)
    /\ Replace(w, c, [Latest(c) EXCEPT !.object = object, !.by = by])

(* The write half: the transaction of write_revision commits. *)
Commit(w) ==
  /\ call[w] # Idle
  /\ WriteRevision(call[w])
  /\ call' = [call EXCEPT ![w] = Idle]

(* The process dies: calls under way are lost, committed tables are not. *)
Crash ==
  /\ call' = [w \in Workers |-> Idle]
  /\ UNCHANGED tables

Call(w, c) ==
  \/ AddProposal(w, c)
  \/ AddObservation(w, c)
  \/ VerifyClaim(w, c)
  \/ RefuteClaim(w, c)
  \/ MarkStale(w, c)
  \/ RefreshObserved(w, c)
  \/ AttachRelation(w, c)

Next ==
  \/ \E w \in Workers, c \in Claims : Call(w, c)
  \/ \E w \in Workers : Commit(w)
  \/ Crash

Spec == Init /\ [][Next]_vars

-----------------------------------------------------------------------------
(* Properties of the store under any interleaving of calls. *)

Stored(c, r) == claims[c][r] # Absent

(* The newest revision of a claim is never marked superseded, however      *)
(* write_revision transactions overlap: is_load_bearing and search may     *)
(* miss an old revision but never hide the current one.                    *)
LatestIsLive ==
  \A c \in Claims : Exists(c) => Latest(c).superseded = 0

(* The revisions of a claim have no gap, and superseded_by names the next  *)
(* one, which exists: the audit trail that history() returns can be        *)
(* followed from the first revision to the last.                           *)
TrailUnbroken ==
  \A c \in Claims : \A r \in Revisions :
    /\ r =< LatestRev(c) <=> Stored(c, r)
    /\ Stored(c, r) /\ claims[c][r].superseded # 0
         => /\ claims[c][r].superseded = r + 1
            /\ r < LatestRev(c)

(* No step of any call removes a revision or skips one. *)
TrailOnlyGrows ==
  [][\A c \in Claims : LatestRev(c)' \in {LatestRev(c), LatestRev(c) + 1}]_vars

(* The evidence a revision of each status must show. *)
Backed(rev) ==
  /\ rev.status = "Verified" => \E i \in DOMAIN rev.evidence : rev.evidence[i].supports
  /\ rev.status = "Refuted" => \E i \in DOMAIN rev.evidence : ~rev.evidence[i].supports
  /\ rev.status = "Observed" => rev.evidence # <<>>

(* verify_claim is the only path to Verified and refute_claim to Refuted:  *)
(* every stored revision of those statuses carries evidence that fits it,  *)
(* even when a later call copied it or an overlapping call replaced it.    *)
EvidenceBacksStatus ==
  \A c \in Claims : \A r \in Revisions : Stored(c, r) => Backed(claims[c][r])

Indexed(c, rev) ==
  /\ c \in idxSubject[rev.subject]
  /\ \A e \in PointsAt(rev.object) : c \in idxObject[e]

(* claims_about and claims_referencing lose nothing: every stored revision *)
(* can be found under its subject and under its object.                    *)
EntityIndexesCover ==
  \A c \in Claims : \A r \in Revisions : Stored(c, r) => Indexed(c, claims[c][r])

-----------------------------------------------------------------------------
(* Properties that need calls on one claim not to overlap. *)

NoOverlap ==
  \A v, w \in Workers :
    v # w /\ call[v] # Idle /\ call[w] # Idle => call[v].claim # call[w].claim

(* The store behind a lock per claim id: calls on different claims still   *)
(* interleave.                                                             *)
SerialSpec == Init /\ [][Next /\ NoOverlap']_vars

(* What a revision says, apart from the link to its successor. *)
Entry(rev) == [subject |-> rev.subject, object |-> rev.object, status |-> rev.status,
               evidence |-> rev.evidence, by |-> rev.by]

Entries == [subject  : Entities,
            object   : Objects,
            status   : Statuses,
            evidence : Seq(Evidence),
            by       : Provenances]

(* store.rs: "Nothing is overwritten": a stored revision keeps its content, *)
(* and once superseded it stays so.                                         *)
AppendOnly ==
  [][\A c \in Claims : \A r \in Revisions :
       Stored(c, r) =>
         /\ Stored(c, r)'
         /\ Entry(claims[c][r])' = Entry(claims[c][r])
         /\ claims[c][r].superseded # 0
              => claims'[c][r].superseded = claims[c][r].superseded]_vars

(* Exactly the newest revision of a claim is live, so search() returns a   *)
(* claim once and never in a version that was superseded.                  *)
OneLiveRevision ==
  \A c \in Claims : \A r \in Revisions :
    Stored(c, r) => (claims[c][r].superseded = 0 <=> r = LatestRev(c))

(* claims_with_status finds every claim whose newest revision has the      *)
(* status: a claim is under its current status and under no other.         *)
StatusIndexExact ==
  \A c \in Claims : \A s \in Statuses :
    c \in idxStatus[s] <=> Exists(c) /\ Latest(c).status = s

(* A revision had an object without a relation, which attach_relation then *)
(* replaced by another.                                                    *)
Repointed(c, e) ==
  /\ HasRelation(Latest(c).object)
  /\ \E r \in 1..LatestRev(c) : claims[c][r].object = [alone |-> e]

(* claims_referencing(e) returns the claims that point at e, and besides   *)
(* only those that named e without a relation until attach_relation gave   *)
(* them another object: the index is never cleared of the first one.       *)
ObjectIndexExact ==
  \A c \in Claims : \A e \in Entities :
    c \in idxObject[e] <=> Exists(c) /\ (e \in PointsAt(Latest(c).object) \/ Repointed(c, e))

(* The tables, read through history(), are the ledger of ClaimLedger. *)
ledger == [c \in Claims |-> [r \in 1..LatestRev(c) |-> Entry(claims[c][r])]]

Ledger == INSTANCE ClaimLedger
            WITH Unrelated <- {o \in Objects : ~HasRelation(o)}

(* Every call takes the promised step on one claim's ledger, or none. *)
ImplementsLedger == Ledger!Spec
=============================================================================
