------------------------ MODULE KnowledgeStore_proofs ------------------------
(***************************************************************************)
(* Proofs about KnowledgeStore.  StoreInv is inductive for Spec: whatever  *)
(* calls overlap, it gives type correctness, the unbroken trail, the live  *)
(* newest revision and the covering indexes.                               *)
(***************************************************************************)
EXTENDS KnowledgeStore, SequenceTheorems, WellFoundedInduction, TLAPS

(* Numbers. *)

LEMMA SmallestExists ==
  ASSUME NEW T \in SUBSET Nat, T # {}
  PROVE  \E n \in T : \A k \in T : n =< k
<1>1. PICK n \in T : \A k \in T : <<k, n>> \notin OpToRel(<, Nat)
  BY WFMin, NatLessThanWellFounded, Zenon
<1>2. \A k \in T : ~(k < n)
  BY <1>1, Zenon DEF OpToRel
<1> QED
  BY <1>2

(* Induction up to n, over a set of numbers. *)
LEMMA CountingUp ==
  ASSUME NEW n \in Nat, NEW T, 0 \in T, \A k \in 0..n-1 : k \in T => k + 1 \in T
  PROVE  0..n \subseteq T
<1> SUFFICES ASSUME NEW m \in 0..n, m \notin T PROVE FALSE
  OBVIOUS
<1> DEFINE missing == {k \in 0..n : k \notin T}
<1>1. PICK least \in missing : \A k \in missing : least =< k
  <2>1. missing \in SUBSET Nat /\ missing # {}
    OBVIOUS
  <2> HIDE DEF missing
  <2> QED
    BY <2>1, SmallestExists
<1>2. least # 0 /\ least - 1 \in 0..n-1
  BY <1>1
<1>3. least - 1 \in T
  BY <1>1, <1>2
<1> QED
  BY <1>1, <1>2, <1>3

-----------------------------------------------------------------------------
(* The newest revision. *)

(* The keys of one claim are 1..n. *)
UpTo(history, n) ==
  /\ n \in 0..MaxRevision
  /\ \A r \in Revisions : history[r] # Absent <=> r =< n

(* latest() finds n when the keys of the claim are 1..n. *)
LEMMA LatestOfPrefix ==
  ASSUME NEW history, NEW n, UpTo(history, n)
  PROVE  LatestIn(history) = n
<1> DEFINE P(m) == /\ m = 0 \/ history[m] # Absent
                   /\ \A r \in Revisions : history[r] # Absent => r =< m
<1>1. P(n)
  BY BoundAssumption DEF UpTo, Revisions
<1>2. \A m \in 0..MaxRevision : P(m) => m = n
  <2> SUFFICES ASSUME NEW m \in 0..MaxRevision, P(m)
               PROVE  m = n
    OBVIOUS
  <2>1. m =< n
    BY BoundAssumption DEF UpTo, Revisions
  <2>2. n =< m
    BY BoundAssumption DEF UpTo, Revisions
  <2> QED
    BY <2>1, <2>2, BoundAssumption DEF UpTo
<1>3. n \in 0..MaxRevision
  BY DEF UpTo
<1>4. LatestIn(history) = CHOOSE m \in 0..MaxRevision : P(m)
  BY DEF LatestIn
<1> HIDE DEF P
<1> QED
  BY <1>1, <1>2, <1>3, <1>4

-----------------------------------------------------------------------------
(* What the tables always satisfy. *)

Contiguous == \A c \in Claims : UpTo(claims[c], LatestRev(c))

LinksForward ==
  \A c \in Claims : \A r \in Revisions :
    Stored(c, r) => \/ claims[c][r].superseded = 0
                    \/ claims[c][r].superseded = r + 1 /\ r < LatestRev(c)

(* What a call under way always satisfies: it writes the successor of the  *)
(* revision it read, that revision is still there, though it may not be    *)
(* the newest any more, and both bodies are fit to be stored.              *)
PendingSound(p) ==
  /\ p.revision = p.base + 1
  /\ p.base =< LatestRev(p.claim)
  /\ p.body.superseded = 0
  /\ Backed(p.body)
  /\ p.base # 0 => /\ p.previous \in Revision
                   /\ Backed(p.previous)
                   /\ Indexed(p.claim, p.previous)

AllSound == \A w \in Workers : call[w] # Idle => PendingSound(call[w])

StoreInv ==
  /\ TypeOK
  /\ Contiguous
  /\ LinksForward
  /\ EvidenceBacksStatus
  /\ EntityIndexesCover
  /\ AllSound

(* What the field object says of an entity, and of none. *)
LEMMA ObjectFacts ==
  /\ Entities \subseteq Objects /\ NoEntity \in Objects
  /\ \A e \in Entities : PointsAt(e) = {e} /\ HasRelation(e)
  /\ PointsAt(NoEntity) = {} /\ ~HasRelation(NoEntity)
  /\ \A object : PointsAt(object) \subseteq Entities
<1>1. \A e \in Entities : [alone |-> e] \in Alone
  BY DEF Alone
<1>2. NoEntity \notin Entities /\ NoEntity # Dangling /\ NoEntity \notin Alone
  BY AbsentAssumption, HalvesAssumption
<1>3. \A e \in Entities : [alone |-> e] \notin Entities /\ [alone |-> e] # NoEntity
  BY <1>1, HalvesAssumption
<1> QED
  BY <1>2, <1>3 DEF Objects, PointsAt, HasRelation

LEMMA StoredIsRevision ==
  ASSUME StoreInv, NEW c \in Claims, NEW r \in Revisions, Stored(c, r)
  PROVE  claims[c][r] \in Revision
BY DEF StoreInv, TypeOK, TablesTypeOK, History, Stored

(* The revision latest() returns is stored, and has all that holds of      *)
(* stored revisions.                                                       *)
LEMMA LatestIsStored ==
  ASSUME StoreInv, NEW c \in Claims, Exists(c)
  PROVE  /\ LatestRev(c) \in Revisions
         /\ Latest(c) \in Revision
         /\ Backed(Latest(c))
         /\ Indexed(c, Latest(c))
         /\ Latest(c).superseded = 0
<1>1. LatestRev(c) \in Revisions
  BY BoundAssumption DEF StoreInv, Contiguous, UpTo, Exists, Revisions
<1>2. Stored(c, LatestRev(c))
  BY <1>1, BoundAssumption DEF StoreInv, Contiguous, UpTo, Stored, Revisions
<1>3. Latest(c) \in Revision
  BY <1>1, <1>2, StoredIsRevision DEF Latest
<1>4. Latest(c).superseded = 0
  BY <1>1, <1>2, BoundAssumption DEF StoreInv, LinksForward, Latest, Revisions
<1> QED
  BY <1>1, <1>2, <1>3, <1>4 DEF StoreInv, EvidenceBacksStatus, EntityIndexesCover, Latest

(* The read half of every call leaves a sound write behind. *)
LEMMA BeginIsSound ==
  ASSUME StoreInv, NEW w \in Workers, NEW p \in Write, PendingSound(p), Begin(w, p)
  PROVE  StoreInv'
<1> USE DEF Begin, tables
<1>1. TypeOK'
  BY DEF StoreInv, TypeOK, TablesTypeOK
<1>2. Contiguous' /\ LinksForward'
  BY DEF StoreInv, Contiguous, LinksForward, LatestRev, Stored
<1>3. EvidenceBacksStatus' /\ EntityIndexesCover'
  BY DEF StoreInv, EvidenceBacksStatus, EntityIndexesCover, Stored, Indexed
<1>4. AllSound'
  <2> SUFFICES ASSUME NEW v \in Workers, call'[v] # Idle
               PROVE  PendingSound(call[v])'
    BY DEF AllSound
  <2>1. call'[v] = IF v = w THEN p ELSE call[v]
    BY DEF StoreInv, TypeOK
  <2>2. PendingSound(call'[v])
    BY <2>1 DEF StoreInv, AllSound
  <2> QED
    BY <2>2 DEF PendingSound, LatestRev, Indexed
<1> QED
  BY <1>1, <1>2, <1>3, <1>4 DEF StoreInv

-----------------------------------------------------------------------------
(* The read halves.  Each leaves a sound write behind that starts from the *)
(* newest revision and takes a step the ledger promises.                   *)

Opens(to) ==
  /\ to.evidence \in {<<>>} \cup {<<e>> : e \in Evidence}
  /\ to.status = "Proposed" \/ (to.status = "Observed" /\ to.evidence # <<>>)

Follows(from, to) ==
  \/ \E e \in Evidence, s \in {"Verified", "Observed", "Refuted"}, by \in Provenances :
       /\ s \in (IF e.supports THEN {"Verified", "Observed"} ELSE {"Refuted"})
       /\ to = [from EXCEPT !.status = s, !.evidence = Append(@, e), !.by = by]
  \/ \E by \in Provenances : to = [from EXCEPT !.status = "Stale", !.by = by]
  \/ /\ ~HasRelation(from.object)
     /\ \E object \in Entities, by \in Provenances :
          to = [from EXCEPT !.object = object, !.by = by]

JustRead(p) ==
  /\ p.base = LatestRev(p.claim)
  /\ p.base = 0 => Opens(Entry(p.body))
  /\ p.base # 0 => /\ p.previous = Latest(p.claim)
                   /\ Follows(Entry(p.previous), Entry(p.body))

Reads(w) == \E p \in Write : PendingSound(p) /\ JustRead(p) /\ Begin(w, p)

(* Entries with the same fields are the same. *)
LEMMA SameEntry ==
  ASSUME NEW d \in Entries, NEW e \in Entries,
         d.subject = e.subject, d.object = e.object, d.status = e.status,
         d.evidence = e.evidence, d.by = e.by
  PROVE  d = e
BY DEF Entries

LEMMA EntryOfRevision ==
  ASSUME NEW rev \in Revision
  PROVE  /\ Entry(rev) \in Entries
         /\ Entry(rev).subject = rev.subject
         /\ Entry(rev).object = rev.object
         /\ Entry(rev).status = rev.status
         /\ Entry(rev).evidence = rev.evidence
         /\ Entry(rev).by = rev.by
BY DEF Entries, Revision, Entry

LEMMA AddClaimReads ==
  ASSUME StoreInv, NEW w \in Workers, NEW c \in Claims, NEW body \in Revision,
         Backed(body), Opens(Entry(body)), AddClaim(w, c, body)
  PROVE  Reads(w)
<1> DEFINE p == [claim |-> c, revision |-> 1, body |-> [body EXCEPT !.superseded = 0],
                 base |-> 0, previous |-> Absent]
<1>1. [body EXCEPT !.superseded = 0] \in Revision
  BY BoundAssumption DEF Revision
<1>2. p \in Write
  BY <1>1, BoundAssumption DEF Write, Revisions
<1>3. Backed([body EXCEPT !.superseded = 0]) /\ Entry([body EXCEPT !.superseded = 0]) = Entry(body)
  BY DEF Backed, Revision, Entry
<1>4. LatestRev(c) = 0
  BY DEF AddClaim, Exists
<1>5. PendingSound(p)
  BY <1>3, <1>4 DEF PendingSound, Revision
<1>6. JustRead(p)
  BY <1>3, <1>4 DEF JustRead
<1>7. Begin(w, p)
  BY DEF AddClaim
<1> HIDE DEF p
<1> QED
  BY <1>2, <1>5, <1>6, <1>7 DEF Reads

LEMMA ReplaceReads ==
  ASSUME StoreInv, NEW w \in Workers, NEW c \in Claims, NEW next \in Revision,
         Backed(next), Follows(Entry(Latest(c)), Entry(next)), Replace(w, c, next)
  PROVE  Reads(w)
<1> DEFINE p == [claim |-> c, revision |-> NextRevision(LatestRev(c)),
                 body |-> [next EXCEPT !.superseded = 0],
                 base |-> LatestRev(c), previous |-> Latest(c)]
<1>1. /\ Exists(c)
      /\ LatestRev(c) < MaxRevision
      /\ Begin(w, p)
  BY DEF Replace
<1>2. /\ [next EXCEPT !.superseded = 0] \in Revision
      /\ Backed([next EXCEPT !.superseded = 0])
      /\ Entry([next EXCEPT !.superseded = 0]) = Entry(next)
  BY BoundAssumption DEF Revision, Backed, Entry
<1>3. LatestRev(c) \in 1..MaxRevision /\ NextRevision(LatestRev(c)) \in Revisions
  BY <1>1, LatestIsStored, BoundAssumption DEF NextRevision, Revisions
<1>4. Latest(c) \in Revision /\ Backed(Latest(c)) /\ Indexed(c, Latest(c))
  BY <1>1, LatestIsStored
<1>5. p \in Write
  BY <1>2, <1>3, <1>4, BoundAssumption DEF Write
<1>6. PendingSound(p)
  BY <1>2, <1>3, <1>4 DEF PendingSound, NextRevision, Revision
<1>7. JustRead(p)
  BY <1>2, <1>3 DEF JustRead
<1> HIDE DEF p
<1> QED
  BY <1>1, <1>5, <1>6, <1>7 DEF Reads

(* advance with evidence: what was shown before is still shown after. *)
LEMMA AdvanceReads ==
  ASSUME StoreInv, NEW w \in Workers, NEW c \in Claims,
         NEW status \in {"Verified", "Observed", "Refuted"},
         NEW e \in Evidence, NEW by \in Provenances,
         status \in (IF e.supports THEN {"Verified", "Observed"} ELSE {"Refuted"}),
         Advance(w, c, status, <<e>>, by)
  PROVE  Reads(w)
<1> DEFINE next == [Latest(c) EXCEPT !.status = status,
                                     !.evidence = @ \o <<e>>,
                                     !.by = by]
           shown == Latest(c).evidence
<1>1. Exists(c) /\ Replace(w, c, next)
  BY DEF Advance, Replace
<1>2. Latest(c) \in Revision
  BY <1>1, LatestIsStored
<1>3. shown \in Seq(Evidence)
  BY <1>2 DEF Revision
<1>4. /\ shown \o <<e>> \in Seq(Evidence)
      /\ Len(shown) + 1 \in DOMAIN (shown \o <<e>>)
      /\ (shown \o <<e>>)[Len(shown) + 1] = e
  BY <1>3
<1>5. shown \o <<e>> = Append(shown, e)
  BY <1>3, AppendIsConcat
<1>6. next \in Revision
  BY <1>2, <1>4 DEF Revision, Statuses
<1>7. next.status = status /\ next.evidence = shown \o <<e>>
  BY <1>2 DEF Revision
<1>8. Entry(next) = [Entry(Latest(c)) EXCEPT !.status = status,
                                             !.evidence = Append(@, e),
                                             !.by = by]
  <2> DEFINE to == [Entry(Latest(c)) EXCEPT !.status = status,
                                            !.evidence = Append(@, e),
                                            !.by = by]
  <2>1. Append(Entry(Latest(c)).evidence, e) = shown \o <<e>>
    BY <1>2, <1>5, EntryOfRevision
  <2>2. Entry(Latest(c)) \in Entries
    BY <1>2, EntryOfRevision
  <2>3. /\ to \in Entries
        /\ to.subject = Latest(c).subject
        /\ to.object = Latest(c).object
        /\ to.status = status
        /\ to.evidence = shown \o <<e>>
        /\ to.by = by
    BY <1>2, <1>4, <2>1, <2>2, EntryOfRevision DEF Entries, Statuses
  <2>4. /\ next.subject = Latest(c).subject
        /\ next.object = Latest(c).object
        /\ next.status = status
        /\ next.evidence = shown \o <<e>>
        /\ next.by = by
    BY <1>2 DEF Revision
  <2> HIDE DEF to, next, shown
  <2>5. to = Entry(next)
    BY <1>6, <2>3, <2>4, EntryOfRevision, SameEntry
  <2> QED
    BY <2>5 DEF to
<1> HIDE DEF next, shown
<1>9. Follows(Entry(Latest(c)), Entry(next))
  BY <1>8, Zenon DEF Follows
<1>10. shown \o <<e>> # <<>>
  BY <1>4
<1>11. Backed(next)
  BY <1>4, <1>7, <1>10 DEF Backed
<1> QED
  BY <1>1, <1>6, <1>9, <1>11, ReplaceReads

LEMMA MarkStaleReads ==
  ASSUME StoreInv, NEW w \in Workers, NEW c \in Claims, MarkStale(w, c)
  PROVE  Reads(w)
<1>1. PICK by \in Provenances : Advance(w, c, "Stale", <<>>, by)
  BY DEF MarkStale
<1> DEFINE next == [Latest(c) EXCEPT !.status = "Stale",
                                     !.evidence = @ \o <<>>,
                                     !.by = by]
<1>2. Exists(c) /\ Replace(w, c, next)
  BY <1>1 DEF Advance, Replace
<1>3. Latest(c) \in Revision
  BY <1>2, LatestIsStored
<1>4. Latest(c).evidence \o <<>> = Latest(c).evidence /\ Latest(c).evidence \in Seq(Evidence)
  BY <1>3, ConcatEmptySeq DEF Revision
<1>5. next \in Revision
  BY <1>3, <1>4 DEF Revision, Statuses
<1>6. Entry(next) = [Entry(Latest(c)) EXCEPT !.status = "Stale", !.by = by]
  <2> DEFINE to == [Entry(Latest(c)) EXCEPT !.status = "Stale", !.by = by]
  <2>1. Entry(Latest(c)) \in Entries
    BY <1>3, EntryOfRevision
  <2>2. /\ to \in Entries
        /\ to.subject = Latest(c).subject
        /\ to.object = Latest(c).object
        /\ to.status = "Stale"
        /\ to.evidence = Latest(c).evidence
        /\ to.by = by
    BY <1>3, <2>1, EntryOfRevision DEF Entries, Statuses
  <2>3. /\ next.subject = Latest(c).subject
        /\ next.object = Latest(c).object
        /\ next.status = "Stale"
        /\ next.evidence = Latest(c).evidence
        /\ next.by = by
    BY <1>3, <1>4 DEF Revision
  <2> HIDE DEF to, next
  <2>4. to = Entry(next)
    BY <1>5, <2>2, <2>3, EntryOfRevision, SameEntry
  <2> QED
    BY <2>4 DEF to
<1>7. Backed(next)
  BY <1>3 DEF Backed, Revision
<1> HIDE DEF next
<1>8. Follows(Entry(Latest(c)), Entry(next))
  BY <1>6, Zenon DEF Follows
<1> QED
  BY <1>2, <1>5, <1>7, <1>8, ReplaceReads

LEMMA AttachRelationReads ==
  ASSUME StoreInv, NEW w \in Workers, NEW c \in Claims, AttachRelation(w, c)
  PROVE  Reads(w)
<1>1. PICK object \in Entities, by \in Provenances :
        /\ Exists(c)
        /\ ~HasRelation(Latest(c).object)
        /\ Replace(w, c, [Latest(c) EXCEPT !.object = object, !.by = by])
  BY DEF AttachRelation
<1>2. Latest(c) \in Revision /\ Backed(Latest(c))
  BY <1>1, LatestIsStored
<1> DEFINE next == [Latest(c) EXCEPT !.object = object, !.by = by]
<1>3. next \in Revision
  BY <1>2, ObjectFacts DEF Revision
<1>4. Backed(next)
  BY <1>2 DEF Backed, Revision
<1>5. /\ Entry(next) = [Entry(Latest(c)) EXCEPT !.object = object, !.by = by]
      /\ ~HasRelation(Entry(Latest(c)).object)
  <2> DEFINE to == [Entry(Latest(c)) EXCEPT !.object = object, !.by = by]
  <2>1. Entry(Latest(c)) \in Entries
    BY <1>2, EntryOfRevision
  <2>2. /\ to \in Entries
        /\ to.subject = Latest(c).subject
        /\ to.object = object
        /\ to.status = Latest(c).status
        /\ to.evidence = Latest(c).evidence
        /\ to.by = by
    BY <1>2, <2>1, EntryOfRevision, ObjectFacts DEF Entries
  <2>3. /\ next.subject = Latest(c).subject
        /\ next.object = object
        /\ next.status = Latest(c).status
        /\ next.evidence = Latest(c).evidence
        /\ next.by = by
    BY <1>2 DEF Revision
  <2> HIDE DEF to, next
  <2>4. to = Entry(next)
    BY <1>3, <2>2, <2>3, EntryOfRevision, SameEntry
  <2> QED
    BY <1>1, <1>2, <2>4, EntryOfRevision DEF to
<1>6. Replace(w, c, next)
  BY <1>1
<1> HIDE DEF next
<1>7. Follows(Entry(Latest(c)), Entry(next))
  BY <1>5, Zenon DEF Follows
<1> QED
  BY <1>3, <1>4, <1>6, <1>7, ReplaceReads

LEMMA AddReads ==
  ASSUME StoreInv, NEW w \in Workers, NEW c \in Claims,
         AddProposal(w, c) \/ AddObservation(w, c)
  PROVE  Reads(w)
<1>1. CASE AddProposal(w, c)
  <2>1. PICK subject \in Entities, object \in Objects,
             evidence \in {<<>>} \cup {<<e>> : e \in Evidence}, by \in Provenances :
          AddClaim(w, c, [subject |-> subject, object |-> object, status |-> "Proposed",
                          evidence |-> evidence, by |-> by, superseded |-> 0])
    BY <1>1 DEF AddProposal
  <2> DEFINE body == [subject |-> subject, object |-> object, status |-> "Proposed",
                      evidence |-> evidence, by |-> by, superseded |-> 0]
  <2>2. evidence \in Seq(Evidence)
    <3>1. CASE evidence = <<>>
      BY <3>1
    <3>2. CASE \E e \in Evidence : evidence = <<e>>
      <4>1. PICK e \in Evidence : evidence = <<e>>
        BY <3>2
      <4> QED
        BY <4>1
    <3> QED
      BY <3>1, <3>2
  <2>3. body \in Revision /\ Backed(body)
    BY <2>2, BoundAssumption DEF Revision, Statuses, Backed
  <2>4. Opens(Entry(body))
    BY DEF Opens, Entry
  <2> QED
    BY <2>1, <2>3, <2>4, AddClaimReads
<1>2. CASE AddObservation(w, c)
  <2>1. PICK subject \in Entities, e \in Evidence, by \in Provenances :
          AddClaim(w, c, [subject |-> subject, object |-> NoEntity, status |-> "Observed",
                          evidence |-> <<e>>, by |-> by, superseded |-> 0])
    BY <1>2 DEF AddObservation
  <2> DEFINE body == [subject |-> subject, object |-> NoEntity, status |-> "Observed",
                      evidence |-> <<e>>, by |-> by, superseded |-> 0]
  <2>2. body \in Revision /\ Backed(body)
    BY BoundAssumption, ObjectFacts DEF Revision, Statuses, Backed
  <2>3. Opens(Entry(body))
    BY DEF Opens, Entry
  <2> QED
    BY <2>1, <2>2, <2>3, AddClaimReads
<1> QED
  BY <1>1, <1>2

LEMMA CallReads ==
  ASSUME StoreInv, NEW w \in Workers, NEW c \in Claims, Call(w, c)
  PROVE  Reads(w)
<1>1. ASSUME VerifyClaim(w, c) PROVE Reads(w)
  BY <1>1, AdvanceReads DEF VerifyClaim
<1>2. ASSUME RefuteClaim(w, c) PROVE Reads(w)
  BY <1>2, AdvanceReads DEF RefuteClaim
<1>3. ASSUME RefreshObserved(w, c) PROVE Reads(w)
  BY <1>3, AdvanceReads DEF RefreshObserved
<1> QED
  BY <1>1, <1>2, <1>3, AddReads, MarkStaleReads, AttachRelationReads DEF Call

-----------------------------------------------------------------------------
(* The write half.  The transaction may land on top of others that         *)
(* committed since the read: it then replaces revision base + 1 and the    *)
(* copy it puts back at base, and the trail keeps its shape.               *)

LEMMA CommitClaims ==
  ASSUME StoreInv, NEW w \in Workers, Commit(w), NEW p, p = call[w]
  PROVE  /\ p \in Write /\ PendingSound(p)
         /\ p.base \in 0..MaxRevision /\ p.revision \in Revisions
         /\ \A c \in Claims : \A r \in Revisions :
              claims'[c][r] = IF c # p.claim THEN claims[c][r]
                              ELSE IF r = p.base THEN [p.previous EXCEPT !.superseded = p.revision]
                              ELSE IF r = p.revision THEN p.body
                              ELSE claims[c][r]
<1>1. p \in Write /\ PendingSound(p)
  BY DEF Commit, StoreInv, AllSound, TypeOK
<1>2. claims' = ClaimsAfter(p)
  BY DEF Commit, WriteRevision
<1>3. claims \in [Claims -> History]
  BY DEF StoreInv, TypeOK, TablesTypeOK
<1>4. p.claim \in Claims /\ p.base \in 0..MaxRevision /\ p.revision \in Revisions
  BY <1>1 DEF Write
<1>5. \A c \in Claims : \A r \in Revisions :
        claims'[c][r] = IF c # p.claim THEN claims[c][r]
                        ELSE IF r = p.base THEN [p.previous EXCEPT !.superseded = p.revision]
                        ELSE IF r = p.revision THEN p.body
                        ELSE claims[c][r]
  BY <1>2, <1>3, <1>4 DEF ClaimsAfter, History
<1> QED
  BY <1>1, <1>4, <1>5

LEMMA CommitTypeOK ==
  ASSUME StoreInv, NEW w \in Workers, Commit(w)
  PROVE  TypeOK'
<1> DEFINE p == call[w]
<1>1. p \in Write /\ PendingSound(p)
  BY CommitClaims
<1>2. claims' \in [Claims -> History]
  <2>1. claims \in [Claims -> History]
    BY DEF StoreInv, TypeOK, TablesTypeOK
  <2>2. p.base # 0 => [p.previous EXCEPT !.superseded = p.revision] \in Revision
    <3>1. p.revision \in 0..MaxRevision
      BY <1>1, BoundAssumption DEF Write, Revisions
    <3>2. p.base # 0 => p.previous \in Revision
      BY <1>1 DEF PendingSound
    <3> QED
      BY <3>1, <3>2 DEF Revision
  <2>3. p.claim \in Claims /\ p.body \in Revision
    BY <1>1 DEF Write
  <2> DEFINE h == [r \in Revisions |->
                     CASE r = p.base -> [p.previous EXCEPT !.superseded = p.revision]
                       [] r = p.revision /\ r # p.base -> p.body
                       [] OTHER -> claims[p.claim][r]]
  <2>4. claims' = [claims EXCEPT ![p.claim] = h]
    BY DEF Commit, WriteRevision, ClaimsAfter
  <2>5. h \in History
    <3> SUFFICES ASSUME NEW r \in Revisions PROVE h[r] \in Revision \cup {Absent}
      BY DEF History
    <3>1. claims[p.claim][r] \in Revision \cup {Absent}
      BY <2>1, <2>3 DEF History
    <3>2. r # 0
      BY DEF Revisions
    <3> QED
      BY <2>2, <2>3, <3>1, <3>2
  <2> HIDE DEF h
  <2> QED
    BY <2>1, <2>4, <2>5
<1>3. /\ p.claim \in Claims
      /\ p.body.subject \in Entities
      /\ p.body.object \in Objects
      /\ p.body.status \in Statuses
  BY <1>1 DEF Write, Revision
<1>4. idxSubject' \in [Entities -> SUBSET Claims]
  BY <1>3 DEF Commit, WriteRevision, SubjectIndexAfter, StoreInv, TypeOK, TablesTypeOK
<1>5. idxObject' \in [Entities -> SUBSET Claims]
  BY <1>3 DEF Commit, WriteRevision, ObjectIndexAfter, StoreInv, TypeOK, TablesTypeOK
<1>6. idxStatus' \in [Statuses -> SUBSET Claims]
  BY <1>3 DEF Commit, WriteRevision, StatusIndexAfter, StoreInv, TypeOK, TablesTypeOK
<1>7. call' \in [Workers -> Write \cup {Idle}]
  BY DEF Commit, StoreInv, TypeOK
<1> QED
  BY <1>2, <1>4, <1>5, <1>6, <1>7 DEF TypeOK, TablesTypeOK

(* The number of revisions of the claim written: one more if the write     *)
(* extends the trail, the same if it replaces a revision.                  *)
LEMMA CommitTrail ==
  ASSUME StoreInv, NEW w \in Workers, Commit(w), NEW c \in Claims
  PROVE  /\ UpTo(claims'[c], LatestRev(c)')
         /\ LatestRev(c)' = IF c = call[w].claim /\ call[w].revision > LatestRev(c)
                            THEN call[w].revision ELSE LatestRev(c)
<1> DEFINE p == call[w]
           n == IF c = p.claim /\ p.revision > LatestRev(c) THEN p.revision ELSE LatestRev(c)
<1>1. p \in Write /\ PendingSound(p) /\ p.base \in 0..MaxRevision /\ p.revision \in Revisions
  BY CommitClaims
<1>2. LatestRev(c) \in 0..MaxRevision /\ UpTo(claims[c], LatestRev(c))
  BY DEF StoreInv, Contiguous, UpTo
<1>3. n \in 0..MaxRevision
  BY <1>1, <1>2 DEF Revisions
<1>4. ASSUME NEW r \in Revisions
      PROVE  claims'[c][r] # Absent <=> r =< n
  <2>1. claims'[c][r] = IF c # p.claim THEN claims[c][r]
                        ELSE IF r = p.base THEN [p.previous EXCEPT !.superseded = p.revision]
                        ELSE IF r = p.revision THEN p.body
                        ELSE claims[c][r]
    BY CommitClaims
  <2>2. claims[c][r] # Absent <=> r =< LatestRev(c)
    BY <1>2 DEF UpTo
  <2>3. p.body # Absent
    BY <1>1, AbsentAssumption DEF Write
  <2>4. r = p.base => [p.previous EXCEPT !.superseded = p.revision] # Absent
    <3>1. r # 0
      BY DEF Revisions
    <3>2. r = p.base => p.previous \in Revision
      BY <1>1, <3>1 DEF PendingSound
    <3>3. p.revision \in 0..MaxRevision
      BY <1>1, BoundAssumption DEF Revisions
    <3>4. r = p.base => [p.previous EXCEPT !.superseded = p.revision] \in Revision
      BY <3>2, <3>3 DEF Revision
    <3> QED
      BY <3>4, AbsentAssumption
  <2>5. p.revision = p.base + 1 /\ (c = p.claim => p.base =< LatestRev(c))
    BY <1>1 DEF PendingSound
  <2>6. r \in Int /\ p.base \in Int /\ LatestRev(c) \in Int
    BY <1>1, <1>2 DEF Revisions
  <2>7. CASE c # p.claim
    BY <2>1, <2>2, <2>7
  <2>8. CASE c = p.claim /\ r = p.base
    BY <2>1, <2>4, <2>5, <2>6, <2>8
  <2>9. CASE c = p.claim /\ r = p.revision
    BY <2>1, <2>3, <2>5, <2>6, <2>9
  <2>10. CASE c = p.claim /\ r # p.base /\ r # p.revision
    BY <2>1, <2>2, <2>5, <2>6, <2>10
  <2> QED
    BY <2>7, <2>8, <2>9, <2>10
<1>5. UpTo(claims'[c], n)
  BY <1>3, <1>4 DEF UpTo
<1>6. LatestRev(c)' = n
  BY <1>5, LatestOfPrefix DEF LatestRev
<1> QED
  BY <1>5, <1>6

(* Ids are added to the entity indexes and never taken out. *)
LEMMA CommitIndexes ==
  ASSUME StoreInv, NEW w \in Workers, Commit(w)
  PROVE  /\ \A e \in Entities : idxSubject[e] \subseteq idxSubject'[e]
         /\ \A e \in Entities : idxObject[e] \subseteq idxObject'[e]
         /\ call[w].claim \in idxSubject'[call[w].body.subject]
         /\ \A e \in PointsAt(call[w].body.object) : call[w].claim \in idxObject'[e]
<1>0. call[w] \in Write
  BY CommitClaims
<1>1. /\ call[w].body.subject \in Entities
      /\ PointsAt(call[w].body.object) \subseteq Entities
  BY <1>0, ObjectFacts DEF Write, Revision
<1>2. idxSubject \in [Entities -> SUBSET Claims] /\ idxObject \in [Entities -> SUBSET Claims]
  BY DEF StoreInv, TypeOK, TablesTypeOK
<1> QED
  BY <1>1, <1>2 DEF Commit, WriteRevision, SubjectIndexAfter, ObjectIndexAfter

LEMMA CommitIsSound ==
  ASSUME StoreInv, NEW w \in Workers, Commit(w)
  PROVE  StoreInv'
<1> DEFINE p == call[w]
<1>1. p \in Write /\ PendingSound(p) /\ p.base \in 0..MaxRevision /\ p.revision \in Revisions
  BY CommitClaims
<1>2. Contiguous'
  BY CommitTrail DEF Contiguous
<1>3. \A c \in Claims : /\ LatestRev(c) \in 0..MaxRevision
                        /\ LatestRev(c)' \in 0..MaxRevision
                        /\ LatestRev(c) =< LatestRev(c)'
                        /\ c = p.claim => p.revision =< LatestRev(c)'
  <2> TAKE c \in Claims
  <2>1. LatestRev(c) \in 0..MaxRevision
    BY DEF StoreInv, Contiguous, UpTo
  <2> QED
    BY <1>1, <2>1, CommitTrail DEF Revisions
<1> DEFINE Found(c, rev) == /\ c \in idxSubject'[rev.subject]
                            /\ \A e \in PointsAt(rev.object) : c \in idxObject'[e]
<1>4. LinksForward' /\ EvidenceBacksStatus' /\ EntityIndexesCover'
  <2> SUFFICES ASSUME NEW c \in Claims, NEW r \in Revisions, claims'[c][r] # Absent
               PROVE  /\ \/ claims'[c][r].superseded = 0
                         \/ claims'[c][r].superseded = r + 1 /\ r < LatestRev(c)'
                      /\ Backed(claims'[c][r])
                      /\ Found(c, claims'[c][r])
    BY DEF LinksForward, EvidenceBacksStatus, EntityIndexesCover, Stored, Indexed
  <2>1. CASE c = p.claim /\ r = p.base
    <3>1. r # 0
      BY DEF Revisions
    <3>2. /\ p.previous \in Revision
          /\ Backed(p.previous)
          /\ Indexed(c, p.previous)
      BY <1>1, <2>1, <3>1 DEF PendingSound
    <3>3. claims'[c][r] = [p.previous EXCEPT !.superseded = p.revision]
      BY <2>1, CommitClaims
    <3>4. p.revision = r + 1 /\ r < LatestRev(c)'
      BY <1>1, <1>3, <2>1 DEF PendingSound, Revisions
    <3>5. /\ claims'[c][r].superseded = r + 1
          /\ claims'[c][r].status = p.previous.status
          /\ claims'[c][r].evidence = p.previous.evidence
          /\ claims'[c][r].subject = p.previous.subject
          /\ claims'[c][r].object = p.previous.object
      BY <3>2, <3>3, <3>4 DEF Revision
    <3>6. Backed(claims'[c][r])
      BY <3>2, <3>5 DEF Backed
    <3>7. Found(c, claims'[c][r])
      BY <3>2, <3>5, CommitIndexes, ObjectFacts DEF Indexed, Revision
    <3> QED
      BY <3>4, <3>5, <3>6, <3>7
  <2>2. CASE c = p.claim /\ r = p.revision
    <3>1. r # p.base
      BY <1>1, <2>2 DEF PendingSound
    <3>2. claims'[c][r] = p.body
      BY <2>2, <3>1, CommitClaims
    <3>3. Found(c, p.body)
      BY <1>1, <2>2, CommitIndexes, ObjectFacts DEF Indexed, Write, Revision, Commit
    <3> QED
      BY <1>1, <3>2, <3>3 DEF PendingSound
  <2>3. CASE c # p.claim \/ (r # p.base /\ r # p.revision)
    <3>0. claims'[c][r] = IF c # p.claim THEN claims[c][r]
                          ELSE IF r = p.base THEN [p.previous EXCEPT !.superseded = p.revision]
                          ELSE IF r = p.revision THEN p.body
                          ELSE claims[c][r]
      BY CommitClaims
    <3>1. claims'[c][r] = claims[c][r]
      BY <2>3, <3>0
    <3>2. Stored(c, r) /\ claims[c][r] \in Revision
      BY <3>1, StoredIsRevision DEF Stored
    <3>3. \/ claims[c][r].superseded = 0
          \/ claims[c][r].superseded = r + 1 /\ r < LatestRev(c)'
      BY <1>3, <3>2 DEF StoreInv, LinksForward, Revisions
    <3>4. Backed(claims[c][r]) /\ Indexed(c, claims[c][r])
      BY <3>2 DEF StoreInv, EvidenceBacksStatus, EntityIndexesCover
    <3>5. Found(c, claims'[c][r])
      BY <3>1, <3>2, <3>4, CommitIndexes, ObjectFacts DEF Indexed, Revision
    <3> QED
      BY <3>1, <3>3, <3>4, <3>5
  <2> QED
    BY <2>1, <2>2, <2>3
<1>5. AllSound'
  <2> SUFFICES ASSUME NEW v \in Workers, call'[v] # Idle
               PROVE  PendingSound(call[v])'
    BY DEF AllSound
  <2>1. call'[v] = call[v] /\ call[v] \in Write /\ PendingSound(call[v])
    BY DEF Commit, StoreInv, AllSound, TypeOK
  <2>2. call[v].claim \in Claims /\ call[v].base \in 0..MaxRevision
    BY <2>1 DEF Write
  <2>3. call[v].base =< LatestRev(call[v].claim)'
    BY <1>3, <2>1, <2>2 DEF PendingSound
  <2>4. call[v].base # 0 => Found(call[v].claim, call[v].previous)
    BY <2>1, CommitIndexes, ObjectFacts DEF PendingSound, Indexed, Revision
  <2> QED
    BY <2>1, <2>2, <2>3, <2>4 DEF PendingSound, LatestRev, Indexed
<1> QED
  BY <1>2, <1>4, <1>5, CommitTypeOK DEF StoreInv

-----------------------------------------------------------------------------

LEMMA InitSound == Init => StoreInv
<1> SUFFICES ASSUME Init PROVE StoreInv
  OBVIOUS
<1> USE DEF Init, TablesInit
<1>1. TypeOK
  BY DEF TypeOK, TablesTypeOK, History, Statuses
<1>2. \A c \in Claims : UpTo(claims[c], 0)
  <2>1. \A c \in Claims : \A r \in Revisions : claims[c][r] = Absent
    OBVIOUS
  <2>2. \A r \in Revisions : ~(r =< 0)
    BY BoundAssumption DEF Revisions
  <2>3. 0 \in 0..MaxRevision
    BY BoundAssumption
  <2> QED
    BY <2>1, <2>2, <2>3, Zenon DEF UpTo
<1>3. \A c \in Claims : LatestRev(c) = 0
  BY <1>2, LatestOfPrefix DEF LatestRev
<1>4. Contiguous
  BY <1>2, <1>3 DEF Contiguous
<1>5. \A c \in Claims : \A r \in Revisions : ~Stored(c, r)
  BY DEF Stored
<1> QED
  BY <1>1, <1>4, <1>5
  DEF StoreInv, LinksForward, EvidenceBacksStatus, EntityIndexesCover, AllSound

LEMMA NextSound == StoreInv /\ [Next]_vars => StoreInv'
<1> SUFFICES ASSUME StoreInv, [Next]_vars PROVE StoreInv'
  OBVIOUS
<1>1. ASSUME NEW w \in Workers, NEW c \in Claims, Call(w, c) PROVE StoreInv'
  BY <1>1, CallReads, BeginIsSound DEF Reads
<1>2. ASSUME NEW w \in Workers, Commit(w) PROVE StoreInv'
  BY <1>2, CommitIsSound
<1>3. ASSUME UNCHANGED tables, call' = call \/ call' = [w \in Workers |-> Idle]
      PROVE  StoreInv'
  <2> USE <1>3 DEF tables
  <2>1. TypeOK'
    BY DEF StoreInv, TypeOK, TablesTypeOK
  <2>2. Contiguous' /\ LinksForward'
    BY DEF StoreInv, Contiguous, LinksForward, LatestRev, Stored
  <2>3. EvidenceBacksStatus' /\ EntityIndexesCover'
    BY DEF StoreInv, EvidenceBacksStatus, EntityIndexesCover, Stored, Indexed
  <2>4. AllSound'
    BY DEF StoreInv, AllSound, PendingSound, LatestRev, Indexed
  <2> QED
    BY <2>1, <2>2, <2>3, <2>4 DEF StoreInv
<1>4. CASE Crash
  BY <1>3, <1>4 DEF Crash
<1>5. CASE UNCHANGED vars
  BY <1>3, <1>5 DEF vars, tables
<1> QED
  BY <1>1, <1>2, <1>4, <1>5 DEF Next

(* Whatever calls overlap, the inductive invariant holds. *)
THEOREM StoreInvariant == Spec => []StoreInv
BY InitSound, NextSound, PTL DEF Spec

(* Every variable keeps its type: in particular no call ever writes a      *)
(* claim that latest() could not decode.                                   *)
THEOREM TypeCorrect == Spec => []TypeOK
<1>1. StoreInv => TypeOK
  BY DEF StoreInv
<1> QED
  BY <1>1, StoreInvariant, PTL

(* The newest revision of a claim is live under any interleaving. *)
THEOREM LatestLive == Spec => []LatestIsLive
<1>1. StoreInv => LatestIsLive
  BY LatestIsStored DEF LatestIsLive
<1> QED
  BY <1>1, StoreInvariant, PTL

(* The trail of a claim has no gap and its links lead to the successor. *)
THEOREM TrailIsUnbroken == Spec => []TrailUnbroken
<1>1. StoreInv => TrailUnbroken
  BY DEF StoreInv, Contiguous, UpTo, LinksForward, TrailUnbroken, Stored
<1> QED
  BY <1>1, StoreInvariant, PTL

(* No status stands without the evidence it needs. *)
THEOREM EvidenceStands == Spec => []EvidenceBacksStatus
<1>1. StoreInv => EvidenceBacksStatus
  BY DEF StoreInv
<1> QED
  BY <1>1, StoreInvariant, PTL

(* No revision is lost from the entity indexes. *)
THEOREM IndexesCover == Spec => []EntityIndexesCover
<1>1. StoreInv => EntityIndexesCover
  BY DEF StoreInv
<1> QED
  BY <1>1, StoreInvariant, PTL

(* No step removes a revision or skips one. *)
THEOREM TrailGrows == Spec => TrailOnlyGrows
<1>1. StoreInv /\ [Next]_vars =>
        [\A c \in Claims : LatestRev(c)' \in {LatestRev(c), LatestRev(c) + 1}]_vars
  <2> SUFFICES ASSUME StoreInv, Next, NEW c \in Claims
               PROVE  LatestRev(c)' \in {LatestRev(c), LatestRev(c) + 1}
    OBVIOUS
  <2>1. CASE UNCHANGED tables
    BY <2>1 DEF tables, LatestRev
  <2>2. ASSUME NEW w \in Workers, Commit(w)
        PROVE  LatestRev(c)' \in {LatestRev(c), LatestRev(c) + 1}
    <3>1. LatestRev(c) \in 0..MaxRevision
      BY DEF StoreInv, Contiguous, UpTo
    <3>2. PendingSound(call[w]) /\ call[w].base \in 0..MaxRevision
      BY <2>2, CommitClaims
    <3> QED
      BY <2>2, <3>1, <3>2, CommitTrail DEF PendingSound
  <2>3. \A w \in Workers, d \in Claims : Call(w, d) => UNCHANGED tables
    BY CallReads DEF Reads, Begin
  <2> QED
    BY <2>1, <2>2, <2>3 DEF Next, Crash
<1> QED
  BY <1>1, StoreInvariant, PTL DEF Spec, TrailOnlyGrows
=============================================================================
