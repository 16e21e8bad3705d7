----------------------- MODULE KnowledgeSerial_proofs -----------------------
(***************************************************************************)
(* Proofs about KnowledgeStore behind a lock per claim id (SerialSpec).    *)
(* What a call read is still the newest revision when the call commits,    *)
(* which is what StoreInv lacks: SerialInv adds it, and from it follow the *)
(* exact indexes, the single live revision, that nothing is overwritten,   *)
(* and that the store implements ClaimLedger.                              *)
(***************************************************************************)
EXTENDS KnowledgeStore_proofs

AllFresh == \A w \in Workers : call[w] # Idle => JustRead(call[w])

(* claims_about(e) returns the claims whose subject is e, all and only.    *)
SubjectIndexExact ==
  \A c \in Claims : \A e \in Entities :
    c \in idxSubject[e] <=> Exists(c) /\ Latest(c).subject = e

(* claims_referencing(e) returns the claims of which some revision named e, *)
(* and a claim changes its object only by being given a relation.          *)
EverIndexed ==
  \A c \in Claims : \A e \in Entities :
    c \in idxObject[e] <=> \E r \in 1..LatestRev(c) : e \in PointsAt(claims[c][r].object)

ObjectsKept ==
  \A c \in Claims : \A r \in 1..LatestRev(c) :
    \/ claims[c][r].object = Latest(c).object
    \/ ~HasRelation(claims[c][r].object) /\ HasRelation(Latest(c).object)

SerialInv ==
  /\ StoreInv
  /\ NoOverlap
  /\ AllFresh
  /\ OneLiveRevision
  /\ StatusIndexExact
  /\ EverIndexed
  /\ ObjectsKept
  /\ SubjectIndexExact

(* So the object index is exact, up to what attach_relation replaced. *)
LEMMA SerialObjectIndex == ASSUME SerialInv PROVE ObjectIndexExact
<1> SUFFICES ASSUME NEW c \in Claims, NEW e \in Entities
             PROVE  c \in idxObject[e]
                      <=> Exists(c) /\ (e \in PointsAt(Latest(c).object) \/ Repointed(c, e))
  BY DEF ObjectIndexExact
<1>1. LatestRev(c) \in 0..MaxRevision /\ (Exists(c) <=> LatestRev(c) \in 1..LatestRev(c))
  BY BoundAssumption DEF SerialInv, StoreInv, Contiguous, UpTo, Exists
<1>2. c \in idxObject[e] <=> \E r \in 1..LatestRev(c) : e \in PointsAt(claims[c][r].object)
  BY DEF SerialInv, EverIndexed
<1>3. ASSUME NEW r \in 1..LatestRev(c), e \in PointsAt(claims[c][r].object)
      PROVE  Exists(c) /\ (e \in PointsAt(Latest(c).object) \/ Repointed(c, e))
  <2>1. CASE claims[c][r].object = Latest(c).object
    BY <1>1, <1>3, <2>1 DEF Exists
  <2>2. CASE ~HasRelation(claims[c][r].object) /\ HasRelation(Latest(c).object)
    <3>1. claims[c][r].object = [alone |-> e]
      BY <1>3, <2>2 DEF PointsAt, HasRelation
    <3> QED
      BY <1>1, <2>2, <3>1 DEF Repointed, Exists
  <2> QED
    BY <2>1, <2>2 DEF SerialInv, ObjectsKept
<1>4. ASSUME Exists(c), e \in PointsAt(Latest(c).object)
      PROVE  c \in idxObject[e]
  BY <1>1, <1>2, <1>4 DEF Latest
<1>5. ASSUME Repointed(c, e) PROVE c \in idxObject[e]
  BY <1>2, <1>5 DEF Repointed, PointsAt
<1> QED
  BY <1>2, <1>3, <1>4, <1>5

(* What a commit does to a claim when nothing came between. *)
LEMMA CommitExtends ==
  ASSUME SerialInv, NEW w \in Workers, Commit(w), NEW p, p = call[w]
  PROVE  /\ p \in Write /\ PendingSound(p) /\ JustRead(p)
         /\ p.claim \in Claims
         /\ p.base = LatestRev(p.claim)
         /\ p.base \in 0..MaxRevision
         /\ p.revision = p.base + 1
         /\ p.revision \in Revisions
         /\ \A c \in Claims : LatestRev(c)' = IF c = p.claim THEN p.revision ELSE LatestRev(c)
         /\ \A c \in Claims : \A r \in Revisions :
              claims'[c][r] = IF c # p.claim THEN claims[c][r]
                              ELSE IF r = p.base THEN [claims[c][r] EXCEPT !.superseded = p.revision]
                              ELSE IF r = p.revision THEN p.body
                              ELSE claims[c][r]
<1>1. StoreInv
  BY DEF SerialInv
<1>2. /\ p \in Write /\ PendingSound(p)
      /\ p.base \in 0..MaxRevision /\ p.revision \in Revisions
      /\ \A c \in Claims : \A r \in Revisions :
           claims'[c][r] = IF c # p.claim THEN claims[c][r]
                           ELSE IF r = p.base THEN [p.previous EXCEPT !.superseded = p.revision]
                           ELSE IF r = p.revision THEN p.body
                           ELSE claims[c][r]
  BY <1>1, CommitClaims
<1>3. JustRead(p)
  BY DEF SerialInv, AllFresh, Commit
<1>4. p.claim \in Claims /\ p.revision = p.base + 1 /\ p.base = LatestRev(p.claim)
  BY <1>2, <1>3 DEF Write, PendingSound, JustRead
<1>5. ASSUME NEW c \in Claims
      PROVE  LatestRev(c)' = IF c = p.claim THEN p.revision ELSE LatestRev(c)
  BY <1>1, <1>2, <1>4, CommitTrail
<1>6. ASSUME NEW r \in Revisions, r = p.base
      PROVE  p.previous = claims[p.claim][r]
  <2>1. r # 0
    BY DEF Revisions
  <2> QED
    BY <1>3, <1>4, <1>6, <2>1 DEF JustRead, Latest
<1> QED
  BY <1>2, <1>3, <1>4, <1>5, <1>6

(* A step of the ledger keeps the subject, and it keeps the object or      *)
(* gives a claim its first one.                                            *)
LEMMA FollowsKeepsObject ==
  ASSUME NEW from \in Entries, NEW to, Follows(from, to)
  PROVE  /\ to.subject = from.subject
         /\ \/ to.object = from.object
            \/ ~HasRelation(from.object) /\ HasRelation(to.object)
<1>1. to.subject = from.subject
  BY DEF Follows, Entries
<1>2. to.object = from.object \/ (~HasRelation(from.object) /\ to.object \in Entities)
  BY DEF Follows, Entries
<1> QED
  BY <1>1, <1>2, ObjectFacts

LEMMA CommitStaysSerial ==
  ASSUME SerialInv, NEW w \in Workers, Commit(w), NEW p, p = call[w]
  PROVE  SerialInv'
<1>1. StoreInv /\ StoreInv'
  BY CommitIsSound DEF SerialInv
<1>2. /\ p \in Write /\ PendingSound(p) /\ JustRead(p)
      /\ p.claim \in Claims
      /\ p.base = LatestRev(p.claim)
      /\ p.base \in 0..MaxRevision
      /\ p.revision = p.base + 1
      /\ p.revision \in Revisions
      /\ \A c \in Claims : LatestRev(c)' = IF c = p.claim THEN p.revision ELSE LatestRev(c)
  BY CommitExtends
<1>3. /\ p.body \in Revision /\ p.body.superseded = 0
      /\ p.body.status \in Statuses
      /\ p.body.object \in Objects /\ p.body.subject \in Entities
  BY <1>2 DEF Write, PendingSound, Revision
<1>4. /\ claims'[p.claim][p.revision] = p.body
      /\ \A c \in Claims \ {p.claim} : \A r \in Revisions : claims'[c][r] = claims[c][r]
      /\ \A r \in Revisions : r # p.revision /\ r # p.base =>
           claims'[p.claim][r] = claims[p.claim][r]
  <2>1. \A c \in Claims : \A r \in Revisions :
          claims'[c][r] = IF c # p.claim THEN claims[c][r]
                          ELSE IF r = p.base THEN [claims[c][r] EXCEPT !.superseded = p.revision]
                          ELSE IF r = p.revision THEN p.body
                          ELSE claims[c][r]
    BY CommitExtends
  <2>2. p.revision # p.base
    BY <1>2
  <2> QED
    BY <1>2, <2>1, <2>2
<1>5. \A c \in Claims : LatestRev(c) \in 0..MaxRevision
  BY <1>1 DEF StoreInv, Contiguous, UpTo
<1> DEFINE newest(c) == claims'[c][LatestRev(c)']
           exists(c) == LatestRev(c)' # 0
<1>6. exists(p.claim) /\ newest(p.claim) = p.body
  BY <1>2, <1>4 DEF Revisions
<1>7. \A c \in Claims \ {p.claim} :
        /\ exists(c) <=> Exists(c)
        /\ Exists(c) => newest(c) = Latest(c)
  BY <1>2, <1>4, <1>5 DEF Exists, Latest, Revisions
<1>8. p.base # 0 => /\ Exists(p.claim)
                    /\ p.previous = Latest(p.claim)
                    /\ p.previous \in Revision
                    /\ Follows(Entry(p.previous), Entry(p.body))
  BY <1>2 DEF JustRead, PendingSound, Exists
<1>9. p.base = 0 => ~Exists(p.claim)
  BY <1>2 DEF Exists
<1> HIDE DEF newest, exists
<1>10. NoOverlap'
  BY <1>1 DEF SerialInv, NoOverlap, Commit, StoreInv, TypeOK
<1>11. AllFresh'
  <2> SUFFICES ASSUME NEW v \in Workers, call'[v] # Idle
               PROVE  JustRead(call[v])'
    BY DEF AllFresh
  <2>1. call'[v] = call[v] /\ call[v] # Idle /\ v # w
    BY <1>1 DEF Commit, StoreInv, TypeOK
  <2>2. call[v].claim # p.claim /\ JustRead(call[v]) /\ call[v] \in Write
    BY <1>1, <2>1 DEF SerialInv, NoOverlap, AllFresh, StoreInv, TypeOK, Commit
  <2>3. PICK c \in Claims : c = call[v].claim
    BY <2>2 DEF Write
  <2>4. /\ LatestRev(c)' = LatestRev(c)
        /\ Exists(c) => newest(c) = Latest(c)
    BY <1>2, <1>7, <2>2, <2>3
  <2> QED
    BY <2>1, <2>2, <2>3, <2>4 DEF JustRead, Latest, LatestRev, Exists, newest
<1>12. OneLiveRevision'
  <2> SUFFICES ASSUME NEW c \in Claims, NEW r \in Revisions, claims'[c][r] # Absent
               PROVE  claims'[c][r].superseded = 0 <=> r = LatestRev(c)'
    BY DEF OneLiveRevision, Stored
  <2>1. CASE c # p.claim
    BY <1>2, <1>4, <2>1 DEF SerialInv, OneLiveRevision, Stored
  <2>2. CASE c = p.claim /\ r = p.revision
    BY <1>2, <1>3, <1>4, <2>2
  <2>3. CASE c = p.claim /\ r = p.base
    <3>1. claims'[c][r] = [claims[c][r] EXCEPT !.superseded = p.revision]
      BY <2>3, CommitExtends
    <3>2. Stored(c, r)
      BY <1>1, <1>2, <2>3 DEF StoreInv, Contiguous, UpTo, Stored
    <3>3. claims[c][r] \in Revision
      BY <1>1, <3>2, StoredIsRevision
    <3> QED
      BY <1>2, <2>3, <3>1, <3>3 DEF Revision, Revisions
  <2>4. CASE c = p.claim /\ r # p.revision /\ r # p.base
    <3>1. claims'[c][r] = claims[c][r]
      BY <1>4, <2>4
    <3>2. claims[c][r].superseded = 0 <=> r = LatestRev(c)
      BY <3>1 DEF SerialInv, OneLiveRevision, Stored
    <3> QED
      BY <1>2, <2>4, <3>1, <3>2
  <2> QED
    BY <2>1, <2>2, <2>3, <2>4
<1>13. StatusIndexExact'
  <2> SUFFICES ASSUME NEW c \in Claims, NEW s \in Statuses
               PROVE  c \in idxStatus'[s] <=> exists(c) /\ newest(c).status = s
    BY DEF StatusIndexExact, Exists, Latest, exists, newest
  <2>1. c \in idxStatus[s] <=> Exists(c) /\ Latest(c).status = s
    BY DEF SerialInv, StatusIndexExact
  <2>2. idxStatus'[s] = IF s = p.body.status THEN idxStatus[s] \cup {p.claim}
                        ELSE IF p.base # 0 /\ s = p.previous.status THEN idxStatus[s] \ {p.claim}
                        ELSE idxStatus[s]
    BY DEF Commit, WriteRevision, StatusIndexAfter
  <2>3. CASE c # p.claim
    BY <1>7, <2>1, <2>2, <2>3
  <2>4. CASE c = p.claim
    BY <1>6, <1>8, <1>9, <2>1, <2>2, <2>4
  <2> QED
    BY <2>3, <2>4
<1>14. ASSUME NEW c \in Claims, NEW r \in 1..LatestRev(c)
       PROVE  r \in Revisions /\ claims'[c][r].object = claims[c][r].object
  <2>1. r \in Revisions /\ Stored(c, r) /\ (c = p.claim => r # p.revision)
    <3>1. LatestRev(c) \in 0..MaxRevision /\ UpTo(claims[c], LatestRev(c))
      BY <1>1 DEF StoreInv, Contiguous, UpTo
    <3>2. r \in 1..MaxRevision
      BY <3>1, BoundAssumption
    <3>3. c = p.claim => r # p.revision
      BY <1>2, <3>1
    <3> QED
      BY <3>1, <3>2, <3>3 DEF UpTo, Revisions, Stored
  <2>2. r \in Revisions
    BY <2>1
  <2>3. CASE c # p.claim
    BY <1>4, <2>2, <2>3
  <2>4. CASE c = p.claim /\ r # p.base
    BY <1>4, <2>1, <2>2, <2>4
  <2>5. CASE c = p.claim /\ r = p.base
    <3>1. claims'[c][r] = [claims[c][r] EXCEPT !.superseded = p.revision]
      BY <2>2, <2>5, CommitExtends
    <3>2. claims[c][r] \in Revision
      BY <1>1, <2>1, <2>5, StoredIsRevision
    <3> QED
      BY <2>2, <3>1, <3>2 DEF Revision
  <2> QED
    BY <2>2, <2>3, <2>4, <2>5
<1>16. EverIndexed'
  <2> SUFFICES ASSUME NEW c \in Claims, NEW e \in Entities
               PROVE  c \in idxObject'[e]
                        <=> \E r \in 1..LatestRev(c)' : e \in PointsAt(claims'[c][r].object)
    BY DEF EverIndexed, PointsAt
  <2>1. c \in idxObject[e] <=> \E r \in 1..LatestRev(c) : e \in PointsAt(claims[c][r].object)
    BY DEF SerialInv, EverIndexed
  <2>2. c \in idxObject[e] <=> \E r \in 1..LatestRev(c) : e \in PointsAt(claims'[c][r].object)
    BY <1>14, <2>1
  <2>3. idxObject'[e] = IF e \in PointsAt(p.body.object) THEN idxObject[e] \cup {p.claim}
                        ELSE idxObject[e]
    BY DEF Commit, WriteRevision, ObjectIndexAfter
  <2>4. CASE c # p.claim
    BY <1>2, <2>2, <2>3, <2>4
  <2>5. CASE c = p.claim
    <3>1. 1..LatestRev(c)' = 1..LatestRev(c) \cup {p.revision}
      BY <1>2, <2>5
    <3>2. claims'[c][p.revision] = p.body
      BY <1>4, <2>5
    <3> QED
      BY <2>2, <2>3, <2>5, <3>1, <3>2
  <2> QED
    BY <2>4, <2>5
<1>17. ObjectsKept'
  <2> SUFFICES ASSUME NEW c \in Claims, NEW r \in 1..LatestRev(c)'
               PROVE  \/ claims'[c][r].object = newest(c).object
                      \/ ~HasRelation(claims'[c][r].object) /\ HasRelation(newest(c).object)
    BY DEF ObjectsKept, HasRelation, Latest, newest
  <2>1. CASE c # p.claim
    <3>1. r \in 1..LatestRev(c) /\ Exists(c)
      BY <1>2, <1>5, <2>1 DEF Exists
    <3>2. claims'[c][r].object = claims[c][r].object /\ newest(c) = Latest(c)
      BY <1>7, <1>14, <2>1, <3>1
    <3> QED
      BY <3>1, <3>2 DEF SerialInv, ObjectsKept
  <2>2. CASE c = p.claim /\ r = p.revision
    BY <1>4, <1>6, <2>2
  <2>3. CASE c = p.claim /\ r # p.revision
    <3>1. r \in 1..LatestRev(c) /\ p.base # 0
      BY <1>2, <2>3
    <3>2. claims'[c][r].object = claims[c][r].object /\ newest(c) = p.body
      BY <1>6, <1>14, <2>3, <3>1
    <3>3. \/ claims[c][r].object = Latest(c).object
          \/ ~HasRelation(claims[c][r].object) /\ HasRelation(Latest(c).object)
      BY <3>1 DEF SerialInv, ObjectsKept
    <3>4. /\ Entry(p.previous) \in Entries /\ Entry(p.previous).object = Latest(c).object
          /\ Entry(p.body).object = p.body.object
      BY <1>3, <1>8, <2>3, <3>1, EntryOfRevision
    <3>5. \/ p.body.object = Latest(c).object
          \/ ~HasRelation(Latest(c).object) /\ HasRelation(p.body.object)
      BY <1>8, <3>1, <3>4, FollowsKeepsObject
    <3> QED
      BY <3>2, <3>3, <3>5
  <2> QED
    BY <2>1, <2>2, <2>3
<1>15. SubjectIndexExact'
  <2> SUFFICES ASSUME NEW c \in Claims, NEW e \in Entities
               PROVE  c \in idxSubject'[e] <=> exists(c) /\ newest(c).subject = e
    BY DEF SubjectIndexExact, Exists, Latest, exists, newest
  <2>1. c \in idxSubject[e] <=> Exists(c) /\ Latest(c).subject = e
    BY DEF SerialInv, SubjectIndexExact
  <2>2. idxSubject \in [Entities -> SUBSET Claims]
    BY <1>1 DEF StoreInv, TypeOK, TablesTypeOK
  <2>3. idxSubject'[e] = IF e = p.body.subject THEN idxSubject[e] \cup {p.claim} ELSE idxSubject[e]
    BY <1>3, <2>2 DEF Commit, WriteRevision, SubjectIndexAfter
  <2>4. p.base # 0 => p.body.subject = Latest(p.claim).subject
    <3> SUFFICES ASSUME p.base # 0 PROVE p.body.subject = Latest(p.claim).subject
      OBVIOUS
    <3>1. /\ Entry(p.previous) \in Entries /\ Entry(p.previous).subject = p.previous.subject
          /\ Entry(p.body).subject = p.body.subject
      BY <1>3, <1>8, EntryOfRevision
    <3> QED
      BY <1>8, <3>1, FollowsKeepsObject
  <2>5. CASE c # p.claim
    BY <1>7, <2>1, <2>3, <2>5
  <2>6. CASE c = p.claim
    BY <1>6, <1>8, <1>9, <2>1, <2>3, <2>4, <2>6
  <2> QED
    BY <2>5, <2>6
<1> QED
  BY <1>1, <1>10, <1>11, <1>12, <1>13, <1>15, <1>16, <1>17 DEF SerialInv

(* A step that leaves the tables alone: the read half of a call, or a crash. *)
LEMMA ReadStaysSerial ==
  ASSUME SerialInv, UNCHANGED tables, StoreInv', NoOverlap',
         \A v \in Workers : call'[v] # Idle => call'[v] = call[v] \/ JustRead(call'[v])
  PROVE  SerialInv'
<1> USE DEF tables
<1>1. AllFresh'
  <2> SUFFICES ASSUME NEW v \in Workers, call'[v] # Idle
               PROVE  JustRead(call[v])'
    BY DEF AllFresh
  <2>1. JustRead(call'[v])
    BY DEF SerialInv, AllFresh
  <2> QED
    BY <2>1 DEF JustRead, LatestRev, Latest
<1>2. OneLiveRevision' /\ StatusIndexExact' /\ SubjectIndexExact'
  BY DEF SerialInv, OneLiveRevision, StatusIndexExact, SubjectIndexExact,
         Stored, Exists, Latest, LatestRev
<1>3. EverIndexed' /\ ObjectsKept'
  BY DEF SerialInv, EverIndexed, ObjectsKept, Latest, LatestRev
<1> QED
  BY <1>1, <1>2, <1>3 DEF SerialInv

LEMMA InitEmpty == Init => \A c \in Claims : ~Exists(c) /\ LatestRev(c) = 0
<1> SUFFICES ASSUME Init, NEW c \in Claims PROVE ~Exists(c)
  BY DEF Exists
<1>1. StoreInv
  BY InitSound
<1>2. \A r \in Revisions : claims[c][r] = Absent
  BY DEF Init, TablesInit
<1> QED
  BY <1>1, <1>2, LatestIsStored, AbsentAssumption DEF Latest

LEMMA InitSerial == Init => SerialInv
<1> SUFFICES ASSUME Init PROVE SerialInv
  OBVIOUS
<1>1. StoreInv
  BY InitSound
<1>2. \A c \in Claims : \A r \in Revisions : ~Stored(c, r)
  BY DEF Init, TablesInit, Stored
<1>3. \A c \in Claims : ~Exists(c)
  BY InitEmpty
<1> QED
  BY <1>1, <1>2, <1>3
  DEF Init, TablesInit, SerialInv, NoOverlap, AllFresh,
      OneLiveRevision, StatusIndexExact, EverIndexed, ObjectsKept, SubjectIndexExact, Exists

LEMMA NextSerial == SerialInv /\ [Next /\ NoOverlap']_vars => SerialInv'
<1> SUFFICES ASSUME SerialInv, [Next /\ NoOverlap']_vars PROVE SerialInv'
  OBVIOUS
<1>1. StoreInv /\ StoreInv'
  BY NextSound DEF SerialInv
<1>2. CASE UNCHANGED vars
  BY <1>1, <1>2, ReadStaysSerial DEF vars, tables, SerialInv, NoOverlap
<1>3. ASSUME NEW w \in Workers, NEW c \in Claims, Call(w, c), NoOverlap'
      PROVE  SerialInv'
  <2>1. PICK q \in Write : JustRead(q) /\ Begin(w, q)
    BY <1>1, <1>3, CallReads DEF Reads
  <2>2. \A v \in Workers : call'[v] = IF v = w THEN q ELSE call[v]
    BY <1>1, <2>1 DEF Begin, StoreInv, TypeOK
  <2> QED
    BY <1>1, <1>3, <2>1, <2>2, ReadStaysSerial DEF Begin
<1>4. ASSUME NEW w \in Workers, Commit(w) PROVE SerialInv'
  BY <1>4, CommitStaysSerial
<1>5. ASSUME Crash, NoOverlap' PROVE SerialInv'
  BY <1>1, <1>5, ReadStaysSerial DEF Crash
<1> QED
  BY <1>2, <1>3, <1>4, <1>5 DEF Next

(* With one call at a time on each claim, the serial invariant holds. *)
THEOREM SerialInvariant == SerialSpec => []SerialInv
BY InitSerial, NextSerial, PTL DEF SerialSpec

(* Exactly the newest revision is live. *)
THEOREM OneIsLive == SerialSpec => []OneLiveRevision
<1>1. SerialInv => OneLiveRevision
  BY DEF SerialInv
<1> QED
  BY <1>1, SerialInvariant, PTL

(* A claim is in the status index under its current status and no other. *)
THEOREM StatusIndexIsExact == SerialSpec => []StatusIndexExact
<1>1. SerialInv => StatusIndexExact
  BY DEF SerialInv
<1> QED
  BY <1>1, SerialInvariant, PTL

(* A claim is in the object index under its current object, and besides    *)
(* only under one it named without a relation before it was given another. *)
THEOREM ObjectIndexIsExact == SerialSpec => []ObjectIndexExact
<1>1. SerialInv => ObjectIndexExact
  BY SerialObjectIndex
<1> QED
  BY <1>1, SerialInvariant, PTL

(* A claim is in the subject index under its subject, which no call        *)
(* changes, and under no other: claims_about neither misses a claim nor    *)
(* returns one that is about something else.                               *)
THEOREM SubjectIndexIsExact == SerialSpec => []SubjectIndexExact
<1>1. SerialInv => SubjectIndexExact
  BY DEF SerialInv
<1> QED
  BY <1>1, SerialInvariant, PTL

-----------------------------------------------------------------------------
(* Nothing is overwritten, and the tables implement the ledger. *)

LEMMA CallLeavesTables ==
  ASSUME StoreInv, NEW w \in Workers, NEW c \in Claims, Call(w, c)
  PROVE  UNCHANGED tables
BY CallReads DEF Reads, Begin

(* What a step leaves of the stored revisions. *)
Kept ==
  \A c \in Claims : \A r \in Revisions :
    Stored(c, r) =>
      /\ Stored(c, r)'
      /\ Entry(claims[c][r])' = Entry(claims[c][r])
      /\ claims[c][r].superseded # 0
           => claims'[c][r].superseded = claims[c][r].superseded

LEMMA StepKeepsEntries == ASSUME SerialInv, Next PROVE Kept
<1>1. StoreInv
  BY DEF SerialInv
<1>2. CASE UNCHANGED tables
  BY <1>2 DEF Kept, tables, Stored, Entry
<1>3. ASSUME NEW w \in Workers, Commit(w), NEW c \in Claims, NEW r \in Revisions, Stored(c, r)
      PROVE  /\ claims'[c][r] # Absent
             /\ Entry(claims'[c][r]) = Entry(claims[c][r])
             /\ claims[c][r].superseded # 0
                  => claims'[c][r].superseded = claims[c][r].superseded
  <2>1. PICK p : p = call[w]
    OBVIOUS
  <2>2. claims[c][r] \in Revision /\ r =< LatestRev(c) /\ LatestRev(c) \in Int
    BY <1>1, <1>3, StoredIsRevision DEF StoreInv, Contiguous, UpTo, Stored
  <2>3. CASE c = p.claim /\ r = p.base
    <3>1. /\ claims'[c][r] = [claims[c][r] EXCEPT !.superseded = p.revision]
          /\ p.revision \in Revisions /\ r = LatestRev(c)
      BY <1>3, <2>1, <2>3, CommitExtends
    <3>2. claims'[c][r] \in Revision
      BY <2>2, <3>1 DEF Revision, Revisions
    <3>3. claims[c][r].superseded = 0
      BY <1>3, <3>1 DEF SerialInv, OneLiveRevision
    <3>4. Entry(claims'[c][r]) = Entry(claims[c][r])
      BY <2>2, <3>1 DEF Revision, Entry
    <3> QED
      BY <3>2, <3>3, <3>4, AbsentAssumption
  <2>4. CASE ~(c = p.claim /\ r = p.base)
    <3>1. c = p.claim => r # p.revision
      BY <1>3, <2>1, <2>2, CommitExtends
    <3>2. claims'[c][r] = IF c # p.claim THEN claims[c][r]
                          ELSE IF r = p.base THEN [claims[c][r] EXCEPT !.superseded = p.revision]
                          ELSE IF r = p.revision THEN p.body
                          ELSE claims[c][r]
      BY <1>3, <2>1, CommitExtends
    <3>3. claims'[c][r] = claims[c][r]
      BY <2>4, <3>1, <3>2
    <3> QED
      BY <1>3, <3>3 DEF Stored
  <2> QED
    BY <2>3, <2>4
<1>4. ASSUME NEW w \in Workers, Commit(w) PROVE Kept
  BY <1>3, <1>4 DEF Kept, Stored, Entry
<1> QED
  BY <1>1, <1>2, <1>4, CallLeavesTables DEF Next, Crash

(* A stored revision keeps what it says; only the link to its successor is *)
(* set, once.                                                              *)
THEOREM NothingOverwritten == SerialSpec => AppendOnly
<1>1. SerialInv /\ [Next /\ NoOverlap']_vars => [Kept]_vars
  BY StepKeepsEntries
<1> QED
  BY <1>1, SerialInvariant, PTL DEF SerialSpec, AppendOnly, Kept

(* The ledger of a state is a sequence of entries for every claim. *)
LEMMA LedgerIsSequences ==
  ASSUME StoreInv, NEW c \in Claims
  PROVE  /\ ledger[c] \in Seq(Entries)
         /\ Len(ledger[c]) = LatestRev(c)
         /\ \A r \in 1..LatestRev(c) : ledger[c][r] = Entry(claims[c][r])
<1>1. LatestRev(c) \in 0..MaxRevision
  BY DEF StoreInv, Contiguous, UpTo
<1>2. ASSUME NEW r \in 1..LatestRev(c)
      PROVE  Entry(claims[c][r]) \in Entries
  <2>1. r \in Revisions /\ Stored(c, r)
    BY <1>1, BoundAssumption DEF StoreInv, Contiguous, UpTo, Revisions, Stored
  <2> QED
    BY <2>1, StoredIsRevision, EntryOfRevision
<1>3. ledger[c] = [r \in 1..LatestRev(c) |-> Entry(claims[c][r])]
  BY DEF ledger
<1>4. ledger[c] \in [1..LatestRev(c) -> Entries]
  BY <1>2, <1>3
<1>5. ledger[c] \in Seq(Entries) /\ Len(ledger[c]) = LatestRev(c)
  BY <1>1, <1>3, <1>4
<1> QED
  BY <1>3, <1>5

(* A commit appends the entry of its body to the ledger of its claim. *)
LEMMA CommitAppends ==
  ASSUME SerialInv, NEW w \in Workers, Commit(w), NEW p, p = call[w]
  PROVE  ledger' = [ledger EXCEPT ![p.claim] = Append(@, Entry(p.body))]
<1>1. /\ p.claim \in Claims
      /\ p.base = LatestRev(p.claim)
      /\ p.base \in 0..MaxRevision
      /\ p.revision = p.base + 1
      /\ p.revision \in Revisions
      /\ p.body \in Revision
      /\ \A c \in Claims : LatestRev(c)' = IF c = p.claim THEN p.revision ELSE LatestRev(c)
  BY CommitExtends DEF Write
<1>2. StoreInv /\ StoreInv'
  BY CommitStaysSerial DEF SerialInv
<1>3. \A c \in Claims : \A r \in Revisions :
        claims'[c][r] = IF c # p.claim THEN claims[c][r]
                        ELSE IF r = p.base THEN [claims[c][r] EXCEPT !.superseded = p.revision]
                        ELSE IF r = p.revision THEN p.body
                        ELSE claims[c][r]
  BY CommitExtends
<1>4. ASSUME NEW c \in Claims, NEW r \in 1..LatestRev(c)
      PROVE  /\ r \in Revisions
             /\ Entry(claims'[c][r]) = Entry(claims[c][r])
  <2>1. LatestRev(c) \in 0..MaxRevision
    BY <1>2 DEF StoreInv, Contiguous, UpTo
  <2>2. r \in Revisions /\ Stored(c, r)
    BY <1>2, <2>1, BoundAssumption DEF StoreInv, Contiguous, UpTo, Revisions, Stored
  <2>3. claims[c][r] \in Revision
    BY <1>2, <2>2, StoredIsRevision
  <2>4. c = p.claim => r # p.revision
    BY <1>1, <2>1
  <2>5. claims'[c][r] = claims[c][r]
          \/ claims'[c][r] = [claims[c][r] EXCEPT !.superseded = p.revision]
    BY <1>3, <2>2, <2>4
  <2>6. Entry([claims[c][r] EXCEPT !.superseded = p.revision]) = Entry(claims[c][r])
    BY <2>3 DEF Revision, Entry
  <2> QED
    BY <2>2, <2>5, <2>6
<1>5. ASSUME NEW c \in Claims, c # p.claim
      PROVE  [r \in 1..LatestRev(c)' |-> Entry(claims'[c][r])] = ledger[c]
  BY <1>1, <1>4, <1>5 DEF ledger
<1>6. [r \in 1..LatestRev(p.claim)' |-> Entry(claims'[p.claim][r])]
        = Append(ledger[p.claim], Entry(p.body))
  <2> DEFINE old == ledger[p.claim]
             new == [r \in 1..p.revision |-> Entry(claims'[p.claim][r])]
  <2>1. /\ old \in Seq(Entries)
        /\ Len(old) = p.base
        /\ \A r \in 1..p.base : old[r] = Entry(claims[p.claim][r])
    BY <1>1, <1>2, LedgerIsSequences
  <2>2. Entry(p.body) \in Entries
    BY <1>1, EntryOfRevision
  <2> HIDE DEF old
  <2>3. Append(old, Entry(p.body)) = [r \in 1..p.base + 1 |-> IF r = p.base + 1 THEN Entry(p.body) ELSE old[r]]
    BY <2>1, <2>2
  <2>4. ASSUME NEW r \in 1..p.base + 1
        PROVE  Entry(claims'[p.claim][r]) = IF r = p.base + 1 THEN Entry(p.body) ELSE old[r]
    <3>1. CASE r = p.base + 1
      <4>1. r = p.revision /\ r # p.base
        BY <1>1, <3>1
      <4>2. claims'[p.claim][r] = p.body
        BY <1>1, <1>3, <4>1
      <4> QED
        BY <3>1, <4>2
    <3>2. CASE r # p.base + 1
      <4>1. r \in 1..p.base
        BY <1>1, <3>2
      <4> QED
        BY <1>1, <1>4, <2>1, <3>2, <4>1
    <3> QED
      BY <3>1, <3>2
  <2>5. new = Append(old, Entry(p.body))
    BY <1>1, <2>3, <2>4
  <2> QED
    BY <1>1, <2>5 DEF old
<1>7. ledger' = [c \in Claims |-> [r \in 1..LatestRev(c)' |-> Entry(claims'[c][r])]]
  BY DEF ledger
<1> DEFINE grown == [ledger EXCEPT ![p.claim] = Append(@, Entry(p.body))]
<1>8. grown = [c \in Claims |-> IF c = p.claim THEN Append(ledger[p.claim], Entry(p.body))
                                ELSE ledger[c]]
  BY <1>1 DEF ledger
<1>9. ASSUME NEW c \in Claims
      PROVE  [r \in 1..LatestRev(c)' |-> Entry(claims'[c][r])]
               = IF c = p.claim THEN Append(ledger[p.claim], Entry(p.body)) ELSE ledger[c]
  BY <1>5, <1>6
<1> HIDE DEF grown
<1>10. ledger' = grown
  BY <1>7, <1>8, <1>9
<1> QED
  BY <1>10 DEF grown

LEMMA LedgerInit == Init => Ledger!Init
<1> SUFFICES ASSUME Init PROVE Ledger!Init
  OBVIOUS
<1>1. \A c \in Claims : LatestRev(c) = 0
  BY InitEmpty
<1> QED
  BY <1>1 DEF ledger, Ledger!Init

LEMMA CommitIsLedgerStep ==
  ASSUME SerialInv, NEW w \in Workers, Commit(w), NEW p, p = call[w]
  PROVE  Ledger!Next
<1>1. /\ PendingSound(p) /\ JustRead(p) /\ p.claim \in Claims
      /\ p.base = LatestRev(p.claim) /\ p.base \in 0..MaxRevision
      /\ p.body \in Revision
  BY CommitExtends DEF Write
<1>2. StoreInv
  BY DEF SerialInv
<1>3. Ledger!Record(p.claim, Entry(p.body))
  BY CommitAppends DEF Ledger!Record
<1>4. /\ Len(ledger[p.claim]) = p.base
      /\ ledger[p.claim] \in Seq(Entries)
      /\ \A r \in 1..p.base : ledger[p.claim][r] = Entry(claims[p.claim][r])
  BY <1>1, <1>2, LedgerIsSequences
<1>5. CASE p.base = 0
  <2>1. ledger[p.claim] = <<>>
    BY <1>4, <1>5
  <2>2. /\ p.body.subject \in Entities
        /\ p.body.object \in Objects
        /\ p.body.by \in Provenances
    BY <1>1 DEF Revision
  <2>3. /\ p.body.evidence \in Ledger!OpeningEvidence
        /\ p.body.status \in {"Proposed"} \cup {t \in {"Observed"} : p.body.evidence # <<>>}
    BY <1>1, <1>5, EntryOfRevision DEF JustRead, Opens, Ledger!OpeningEvidence
  <2>4. Ledger!Open(p.claim, p.body.subject, p.body.object, p.body.evidence, p.body.by)
    BY <1>3, <2>3 DEF Ledger!Open, Entry
  <2> QED
    BY <1>1, <2>1, <2>2, <2>3, <2>4 DEF Ledger!Next
<1>6. CASE p.base # 0
  <2>1. Ledger!Last(p.claim) = Entry(p.previous) /\ ledger[p.claim] # <<>>
    BY <1>1, <1>4, <1>6 DEF Ledger!Last, JustRead, Latest
  <2>2. Follows(Entry(p.previous), Entry(p.body))
    BY <1>1, <1>6 DEF JustRead
  <2>3. CASE \E e \in Evidence, s \in {"Verified", "Observed", "Refuted"}, by \in Provenances :
               /\ s \in (IF e.supports THEN {"Verified", "Observed"} ELSE {"Refuted"})
               /\ Entry(p.body) = [Entry(p.previous) EXCEPT !.status = s,
                                                            !.evidence = Append(@, e),
                                                            !.by = by]
    <3>1. PICK e \in Evidence, s \in {"Verified", "Observed", "Refuted"}, by \in Provenances :
             /\ s \in (IF e.supports THEN {"Verified", "Observed"} ELSE {"Refuted"})
             /\ Entry(p.body) = [Entry(p.previous) EXCEPT !.status = s,
                                                          !.evidence = Append(@, e),
                                                          !.by = by]
      BY <2>3
    <3>2. Ledger!Decide(p.claim, s, e, by)
      BY <1>3, <2>1, <3>1 DEF Ledger!Decide
    <3> QED
      BY <1>1, <2>1, <3>2 DEF Ledger!Next
  <2>4. CASE \E by \in Provenances :
               Entry(p.body) = [Entry(p.previous) EXCEPT !.status = "Stale", !.by = by]
    <3>1. PICK by \in Provenances :
             Entry(p.body) = [Entry(p.previous) EXCEPT !.status = "Stale", !.by = by]
      BY <2>4
    <3>2. Ledger!Doubt(p.claim, by)
      BY <1>3, <2>1, <3>1 DEF Ledger!Doubt
    <3> QED
      BY <1>1, <2>1, <3>2 DEF Ledger!Next
  <2>5. CASE /\ ~HasRelation(Entry(p.previous).object)
             /\ \E object \in Entities, by \in Provenances :
                  Entry(p.body) = [Entry(p.previous) EXCEPT !.object = object, !.by = by]
    <3>1. PICK object \in Entities, by \in Provenances :
             Entry(p.body) = [Entry(p.previous) EXCEPT !.object = object, !.by = by]
      BY <2>5
    <3>2. Ledger!Last(p.claim).object \in {o \in Objects : ~HasRelation(o)}
      <4>1. p.previous \in Revision
        BY <1>1, <1>6 DEF PendingSound
      <4> QED
        BY <2>1, <2>5, <4>1 DEF Entry, Revision
    <3>3. Ledger!Relate(p.claim, object, by)
      BY <1>3, <2>1, <3>1, <3>2 DEF Ledger!Relate
    <3> QED
      BY <1>1, <2>1, <3>3 DEF Ledger!Next
  <2> QED
    BY <2>2, <2>3, <2>4, <2>5 DEF Follows
<1> QED
  BY <1>5, <1>6

(* Behind a lock per claim id the store is the ledger it promises: every   *)
(* call takes one of the ledger's steps on one claim, or none.             *)
THEOREM StoreImplementsLedger == SerialSpec => ImplementsLedger
<1>1. SerialInv /\ [Next /\ NoOverlap']_vars => [Ledger!Next]_ledger
  <2> SUFFICES ASSUME SerialInv, [Next]_vars PROVE [Ledger!Next]_ledger
    OBVIOUS
  <2>1. ASSUME UNCHANGED tables PROVE ledger' = ledger
    BY <2>1 DEF tables, ledger, LatestRev
  <2>2. ASSUME NEW w \in Workers, Commit(w) PROVE Ledger!Next
    BY <2>2, CommitIsLedgerStep
  <2>3. StoreInv
    BY DEF SerialInv
  <2> QED
    BY <2>1, <2>2, <2>3, CallLeavesTables DEF Next, Crash, vars, tables
<1> QED
  BY <1>1, LedgerInit, SerialInvariant, PTL DEF SerialSpec, ImplementsLedger, Ledger!Spec

-----------------------------------------------------------------------------
(* The history of a claim as an account of what was done to it. *)

(* Every revision follows from the one before it by one step of the ledger. *)
HistoryFollows ==
  \A c \in Claims : \A r \in Revisions :
    r < LatestRev(c) => Follows(Entry(claims[c][r]), Entry(claims[c][r + 1]))

(* What a later revision still has of an earlier one. *)
Builds(from, to) ==
  /\ to.subject = from.subject
  /\ HasRelation(from.object) => to.object = from.object
  /\ Len(from.evidence) =< Len(to.evidence)
  /\ \A i \in DOMAIN from.evidence : to.evidence[i] = from.evidence[i]

EvidenceIsKept ==
  \A c \in Claims : \A q, r \in Revisions :
    q =< r /\ r =< LatestRev(c) => Builds(claims[c][q], claims[c][r])

LEMMA CommitFollows ==
  ASSUME SerialInv, HistoryFollows, NEW w \in Workers, Commit(w)
  PROVE  HistoryFollows'
<1>1. PICK p : p = call[w]
  OBVIOUS
<1>2. /\ p \in Write /\ PendingSound(p) /\ JustRead(p) /\ p.claim \in Claims
      /\ p.base = LatestRev(p.claim) /\ p.base \in 0..MaxRevision
      /\ p.revision = p.base + 1 /\ p.revision \in Revisions
      /\ \A c \in Claims : LatestRev(c)' = IF c = p.claim THEN p.revision ELSE LatestRev(c)
      /\ \A c \in Claims : \A r \in Revisions :
           claims'[c][r] = IF c # p.claim THEN claims[c][r]
                           ELSE IF r = p.base THEN [claims[c][r] EXCEPT !.superseded = p.revision]
                           ELSE IF r = p.revision THEN p.body
                           ELSE claims[c][r]
  BY <1>1, CommitExtends
<1>3. StoreInv /\ \A c \in Claims : LatestRev(c) \in 0..MaxRevision
  BY DEF SerialInv, StoreInv, Contiguous, UpTo
<1> SUFFICES ASSUME NEW c \in Claims, NEW r \in Revisions, r < LatestRev(c)'
             PROVE  Follows(Entry(claims'[c][r]), Entry(claims'[c][r + 1]))
  BY DEF HistoryFollows, Follows, Entry
<1>4. r \in Nat /\ r # 0 /\ r + 1 \in Revisions
  BY <1>2, <1>3, BoundAssumption DEF Revisions
<1>5. CASE c # p.claim
  <2>1. claims'[c][r] = claims[c][r] /\ claims'[c][r + 1] = claims[c][r + 1]
        /\ r < LatestRev(c)
    BY <1>2, <1>4, <1>5
  <2> QED
    BY <2>1 DEF HistoryFollows
<1>6. CASE c = p.claim /\ r = p.base
  <2>1. claims'[c][r + 1] = p.body
    <3>1. PICK n \in Revisions : n = r + 1 /\ n = p.revision /\ n # p.base
      BY <1>2, <1>4, <1>6
    <3>2. claims'[c][n] = p.body
      BY <1>2, <1>6, <3>1
    <3> QED
      BY <3>1, <3>2
  <2>2. claims'[c][r] = [claims[c][r] EXCEPT !.superseded = p.revision] /\ p.revision \in 0..MaxRevision
    BY <1>2, <1>4, <1>6 DEF Revisions
  <2>3. p.previous = claims[c][r] /\ claims[c][r] \in Revision
        /\ Follows(Entry(p.previous), Entry(p.body))
    BY <1>2, <1>4, <1>6 DEF JustRead, PendingSound, Latest
  <2>4. Entry(claims'[c][r]) = Entry(claims[c][r])
    BY <2>2, <2>3 DEF Entry, Revision
  <2> QED
    BY <2>1, <2>3, <2>4
<1>7. CASE c = p.claim /\ r # p.base
  <2>1. r < p.base /\ r # p.revision /\ r + 1 # p.revision
    BY <1>2, <1>4, <1>7
  <2>2. claims'[c][r] = claims[c][r] /\ r < LatestRev(c)
    BY <1>2, <1>7, <2>1
  <2>3. Entry(claims'[c][r + 1]) = Entry(claims[c][r + 1])
    <3>1. CASE r + 1 # p.base
      <4>1. claims'[c][r + 1] = claims[c][r + 1]
        BY <1>2, <1>4, <1>7, <2>1, <3>1
      <4> QED
        BY <4>1
    <3>2. CASE r + 1 = p.base
      <4>1. claims'[c][r + 1] = [claims[c][r + 1] EXCEPT !.superseded = p.revision]
        BY <1>2, <1>4, <1>7, <3>2
      <4>2. Stored(c, r + 1)
        BY <1>2, <1>3, <1>4, <1>7, <3>2 DEF StoreInv, Contiguous, UpTo, Stored
      <4>3. claims[c][r + 1] \in Revision
        BY <1>3, <1>4, <4>2, StoredIsRevision
      <4> QED
        BY <4>1, <4>3 DEF Entry, Revision
    <3> QED
      BY <3>1, <3>2
  <2> QED
    BY <2>2, <2>3 DEF HistoryFollows
<1> QED
  BY <1>5, <1>6, <1>7

(* With one call at a time on each claim, history() is a full account of   *)
(* what was done: each revision is the one before it, decided with one     *)
(* piece of evidence that fits, doubted, or given its relation.            *)
THEOREM HistoryIsAnAccount == SerialSpec => []HistoryFollows
<1>1. Init => HistoryFollows
  BY InitEmpty DEF HistoryFollows, Revisions
<1>2. SerialInv /\ HistoryFollows /\ [Next /\ NoOverlap']_vars => HistoryFollows'
  <2> SUFFICES ASSUME SerialInv, HistoryFollows, [Next]_vars PROVE HistoryFollows'
    OBVIOUS
  <2>1. ASSUME UNCHANGED tables PROVE HistoryFollows'
    BY <2>1 DEF tables, HistoryFollows, LatestRev
  <2>2. ASSUME NEW w \in Workers, Commit(w) PROVE HistoryFollows'
    BY <2>2, CommitFollows
  <2>3. StoreInv
    BY DEF SerialInv
  <2> QED
    BY <2>1, <2>2, <2>3, CallLeavesTables DEF Next, Crash, vars, tables
<1> QED
  BY <1>1, <1>2, SerialInvariant, PTL DEF SerialSpec

LEMMA FollowsBuilds ==
  ASSUME NEW from \in Entries, NEW to \in Entries, Follows(from, to)
  PROVE  Builds(from, to)
<1>1. to.subject = from.subject /\ (HasRelation(from.object) => to.object = from.object)
  BY FollowsKeepsObject
<1>2. from.evidence \in Seq(Evidence)
  BY DEF Entries
<1>3. to.evidence = from.evidence \/ \E e \in Evidence : to.evidence = Append(from.evidence, e)
  BY DEF Follows, Entries
<1>4. /\ Len(from.evidence) =< Len(to.evidence)
      /\ \A i \in DOMAIN from.evidence : to.evidence[i] = from.evidence[i]
  BY <1>2, <1>3
<1> QED
  BY <1>1, <1>4 DEF Builds

(* "Nothing is overwritten" (store.rs) goes for what a claim says, too:    *)
(* whatever was decided since, a later revision is about the same subject, *)
(* has the relation the claim was given, and shows all the evidence of     *)
(* every earlier one, in its place.                                        *)
THEOREM EvidenceAccumulates == SerialSpec => []EvidenceIsKept
<1>1. SerialInv /\ HistoryFollows => EvidenceIsKept
  <2> SUFFICES ASSUME SerialInv, HistoryFollows, NEW c \in Claims, NEW q \in Revisions,
                      NEW r \in Revisions, q =< r, r =< LatestRev(c)
               PROVE  Builds(claims[c][q], claims[c][r])
    BY DEF EvidenceIsKept
  <2> DEFINE top == LatestRev(c) - q
             T == {k \in 0..top : Builds(claims[c][q], claims[c][q + k])}
  <2>1. /\ LatestRev(c) \in 0..MaxRevision /\ MaxRevision \in Nat
        /\ q \in Nat /\ r \in Nat /\ q # 0 /\ top \in Nat /\ r - q \in 0..top
    BY BoundAssumption DEF SerialInv, StoreInv, Contiguous, UpTo, Revisions
  <2>2. ASSUME NEW k \in 0..top PROVE q + k \in Revisions /\ claims[c][q + k] \in Revision
    <3>1. q + k \in Revisions /\ q + k =< LatestRev(c)
      BY <2>1 DEF Revisions
    <3>2. StoreInv /\ Stored(c, q + k)
      BY <3>1 DEF SerialInv, StoreInv, Contiguous, UpTo, Stored
    <3> QED
      BY <3>1, <3>2, StoredIsRevision
  <2> HIDE DEF top
  <2>3. 0 \in T
    <3>1. claims[c][q + 0] = claims[c][q] /\ claims[c][q] \in Revision
      BY <2>1, <2>2
    <3>2. claims[c][q].evidence \in Seq(Evidence)
      BY <3>1 DEF Revision
    <3>3. Builds(claims[c][q], claims[c][q])
      BY <3>2 DEF Builds
    <3> QED
      BY <2>1, <3>1, <3>3
  <2>4. ASSUME NEW k \in 0..top-1, k \in T PROVE k + 1 \in T
    <3>1. k \in 0..top /\ k + 1 \in 0..top /\ q + (k + 1) = (q + k) + 1
          /\ q + k < LatestRev(c)
      BY <2>1, <2>4 DEF top
    <3>2. PICK x, y, z : /\ x = claims[c][q] /\ y = claims[c][q + k]
                         /\ z = claims[c][(q + k) + 1]
      OBVIOUS
    <3>3. x \in Revision /\ y \in Revision /\ z \in Revision
      <4>1. 0 \in 0..top /\ q + 0 = q
        BY <2>1
      <4> QED
        BY <2>2, <3>1, <3>2, <4>1
    <3>4. Follows(Entry(y), Entry(z)) /\ Builds(x, y)
      BY <2>2, <2>4, <3>1, <3>2 DEF HistoryFollows
    <3>5. Builds(y, z)
      <4>1. Entry(y) \in Entries /\ Entry(z) \in Entries
        BY <3>3, EntryOfRevision
      <4>2. Builds(Entry(y), Entry(z))
        BY <3>4, <4>1, FollowsBuilds
      <4> QED
        BY <3>3, <4>2, EntryOfRevision DEF Builds
    <3>6. Builds(x, z)
      <4>1. x.evidence \in Seq(Evidence) /\ y.evidence \in Seq(Evidence)
            /\ z.evidence \in Seq(Evidence)
        BY <3>3 DEF Revision
      <4>2. DOMAIN x.evidence \subseteq DOMAIN y.evidence
        BY <3>4, <4>1 DEF Builds
      <4>3. Len(x.evidence) =< Len(z.evidence)
        BY <3>4, <3>5, <4>1 DEF Builds
      <4> QED
        BY <3>4, <3>5, <4>2, <4>3 DEF Builds
    <3> QED
      BY <3>1, <3>2, <3>6
  <2> HIDE DEF T
  <2>5. r - q \in T
    BY <2>1, <2>3, <2>4, CountingUp
  <2>6. q + (r - q) = r
    BY <2>1
  <2> QED
    BY <2>5, <2>6 DEF T
<1> QED
  BY <1>1, SerialInvariant, HistoryIsAnAccount, PTL
=============================================================================
