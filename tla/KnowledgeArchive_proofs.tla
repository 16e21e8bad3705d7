----------------------- MODULE KnowledgeArchive_proofs -----------------------
(***************************************************************************)
(* Proofs about KnowledgeArchive, for any claims, callers and bounds.      *)
(* ArchiveInv is inductive: the source store is the serial one of          *)
(* KnowledgeSerial_proofs, so that trails in an export keep agreeing with  *)
(* it whatever is written meanwhile; what an import has not skipped is in  *)
(* the target as it was recorded; and the target's indexes are exact.      *)
(***************************************************************************)
EXTENDS KnowledgeArchive, KnowledgeSerial_proofs

Item == [claim : Claims, revision : Revisions, body : Revision]

-----------------------------------------------------------------------------
(* Archives. *)

(* The item at i takes its place in the one trail of its claim. *)
InPlace(a, i) ==
  LET c == a[i].claim
      r == a[i].revision
  IN /\ IF r = 1 THEN \A j \in 1..(i - 1) : a[j].claim # c
        ELSE i > 1 /\ a[i - 1].claim = c /\ a[i - 1].revision = r - 1
     /\ a[i].body.superseded = (IF LastOf(a, i) THEN 0 ELSE r + 1)
     /\ LastOf(a, i) =>
          \A j \in (i + 1)..Len(a) : a[j].claim # c
     /\ \A q \in 1..r : \E j \in 1..i : a[j].claim = c /\ a[j].revision = q

(* ... and agrees with the source. *)
Recorded(a, i) ==
  /\ a[i].revision =< LatestRev(a[i].claim)
  /\ Entry(a[i].body) = Entry(claims[a[i].claim][a[i].revision])

GoodArchive(a) ==
  /\ a \in Seq(Item)
  /\ \A i \in DOMAIN a : InPlace(a, i) /\ Recorded(a, i)

-----------------------------------------------------------------------------
(* The export under way. *)

(* A claim is still to be walked, is in the batch, has been found, has     *)
(* been written out, or its status was lost to a failed read.              *)
Found(x, c) ==
  \/ \E j \in DOMAIN x.left : x.left[j] = Latest(c).status
  \/ c \in x.batch /\ x.status = Latest(c).status
  \/ c \in x.ids
  \/ \A r \in 1..LatestRev(c) : \E i \in DOMAIN x.out : x.out[i] = Trail(c)[r]
  \/ Latest(c).status \in x.lost

(* What a failed read gives up has the status that was being read.         *)
OfStatus(x, c) == c \in x.before \/ Latest(c).status = x.status

Exports ==
  [left : Seq(Statuses), batch : SUBSET Claims, status : Statuses \cup {"none"},
   ids : SUBSET Claims, before : SUBSET Claims, out : Seq(Item),
   known : SUBSET Claims, quiet : BOOLEAN, lost : SUBSET Statuses]

GoodExport(x) ==
  /\ x \in Exports
  /\ GoodArchive(x.out)
  /\ x.out # <<>> => x.left = <<>> /\ x.batch = {}
  /\ \A i \in DOMAIN x.out : x.out[i].claim \notin x.ids
  /\ x.batch # {} => x.status \in Statuses
  /\ x.quiet => \A c \in Claims : Exists(c) => Found(x, c)
  /\ x.quiet => \A c \in Claims : c \in x.ids => OfStatus(x, c)

-----------------------------------------------------------------------------
(* The target and the import under way. *)

TargetInv ==
  /\ Target!TablesTypeOK
  /\ \A c \in Claims : UpTo(tClaims[c], Target!LatestRev(c))
  /\ \A c \in Claims, s \in Statuses :
       c \in tStatus[s] <=> Target!Exists(c) /\ Target!Latest(c).status = s
  /\ \A c \in Claims, e \in Entities :
       c \in tObject[e] <=> \E r \in Revisions : /\ tClaims[c][r] # Absent
                                                 /\ e \in PointsAt(tClaims[c][r].object)
  /\ \A c \in Claims, e \in Entities :
       c \in tSubject[e] <=> \E r \in Revisions : /\ tClaims[c][r] # Absent
                                                  /\ tClaims[c][r].subject = e

Imports == [done : Nat, skipped : SUBSET Claims]

GoodImport(x) ==
  /\ x \in Imports
  /\ x.done =< Len(archive)
  /\ \A i \in 1..x.done :
       archive[i].claim \notin x.skipped =>
         /\ tClaims[archive[i].claim][archive[i].revision] = archive[i].body
         /\ i = x.done \/ LastOf(archive, i) =>
              Target!LatestRev(archive[i].claim) = archive[i].revision

ArchiveInv ==
  /\ SerialInv
  /\ TargetInv
  /\ export # None => GoodExport(export)
  /\ archive # None => GoodArchive(archive)
  /\ import # None => GoodArchive(archive) /\ GoodImport(import)

-----------------------------------------------------------------------------
(* What history() returns is fit for an archive. *)

LEMMA TrailItems ==
  ASSUME SerialInv, NEW c \in Claims
  PROVE  /\ LatestRev(c) \in Nat
         /\ Trail(c) \in Seq(Item)
         /\ Len(Trail(c)) = LatestRev(c)
         /\ \A r \in 1..LatestRev(c) :
              /\ Trail(c)[r].claim = c /\ Trail(c)[r].revision = r
              /\ Trail(c)[r].body = claims[c][r]
              /\ claims[c][r].superseded = (IF r = LatestRev(c) THEN 0 ELSE r + 1)
<1> DEFINE n == LatestRev(c)
<1>1. StoreInv
  BY DEF SerialInv
<1>2. n \in 0..MaxRevision /\ UpTo(claims[c], n)
  BY <1>1 DEF StoreInv, Contiguous, UpTo
<1>3. n \in Nat
  BY <1>2, BoundAssumption
<1>4. ASSUME NEW r \in 1..n
      PROVE  /\ r \in Revisions /\ Stored(c, r) /\ claims[c][r] \in Revision
             /\ claims[c][r].superseded = (IF r = n THEN 0 ELSE r + 1)
  <2>1. r \in Revisions /\ Stored(c, r)
    BY <1>2, BoundAssumption DEF UpTo, Revisions, Stored
  <2>2. claims[c][r] \in Revision
    BY <1>1, <2>1, StoredIsRevision
  <2>3. claims[c][r].superseded = (IF r = n THEN 0 ELSE r + 1)
    BY <1>1, <2>1 DEF StoreInv, LinksForward, SerialInv, OneLiveRevision
  <2> QED
    BY <2>1, <2>2, <2>3
<1>5. Trail(c) = [r \in 1..n |-> [claim |-> c, revision |-> r, body |-> claims[c][r]]]
  BY DEF Trail
<1>6. \A r \in 1..n : [claim |-> c, revision |-> r, body |-> claims[c][r]] \in Item
  BY <1>4 DEF Item
<1>7. Trail(c) \in [1..n -> Item]
  BY <1>5, <1>6
<1>8. Trail(c) \in Seq(Item) /\ Len(Trail(c)) = n
  BY <1>3, <1>7, SeqDef, LenProperties
<1> QED
  BY <1>3, <1>4, <1>5, <1>8

LEMMA LatestBounds ==
  ASSUME SerialInv, NEW c \in Claims
  PROVE  LatestRev(c) \in Nat /\ LatestRev(c) =< MaxRevision
BY BoundAssumption DEF SerialInv, StoreInv, Contiguous, UpTo

(* A trail put at the end of an archive that has nothing of the claim.     *)
LEMMA TrailAppended ==
  ASSUME SerialInv, NEW c \in Claims, NEW a, GoodArchive(a),
         \A i \in DOMAIN a : a[i].claim # c
  PROVE  /\ GoodArchive(a \o Trail(c))
         /\ \A i \in DOMAIN a : i \in DOMAIN (a \o Trail(c)) /\ (a \o Trail(c))[i] = a[i]
         /\ \A r \in 1..LatestRev(c) :
              \E i \in DOMAIN (a \o Trail(c)) : (a \o Trail(c))[i] = Trail(c)[r]
         /\ \A i \in DOMAIN (a \o Trail(c)) :
              \/ i \in DOMAIN a /\ (a \o Trail(c))[i] = a[i]
              \/ (a \o Trail(c))[i].claim = c
<1> DEFINE t == Trail(c)
           b == a \o t
           m == Len(a)
           n == LatestRev(c)
<1>1. /\ n \in Nat /\ t \in Seq(Item) /\ Len(t) = n
      /\ \A r \in 1..n : /\ t[r].claim = c /\ t[r].revision = r
                         /\ t[r].body = claims[c][r]
                         /\ claims[c][r].superseded = (IF r = n THEN 0 ELSE r + 1)
  BY TrailItems
<1>2. a \in Seq(Item) /\ m \in Nat /\ DOMAIN a = 1..m
  BY DEF GoodArchive
<1>3. /\ b \in Seq(Item) /\ Len(b) = m + n
      /\ \A i \in 1..(m + n) : b[i] = IF i =< m THEN a[i] ELSE t[i - m]
  <2>1. b \in Seq(Item) /\ Len(b) = Len(a) + Len(t)
        /\ \A i \in 1..(Len(a) + Len(t)) : b[i] = IF i =< Len(a) THEN a[i] ELSE t[i - Len(a)]
    <3>1. /\ a \o t \in Seq(Item) /\ Len(a \o t) = Len(a) + Len(t)
          /\ \A i \in 1..(Len(a) + Len(t)) :
               (a \o t)[i] = IF i =< Len(a) THEN a[i] ELSE t[i - Len(a)]
      <4>1. t \in Seq(Item) /\ a \in Seq(Item)
        BY <1>1, <1>2
      <4> HIDE DEF t, m, n, b
      <4>2. \A S : \A s1 \in Seq(S), s2 \in Seq(S) :
              /\ s1 \o s2 \in Seq(S)
              /\ Len(s1 \o s2) = Len(s1) + Len(s2)
              /\ \A i \in 1..(Len(s1) + Len(s2)) :
                   (s1 \o s2)[i] = IF i =< Len(s1) THEN s1[i] ELSE s2[i - Len(s1)]
        BY ConcatProperties
      <4> QED
        BY <4>1, <4>2
    <3> QED
      BY <3>1
  <2> QED
    BY <1>1, <2>1
<1>4. DOMAIN b = 1..(m + n)
  BY <1>3, LenProperties
<1> HIDE DEF t, b, m, n
<1>5. \A i \in 1..m : b[i] = a[i] /\ i \in 1..(m + n) /\ a[i].claim # c
  <2> SUFFICES ASSUME NEW i \in 1..m
               PROVE  b[i] = a[i] /\ i \in 1..(m + n) /\ a[i].claim # c
    OBVIOUS
  <2>1. i \in 1..(m + n) /\ i =< m /\ i \in DOMAIN a
    BY <1>1, <1>2
  <2> QED
    BY <1>3, <2>1
<1>6. \A r \in 1..n : /\ m + r \in 1..(m + n) /\ b[m + r] = t[r]
                      /\ b[m + r].claim = c /\ b[m + r].revision = r
                      /\ b[m + r].body = claims[c][r]
  <2> SUFFICES ASSUME NEW r \in 1..n
               PROVE  m + r \in 1..(m + n) /\ b[m + r] = t[r]
    BY <1>1
  <2>1. m + r \in 1..(m + n) /\ ~(m + r =< m) /\ (m + r) - m = r
    BY <1>1, <1>2
  <2> QED
    BY <1>3, <2>1
<1>7. \A i \in 1..(m + n) : i \in 1..m \/ \E r \in 1..n : i = m + r
  <2> SUFFICES ASSUME NEW i \in 1..(m + n), ~(i \in 1..m) PROVE \E r \in 1..n : i = m + r
    OBVIOUS
  <2>1. i - m \in 1..n /\ i = m + (i - m)
    BY <1>1, <1>2
  <2> QED
    BY <2>1
<1>8. ASSUME NEW i \in 1..m PROVE InPlace(b, i) /\ Recorded(b, i)
  <2>1. InPlace(a, i) /\ Recorded(a, i)
    BY <1>2 DEF GoodArchive
  <2>2. b[i] = a[i] /\ a[i].claim # c /\ i \in Nat /\ i >= 1 /\ i =< m
    BY <1>5
  <2>3. LastOf(b, i) <=> LastOf(a, i)
    <3>1. CASE i = m
      <4>1. n # 0 => b[i + 1].claim = c
        BY <1>1, <1>6, <3>1
      <4>2. LastOf(a, i)
        BY <3>1 DEF LastOf, m
      <4> QED
        BY <1>1, <1>2, <1>3, <2>2, <3>1, <4>1, <4>2 DEF LastOf
    <3>2. CASE i # m
      <4>1. i + 1 \in 1..m
        BY <1>2, <2>2, <3>2
      <4>2. b[i + 1] = a[i + 1] /\ i # m + n
        BY <1>1, <1>2, <1>5, <2>2, <3>2, <4>1
      <4> QED
        BY <1>3, <2>2, <3>2, <4>2 DEF LastOf, m
    <3> QED
      BY <3>1, <3>2
  <2>4. \A j \in 1..i : b[j] = a[j]
    BY <1>2, <1>5, <2>2
  <2>5. \A j \in 1..(i - 1) : b[j] = a[j]
    BY <1>2, <1>5, <2>2
  <2>6. i > 1 => b[i - 1] = a[i - 1]
    BY <1>2, <1>5, <2>2
  <2>7. ASSUME LastOf(a, i), NEW j \in (i + 1)..Len(b) PROVE b[j].claim # a[i].claim
    <3>1. CASE j \in 1..m
      BY <1>5, <2>1, <2>7, <3>1 DEF InPlace, m
    <3>2. CASE ~(j \in 1..m)
      <4>1. j \in 1..(m + n)
        BY <1>1, <1>2, <1>3, <2>2
      <4> QED
        BY <1>6, <1>7, <2>2, <3>2, <4>1
    <3> QED
      BY <3>1, <3>2
  <2>8. Recorded(b, i)
    BY <2>1, <2>2 DEF Recorded
  <2>9. InPlace(b, i)
    BY <2>1, <2>2, <2>3, <2>4, <2>5, <2>6, <2>7 DEF InPlace
  <2> QED
    BY <2>8, <2>9
<1>9. ASSUME NEW r \in 1..n PROVE InPlace(b, m + r) /\ Recorded(b, m + r)
  <2>1. /\ b[m + r].claim = c /\ b[m + r].revision = r /\ b[m + r].body = claims[c][r]
        /\ m + r \in Nat /\ r \in Nat /\ r >= 1 /\ r =< n /\ m + r >= 1
    BY <1>1, <1>2, <1>6
  <2>2. LastOf(b, m + r) <=> r = n
    <3>1. m + r = m + n <=> r = n
      BY <1>1, <1>2
    <3>2. r # n => b[(m + r) + 1].claim = c
      <4> SUFFICES ASSUME r # n PROVE b[(m + r) + 1].claim = c
        OBVIOUS
      <4>0. n \in Nat /\ m \in Nat /\ r \in Nat
        BY <1>1, <1>2, <2>1
      <4>1. r + 1 \in 1..n /\ (m + r) + 1 = m + (r + 1)
        BY <4>0
      <4>2. PICK q \in 1..n : q = r + 1
        BY <4>1
      <4>3. b[m + q].claim = c /\ m + q = (m + r) + 1
        BY <1>6, <4>1, <4>2
      <4> QED
        BY <4>3, Zenon
    <3> QED
      BY <1>3, <2>1, <3>1, <3>2 DEF LastOf
  <2>3. ASSUME r = 1, NEW j \in 1..((m + r) - 1) PROVE b[j].claim # c
    <3>1. j \in 1..m
      BY <1>2, <2>1, <2>3
    <3> QED
      BY <1>5, <3>1
  <2>4. ASSUME r # 1
        PROVE  /\ m + r > 1
               /\ b[(m + r) - 1].claim = c /\ b[(m + r) - 1].revision = r - 1
    <3>1. r - 1 \in 1..n /\ (m + r) - 1 = m + (r - 1) /\ m + r > 1
      BY <1>1, <1>2, <2>1, <2>4
    <3> QED
      BY <1>6, <3>1
  <2>5. b[m + r].body.superseded = (IF LastOf(b, m + r) THEN 0 ELSE r + 1)
    BY <1>1, <2>1, <2>2
  <2>6. ASSUME r = n, NEW j \in ((m + r) + 1)..Len(b) PROVE b[j].claim # c
    BY <1>1, <1>2, <1>3, <2>6
  <2>8. ASSUME NEW q \in 1..r
        PROVE  \E j \in 1..(m + r) : b[j].claim = c /\ b[j].revision = q
    <3>1. q \in 1..n /\ m + q \in 1..(m + r)
      BY <1>1, <1>2, <2>1
    <3> QED
      BY <1>6, <3>1
  <2>9. Recorded(b, m + r)
    BY <2>1 DEF Recorded, n
  <2>10. InPlace(b, m + r)
    BY <2>1, <2>2, <2>3, <2>4, <2>5, <2>6, <2>8 DEF InPlace
  <2> QED
    BY <2>9, <2>10
<1>10. GoodArchive(b)
  BY <1>3, <1>4, <1>7, <1>8, <1>9 DEF GoodArchive
<1>11. \A i \in DOMAIN a : i \in DOMAIN b /\ b[i] = a[i]
  BY <1>2, <1>4, <1>5
<1>12. \A r \in 1..n : \E i \in DOMAIN b : b[i] = t[r]
  BY <1>4, <1>6
<1>13. \A i \in DOMAIN b : (i \in DOMAIN a /\ b[i] = a[i]) \/ b[i].claim = c
  BY <1>2, <1>4, <1>5, <1>6, <1>7
<1> QED
  BY <1>10, <1>11, <1>12, <1>13 DEF b, t, n

-----------------------------------------------------------------------------
(* The source goes on. *)

LEMMA StepUsesSource == ArchiveNext => Next \/ UNCHANGED vars
BY DEF ArchiveNext, Serve, ServeCommit, BeginExport, ReadIndex, ReadLatest, ReadFails,
       ReadHistory, HistoryFails,
       EndExport, BeginImport, Skip, Restore, EndImport, ExporterCrash, ImporterCrash,
       Next, vars, tables

(* The source before and after a step: trails keep what they say. *)
SourceStep ==
  /\ SerialInv /\ SerialInv'
  /\ \A c \in Claims : \A r \in 1..LatestRev(c) :
       r =< LatestRev(c)' /\ Entry(claims'[c][r]) = Entry(claims[c][r])

LEMMA SourceSteps ==
  ASSUME SerialInv, ArchiveNext, NoOverlap'
  PROVE  SourceStep
<1>1. Next \/ UNCHANGED vars
  BY StepUsesSource
<1>2. SerialInv'
  BY <1>1, NextSerial DEF vars
<1>3. ASSUME NEW c \in Claims, NEW r \in 1..LatestRev(c)
      PROVE  r =< LatestRev(c)' /\ Entry(claims'[c][r]) = Entry(claims[c][r])
  <2>1. CASE UNCHANGED vars
    <3>1. LatestRev(c)' = LatestRev(c) /\ LatestRev(c) \in Nat
      BY <2>1, LatestBounds DEF vars, LatestRev
    <3> QED
      BY <2>1, <3>1 DEF vars
  <2>2. CASE Next
    <3>1. LatestRev(c) \in 0..MaxRevision /\ UpTo(claims[c], LatestRev(c))
      BY DEF SerialInv, StoreInv, Contiguous, UpTo
    <3>2. LatestRev(c)' \in 0..MaxRevision /\ UpTo(claims'[c], LatestRev(c)')
      BY <1>2 DEF SerialInv, StoreInv, Contiguous, UpTo
    <3>3. r \in Revisions /\ Stored(c, r)
      BY <3>1, BoundAssumption DEF UpTo, Revisions, Stored
    <3>4. Stored(c, r)' /\ Entry(claims[c][r])' = Entry(claims[c][r])
      BY <2>2, <3>3, StepKeepsEntries DEF Kept
    <3> QED
      BY <3>2, <3>3, <3>4 DEF UpTo, Stored, Entry
  <2> QED
    BY <1>1, <2>1, <2>2
<1> QED
  BY <1>2, <1>3 DEF SourceStep

LEMMA ArchiveKeeps ==
  ASSUME SourceStep, NEW a, GoodArchive(a)
  PROVE  \A i \in DOMAIN a :
           /\ InPlace(a, i)
           /\ a[i].revision =< LatestIn(claims'[a[i].claim])
           /\ Entry(a[i].body) = Entry(claims'[a[i].claim][a[i].revision])
<1> SUFFICES ASSUME NEW i \in DOMAIN a
             PROVE  /\ InPlace(a, i)
                    /\ a[i].revision =< LatestIn(claims'[a[i].claim])
                    /\ Entry(a[i].body) = Entry(claims'[a[i].claim][a[i].revision])
  OBVIOUS
<1>1. InPlace(a, i) /\ Recorded(a, i) /\ a[i] \in Item
  BY DEF GoodArchive
<1>2. a[i].claim \in Claims /\ a[i].revision \in Revisions
  BY <1>1 DEF Item
<1>3. a[i].revision \in 1..LatestRev(a[i].claim)
  BY <1>1, <1>2, LatestBounds, BoundAssumption DEF SourceStep, Recorded, Revisions
<1> QED
  BY <1>1, <1>2, <1>3 DEF SourceStep, Recorded, LatestRev

(* What has become of an archive, an export, an import and the target when *)
(* a step has not touched them.                                            *)
LEMMA ArchiveStays ==
  ASSUME SourceStep, NEW a, GoodArchive(a), archive' = a
  PROVE  GoodArchive(archive)'
<1>1. archive' \in Seq(Item)
  BY DEF GoodArchive
<1>2. ASSUME NEW i \in DOMAIN a PROVE InPlace(archive', i)
  BY <1>2, ArchiveKeeps
<1>3. ASSUME NEW i \in DOMAIN a
      PROVE  /\ archive'[i].revision =< LatestIn(claims'[archive'[i].claim])
             /\ Entry(archive'[i].body) = Entry(claims'[archive'[i].claim][archive'[i].revision])
  BY <1>3, ArchiveKeeps
<1>4. \A i \in DOMAIN a : InPlace(archive, i)'
  BY <1>2 DEF InPlace, LastOf
<1>5. \A i \in DOMAIN a : Recorded(archive, i)'
  BY <1>3 DEF Recorded, LatestRev, Entry
<1> QED
  BY <1>1, <1>4, <1>5 DEF GoodArchive

LEMMA ExportStays ==
  ASSUME NEW x, GoodExport(x), UNCHANGED tables, export' = x
  PROVE  GoodExport(export)'
<1>1. GoodArchive(x.out) => GoodArchive(export.out)'
  <2>1. ASSUME NEW a, GoodArchive(a), export'.out = a PROVE GoodArchive(export.out)'
    <3>1. \A i \in DOMAIN a : InPlace(export.out, i)'
      BY <2>1 DEF GoodArchive, InPlace, LastOf
    <3>2. \A i \in DOMAIN a : Recorded(export.out, i)'
      BY <2>1 DEF GoodArchive, Recorded, LatestRev, Entry, tables
    <3> QED
      BY <2>1, <3>1, <3>2 DEF GoodArchive
  <2> QED
    BY <2>1
<1>2. \A c \in Claims : Found(x, c) <=> Found(export, c)'
  BY DEF Found, Trail, Latest, LatestRev, tables
<1>3. \A c \in Claims : Exists(c) <=> Exists(c)'
  BY DEF Exists, LatestRev, tables
<1>4. \A c \in Claims : OfStatus(x, c) <=> OfStatus(export, c)'
  BY DEF OfStatus, Latest, LatestRev, tables
<1> QED
  BY <1>1, <1>2, <1>3, <1>4 DEF GoodExport

LEMMA ImportStays ==
  ASSUME NEW x, GoodImport(x), UNCHANGED <<tTables, archive>>, import' = x
  PROVE  GoodImport(import)'
BY DEF GoodImport, LastOf, tTables, Target!LatestRev

LEMMA TargetStays ==
  ASSUME TargetInv, UNCHANGED tTables
  PROVE  TargetInv'
BY DEF TargetInv, tTables, Target!TablesTypeOK, Target!LatestRev, Target!Latest, Target!Exists

-----------------------------------------------------------------------------
(* export *)

LEMMA NothingIsGood == GoodArchive(<<>>)
BY DEF GoodArchive

LEMMA BeginExportIsGood ==
  ASSUME ArchiveInv, BeginExport
  PROVE  GoodExport(export)'
<1>1. export' = [left |-> AllStatuses, batch |-> {}, status |-> "none", ids |-> {},
                 before |-> {}, out |-> <<>>,
                 known |-> {c \in Claims : Exists(c)}, quiet |-> TRUE, lost |-> {}]
  BY DEF BeginExport
<1>2. AllStatuses \in Seq(Statuses)
  BY DEF AllStatuses, Statuses
<1>3. /\ export' \in Exports /\ export'.left = AllStatuses
      /\ export'.out = <<>> /\ export'.batch = {} /\ export'.ids = {}
  BY <1>1, <1>2 DEF Exports
<1>4. ASSUME NEW c \in Claims, Exists(c) PROVE Found(export', c)
  <2>1. Latest(c).status \in Statuses
    BY <1>4, LatestIsStored DEF ArchiveInv, SerialInv, Revision
  <2>2. \A s \in Statuses : \E j \in DOMAIN AllStatuses : AllStatuses[j] = s
    <3>1. /\ AllStatuses[1] = "Observed" /\ AllStatuses[2] = "Proposed"
          /\ AllStatuses[3] = "Verified" /\ AllStatuses[4] = "Stale"
          /\ AllStatuses[5] = "Refuted" /\ DOMAIN AllStatuses = 1..5
      BY DEF AllStatuses
    <3>2. 1 \in 1..5 /\ 2 \in 1..5 /\ 3 \in 1..5 /\ 4 \in 1..5 /\ 5 \in 1..5
      OBVIOUS
    <3> QED
      BY <3>1, <3>2 DEF Statuses
  <2> QED
    BY <1>3, <2>1, <2>2 DEF Found
<1>5. GoodExport(export')
  BY <1>3, <1>4, NothingIsGood DEF GoodExport
<1> QED
  BY <1>5, ExportStays DEF BeginExport

LEMMA OneStatusOn ==
  ASSUME NEW left \in Seq(Statuses), left # <<>>
  PROVE  /\ Head(left) \in Statuses /\ Tail(left) \in Seq(Statuses)
         /\ Head(left) = left[1]
         /\ \A j \in DOMAIN left : j = 1 \/ (j - 1 \in DOMAIN Tail(left)
                                             /\ Tail(left)[j - 1] = left[j])
<1>1. /\ Head(left) = left[1] /\ Tail(left) \in Seq(Statuses)
      /\ Len(Tail(left)) = Len(left) - 1
      /\ \A j \in 1..Len(Tail(left)) : Tail(left)[j] = left[j + 1]
  BY HeadTailProperties
<1>2. Len(left) \in Nat /\ DOMAIN left = 1..Len(left) /\ Len(left) # 0
      /\ DOMAIN Tail(left) = 1..Len(Tail(left))
  BY <1>1, LenProperties, EmptySeq
<1>3. Head(left) \in Statuses
  BY <1>1, <1>2
<1>4. ASSUME NEW j \in DOMAIN left, j # 1
      PROVE  j - 1 \in DOMAIN Tail(left) /\ Tail(left)[j - 1] = left[j]
  <2>1. j - 1 \in 1..Len(Tail(left)) /\ (j - 1) + 1 = j
    BY <1>1, <1>2, <1>4
  <2> QED
    BY <1>1, <1>2, <2>1
<1> QED
  BY <1>1, <1>3, <1>4

LEMMA ReadIndexIsGood ==
  ASSUME ArchiveInv, ReadIndex
  PROVE  GoodExport(export)'
<1> DEFINE e == export
           s == Head(e.left)
           x == export'
<1>1. /\ export # None /\ export.batch = {} /\ export.left # <<>>
      /\ UNCHANGED tables
      /\ x = [e EXCEPT !.left = Tail(e.left), !.status = s, !.batch = idxStatus[s],
                       !.before = e.ids]
  BY DEF ReadIndex, Exporting
<1>2. GoodExport(e) /\ e \in Exports
  BY <1>1 DEF ArchiveInv, GoodExport
<1>3. e.left \in Seq(Statuses) /\ e.out = <<>>
  BY <1>1, <1>2 DEF GoodExport, Exports
<1>4. /\ s \in Statuses /\ Tail(e.left) \in Seq(Statuses)
      /\ s = e.left[1]
      /\ \A j \in DOMAIN e.left : j = 1 \/ (j - 1 \in DOMAIN Tail(e.left)
                                            /\ Tail(e.left)[j - 1] = e.left[j])
  BY <1>1, <1>3, OneStatusOn
<1>5. idxStatus[s] \in SUBSET Claims
  BY <1>4 DEF ArchiveInv, SerialInv, StoreInv, TypeOK, TablesTypeOK
<1>6. /\ x \in Exports /\ x.left = Tail(e.left) /\ x.status = s
      /\ x.batch = idxStatus[s] /\ x.ids = e.ids /\ x.before = e.ids
      /\ x.out = e.out /\ x.quiet = e.quiet /\ x.lost = e.lost
  <2> HIDE DEF s, x, e
  <2> QED
    BY <1>1, <1>2, <1>4, <1>5 DEF Exports
<1>7. ASSUME e.quiet, NEW c \in Claims, Exists(c) PROVE Found(x, c)
  <2>1. Found(e, c)
    BY <1>2, <1>7 DEF GoodExport
  <2>2. ASSUME NEW j \in DOMAIN e.left, e.left[j] = Latest(c).status PROVE Found(x, c)
    <3>1. CASE j = 1
      <4>1. c \in idxStatus[s] /\ s = Latest(c).status
        BY <1>4, <1>7, <2>2, <3>1 DEF ArchiveInv, SerialInv, StatusIndexExact
      <4> QED
        BY <1>6, <4>1 DEF Found
    <3>2. CASE j # 1
      BY <1>4, <1>6, <2>2, <3>2 DEF Found
    <3> QED
      BY <3>1, <3>2
  <2>3. CASE c \in e.ids
    BY <1>6, <2>3 DEF Found
  <2>4. CASE \A r \in 1..LatestRev(c) : \E i \in DOMAIN e.out : e.out[i] = Trail(c)[r]
    BY <1>6, <2>4 DEF Found
  <2>5. CASE Latest(c).status \in e.lost
    BY <1>6, <2>5 DEF Found
  <2> QED
    BY <1>1, <2>1, <2>2, <2>3, <2>4, <2>5 DEF Found
<1>8. GoodExport(x)
  <2>1. \A j \in DOMAIN e.out : e.out[j].claim \notin e.ids
    BY <1>2 DEF GoodExport
  <2>2. \A c \in Claims : c \in x.ids => OfStatus(x, c)
    BY <1>6 DEF OfStatus
  <2>3. x.batch # {} => x.status \in Statuses
    BY <1>4, <1>6
  <2> QED
    BY <1>2, <1>3, <1>6, <1>7, <2>1, <2>2, <2>3 DEF GoodExport
<1> QED
  BY <1>1, <1>8, ExportStays

LEMMA ReadLatestIsGood ==
  ASSUME ArchiveInv, ReadLatest
  PROVE  GoodExport(export)'
<1> DEFINE e == export
           x == export'
<1>1. PICK c \in e.batch :
        x = [e EXCEPT !.batch = @ \ {c},
                      !.ids = IF Latest(c).status = e.status THEN @ \cup {c} ELSE @]
  BY DEF ReadLatest
<1>2. /\ e # None /\ e.batch # {} /\ UNCHANGED tables
      /\ GoodExport(e) /\ e \in Exports
  BY DEF ReadLatest, Exporting, ArchiveInv, GoodExport
<1>3. e.out = <<>> /\ e.batch \in SUBSET Claims
  BY <1>2 DEF GoodExport, Exports
<1>4. /\ x \in Exports /\ x.left = e.left /\ x.status = e.status /\ x.batch = e.batch \ {c}
      /\ x.ids = (IF Latest(c).status = e.status THEN e.ids \cup {c} ELSE e.ids)
      /\ x.before = e.before /\ x.out = e.out /\ x.quiet = e.quiet /\ x.lost = e.lost
  <2> DEFINE now == Latest(c).status
  <2>1. x = [e EXCEPT !.batch = @ \ {c}, !.ids = IF now = e.status THEN @ \cup {c} ELSE @]
    BY <1>1
  <2>2. c \in Claims
    BY <1>3
  <2> HIDE DEF x, e, now
  <2>3. /\ x \in Exports /\ x.left = e.left /\ x.status = e.status /\ x.batch = e.batch \ {c}
        /\ x.ids = (IF now = e.status THEN e.ids \cup {c} ELSE e.ids)
        /\ x.before = e.before /\ x.out = e.out /\ x.quiet = e.quiet /\ x.lost = e.lost
    BY <1>2, <2>1, <2>2 DEF Exports
  <2> QED
    BY <2>3 DEF now
<1>5. ASSUME e.quiet, NEW d \in Claims, Exists(d) PROVE Found(x, d)
  <2>1. Found(e, d)
    BY <1>2, <1>5 DEF GoodExport
  <2>2. CASE d \in e.batch /\ e.status = Latest(d).status
    BY <1>4, <2>2 DEF Found
  <2>3. CASE ~(d \in e.batch /\ e.status = Latest(d).status)
    BY <1>4, <2>1, <2>3 DEF Found
  <2> QED
    BY <2>2, <2>3
<1>6. ASSUME e.quiet, NEW d \in Claims, d \in x.ids PROVE OfStatus(x, d)
  <2>1. CASE d \in e.ids
    BY <1>2, <1>4, <1>6, <2>1 DEF GoodExport, OfStatus
  <2>2. CASE d = c /\ Latest(c).status = e.status
    BY <1>4, <2>2 DEF OfStatus
  <2> QED
    BY <1>4, <1>6, <2>1, <2>2
<1>7. GoodExport(x)
  BY <1>2, <1>3, <1>4, <1>5, <1>6 DEF GoodExport
<1> QED
  BY <1>2, <1>7, ExportStays

(* A failed read loses one status and what was found of it.                *)
LEMMA ReadFailsIsGood ==
  ASSUME ArchiveInv, ReadFails
  PROVE  GoodExport(export)'
<1> DEFINE e == export
           x == export'
<1>1. /\ e # None /\ UNCHANGED tables /\ GoodExport(e) /\ e \in Exports
      /\ e.left # <<>> \/ e.batch # {}
  BY DEF ReadFails, Exporting, ArchiveInv, GoodExport
<1>2. e.left \in Seq(Statuses) /\ e.out = <<>>
  BY <1>1 DEF GoodExport, Exports
<1>3. CASE /\ e.batch = {} /\ e.left # <<>>
           /\ x = [e EXCEPT !.left = Tail(e.left), !.lost = e.lost \cup {Head(e.left)}]
  <2>1. /\ Head(e.left) \in Statuses /\ Tail(e.left) \in Seq(Statuses)
        /\ Head(e.left) = e.left[1]
        /\ \A j \in DOMAIN e.left : j = 1 \/ (j - 1 \in DOMAIN Tail(e.left)
                                              /\ Tail(e.left)[j - 1] = e.left[j])
    BY <1>2, <1>3, OneStatusOn
  <2>2. /\ x \in Exports /\ x.left = Tail(e.left) /\ x.batch = {} /\ x.status = e.status
        /\ x.ids = e.ids /\ x.before = e.before /\ x.out = e.out /\ x.quiet = e.quiet
        /\ x.lost = e.lost \cup {e.left[1]}
    <3> DEFINE t == Tail(e.left)
               k == Head(e.left)
    <3>1. k = e.left[1] /\ k \in Statuses /\ t \in Seq(Statuses)
      BY <2>1
    <3> HIDE DEF x, e, t, k
    <3>2. x \in Exports /\ x.left = t /\ x.batch = e.batch /\ x.status = e.status
      BY <1>1, <1>3, <3>1 DEF Exports, t, k
    <3>3. /\ x.ids = e.ids /\ x.before = e.before /\ x.out = e.out /\ x.quiet = e.quiet
          /\ x.lost = e.lost \cup {k}
      BY <1>1, <1>3 DEF Exports, t, k
    <3> QED
      BY <1>3, <3>1, <3>2, <3>3 DEF t, e
  <2>3. ASSUME e.quiet, NEW d \in Claims, Exists(d) PROVE Found(x, d)
    <3>1. Found(e, d)
      BY <1>1, <2>3 DEF GoodExport
    <3>2. ASSUME NEW j \in DOMAIN e.left, e.left[j] = Latest(d).status PROVE Found(x, d)
      BY <2>1, <2>2, <3>2 DEF Found
    <3> QED
      BY <1>3, <2>2, <3>1, <3>2 DEF Found
  <2>4. ASSUME e.quiet, NEW d \in Claims, d \in x.ids PROVE OfStatus(x, d)
    <3>1. OfStatus(e, d)
      BY <1>1, <2>2, <2>4 DEF GoodExport
    <3> QED
      BY <2>2, <3>1 DEF OfStatus
  <2> QED
    <3>1. GoodExport(x)
      BY <1>1, <1>2, <2>2, <2>3, <2>4 DEF GoodExport
    <3> QED
      BY <1>1, <3>1, ExportStays
<1>4. CASE /\ e.batch # {}
           /\ x = [e EXCEPT !.batch = {}, !.ids = e.before, !.lost = e.lost \cup {e.status}]
  <2>1. e.status \in Statuses
    BY <1>1, <1>4 DEF GoodExport
  <2>2. /\ x \in Exports /\ x.left = e.left /\ x.batch = {} /\ x.status = e.status
        /\ x.ids = e.before /\ x.before = e.before /\ x.out = e.out /\ x.quiet = e.quiet
        /\ x.lost = e.lost \cup {e.status}
    <3> HIDE DEF x, e
    <3> QED
      BY <1>1, <1>4, <2>1 DEF Exports
  <2>3. ASSUME e.quiet, NEW d \in Claims, Exists(d) PROVE Found(x, d)
    <3>1. Found(e, d)
      BY <1>1, <2>3 DEF GoodExport
    <3>2. CASE d \in e.ids
      <4>1. OfStatus(e, d)
        BY <1>1, <2>3, <3>2 DEF GoodExport
      <4> QED
        BY <2>2, <4>1 DEF Found, OfStatus
    <3> QED
      BY <2>2, <3>1, <3>2 DEF Found
  <2>4. ASSUME NEW d \in Claims, d \in x.ids PROVE OfStatus(x, d)
    BY <2>2, <2>4 DEF OfStatus
  <2> QED
    <3>1. GoodExport(x)
      BY <1>1, <1>2, <2>2, <2>3, <2>4 DEF GoodExport
    <3> QED
      BY <1>1, <3>1, ExportStays
<1> QED
  BY <1>3, <1>4 DEF ReadFails, Exporting

LEMMA ReadHistoryIsGood ==
  ASSUME ArchiveInv, ReadHistory
  PROVE  GoodExport(export)'
<1> DEFINE e == export
           x == export'
<1>1. PICK c \in e.ids : x = [e EXCEPT !.ids = @ \ {c}, !.out = @ \o Trail(c)]
  BY DEF ReadHistory
<1>2. /\ e # None /\ e.batch = {} /\ e.left = <<>> /\ UNCHANGED tables
      /\ GoodExport(e) /\ e \in Exports
  BY DEF ReadHistory, Exporting, ArchiveInv, GoodExport
<1>3. /\ c \in Claims /\ GoodArchive(e.out)
      /\ \A i \in DOMAIN e.out : e.out[i].claim # c /\ e.out[i].claim \notin e.ids
  BY <1>2 DEF GoodExport, Exports
<1> DEFINE b == e.out \o Trail(c)
<1>4. /\ GoodArchive(b)
      /\ \A i \in DOMAIN e.out : i \in DOMAIN b /\ b[i] = e.out[i]
      /\ \A r \in 1..LatestRev(c) : \E i \in DOMAIN b : b[i] = Trail(c)[r]
      /\ \A i \in DOMAIN b : (i \in DOMAIN e.out /\ b[i] = e.out[i]) \/ b[i].claim = c
  <2>1. SerialInv
    BY DEF ArchiveInv
  <2> QED
    BY <1>3, <2>1, TrailAppended
<1>5. /\ x \in Exports /\ x.left = e.left /\ x.batch = e.batch /\ x.status = e.status
      /\ x.ids = e.ids \ {c} /\ x.before = e.before /\ x.out = b /\ x.quiet = e.quiet
      /\ x.lost = e.lost
  <2>1. b \in Seq(Item)
    BY <1>4 DEF GoodArchive
  <2>2. x = [e EXCEPT !.ids = @ \ {c}, !.out = b]
    BY <1>1
  <2> HIDE DEF x, e, b
  <2> QED
    BY <1>2, <2>1, <2>2 DEF Exports
<1> HIDE DEF b
<1>6. ASSUME e.quiet, NEW d \in Claims, Exists(d) PROVE Found(x, d)
  <2>1. Found(e, d)
    BY <1>2, <1>6 DEF GoodExport
  <2>2. \/ d \in e.ids
        \/ \A r \in 1..LatestRev(d) : \E i \in DOMAIN e.out : e.out[i] = Trail(d)[r]
        \/ Latest(d).status \in e.lost
    BY <1>2, <2>1 DEF Found
  <2>3. CASE d = c
    BY <1>4, <1>5, <2>3 DEF Found
  <2>4. CASE d # c /\ d \in e.ids
    BY <1>5, <2>4 DEF Found
  <2>5. CASE \A r \in 1..LatestRev(d) : \E i \in DOMAIN e.out : e.out[i] = Trail(d)[r]
    <3>1. \A r \in 1..LatestRev(d) : \E i \in DOMAIN b : b[i] = Trail(d)[r]
      BY <1>4, <2>5
    <3> QED
      BY <1>5, <3>1 DEF Found
  <2>6. CASE Latest(d).status \in e.lost
    BY <1>5, <2>6 DEF Found
  <2> QED
    BY <2>2, <2>3, <2>4, <2>5, <2>6
<1>7. GoodExport(x)
  <2>1. \A i \in DOMAIN b : b[i].claim \notin x.ids
    BY <1>3, <1>4, <1>5
  <2>2. ASSUME e.quiet, NEW d \in Claims, d \in x.ids PROVE OfStatus(x, d)
    BY <1>2, <1>5, <2>2 DEF GoodExport, OfStatus
  <2> QED
    BY <1>2, <1>4, <1>5, <1>6, <2>1, <2>2 DEF GoodExport
<1> QED
  BY <1>2, <1>7, ExportStays

(* While others write, what has been read stays true of the source.        *)
LEMMA ServeCommitIsGood ==
  ASSUME ArchiveInv, SourceStep, export # None, NEW w, ServeCommit(w)
  PROVE  GoodExport(export)'
<1> DEFINE e == export
           x == export'
<1>1. x = [e EXCEPT !.quiet = FALSE]
  BY DEF ServeCommit
<1>2. GoodExport(e) /\ e \in Exports /\ GoodArchive(e.out)
  BY DEF ArchiveInv, GoodExport
<1>3. /\ x \in Exports /\ x.left = e.left /\ x.batch = e.batch /\ x.status = e.status
      /\ x.ids = e.ids /\ x.out = e.out /\ ~x.quiet
  <2> HIDE DEF x, e
  <2> QED
    BY <1>1, <1>2 DEF Exports
<1>4. GoodArchive(export.out)'
  <2>1. ASSUME NEW a, a = e.out, a = x.out PROVE GoodArchive(export.out)'
    <3>1. GoodArchive(a)
      BY <1>2, <2>1
    <3>4. \A i \in DOMAIN a :
            /\ InPlace(a, i)
            /\ a[i].revision =< LatestIn(claims'[a[i].claim])
            /\ Entry(a[i].body) = Entry(claims'[a[i].claim][a[i].revision])
      BY <3>1, ArchiveKeeps
    <3>2. \A i \in DOMAIN a : InPlace(export.out, i)'
      BY <2>1, <3>4 DEF InPlace, LastOf
    <3>3. \A i \in DOMAIN a : Recorded(export.out, i)'
      BY <2>1, <3>4 DEF Recorded, LatestRev, Entry
    <3> QED
      BY <2>1, <3>1, <3>2, <3>3 DEF GoodArchive
  <2> QED
    BY <1>3, <2>1
<1> QED
  BY <1>2, <1>3, <1>4 DEF GoodExport

(* The archive is what the export wrote.                                   *)
LEMMA EndExportIsGood ==
  ASSUME ArchiveInv, SourceStep, EndExport
  PROVE  GoodArchive(archive)'
<1>1. export # None /\ archive' = export.out
  BY DEF EndExport, ExportComplete, Exporting
<1>2. GoodArchive(export.out)
  BY <1>1 DEF ArchiveInv, GoodExport
<1> QED
  BY <1>1, <1>2, ArchiveStays

-----------------------------------------------------------------------------
(* import *)

LEMMA TargetLatest ==
  \A c \in Claims : Target!LatestRev(c) = LatestIn(tClaims[c])
BY DEF Target!LatestRev, Target!LatestIn, LatestIn, Target!Revisions, Revisions

LEMMA TargetTypes ==
  ASSUME TargetInv
  PROVE  /\ tClaims \in [Claims -> History]
         /\ tSubject \in [Entities -> SUBSET Claims]
         /\ tObject \in [Entities -> SUBSET Claims]
         /\ tStatus \in [Statuses -> SUBSET Claims]
BY DEF TargetInv, Target!TablesTypeOK, Target!History, History, Target!Revision, Revision,
       Target!Statuses, Statuses, Target!Objects, Objects,
       Target!Revisions, Revisions

(* A restored revision comes right after the newest one in the target,     *)
(* which was recorded with its link to it already: only its own key        *)
(* changes, and the claim moves to its status.                             *)
LEMMA RestoreWrites ==
  ASSUME TargetInv, GoodArchive(archive), GoodImport(import), Restore
  PROVE  \E i \in DOMAIN archive, c \in Claims, r \in Revisions, body \in Revision :
           /\ i = import.done + 1 /\ import' = [import EXCEPT !.done = i]
           /\ archive[i] = [claim |-> c, revision |-> r, body |-> body]
           /\ UpTo(tClaims[c], r - 1)
           /\ tClaims' = [tClaims EXCEPT ![c] =
                             [q \in Revisions |-> IF q = r THEN body ELSE tClaims[c][q]]]
           /\ tStatus' = [s \in Statuses |-> IF s = body.status THEN tStatus[s] \cup {c}
                                             ELSE tStatus[s] \ {c}]
           /\ tSubject' = [tSubject EXCEPT ![body.subject] = @ \cup {c}]
           /\ tObject' = [e \in Entities |-> IF e \in PointsAt(body.object)
                                            THEN tObject[e] \cup {c} ELSE tObject[e]]
<1> DEFINE i == import.done + 1
           c == archive[i].claim
           r == archive[i].revision
           body == archive[i].body
           base == Target!LatestRev(c)
           w == RestoredWrite(archive[i])
<1>1. /\ import.done \in Nat /\ archive \in Seq(Item)
      /\ import.done < Len(archive) /\ Len(archive) \in Nat /\ DOMAIN archive = 1..Len(archive)
  BY DEF Restore, Importing, GoodImport, Imports, GoodArchive
<1>2. i \in DOMAIN archive
  BY <1>1
<1>3. /\ c \in Claims /\ r \in Revisions /\ body \in Revision
      /\ archive[i] = [claim |-> c, revision |-> r, body |-> body]
      /\ InPlace(archive, i)
  <2>1. archive[i] \in Item
    BY <1>1, <1>2
  <2> QED
    BY <1>2, <2>1 DEF Item, GoodArchive
<1>4. /\ ~Taken(archive[i]) /\ c \notin import.skipped
      /\ Target!WriteRevision(w)
      /\ import' = [import EXCEPT !.done = i]
  BY DEF Restore, NextEntry
<1>5. UpTo(tClaims[c], base) /\ base \in 0..MaxRevision
  BY <1>3 DEF TargetInv, UpTo
<1>6. r = base + 1
  <2>1. CASE r = 1
    BY <1>4, <2>1 DEF Taken, Target!Exists
  <2>2. CASE r # 1
    <3>1. i > 1 /\ archive[i - 1].claim = c /\ archive[i - 1].revision = r - 1
      BY <1>3, <2>2 DEF InPlace
    <3>2. i - 1 \in 1..import.done /\ i - 1 = import.done
      BY <1>1, <3>1
    <3>3. base = r - 1
      BY <1>4, <3>1, <3>2 DEF GoodImport
    <3> QED
      BY <1>3, <3>3 DEF Revisions
  <2> QED
    BY <2>1, <2>2
<1>7. base # 0 => tClaims[c][base] \in Revision /\ tClaims[c][base].superseded = r
  <2> SUFFICES ASSUME base # 0 PROVE tClaims[c][base] \in Revision
                                     /\ tClaims[c][base].superseded = r
    OBVIOUS
  <2>1. r # 1 /\ r \in Nat /\ base = r - 1
    BY <1>3, <1>6, <1>5, BoundAssumption DEF Revisions
  <2>2. i > 1 /\ archive[i - 1].claim = c /\ archive[i - 1].revision = r - 1
    BY <1>3, <2>1 DEF InPlace
  <2>3. i - 1 \in 1..import.done /\ i - 1 \in DOMAIN archive /\ (i - 1) + 1 = i
        /\ i - 1 # Len(archive)
    BY <1>1, <2>2
  <2>4. tClaims[c][r - 1] = archive[i - 1].body
    BY <1>4, <2>2, <2>3 DEF GoodImport
  <2>5. ~LastOf(archive, i - 1)
    BY <2>2, <2>3 DEF LastOf
  <2>6. archive[i - 1] \in Item /\ InPlace(archive, i - 1)
    BY <1>1, <2>3 DEF GoodArchive
  <2>7. archive[i - 1].body.superseded = (r - 1) + 1
    BY <2>2, <2>5, <2>6 DEF InPlace
  <2> QED
    BY <2>1, <2>4, <2>6, <2>7 DEF Item
<1>8. /\ w.claim = c /\ w.revision = r /\ w.body = body /\ w.base = base
      /\ w.previous = (IF base = 0 THEN Absent ELSE tClaims[c][base])
  <2>1. base = 0 \/ r > 1
    BY <1>5, <1>6, BoundAssumption
  <2>2. ~(r > 1) => base = 0
    BY <1>5, <1>6, BoundAssumption
  <2>3. w = [claim |-> c, revision |-> r, body |-> body, base |-> base,
             previous |-> IF base = 0 THEN Absent ELSE tClaims[c][base]]
    <3>1. (IF r > 1 THEN base ELSE 0) = base
      BY <2>1, <2>2
    <3> QED
      BY <3>1 DEF RestoredWrite
  <2> HIDE DEF w, c, r, body, base
  <2> QED
    BY <2>3
<1> HIDE DEF w, c, r, body, base, i
<1>9. tClaims' = [tClaims EXCEPT ![c] =
                    [q \in Revisions |-> IF q = r THEN body ELSE tClaims[c][q]]]
  <2>1. tClaims' = [tClaims EXCEPT ![c] =
                      [q \in Revisions |->
                        CASE q = base -> [w.previous EXCEPT !.superseded = r]
                          [] q = r /\ q # base -> body
                          [] OTHER -> tClaims[c][q]]]
    BY <1>4, <1>8 DEF Target!WriteRevision, Target!ClaimsAfter, Target!Revisions, Revisions
  <2>2. ASSUME NEW q \in Revisions
        PROVE  (CASE q = base -> [w.previous EXCEPT !.superseded = r]
                  [] q = r /\ q # base -> body
                  [] OTHER -> tClaims[c][q])
               = (IF q = r THEN body ELSE tClaims[c][q])
    <3>1. CASE q = base
      <4>1. base # 0 /\ q # r
        BY <1>5, <1>6, <2>2, <3>1 DEF Revisions
      <4>2. [w.previous EXCEPT !.superseded = r] = tClaims[c][base]
        BY <1>7, <1>8, <4>1 DEF Revision
      <4> QED
        BY <3>1, <4>1, <4>2
    <3>2. CASE q # base
      BY <3>2
    <3> QED
      BY <3>1, <3>2
  <2> QED
    BY <2>1, <2>2
<1>10. tStatus' = [s \in Statuses |-> IF s = body.status THEN tStatus[s] \cup {c}
                                     ELSE tStatus[s] \ {c}]
  <2>1. tStatus' = [s \in Statuses |->
           CASE s = body.status -> tStatus[s] \cup {c}
             [] s # body.status /\ base # 0 /\ s = w.previous.status -> tStatus[s] \ {c}
             [] OTHER -> tStatus[s]]
    BY <1>4, <1>8 DEF Target!WriteRevision, Target!StatusIndexAfter, Target!Statuses, Statuses
  <2>2. ASSUME NEW s \in Statuses, ~(base # 0 /\ s = w.previous.status)
        PROVE  c \notin tStatus[s]
    BY <1>3, <1>8, <2>2 DEF TargetInv, Target!Exists, Target!Latest, base
  <2>3. ASSUME NEW s \in Statuses
        PROVE  (CASE s = body.status -> tStatus[s] \cup {c}
                  [] s # body.status /\ base # 0 /\ s = w.previous.status -> tStatus[s] \ {c}
                  [] OTHER -> tStatus[s])
               = (IF s = body.status THEN tStatus[s] \cup {c} ELSE tStatus[s] \ {c})
    BY <2>2, <2>3
  <2> QED
    BY <2>1, <2>3
<1>11. /\ tSubject' = [tSubject EXCEPT ![body.subject] = @ \cup {c}]
       /\ tObject' = [e \in Entities |-> IF e \in PointsAt(body.object)
                                        THEN tObject[e] \cup {c} ELSE tObject[e]]
  BY <1>4, <1>8 DEF Target!WriteRevision, Target!SubjectIndexAfter, Target!ObjectIndexAfter,
                    Target!PointsAt, PointsAt
<1>12. UpTo(tClaims[c], r - 1)
  <2>1. r - 1 = base
    BY <1>5, <1>6
  <2> QED
    BY <1>5, <2>1
<1> QED
  BY <1>2, <1>3, <1>4, <1>9, <1>10, <1>11, <1>12 DEF i

LEMMA RestoreIsGood ==
  ASSUME TargetInv, GoodArchive(archive), GoodImport(import), Restore
  PROVE  TargetInv' /\ GoodImport(import)'
<1>1. PICK i \in DOMAIN archive, c \in Claims, r \in Revisions, body \in Revision :
           /\ i = import.done + 1 /\ import' = [import EXCEPT !.done = i]
           /\ archive[i] = [claim |-> c, revision |-> r, body |-> body]
           /\ UpTo(tClaims[c], r - 1)
           /\ tClaims' = [tClaims EXCEPT ![c] =
                             [q \in Revisions |-> IF q = r THEN body ELSE tClaims[c][q]]]
           /\ tStatus' = [s \in Statuses |-> IF s = body.status THEN tStatus[s] \cup {c}
                                             ELSE tStatus[s] \ {c}]
           /\ tSubject' = [tSubject EXCEPT ![body.subject] = @ \cup {c}]
           /\ tObject' = [e \in Entities |-> IF e \in PointsAt(body.object)
                                            THEN tObject[e] \cup {c} ELSE tObject[e]]
  BY RestoreWrites
<1>2. /\ tClaims \in [Claims -> History]
      /\ tSubject \in [Entities -> SUBSET Claims]
      /\ tObject \in [Entities -> SUBSET Claims]
      /\ tStatus \in [Statuses -> SUBSET Claims]
  BY TargetTypes
<1>3. /\ body.subject \in Entities /\ body.status \in Statuses /\ body # Absent
      /\ r \in 1..MaxRevision /\ MaxRevision \in Nat
  BY AbsentAssumption, BoundAssumption DEF Revision, Revisions
<1>4. /\ tClaims' \in [Claims -> History]
      /\ tSubject' \in [Entities -> SUBSET Claims]
      /\ tObject' \in [Entities -> SUBSET Claims]
      /\ tStatus' \in [Statuses -> SUBSET Claims]
  <2>1. [q \in Revisions |-> IF q = r THEN body ELSE tClaims[c][q]] \in History
    BY <1>2 DEF History
  <2> QED
    BY <1>1, <1>2, <1>3, <2>1
<1>5. /\ \A q \in Revisions : tClaims'[c][q] = IF q = r THEN body ELSE tClaims[c][q]
      /\ \A d \in Claims : d # c => tClaims'[d] = tClaims[d]
  BY <1>1, <1>2
<1>6. UpTo(tClaims'[c], r)
  <2>1. \A q \in Revisions : tClaims[c][q] # Absent <=> q =< r - 1
    BY <1>1 DEF UpTo
  <2> QED
    BY <1>3, <1>5, <2>1 DEF UpTo, Revisions
<1>7. /\ Target!LatestRev(c)' = r /\ Target!LatestRev(c) = r - 1
      /\ \A d \in Claims : d # c => Target!LatestRev(d)' = Target!LatestRev(d)
  <2>1. LatestIn(tClaims'[c]) = r /\ LatestIn(tClaims[c]) = r - 1
    BY <1>1, <1>6, LatestOfPrefix
  <2>2. \A d \in Claims : Target!LatestRev(d)' = LatestIn(tClaims'[d])
    BY DEF Target!LatestRev, Target!LatestIn, LatestIn, Target!Revisions, Revisions
  <2> QED
    BY <1>5, <2>1, <2>2, TargetLatest
<1>8. tClaims[c][r] = Absent
  BY <1>1, <1>3 DEF UpTo, Revisions
<1>9. TargetInv'
  <2>1. Target!TablesTypeOK'
    BY <1>4 DEF Target!TablesTypeOK, Target!History, History, Target!Revision, Revision,
       Target!Statuses, Statuses, Target!Objects, Objects,
       Target!Revisions, Revisions
  <2>2. ASSUME NEW d \in Claims PROVE UpTo(tClaims'[d], Target!LatestRev(d)')
    BY <1>5, <1>6, <1>7 DEF TargetInv
  <2>3. ASSUME NEW d \in Claims, NEW s \in Statuses
        PROVE  d \in tStatus'[s] <=> Target!Exists(d)' /\ Target!Latest(d)'.status = s
    <3>1. CASE d = c
      <4>1. Target!Exists(c)' /\ Target!Latest(c)' = body
        BY <1>3, <1>5, <1>7 DEF Target!Exists, Target!Latest
      <4> QED
        BY <1>1, <3>1, <4>1
    <3>2. CASE d # c
      <4>1. Target!Exists(d)' <=> Target!Exists(d)
        BY <1>7, <3>2 DEF Target!Exists
      <4>2. Target!Latest(d)' = Target!Latest(d)
        BY <1>5, <1>7, <3>2 DEF Target!Latest
      <4>3. d \in tStatus'[s] <=> d \in tStatus[s]
        BY <1>1, <3>2
      <4> QED
        BY <4>1, <4>2, <4>3 DEF TargetInv
    <3> QED
      BY <3>1, <3>2
  <2>4. ASSUME NEW d \in Claims, NEW e \in Entities
        PROVE  d \in tObject'[e] <=> \E q \in Revisions : /\ tClaims'[d][q] # Absent
                                                         /\ e \in PointsAt(tClaims'[d][q].object)
    <3>1. d \in tObject[e] <=> \E q \in Revisions : /\ tClaims[d][q] # Absent
                                                    /\ e \in PointsAt(tClaims[d][q].object)
      BY DEF TargetInv
    <3>2. d \in tObject'[e] <=> d \in tObject[e] \/ (d = c /\ e \in PointsAt(body.object))
      BY <1>1, <1>2, <1>3
    <3>3. CASE d = c
      <4>1. (\E q \in Revisions : tClaims'[c][q] # Absent /\ e \in PointsAt(tClaims'[c][q].object))
              <=> \/ \E q \in Revisions : tClaims[c][q] # Absent /\ e \in PointsAt(tClaims[c][q].object)
                  \/ e \in PointsAt(body.object)
        BY <1>3, <1>5, <1>8
      <4> QED
        BY <3>1, <3>2, <3>3, <4>1
    <3>4. CASE d # c
      BY <1>5, <3>1, <3>2, <3>4
    <3> QED
      BY <3>3, <3>4
  <2>5. ASSUME NEW d \in Claims, NEW e \in Entities
        PROVE  d \in tSubject'[e] <=> \E q \in Revisions : /\ tClaims'[d][q] # Absent
                                                         /\ tClaims'[d][q].subject = e
    <3>1. d \in tSubject[e] <=> \E q \in Revisions : /\ tClaims[d][q] # Absent
                                                    /\ tClaims[d][q].subject = e
      BY DEF TargetInv
    <3>2. d \in tSubject'[e] <=> d \in tSubject[e] \/ (d = c /\ e = body.subject)
      BY <1>1, <1>2, <1>3
    <3>3. CASE d = c
      <4>1. (\E q \in Revisions : tClaims'[c][q] # Absent /\ tClaims'[c][q].subject = e)
              <=> \/ \E q \in Revisions : tClaims[c][q] # Absent /\ tClaims[c][q].subject = e
                  \/ body.subject = e
        BY <1>3, <1>5, <1>8
      <4> QED
        BY <3>1, <3>2, <3>3, <4>1
    <3>4. CASE d # c
      BY <1>5, <3>1, <3>2, <3>4
    <3> QED
      BY <3>3, <3>4
  <2> QED
    BY <2>1, <2>2, <2>3, <2>4, <2>5 DEF TargetInv
<1>10. /\ import' \in Imports /\ import'.done = i /\ import'.skipped = import.skipped
       /\ i \in Nat /\ i =< Len(archive)
  <2>1. import \in Imports
    BY DEF GoodImport
  <2>2. DOMAIN archive = 1..Len(archive)
    BY DEF GoodArchive
  <2> QED
    BY <1>1, <2>1, <2>2 DEF Imports
<1>11. ASSUME NEW k \in 1..i, archive[k].claim \notin import.skipped
       PROVE  /\ tClaims'[archive[k].claim][archive[k].revision] = archive[k].body
              /\ k = i \/ LastOf(archive, k) =>
                   LatestIn(tClaims'[archive[k].claim]) = archive[k].revision
  <2>1. CASE k = i
    <3>1. archive[k].claim = c /\ archive[k].revision = r /\ archive[k].body = body
      BY <1>1, <2>1
    <3>2. tClaims'[c][r] = body /\ LatestIn(tClaims'[c]) = r
      BY <1>5, <1>6, LatestOfPrefix
    <3> QED
      BY <3>1, <3>2
  <2>2. CASE k # i
    <3>1. k \in 1..import.done /\ import.done \in Nat
      BY <1>1, <2>2 DEF GoodImport, Imports
    <3>2. k \in DOMAIN archive
      BY <1>10 DEF GoodArchive
    <3>3. /\ archive[k].claim \in Claims /\ archive[k].revision \in Revisions
          /\ archive[k].body \in Revision /\ InPlace(archive, k)
      <4>1. archive[k] \in Item /\ InPlace(archive, k)
        BY <3>2 DEF GoodArchive
      <4> QED
        BY <4>1 DEF Item
    <3>4. /\ tClaims[archive[k].claim][archive[k].revision] = archive[k].body
          /\ LastOf(archive, k) =>
                   Target!LatestRev(archive[k].claim) = archive[k].revision
      BY <1>11, <3>1 DEF GoodImport
    <3>5. CASE archive[k].claim # c
      <4>1. tClaims'[archive[k].claim] = tClaims[archive[k].claim]
        BY <1>5, <3>3, <3>5
      <4>2. Target!LatestRev(archive[k].claim) = LatestIn(tClaims[archive[k].claim])
        BY <3>3, TargetLatest
      <4> QED
        BY <2>2, <3>4, <4>1, <4>2
    <3>6. CASE archive[k].claim = c
      <4>1. ~LastOf(archive, k)
        <5>1. i \in (k + 1)..Len(archive)
          BY <1>1, <1>10, <2>2
        <5> QED
          BY <1>1, <3>3, <3>6, <5>1 DEF InPlace
      <4>2. archive[k].revision # r
        BY <1>8, <3>3, <3>4, <3>6, AbsentAssumption
      <4> QED
        BY <1>5, <2>2, <3>3, <3>4, <3>6, <4>1, <4>2
    <3> QED
      BY <3>5, <3>6
  <2> QED
    BY <2>1, <2>2
<1>12. archive' = archive
  BY DEF Restore
<1>13. \A d : Target!LatestRev(d)' = LatestIn(tClaims'[d])
  BY DEF Target!LatestRev, Target!LatestIn, LatestIn, Target!Revisions, Revisions
<1>14. GoodImport(import)'
  <2>1. \A k \in 1..i : archive[k].claim \notin import.skipped =>
          /\ tClaims'[archive[k].claim][archive[k].revision] = archive[k].body
          /\ k = i \/ LastOf(archive, k) =>
               LatestIn(tClaims'[archive[k].claim]) = archive[k].revision
    BY <1>11
  <2> QED
    BY <1>10, <1>12, <1>13, <2>1 DEF GoodImport, LastOf
<1> QED
  BY <1>9, <1>14

LEMMA SkipIsGood ==
  ASSUME GoodImport(import), GoodArchive(archive), Skip
  PROVE  GoodImport(import)'
<1> DEFINE i == import.done + 1
<1>1. /\ import \in Imports /\ import.done < Len(archive) /\ Len(archive) \in Nat
      /\ DOMAIN archive = 1..Len(archive)
  BY DEF GoodImport, GoodArchive, Skip, Importing
<1>2. import' = [import EXCEPT !.done = i, !.skipped = @ \cup {archive[i].claim}]
      /\ UNCHANGED <<tTables, archive>>
  BY DEF Skip, NextEntry
<1>3. import.done \in Nat /\ i \in DOMAIN archive /\ archive[i].claim \in Claims
  <2>1. import.done \in Nat /\ i \in DOMAIN archive
    BY <1>1 DEF Imports
  <2>2. archive[i] \in Item
    BY <2>1 DEF GoodArchive
  <2> QED
    BY <2>1, <2>2 DEF Item
<1>4. /\ import' \in Imports /\ import'.done = i
      /\ import'.skipped = import.skipped \cup {archive[i].claim}
  <2> DEFINE c == archive[i].claim
  <2>1. c \in Claims /\ i \in Nat /\ import' = [import EXCEPT !.done = i, !.skipped = @ \cup {c}]
    BY <1>1, <1>2, <1>3
  <2> HIDE DEF c, i
  <2>2. /\ import' \in Imports /\ import'.done = i /\ import'.skipped = import.skipped \cup {c}
    BY <1>1, <2>1 DEF Imports
  <2> QED
    BY <2>2 DEF c
<1>5. ASSUME NEW k \in 1..i, archive[k].claim \notin import'.skipped
      PROVE  /\ tClaims'[archive[k].claim][archive[k].revision] = archive[k].body
             /\ k = i \/ LastOf(archive, k) =>
                  Target!LatestRev(archive[k].claim)' = archive[k].revision
  <2>1. k # i /\ archive[k].claim \notin import.skipped
    BY <1>4, <1>5
  <2>2. k \in 1..import.done
    BY <1>3, <2>1
  <2> QED
    BY <1>2, <2>1, <2>2 DEF GoodImport, tTables, Target!LatestRev
<1> QED
  BY <1>1, <1>2, <1>3, <1>4, <1>5 DEF GoodImport, LastOf

LEMMA BeginImportIsGood ==
  ASSUME GoodArchive(archive), BeginImport
  PROVE  GoodImport(import)'
<1>1. import' = [done |-> 0, skipped |-> {}] /\ archive' = archive
  BY DEF BeginImport
<1>2. import' \in Imports /\ import'.done = 0 /\ Len(archive) \in Nat
  BY <1>1 DEF Imports, GoodArchive
<1> QED
  BY <1>1, <1>2 DEF GoodImport

-----------------------------------------------------------------------------
(* The invariant. *)

LEMMA TargetStarts == TargetInit => TargetInv
<1> SUFFICES ASSUME TargetInit PROVE TargetInv
  OBVIOUS
<1>1. PICK own \in SUBSET Claims, f \in Entities, by \in Provenances :
        /\ tClaims = [c \in Claims |-> [r \in Revisions |->
                        IF c \in own /\ r = 1 THEN OwnClaim(f, by) ELSE Absent]]
        /\ tSubject = [e \in Entities |-> IF e = f THEN own ELSE {}]
        /\ tObject = [e \in Entities |-> {}]
        /\ tStatus = [s \in Statuses |-> IF s = "Proposed" THEN own ELSE {}]
  BY DEF TargetInit
<1> DEFINE body == OwnClaim(f, by)
<1>2. /\ body \in Revision /\ body # Absent
      /\ body.status = "Proposed" /\ body.object = NoEntity /\ body.subject = f
  <2>1. "Proposed" \in Statuses /\ 0 \in 0..MaxRevision /\ <<>> \in Seq(Evidence)
    BY BoundAssumption DEF Statuses
  <2>2. body \in Revision
    BY <2>1, ObjectFacts DEF OwnClaim, Revision
  <2> QED
    BY <2>2, AbsentAssumption DEF OwnClaim
<1> HIDE DEF body
<1>3. 1 \in Revisions /\ MaxRevision \in Nat
  BY BoundAssumption DEF Revisions
<1>4. ASSUME NEW c \in Claims
      PROVE  /\ tClaims[c] \in History
             /\ UpTo(tClaims[c], IF c \in own THEN 1 ELSE 0)
             /\ \A r \in Revisions : tClaims[c][r] # Absent <=> c \in own /\ r = 1
             /\ \A r \in Revisions : tClaims[c][r] # Absent => tClaims[c][r] = body
  <2>1. tClaims[c] = [r \in Revisions |-> IF c \in own /\ r = 1 THEN body ELSE Absent]
    BY <1>1 DEF body
  <2>2. tClaims[c] \in History
    BY <1>2, <2>1 DEF History
  <2>3. \A r \in Revisions : tClaims[c][r] # Absent <=> c \in own /\ r = 1
    BY <1>2, <2>1
  <2>4. \A r \in Revisions : r = 1 <=> r =< 1
    BY DEF Revisions
  <2>5. \A r \in Revisions : ~(r =< 0)
    BY DEF Revisions
  <2>6. CASE c \in own
    BY <1>3, <2>1, <2>2, <2>3, <2>4, <2>6, BoundAssumption DEF UpTo
  <2>7. CASE c \notin own
    BY <1>3, <2>1, <2>2, <2>3, <2>5, <2>7 DEF UpTo
  <2> QED
    BY <2>6, <2>7
<1>5. ASSUME NEW c \in Claims PROVE Target!LatestRev(c) = IF c \in own THEN 1 ELSE 0
  <2>1. LatestIn(tClaims[c]) = IF c \in own THEN 1 ELSE 0
    BY <1>4, LatestOfPrefix
  <2> QED
    BY <2>1, TargetLatest
<1>6. /\ tClaims \in [Claims -> History] /\ tSubject \in [Entities -> SUBSET Claims]
      /\ tObject \in [Entities -> SUBSET Claims] /\ tStatus \in [Statuses -> SUBSET Claims]
  BY <1>1, <1>4
<1>7. Target!TablesTypeOK
  BY <1>6 DEF Target!TablesTypeOK, Target!History, History, Target!Revision, Revision,
     Target!Statuses, Statuses, Target!Objects, Objects,
       Target!Revisions, Revisions
<1>8. ASSUME NEW c \in Claims, NEW s \in Statuses
      PROVE  c \in tStatus[s] <=> Target!Exists(c) /\ Target!Latest(c).status = s
  <2>1. c \in tStatus[s] <=> s = "Proposed" /\ c \in own
    BY <1>1
  <2>2. CASE c \in own
    <3>1. Target!LatestRev(c) = 1 /\ tClaims[c][1] = body
      BY <1>3, <1>4, <1>5, <2>2
    <3> QED
      BY <1>2, <2>1, <2>2, <3>1 DEF Target!Exists, Target!Latest
  <2>3. CASE c \notin own
    BY <1>5, <2>1, <2>3 DEF Target!Exists
  <2> QED
    BY <2>2, <2>3
<1>9. ASSUME NEW c \in Claims, NEW e \in Entities
      PROVE  c \in tObject[e] <=> \E r \in Revisions : /\ tClaims[c][r] # Absent
                                                     /\ e \in PointsAt(tClaims[c][r].object)
  BY <1>1, <1>2, <1>3, <1>4, ObjectFacts
<1>10. ASSUME NEW c \in Claims, NEW e \in Entities
       PROVE  c \in tSubject[e] <=> \E r \in Revisions : /\ tClaims[c][r] # Absent
                                                       /\ tClaims[c][r].subject = e
  <2>1. c \in tSubject[e] <=> e = f /\ c \in own
    BY <1>1
  <2> QED
    BY <1>2, <1>3, <1>4, <2>1
<1> QED
  BY <1>4, <1>5, <1>7, <1>8, <1>9, <1>10 DEF TargetInv

LEMMA ArchiveStarts == ArchiveInit => ArchiveInv
BY InitSerial, TargetStarts DEF ArchiveInit, ArchiveInv

(* What a step that does not touch them leaves as it was. *)
LEMMA Untouched ==
  ASSUME ArchiveInv, SourceStep
  PROVE  /\ SerialInv'
         /\ UNCHANGED tTables => TargetInv'
         /\ UNCHANGED <<tables, export>> /\ export # None => GoodExport(export)'
         /\ archive' = archive /\ GoodArchive(archive) => GoodArchive(archive)'
         /\ UNCHANGED <<tTables, archive, import>> /\ import # None => GoodImport(import)'
<1>1. SerialInv'
  BY DEF SourceStep
<1>2. UNCHANGED tTables => TargetInv'
  BY TargetStays DEF ArchiveInv
<1>3. UNCHANGED <<tables, export>> /\ export # None => GoodExport(export)'
  BY ExportStays DEF ArchiveInv
<1>4. archive' = archive /\ GoodArchive(archive) => GoodArchive(archive)'
  BY ArchiveStays
<1>5. UNCHANGED <<tTables, archive, import>> /\ import # None => GoodImport(import)'
  BY ImportStays DEF ArchiveInv
<1> QED
  BY <1>1, <1>2, <1>3, <1>4, <1>5

LEMMA StepIsGood ==
  ASSUME ArchiveInv, ArchiveNext, NoOverlap'
  PROVE  ArchiveInv'
<1>1. SourceStep
  BY SourceSteps DEF ArchiveInv
<1>2. /\ SerialInv'
      /\ UNCHANGED tTables => TargetInv'
      /\ UNCHANGED <<tables, export>> /\ export # None => GoodExport(export)'
      /\ archive' = archive /\ GoodArchive(archive) => GoodArchive(archive)'
      /\ UNCHANGED <<tTables, archive, import>> /\ import # None => GoodImport(import)'
  BY <1>1, Untouched
<1>3. /\ TargetInv
      /\ export # None => GoodExport(export)
      /\ archive # None => GoodArchive(archive)
      /\ import # None => GoodArchive(archive) /\ GoodImport(import)
  BY DEF ArchiveInv
<1>4. CASE Serve
  <2>1. UNCHANGED tables
    BY <1>4, CallLeavesTables DEF Serve, ArchiveInv, SerialInv
  <2> QED
    BY <1>2, <1>3, <1>4, <2>1 DEF ArchiveInv, Serve
<1>5. ASSUME NEW w \in Workers, ServeCommit(w) PROVE ArchiveInv'
  <2>1. export' # None => GoodExport(export)'
    BY <1>1, <1>5, ServeCommitIsGood DEF ServeCommit
  <2> QED
    BY <1>2, <1>3, <1>5, <2>1 DEF ArchiveInv, ServeCommit
<1>6. CASE BeginExport
  BY <1>2, <1>3, <1>6, BeginExportIsGood DEF ArchiveInv, BeginExport
<1>7. CASE ReadIndex
  BY <1>2, <1>3, <1>7, ReadIndexIsGood DEF ArchiveInv, ReadIndex
<1>8. CASE ReadLatest
  BY <1>2, <1>3, <1>8, ReadLatestIsGood DEF ArchiveInv, ReadLatest
<1>9. CASE ReadHistory
  BY <1>2, <1>3, <1>9, ReadHistoryIsGood DEF ArchiveInv, ReadHistory
<1>10. CASE EndExport
  BY <1>1, <1>2, <1>3, <1>10, EndExportIsGood DEF ArchiveInv, EndExport
<1>11. CASE BeginImport
  BY <1>2, <1>3, <1>11, BeginImportIsGood DEF ArchiveInv, BeginImport
<1>12. CASE Skip
  <2>1. import # None
    BY <1>12 DEF Skip, Importing
  <2> QED
    BY <1>2, <1>3, <1>12, <2>1, SkipIsGood DEF ArchiveInv, Skip
<1>13. CASE Restore
  <2>1. import # None
    BY <1>13 DEF Restore, Importing
  <2>2. TargetInv' /\ GoodImport(import)'
    BY <1>3, <1>13, <2>1, RestoreIsGood
  <2> QED
    BY <1>2, <1>3, <1>13, <2>1, <2>2 DEF ArchiveInv, Restore
<1>14. CASE EndImport
  BY <1>2, <1>3, <1>14 DEF ArchiveInv, EndImport
<1>15. CASE ExporterCrash
  BY <1>2, <1>3, <1>15 DEF ArchiveInv, ExporterCrash
<1>16. CASE ImporterCrash
  BY <1>2, <1>3, <1>16 DEF ArchiveInv, ImporterCrash
<1>17. CASE ReadFails
  BY <1>2, <1>3, <1>17, ReadFailsIsGood DEF ArchiveInv, ReadFails
<1>18. CASE HistoryFails
  BY <1>2, <1>3, <1>18 DEF ArchiveInv, HistoryFails
<1> QED
  BY <1>4, <1>5, <1>6, <1>7, <1>8, <1>9, <1>10, <1>11, <1>12, <1>13, <1>14, <1>15, <1>16,
     <1>17, <1>18
  DEF ArchiveNext

LEMMA ArchiveNextInv ==
  ArchiveInv /\ [ArchiveNext /\ NoOverlap']_archiveVars => ArchiveInv'
<1> SUFFICES ASSUME ArchiveInv, [ArchiveNext /\ NoOverlap']_archiveVars PROVE ArchiveInv'
  OBVIOUS
<1>1. CASE ArchiveNext /\ NoOverlap'
  BY <1>1, StepIsGood
<1>2. CASE UNCHANGED archiveVars
  <2>1. UNCHANGED vars /\ UNCHANGED tables /\ UNCHANGED tTables
        /\ UNCHANGED <<export, archive, import>>
    BY <1>2 DEF archiveVars, vars, tables, tTables
  <2>2. SourceStep
    <3>1. SerialInv'
      BY <2>1, NextSerial DEF ArchiveInv
    <3>2. ASSUME NEW c \in Claims, NEW r \in 1..LatestRev(c)
          PROVE  r =< LatestRev(c)' /\ Entry(claims'[c][r]) = Entry(claims[c][r])
      <4>1. LatestRev(c)' = LatestRev(c) /\ LatestRev(c) \in Nat
        BY <2>1, LatestBounds DEF tables, LatestRev, ArchiveInv
      <4> QED
        BY <2>1, <4>1 DEF tables
    <3> QED
      BY <3>1, <3>2 DEF SourceStep, ArchiveInv
  <2> QED
    BY <2>1, <2>2, Untouched DEF ArchiveInv
<1> QED
  BY <1>1, <1>2

(* ArchiveInv holds of every behaviour. *)
THEOREM ArchiveInvariant == ArchiveSpec => []ArchiveInv
BY ArchiveStarts, ArchiveNextInv, PTL DEF ArchiveSpec

(* Export and import do not change the exporting store: what is proved of  *)
(* the store (ledger, links, indexes) holds while archives are taken.      *)
THEOREM ArchiveUsesStore == ArchiveSpec => SerialSpec
<1>1. ArchiveInit => Init
  BY DEF ArchiveInit
<1>2. [ArchiveNext /\ NoOverlap']_archiveVars => [Next /\ NoOverlap']_vars
  <2>1. UNCHANGED archiveVars => UNCHANGED vars
    BY DEF archiveVars, vars, tables
  <2> QED
    BY <2>1, StepUsesSource
<1> QED
  BY <1>1, <1>2, PTL DEF ArchiveSpec, SerialSpec

(* So the exporting store is the ledger it promises while archives are     *)
(* taken and imported.                                                     *)
THEOREM ArchiveKeepsLedger == ArchiveSpec => ImplementsLedger
BY ArchiveUsesStore, StoreImplementsLedger, PTL

(* What an archive has of a claim is one whole beginning of its history.   *)
THEOREM TrailsAreWhole == ArchiveSpec => []ArchivedTrailsAreWhole
<1>1. ArchiveInv => ArchivedTrailsAreWhole
  <2> SUFFICES ASSUME ArchiveInv, archive # None, NEW i \in DOMAIN archive
               PROVE  /\ InPlace(archive, i)
                      /\ Recorded(archive, i)
    BY DEF ArchivedTrailsAreWhole, InPlace, Recorded
  <2> QED
    BY DEF ArchiveInv, GoodArchive
<1> QED
  BY <1>1, ArchiveInvariant, PTL

(* An export during which nothing was written has every revision of every  *)
(* claim whose status could be read, whichever other reads failed.         *)
THEOREM QuietExports == ArchiveSpec => []QuietExportLosesOnlyUnread
<1>1. ArchiveInv => QuietExportLosesOnlyUnread
  <2> SUFFICES ASSUME ArchiveInv, ExportComplete, export.quiet,
                      NEW c \in Claims, NEW r \in 1..LatestRev(c)
               PROVE  \/ Latest(c).status \in export.lost
                      \/ \E i \in DOMAIN export.out : export.out[i] = Trail(c)[r]
    BY DEF QuietExportLosesOnlyUnread
  <2>1. /\ export # None /\ export.batch = {} /\ export.left = <<>> /\ export.ids = {}
        /\ GoodExport(export)
    BY DEF ExportComplete, Exporting, ArchiveInv
  <2>2. Exists(c)
    BY LatestBounds DEF ArchiveInv, Exists
  <2>3. Found(export, c)
    BY <2>1, <2>2 DEF GoodExport
  <2> QED
    BY <2>1, <2>3 DEF Found
<1> QED
  BY <1>1, ArchiveInvariant, PTL

(* An import that is done has rebuilt what it has not skipped.             *)
THEOREM ImportsExactly == ArchiveSpec => []ImportedExactly
<1>1. ArchiveInv => ImportedExactly
  <2> SUFFICES ASSUME ArchiveInv, ImportComplete, NEW i \in DOMAIN archive,
                      archive[i].claim \notin import.skipped
               PROVE  LET c == archive[i].claim
                          r == archive[i].revision
                      IN /\ tClaims[c][r] = archive[i].body
                         /\ LastOf(archive, i) =>
                              /\ Target!LatestRev(c) = r
                              /\ \A s \in Statuses :
                                   c \in tStatus[s] <=> s = Target!Latest(c).status
                              /\ \A e \in Entities :
                                   c \in tObject[e] <=>
                                     \E q \in 1..r : e \in PointsAt(tClaims[c][q].object)
    BY DEF ImportedExactly
  <2> DEFINE c == archive[i].claim
             r == archive[i].revision
             body == archive[i].body
  <2>1. /\ TargetInv /\ GoodArchive(archive) /\ GoodImport(import)
        /\ import.done = Len(archive) /\ DOMAIN archive = 1..Len(archive)
    BY DEF ArchiveInv, ImportComplete, GoodArchive
  <2>2. \A k \in DOMAIN archive :
          /\ archive[k].claim \in Claims /\ archive[k].revision \in Revisions
          /\ archive[k].body \in Revision /\ InPlace(archive, k)
    <3>1. \A k \in DOMAIN archive : archive[k] \in Item /\ InPlace(archive, k)
      BY <2>1 DEF GoodArchive
    <3> QED
      BY <3>1 DEF Item
  <2>3. \A k \in DOMAIN archive : archive[k].claim = c =>
          /\ tClaims[c][archive[k].revision] = archive[k].body
          /\ LastOf(archive, k) => Target!LatestRev(c) = archive[k].revision
    BY <2>1 DEF GoodImport
  <2>4. c \in Claims /\ r \in Revisions /\ body \in Revision /\ InPlace(archive, i)
        /\ tClaims[c][r] = body
    BY <2>2, <2>3
  <2>5. ASSUME LastOf(archive, i)
        PROVE  /\ Target!LatestRev(c) = r
               /\ \A s \in Statuses : c \in tStatus[s] <=> s = Target!Latest(c).status
               /\ \A e \in Entities : c \in tObject[e] <=>
                    \E q \in 1..r : e \in PointsAt(tClaims[c][q].object)
    <3>1. Target!LatestRev(c) = r
      BY <2>3, <2>5
    <3>2. Target!Exists(c) /\ Target!Latest(c) = body
      BY <2>4, <3>1, BoundAssumption DEF Target!Exists, Target!Latest, Revisions
    <3>3. \A s \in Statuses : c \in tStatus[s] <=> s = Target!Latest(c).status
      BY <2>1, <2>4, <3>2 DEF TargetInv
    <3>4. \A q \in Revisions : tClaims[c][q] # Absent <=> q =< r
      BY <2>1, <2>4, <3>1 DEF TargetInv, UpTo
    <3>5. \A q : q \in 1..r <=> q \in Revisions /\ tClaims[c][q] # Absent
      BY <2>4, <3>4, BoundAssumption DEF Revisions
    <3>6. ASSUME NEW e \in Entities
          PROVE  c \in tObject[e] <=> \E q \in 1..r : e \in PointsAt(tClaims[c][q].object)
      <4>1. c \in tObject[e] <=> \E q \in Revisions : /\ tClaims[c][q] # Absent
                                                     /\ e \in PointsAt(tClaims[c][q].object)
        BY <2>1, <2>4 DEF TargetInv
      <4> QED
        BY <3>5, <4>1
    <3> QED
      BY <3>1, <3>3, <3>6
  <2> QED
    BY <2>4, <2>5
<1> QED
  BY <1>1, ArchiveInvariant, PTL

-----------------------------------------------------------------------------
(* There and back. *)

(* The archive has what the store has: nothing was written since. *)
UpToDate(a) ==
  \A c \in Claims : \A r \in 1..LatestRev(c) : \E i \in DOMAIN a : a[i] = Trail(c)[r]

(* A claim is in the target as in the store: every revision with its link, *)
(* and in the indexes of subjects, objects and statuses.                   *)
SameClaim(c) ==
  /\ tClaims[c] = claims[c]
  /\ \A s \in Statuses : c \in tStatus[s] <=> c \in idxStatus[s]
  /\ \A e \in Entities : /\ c \in tObject[e] <=> c \in idxObject[e]
                         /\ c \in tSubject[e] <=> c \in idxSubject[e]

LEMMA ImportedIsSame ==
  ASSUME ArchiveInv, ImportedExactly, ImportComplete, UpToDate(archive),
         NEW c \in Claims, Exists(c), c \notin import.skipped
  PROVE  SameClaim(c)
<1> DEFINE n == LatestRev(c)
<1>1. /\ SerialInv /\ StoreInv /\ TargetInv /\ GoodArchive(archive)
      /\ DOMAIN archive = 1..Len(archive)
  BY DEF ArchiveInv, SerialInv, ImportComplete, GoodArchive
<1>2. /\ n \in 0..MaxRevision /\ n # 0 /\ n \in 1..n
      /\ \A r \in Revisions : claims[c][r] # Absent <=> r =< n
  BY <1>1, BoundAssumption DEF StoreInv, Contiguous, UpTo, Exists
<1>3. ASSUME NEW r \in 1..n
      PROVE  \E i \in DOMAIN archive : /\ archive[i].claim = c /\ archive[i].revision = r
                                        /\ archive[i].body = claims[c][r]
  <2>1. Trail(c)[r] = [claim |-> c, revision |-> r, body |-> claims[c][r]]
    BY DEF Trail
  <2>2. PICK i \in DOMAIN archive : archive[i] = Trail(c)[r]
    BY DEF UpToDate
  <2> QED
    BY <2>1, <2>2
<1> HIDE DEF n
<1>4. ASSUME NEW r \in 1..n PROVE tClaims[c][r] = claims[c][r]
  <2>1. PICK i \in DOMAIN archive : /\ archive[i].claim = c /\ archive[i].revision = r
                                     /\ archive[i].body = claims[c][r]
    BY <1>3
  <2> QED
    BY <2>1 DEF ImportedExactly
<1>5. PICK last \in DOMAIN archive :
        /\ archive[last].claim = c /\ archive[last].revision = n
        /\ archive[last].body = claims[c][n]
  BY <1>2, <1>3
<1>6. claims[c][n].superseded = 0 /\ Latest(c) = claims[c][n] /\ n \in Revisions
  BY <1>1, <1>2 DEF SerialInv, OneLiveRevision, Stored, Latest, Revisions, n
<1>7. LastOf(archive, last)
  <2>1. InPlace(archive, last)
    BY <1>1, <1>5 DEF GoodArchive
  <2>2. n + 1 # 0
    BY <1>2
  <2> QED
    BY <1>5, <1>6, <2>1, <2>2 DEF InPlace
<1>8. /\ Target!LatestRev(c) = n
      /\ \A s \in Statuses : c \in tStatus[s] <=> s = Target!Latest(c).status
      /\ \A e \in Entities : c \in tObject[e] <=>
           \E q \in 1..n : e \in PointsAt(tClaims[c][q].object)
  BY <1>5, <1>7 DEF ImportedExactly
<1>9. Target!Latest(c) = Latest(c)
  BY <1>2, <1>4, <1>6, <1>8 DEF Target!Latest
<1>10. tClaims[c] = claims[c]
  <2>1. \A r \in Revisions : tClaims[c][r] # Absent <=> r =< n
    BY <1>1, <1>8 DEF TargetInv, UpTo
  <2>2. \A r \in Revisions : r =< n => r \in 1..n
    BY <1>2 DEF Revisions
  <2>3. \A r \in Revisions : tClaims[c][r] = claims[c][r]
    BY <1>2, <1>4, <2>1, <2>2
  <2>4. tClaims \in [Claims -> History] /\ claims \in [Claims -> History]
    BY <1>1, TargetTypes DEF StoreInv, TypeOK, TablesTypeOK
  <2> QED
    BY <2>3, <2>4 DEF History
<1>11. /\ \A s \in Statuses : c \in idxStatus[s] <=> Latest(c).status = s
       /\ \A e \in Entities : c \in idxObject[e] <=>
            \E q \in 1..n : e \in PointsAt(claims[c][q].object)
  BY <1>1 DEF SerialInv, StatusIndexExact, EverIndexed, n
<1>12. ASSUME NEW e \in Entities PROVE c \in tSubject[e] <=> c \in idxSubject[e]
  <2>1. c \in tSubject[e] <=> \E r \in Revisions : /\ claims[c][r] # Absent
                                                  /\ claims[c][r].subject = e
    BY <1>1, <1>10 DEF TargetInv
  <2>2. \A r \in Revisions : claims[c][r] # Absent => c \in idxSubject[claims[c][r].subject]
    BY <1>1 DEF StoreInv, EntityIndexesCover, Indexed, Stored
  <2>3. c \in idxSubject[e] <=> Latest(c).subject = e
    BY <1>1 DEF SerialInv, SubjectIndexExact
  <2>4. claims[c][n] # Absent
    BY <1>2, <1>6
  <2> QED
    BY <1>6, <2>1, <2>2, <2>3, <2>4
<1> QED
  BY <1>8, <1>9, <1>10, <1>11, <1>12 DEF SameClaim

(* An archive that has all the store has, imported to the end, makes of    *)
(* every claim that was not skipped what it is in the store: history,      *)
(* links, status, subject and relation, whatever crashes and retries went  *)
(* before (archive.rs: "replaying them in order rebuilds the history       *)
(* exactly").                                                              *)
THEOREM RoundTrip ==
  ArchiveSpec => [](ImportComplete /\ UpToDate(archive)
                      => \A c \in Claims : Exists(c) /\ c \notin import.skipped => SameClaim(c))
<1>1. ArchiveInv /\ ImportedExactly =>
        (ImportComplete /\ UpToDate(archive)
           => \A c \in Claims : Exists(c) /\ c \notin import.skipped => SameClaim(c))
  BY ImportedIsSame
<1> QED
  BY <1>1, ArchiveInvariant, ImportsExactly, PTL

(* Nothing restored is overwritten or deleted by a later step.             *)
THEOREM ImportsAdd == ArchiveSpec => ImportIsAdditive
<1> DEFINE Adds == \A c \in Claims : \A r \in Revisions :
                     tClaims[c][r] # Absent =>
                       /\ tClaims'[c][r] # Absent
                       /\ Entry(tClaims[c][r])' = Entry(tClaims[c][r])
<1>1. ArchiveInv /\ [ArchiveNext /\ NoOverlap']_archiveVars => [Adds]_archiveVars
  <2> SUFFICES ASSUME ArchiveInv, ArchiveNext PROVE Adds
    OBVIOUS
  <2>1. CASE UNCHANGED tClaims
    BY <2>1 DEF Entry
  <2>2. CASE Restore
    <3>1. import # None
      BY <2>2 DEF Restore, Importing
    <3>2. TargetInv /\ GoodArchive(archive) /\ GoodImport(import)
      BY <3>1 DEF ArchiveInv
    <3>3. PICK c \in Claims, r \in Revisions, body \in Revision :
           /\ UpTo(tClaims[c], r - 1)
           /\ tClaims' = [tClaims EXCEPT ![c] =
                             [q \in Revisions |-> IF q = r THEN body ELSE tClaims[c][q]]]
      BY <2>2, <3>2, RestoreWrites
    <3>4. tClaims[c][r] = Absent
      BY <3>3, BoundAssumption DEF UpTo, Revisions
    <3>5. tClaims \in [Claims -> History]
      BY <3>2, TargetTypes
    <3>6. ASSUME NEW d \in Claims, NEW q \in Revisions, tClaims[d][q] # Absent
          PROVE  tClaims'[d][q] = tClaims[d][q]
      BY <3>3, <3>4, <3>5, <3>6
    <3> QED
      BY <3>6 DEF Entry
  <2>3. \/ Restore
        \/ UNCHANGED tClaims
    BY DEF ArchiveNext, Serve, ServeCommit, BeginExport, ReadIndex, ReadLatest, ReadFails,
       ReadHistory, HistoryFails,
       EndExport, BeginImport, Skip, EndImport, ExporterCrash, ImporterCrash, tTables
  <2> QED
    BY <2>1, <2>2, <2>3
<1> QED
  BY <1>1, ArchiveInvariant, PTL DEF ArchiveSpec, ImportIsAdditive
=============================================================================
