-------------------------- MODULE KnowledgeArchive --------------------------
(***************************************************************************)
(* Export of a live store and import into another one                      *)
(* (src/qo/qo-knowledge/src/archive.rs).                                   *)
(*                                                                         *)
(* export walks the status index and then reads history after history,     *)
(* each in a read transaction of its own, while handlers go on changing    *)
(* the store.  import replays an archive revision by revision, each in a   *)
(* write transaction of its own; it may be killed anywhere and tried again *)
(* with the same archive or a newer one.  Nobody else writes to the target, *)
(* which may hold claims of its own, under ids the archive also has.       *)
(***************************************************************************)
EXTENDS KnowledgeStore

CONSTANT None  \* no archive yet, no export or import under way

VARIABLES tClaims, tSubject, tObject, tStatus,  \* the tables of the target
          export,   \* the export under way: statuses left to walk, claims of
                    \* the last one walked, ids found, ids found before that
                    \* status, revisions written out.  Three fields only serve
                    \* the properties: known, the claims there when it began;
                    \* quiet, nothing was written since; lost, the statuses
                    \* whose claims could not be read
          archive,  \* the newest archive: revisions, oldest first per claim
          import    \* the import under way: how many revisions of archive
                    \* have been dealt with, the ids skipped

Target == INSTANCE KnowledgeTables
            WITH claims <- tClaims, idxSubject <- tSubject,
                 idxObject <- tObject, idxStatus <- tStatus

tTables == <<tClaims, tSubject, tObject, tStatus>>

archiveVars == <<claims, idxSubject, idxObject, idxStatus, call,
                 tClaims, tSubject, tObject, tStatus, export, archive, import>>

(* A claim the target's people proposed under the same id. *)
OwnClaim(f, by) ==
  [subject |-> f, object |-> NoEntity, status |-> "Proposed", evidence |-> <<>>,
   by |-> by, superseded |-> 0]

(* The target is empty or holds a few proposals. *)
TargetInit ==
  \E own \in SUBSET Claims, f \in Entities, by \in Provenances :
    /\ tClaims = [c \in Claims |-> [r \in Revisions |->
                    IF c \in own /\ r = 1 THEN OwnClaim(f, by) ELSE Absent]]
    /\ tSubject = [e \in Entities |-> IF e = f THEN own ELSE {}]
    /\ tObject = [e \in Entities |-> {}]
    /\ tStatus = [s \in Statuses |-> IF s = "Proposed" THEN own ELSE {}]

ArchiveInit ==
  /\ Init
  /\ TargetInit
  /\ export = None
  /\ archive = None
  /\ import = None

-----------------------------------------------------------------------------
(* Handlers go on using the store. *)

Serve ==
  /\ \E w \in Workers, c \in Claims : Call(w, c)
  /\ UNCHANGED <<tTables, export, archive, import>>

ServeCommit(w) ==
  /\ Commit(w)
  /\ export' = IF export = None THEN None ELSE [export EXCEPT !.quiet = FALSE]
  /\ UNCHANGED <<tTables, archive, import>>

-----------------------------------------------------------------------------
(* export *)

(* Not the code: the last status is forgotten. *)
AllStatuses_NotStale == <<"Observed", "Proposed", "Verified", "Refuted">>

(* ClaimStatus::ALL *)
AllStatuses == <<"Observed", "Proposed", "Verified", "Stale", "Refuted">>

(* history(), in one read transaction. *)
Trail(c) ==
  [r \in 1..LatestRev(c) |-> [claim |-> c, revision |-> r, body |-> claims[c][r]]]

BeginExport ==
  /\ export = None
  /\ export' = [left |-> AllStatuses, batch |-> {}, status |-> "none", ids |-> {},
                before |-> {}, out |-> <<>>,
                known |-> {c \in Claims : Exists(c)}, quiet |-> TRUE, lost |-> {}]
  /\ UNCHANGED <<tables, call, tTables, archive, import>>

Exporting(phase) ==
  /\ export # None
  /\ phase = CASE export.batch # {} -> "latest"
               [] export.batch = {} /\ export.left # <<>> -> "index"
               [] OTHER -> "history"

(* claims_with_status: the index is read ... *)
ReadIndex ==
  /\ Exporting("index")
  /\ export' = [export EXCEPT !.left = Tail(@), !.status = Head(export.left),
                              !.batch = idxStatus[Head(export.left)],
                              !.before = export.ids]
  /\ UNCHANGED <<tables, call, tTables, archive, import>>

(* ... and then each claim, which counts only if it still has the status. *)
ReadLatest ==
  /\ Exporting("latest")
  /\ \E c \in export.batch :
       export' = [export EXCEPT !.batch = @ \ {c},
                                !.ids = IF Latest(c).status = export.status
                                        THEN @ \cup {c} ELSE @]
  /\ UNCHANGED <<tables, call, tTables, archive, import>>

(* Not the code: the default stands for all the ids, not those of a status. *)
ReadFails_All ==
  /\ Exporting("latest")
  /\ export' = [export EXCEPT !.left = <<>>, !.batch = {}, !.ids = {},
                              !.lost = @ \cup {export.status}]
  /\ UNCHANGED <<tables, call, tTables, archive, import>>

(* A read fails in the index, or at one of its claims: claims_with_status  *)
(* has an error, and unwrap_or_default() makes of it that no claim has the *)
(* status.  The walk goes on with the next one.                            *)
ReadFails ==
  /\ \/ /\ Exporting("index")
        /\ export' = [export EXCEPT !.left = Tail(@), !.lost = @ \cup {Head(export.left)}]
     \/ /\ Exporting("latest")
        /\ export' = [export EXCEPT !.batch = {}, !.ids = export.before,
                                    !.lost = @ \cup {export.status}]
  /\ UNCHANGED <<tables, call, tTables, archive, import>>

(* Not the code: only the newest revision is kept. *)
ReadHistory_Newest ==
  /\ Exporting("history")
  /\ \E c \in export.ids :
       export' = [export EXCEPT !.ids = @ \ {c},
                                !.out = @ \o SubSeq(Trail(c), LatestRev(c), LatestRev(c))]
  /\ UNCHANGED <<tables, call, tTables, archive, import>>

(* The ids are sorted in the code; here they come in any order. *)
ReadHistory ==
  /\ Exporting("history")
  /\ \E c \in export.ids :
       export' = [export EXCEPT !.ids = @ \ {c}, !.out = @ \o Trail(c)]
  /\ UNCHANGED <<tables, call, tTables, archive, import>>

(* A history that cannot be read ends the export with an error. *)
HistoryFails ==
  /\ Exporting("history")
  /\ export.ids # {}
  /\ export' = None
  /\ UNCHANGED <<tables, call, tTables, archive, import>>

ExportComplete == Exporting("history") /\ export.ids = {}

(* import works on a copy in memory, and only the next import sees a newer  *)
(* archive (bound: the archive is replaced between imports).               *)
EndExport ==
  /\ ExportComplete
  /\ import = None
  /\ archive' = export.out
  /\ export' = None
  /\ UNCHANGED <<tables, call, tTables, import>>

-----------------------------------------------------------------------------
(* import *)

BeginImport ==
  /\ import = None /\ archive # None
  /\ import' = [done |-> 0, skipped |-> {}]
  /\ UNCHANGED <<tables, call, tTables, export, archive>>

Importing == import # None /\ import.done < Len(archive)

NextEntry == archive[import.done + 1]

(* Not the code: an id is not asked for in the target. *)
Taken_Never(entry) == FALSE

(* The id of a first revision is in the target already. *)
Taken(entry) == Target!Exists(entry.claim) /\ entry.revision = 1

Skip ==
  /\ Importing
  /\ LET entry == NextEntry IN
       /\ Taken(entry) \/ entry.claim \in import.skipped
       /\ import' = [import EXCEPT !.done = @ + 1, !.skipped = @ \cup {entry.claim}]
  /\ UNCHANGED <<tables, call, tTables, export, archive>>

(* Not the code: the previous revision is not handed on. *)
RestoredWrite_Alone(entry) ==
  [claim |-> entry.claim, revision |-> entry.revision, body |-> entry.body,
   base |-> 0, previous |-> Absent]

(* restore_revision: the revision as it was recorded, its status and link  *)
(* included, on top of the newest one in the target.                       *)
RestoredWrite(entry) ==
  LET base == IF entry.revision > 1 THEN Target!LatestRev(entry.claim) ELSE 0
  IN [claim |-> entry.claim, revision |-> entry.revision, body |-> entry.body,
      base |-> base,
      previous |-> IF base = 0 THEN Absent ELSE tClaims[entry.claim][base]]

Restore ==
  /\ Importing
  /\ LET entry == NextEntry IN
       /\ ~Taken(entry) /\ entry.claim \notin import.skipped
       /\ Target!WriteRevision(RestoredWrite(entry))
       /\ import' = [import EXCEPT !.done = @ + 1]
  /\ UNCHANGED <<tables, call, export, archive>>

ImportComplete == import # None /\ import.done = Len(archive)

EndImport ==
  /\ ImportComplete
  /\ import' = None
  /\ UNCHANGED <<tables, call, tTables, export, archive>>

(* The exporting server dies, or the importing one. *)
ExporterCrash ==
  /\ Crash
  /\ export' = None
  /\ UNCHANGED <<tTables, archive, import>>

ImporterCrash ==
  /\ import' = None
  /\ UNCHANGED <<tables, call, tTables, export, archive>>

ArchiveNext ==
  \/ Serve
  \/ \E w \in Workers : ServeCommit(w)
  \/ BeginExport \/ ReadIndex \/ ReadLatest \/ ReadFails
  \/ ReadHistory \/ HistoryFails \/ EndExport
  \/ BeginImport \/ Skip \/ Restore \/ EndImport
  \/ ExporterCrash \/ ImporterCrash

(* Calls on one claim do not overlap: what export meets is a ledger. *)
ArchiveSpec == ArchiveInit /\ [][ArchiveNext /\ NoOverlap']_archiveVars

-----------------------------------------------------------------------------

(* The last revision of its claim in a sequence of archived revisions. *)
LastOf(entries, i) == i = Len(entries) \/ entries[i + 1].claim # entries[i].claim

(* An archive is never torn within a claim: whatever was written while     *)
(* export read, what it has of a claim is the beginning of the claim's     *)
(* history, once and in one piece, and its last revision is marked live.   *)
ArchivedTrailsAreWhole ==
  archive # None =>
    \A i \in DOMAIN archive :
      LET entry == archive[i]
          c == entry.claim
          r == entry.revision
      IN /\ IF r = 1 THEN \A j \in 1..(i - 1) : archive[j].claim # c
            ELSE i > 1 /\ archive[i - 1].claim = c /\ archive[i - 1].revision = r - 1
         /\ r =< LatestRev(c) /\ Entry(entry.body) = Entry(claims[c][r])
         /\ entry.body.superseded = (IF LastOf(archive, i) THEN 0 ELSE r + 1)

(* A failed read costs the claims of its own status and no others: of the  *)
(* claims whose status could be read, an export during which nothing was   *)
(* written has every revision, whichever of the other reads failed.  (That *)
(* the lost ones are missing from an archive that reports success is how   *)
(* unwrap_or_default() in export works.)                                   *)
QuietExportLosesOnlyUnread ==
  ExportComplete /\ export.quiet =>
    \A c \in Claims : \A r \in 1..LatestRev(c) :
      \/ Latest(c).status \in export.lost
      \/ \E i \in DOMAIN export.out : export.out[i] = Trail(c)[r]

(* archive.rs: "Read the entire graph out, every revision included": a     *)
(* claim that was there when export began is in what it wrote, when every  *)
(* read succeeded.                                                         *)
ExportHasEveryClaim ==
  ExportComplete /\ export.lost = {} =>
    \A c \in export.known : \E i \in DOMAIN export.out : export.out[i].claim = c

(* When import is done, every claim it did not skip is in the target as it *)
(* is in the archive, links and indexes included: "replaying them in order *)
(* rebuilds the history exactly".                                          *)
ImportedExactly ==
  ImportComplete =>
    \A i \in DOMAIN archive :
      LET c == archive[i].claim
          r == archive[i].revision
      IN c \notin import.skipped =>
           /\ tClaims[c][r] = archive[i].body
           /\ LastOf(archive, i) =>
                /\ Target!LatestRev(c) = r
                /\ \A s \in Statuses : c \in tStatus[s] <=> s = Target!Latest(c).status
                /\ \A e \in Entities : c \in tObject[e] <=>
                     \E q \in 1..r : e \in PointsAt(tClaims[c][q].object)

(* "Import never deletes and never overwrites": whatever was restored      *)
(* stays, through crashes, retries and archives of later days.             *)
ImportIsAdditive ==
  [][\A c \in Claims : \A r \in Revisions :
       tClaims[c][r] # Absent =>
         /\ tClaims'[c][r] # Absent
         /\ Entry(tClaims[c][r])' = Entry(tClaims[c][r])]_archiveVars
=============================================================================
