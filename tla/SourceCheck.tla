---------------------------- MODULE SourceCheck ----------------------------
(***************************************************************************)
(* The sweeps that hold claims against the source files                    *)
(* (src/qo/qo-knowledge/src/sourcecheck.rs and                             *)
(* src/qo/qo-server/src/repository_indexer.rs), run by handlers next to    *)
(* each other while people decide claims by hand and edit the files.       *)
(*                                                                         *)
(* A sweep lists claims, then goes through the list: it looks at one claim *)
(* and its file, decides, and makes a call of KnowledgeStore, which reads  *)
(* the claim again and writes.  Listing, looking, reading and writing are  *)
(* steps of their own.  A file is a set of lines, a line and a statement   *)
(* are sets of terms; the file of a claim is its subject.                  *)
(***************************************************************************)
EXTENDS KnowledgeStore, FiniteSets

CONSTANTS Contents,    \* what a file may hold: sets of lines
          Missing,     \* a file that is gone, too large or outside the root
          Terms,       \* the distinctive terms of a claim or of a line
          IndexClaim,  \* the claim id "index:file:<path>" of each indexed file
          NoExcerpt,   \* evidence without a verbatim excerpt
          None         \* a handler with no sweep, a sweep with no claim in hand

ASSUME ExcerptAssumption ==
  /\ \A e \in Evidence : e = [supports |-> e.supports, excerpt |-> e.excerpt]
  /\ NoExcerpt \notin Contents \cup UNION Contents
  /\ \A x \in Contents \cup UNION Contents : [supports |-> TRUE, excerpt |-> x] \in Evidence
ASSUME IndexAssumption ==
  /\ \A f \in DOMAIN IndexClaim : f \in Entities /\ IndexClaim[f] \in Claims
  /\ \A f, g \in DOMAIN IndexClaim : IndexClaim[f] = IndexClaim[g] => f = g

Excerpts == {NoExcerpt} \cup {e.excerpt : e \in Evidence}

(* A claim on the list of a sweep, and a call of the store to make on it. *)
Item == [claim : Claims, file : Entities, excerpt : Excerpts]

StoreCall == [new : BOOLEAN, status : Statuses, evidence : Seq(Evidence)]

ASSUME NoneAssumption == None \notin [item : Item, calls : Seq(StoreCall)]

VARIABLES source,  \* what each file holds
          sweep    \* the sweep each handler runs: kind; todo, the claims listed
                   \* and not looked at yet; doing, the claim in hand and the
                   \* calls to make on it.  alone only serves the properties:
                   \* nothing else was written or edited since it began

sweepVars == <<claims, idxSubject, idxObject, idxStatus, call, source, sweep>>

Kinds == {"verify", "refresh", "heal", "index"}

SweepInit ==
  /\ Init
  /\ source \in [Entities -> Contents \cup {Missing}]
  /\ sweep = [w \in Workers |-> None]

-----------------------------------------------------------------------------
(* The lexical check. *)

Readable(f) == source[f] # Missing

(* assess: every distinctive term appears somewhere in the file. *)
Supports(c, content) ==
  /\ Terms[c] # {}
  /\ \A t \in Terms[c] : \E line \in content : t \in Terms[line]

Hits(c, line) == Cardinality(Terms[c] \cap Terms[line])

(* best_line; which of several best lines is left open. *)
BestLines(c, content) ==
  {line \in content : \A other \in content : Hits(c, other) =< Hits(c, line)}

(* The fingerprint of a file stands for its whole content. *)
Fingerprint(f) == [supports |-> TRUE, excerpt |-> source[f]]

WithExcerpt(rev) ==
  {i \in DOMAIN rev.evidence : rev.evidence[i].supports /\ rev.evidence[i].excerpt # NoExcerpt}

(* The excerpt refresh_sources compares: that of the first supporting      *)
(* evidence that has one.                                                  *)
Recorded(rev) ==
  LET kept == WithExcerpt(rev)
      first == CHOOSE i \in kept : \A j \in kept : i =< j
  IN IF kept = {} THEN NoExcerpt ELSE rev.evidence[first].excerpt

(* The file contains the excerpt; no file contains its own fingerprint. *)
Contains(f, excerpt) == Readable(f) /\ excerpt \in source[f]

-----------------------------------------------------------------------------
(* What a look at a claim and its file leads to: the set of the lists of   *)
(* store calls the sweep may go on to make.                                *)

Promotion(line) ==
  <<[new |-> FALSE, status |-> "Verified",
     evidence |-> <<[supports |-> TRUE, excerpt |-> line]>>]>>

MarkedStale == [new |-> FALSE, status |-> "Stale", evidence |-> <<>>]

Observation(f, new) == [new |-> new, status |-> "Observed", evidence |-> <<Fingerprint(f)>>]

(* The verdict of verify_claim_against_source and of heal_stale. *)
Substantiate(c, f) ==
  IF Readable(f) /\ Supports(c, source[f])
  THEN {Promotion(line) : line \in BestLines(c, source[f])}
  ELSE {<<>>}

(* Only a proposal is promoted; its status is read again here. *)
VerifyCalls(c) ==
  IF Exists(c) /\ Latest(c).status = "Proposed" THEN Substantiate(c, Latest(c).subject) ELSE {<<>>}

(* refresh_sources: a claim without an excerpt is skipped. *)
RefreshCalls(excerpt, f) ==
  IF excerpt = NoExcerpt \/ Contains(f, excerpt) THEN {<<>>} ELSE {<<MarkedStale>>}

Known(c, f) ==
  LET kept == Latest(c).evidence
  IN kept # <<>> /\ kept[Len(kept)].excerpt = source[f]

(* index_file: a file that cannot be read is skipped; one whose fingerprint *)
(* changed is marked stale and observed again.                              *)
IndexCalls(c, f) ==
  CASE ~Readable(f) -> {<<>>}
    [] Readable(f) /\ ~Exists(c) -> {<<Observation(f, TRUE)>>}
    [] Readable(f) /\ Exists(c) ->
         IF Known(c, f) THEN {<<>>} ELSE {<<MarkedStale, Observation(f, FALSE)>>}

Calls(kind, item) ==
  CASE kind = "verify" -> VerifyCalls(item.claim)
    [] kind = "refresh" -> RefreshCalls(item.excerpt, item.file)
    [] kind = "heal" -> Substantiate(item.claim, item.file)
    [] kind = "index" -> IndexCalls(item.claim, item.file)

-----------------------------------------------------------------------------
(* The sweeps. *)

(* claims_with_status: the index, then the newest revisions, of which those *)
(* with another status are dropped.  Of the copies a sweep uses the file    *)
(* and, when it refreshes, the recorded excerpt.                            *)
Listed(status) ==
  {[claim |-> c, file |-> Latest(c).subject,
    excerpt |-> IF status \in {"Verified", "Observed"} THEN Recorded(Latest(c)) ELSE NoExcerpt] :
     c \in {d \in idxStatus[status] : Exists(d) /\ Latest(d).status = status}}

Files ==
  {[claim |-> IndexClaim[f], file |-> f, excerpt |-> NoExcerpt] : f \in DOMAIN IndexClaim}

(* Not the code: the healing pass also takes up refuted claims. *)
List_HealsRefuted(kind) ==
  CASE kind = "verify" -> Listed("Proposed")
    [] kind = "refresh" -> Listed("Verified") \cup Listed("Observed")
    [] kind = "heal" -> Listed("Stale") \cup Listed("Refuted")
    [] kind = "index" -> Files

List(kind) ==
  CASE kind = "verify" -> Listed("Proposed")
    [] kind = "refresh" -> Listed("Verified") \cup Listed("Observed")
    [] kind = "heal" -> Listed("Stale")
    [] kind = "index" -> Files

Free(w) == sweep[w] = None /\ call[w] = Idle

StartSweep(w, kind) ==
  /\ Free(w)
  /\ sweep' = [sweep EXCEPT ![w] =
       [kind |-> kind, todo |-> List(kind), doing |-> None, alone |-> StatusIndexExact]]
  /\ UNCHANGED <<tables, call, source>>

(* The sweeps after w was told of the calls to make on a listed claim. *)
Decided(w, item, calls) ==
  [sweep EXCEPT ![w] =
     [kind |-> @.kind, todo |-> @.todo \ {item}, alone |-> @.alone,
      doing |-> IF calls = <<>> THEN None ELSE [item |-> item, calls |-> calls]]]

(* The next claim of the list, in any order, is held against its file. *)
Look(w) ==
  /\ sweep[w] # None /\ sweep[w].doing = None
  /\ \E item \in sweep[w].todo : \E calls \in Calls(sweep[w].kind, item) :
       sweep' = Decided(w, item, calls)
  /\ UNCHANGED <<tables, call, source>>

InHand(w) == sweep[w] # None /\ sweep[w].doing # None /\ call[w] = Idle

NextCall(w) == Head(sweep[w].doing.calls)

(* The store call begins, with a read of its own. *)
Act(w) ==
  /\ InHand(w)
  /\ \E by \in Provenances :
       LET item == sweep[w].doing.item
           next == NextCall(w)
       IN IF next.new
          THEN AddClaim(w, item.claim, [subject |-> item.file, object |-> NoEntity,
                               status |-> next.status, evidence |-> next.evidence,
                               by |-> by, superseded |-> 0])
          ELSE Advance(w, item.claim, next.status, next.evidence, by)
  /\ UNCHANGED <<source, sweep>>

(* Not the code: only the first call on a claim is made. *)
AfterCall_FirstOnly(s) == [s EXCEPT !.doing = None]

(* What is left of a sweep after a call on the claim in hand. *)
AfterCall(s) ==
  [s EXCEPT !.doing = IF Len(s.doing.calls) = 1 THEN None
                      ELSE [s.doing EXCEPT !.calls = Tail(s.doing.calls)]]

(* A write by w is seen as an overlap by every other sweep. *)
Disturbed(s) == IF s = None THEN None ELSE [s EXCEPT !.alone = FALSE]

(* The sweeps after a write by w. *)
Written(w) ==
  [v \in Workers |->
     IF v # w THEN Disturbed(sweep[v])
     ELSE IF sweep[w] = None THEN None ELSE AfterCall(sweep[w])]

(* The call commits: one of a sweep, or one of a decision by hand. *)
SweepCommit(w) ==
  /\ Commit(w)
  /\ sweep' = Written(w)
  /\ UNCHANGED source

(* The database fails a call, or add_claim finds the id taken.  The error  *)
(* ends a sweep, but the indexer notes it, or ignores it, and goes on.     *)
CallFails(w) ==
  /\ InHand(w)
  /\ sweep' = [sweep EXCEPT ![w] =
       IF sweep[w].kind = "index" THEN Disturbed(AfterCall(sweep[w])) ELSE None]
  /\ UNCHANGED <<tables, call, source>>

(* The report goes back to the caller. *)
EndSweep(w) ==
  /\ sweep[w] # None /\ sweep[w].doing = None /\ sweep[w].todo = {}
  /\ sweep' = [sweep EXCEPT ![w] = None]
  /\ UNCHANGED <<tables, call, source>>

-----------------------------------------------------------------------------
(* What happens around the sweeps. *)

(* Somebody proposes a claim about a file, without evidence. *)
Propose(w, c) ==
  /\ Free(w)
  /\ \E f \in Entities, by \in Provenances :
       AddClaim(w, c, [subject |-> f, object |-> NoEntity, status |-> "Proposed",
                       evidence |-> <<>>, by |-> by, superseded |-> 0])
  /\ UNCHANGED <<source, sweep>>

(* Somebody decides a claim by hand, whatever its status. *)
Decide(w, c) ==
  /\ Free(w)
  /\ \E e \in Evidence, by \in Provenances :
       /\ e.excerpt = NoExcerpt
       /\ Advance(w, c, IF e.supports THEN "Verified" ELSE "Refuted", <<e>>, by)
  /\ UNCHANGED <<source, sweep>>

(* A file is edited, deleted or restored. *)
Edit(f) ==
  /\ \E content \in (Contents \cup {Missing}) \ {source[f]} :
       source' = [source EXCEPT ![f] = content]
  /\ sweep' = [w \in Workers |-> Disturbed(sweep[w])]
  /\ UNCHANGED <<tables, call>>

SweepCrash ==
  /\ Crash
  /\ sweep' = [w \in Workers |-> None]
  /\ UNCHANGED source

SweepStep(w) == Look(w) \/ Act(w) \/ SweepCommit(w) \/ CallFails(w) \/ EndSweep(w)

SweepNext ==
  \/ \E w \in Workers, kind \in Kinds : StartSweep(w, kind)
  \/ \E w \in Workers : SweepStep(w)
  \/ \E w \in Workers, c \in Claims : Propose(w, c) \/ Decide(w, c)
  \/ \E f \in Entities : Edit(f)
  \/ SweepCrash

SweepSpec == SweepInit /\ [][SweepNext]_sweepVars

(* The same with a lock per claim id around each call of the store, whose  *)
(* own races are KnowledgeStore's subject; sweeps still overlap each other *)
(* and decisions by hand.                                                  *)
SerialSweepSpec == SweepInit /\ [][SweepNext /\ NoOverlap']_sweepVars

-----------------------------------------------------------------------------

(* A sweep that nothing disturbed leaves nothing of its kind to do: no     *)
(* proposal and no stale claim that its file substantiates, no settled     *)
(* claim whose recorded line is gone, no changed file that is not indexed. *)
NothingLeft(kind) ==
  /\ kind = "verify" =>
       \A c \in Claims : Exists(c) /\ Latest(c).status = "Proposed"
         => Substantiate(c, Latest(c).subject) = {<<>>}
  /\ kind = "heal" =>
       \A c \in Claims : Exists(c) /\ Latest(c).status = "Stale"
         => Substantiate(c, Latest(c).subject) = {<<>>}
  /\ kind = "refresh" =>
       \A c \in Claims : Exists(c) /\ Latest(c).status \in {"Verified", "Observed"}
         => RefreshCalls(Recorded(Latest(c)), Latest(c).subject) = {<<>>}
  /\ kind = "index" =>
       \A f \in DOMAIN IndexClaim : IndexCalls(IndexClaim[f], f) = {<<>>}

UndisturbedSweepIsComplete ==
  \A w \in Workers :
    /\ sweep[w] # None /\ sweep[w].alone
    /\ sweep[w].doing = None /\ sweep[w].todo = {}
    => NothingLeft(sweep[w].kind)

Moves == {<<"Proposed", "Verified">>, <<"Stale", "Verified">>,
          <<"Verified", "Stale">>, <<"Observed", "Stale">>}

(* "Promote, never launder": a sweep over claims that nothing disturbed    *)
(* takes only proposals and stale claims to Verified, makes only settled   *)
(* claims stale, and leaves a refutation alone.                            *)
UndisturbedSweepKeepsDecisions ==
  [][\A w \in Workers :
       /\ SweepCommit(w)
       /\ sweep[w] # None /\ sweep[w].alone /\ sweep[w].kind # "index"
       => <<Latest(call[w].claim).status, call[w].body.status>> \in Moves]_sweepVars
=============================================================================
