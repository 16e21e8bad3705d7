----------------------------- MODULE GraphMerge -----------------------------
(***************************************************************************)
(* Merging worker deltas into the knowledge store                          *)
(* (src/qo/qo-knowledge/src/merge.rs), by concurrent handlers.             *)
(*                                                                         *)
(* merge_signed_delta records the delta's id in one transaction and then   *)
(* applies the operations in turn; each operation reads the claim, decides *)
(* by DeltaMerge!Outcome, and if it applies makes a call of KnowledgeStore, *)
(* which reads the claim again and writes.  So an operation is three       *)
(* transactions, and a delta many, with other handlers and crashes between. *)
(***************************************************************************)
EXTENDS KnowledgeStore

CONSTANTS Deltas,  \* the deltas that workers submit
          None     \* a handler that is not merging

INSTANCE DeltaMerge

(* The operations of a delta (AddEntity is left out).  A claim has a time  *)
(* of its own, whatever the delta's; bound: one piece of evidence.         *)
Ops == [kind : {"add_claim"}, claim : Claims, subject : Entities, object : Objects,
        evidence : {<<>>} \cup {<<e>> : e \in Evidence}, by : Provenances]
       \cup [kind : {"add_relation"}, claim : Claims, object : Entities]
       \cup [kind : {"verify_claim", "refute_claim"}, claim : Claims, evidence : Evidence]

Phases == {"guard", "apply", "write"}
Jobs == [delta  : Deltas,
         op     : Nat \ {0},
         phase  : Phases,
         read   : Entries \cup {Absent},
         before : [Claims -> Entries \cup {Absent}] \cup {None}]

(* None is not taken for a merge, nor Absent for what a claim says. *)
ASSUME DeltasAssumption ==
  /\ Provenances \subseteq Nat
  /\ \A d \in Deltas : d.at \in Provenances /\ d.ops \in Seq(Ops)
  /\ None \notin Jobs
  /\ Absent \notin Entries

VARIABLES seen,  \* k_seen_deltas: the signed deltas that were accepted
          job    \* the merge each handler is busy with: its delta, the next
                 \* operation, and how far that got.  The other fields only
                 \* serve the properties: read, what the guard read; before,
                 \* the graph when the merge began, None once a merge of one
                 \* of its claims has overlapped it

mergeVars == <<claims, idxSubject, idxObject, idxStatus, call, seen, job>>

(* What history() shows of the newest revisions. *)
Graph == [c \in Claims |-> IF Exists(c) THEN Entry(Latest(c)) ELSE Absent]

Op(j) == j.delta.ops[j.op]

(* The claims a delta is about. *)
Touched(delta) == {delta.ops[i].claim : i \in DOMAIN delta.ops}

Apart(d1, d2) == Touched(d1) \cap Touched(d2) = {}

MergeTypeOK ==
  /\ TypeOK
  /\ seen \subseteq {d \in Deltas : d.signed}
  /\ job \in [Workers -> Jobs \cup {None}]
  /\ \A w \in Workers :
       /\ call[w] # Idle <=> job[w] # None /\ job[w].phase = "write"
       /\ job[w] # None => job[w].op \in 1..Len(job[w].delta.ops) + 1

MergeInit ==
  /\ Init
  /\ seen = {}
  /\ job = [w \in Workers |-> None]

-----------------------------------------------------------------------------

(* merge_signed_delta: an invalid delta is refused before its id is spent, *)
(* a repeated one after; merge_delta, for local callers, takes any valid   *)
(* delta any number of times.                                              *)
Submit(w, d) ==
  /\ job[w] = None
  /\ Valid(d)
  /\ d.signed => d \notin seen
  /\ seen' = IF d.signed THEN seen \cup {d} ELSE seen
  /\ job' = [v \in Workers |->
       CASE v = w -> [delta |-> d, op |-> 1, phase |-> "guard",
                      read |-> Absent,
                      before |-> IF \A u \in Workers :
                                       job[u] # None => Apart(job[u].delta, d)
                                 THEN Graph ELSE None]
         [] v # w /\ job[v] # None /\ ~Apart(job[v].delta, d) ->
              [job[v] EXCEPT !.before = None]
         [] OTHER -> job[v]]
  /\ UNCHANGED <<tables, call>>

Working(w, phase) ==
  /\ job[w] # None
  /\ job[w].phase = phase
  /\ job[w].op \in DOMAIN job[w].delta.ops

(* Not the code: the operation after next. *)
NextOp_Skips(w) == [job EXCEPT ![w].op = @ + 2, ![w].phase = "guard", ![w].read = Absent]

NextOp(w) == [job EXCEPT ![w].op = @ + 1, ![w].phase = "guard", ![w].read = Absent]

(* Not the code: a conflict does not let the merge go on. *)
Guard_Halts(w) ==
  /\ Working(w, "guard")
  /\ LET op == Op(job[w]) IN
       /\ Outcome(Graph[op.claim], op, job[w].delta.at) \in {"apply", "fails"}
       /\ job' = [job EXCEPT ![w].phase = "apply", ![w].read = Graph[op.claim]]
  /\ UNCHANGED <<tables, call, seen>>

(* apply_op's own read: an operation that conflicts or has nothing to do   *)
(* ends here.                                                              *)
Guard(w) ==
  /\ Working(w, "guard")
  /\ LET op == Op(job[w]) IN
       job' = IF Outcome(Graph[op.claim], op, job[w].delta.at) \in {"apply", "fails"}
              THEN [job EXCEPT ![w].phase = "apply", ![w].read = Graph[op.claim]]
              ELSE NextOp(w)
  /\ UNCHANGED <<tables, call, seen>>

(* The store's call begins, with a read of its own. *)
CallStore(w) ==
  LET op == Op(job[w])
      at == job[w].delta.at
  IN CASE op.kind = "add_claim" ->
            AddClaim(w, op.claim, [subject |-> op.subject, object |-> op.object,
                                   status |-> "Proposed", evidence |-> op.evidence,
                                   by |-> op.by, superseded |-> 0])
       [] op.kind = "verify_claim" -> Advance(w, op.claim, "Verified", <<op.evidence>>, at)
       [] op.kind = "refute_claim" -> Advance(w, op.claim, "Refuted", <<op.evidence>>, at)
       [] op.kind = "add_relation" ->
            /\ ~HasRelation(Latest(op.claim).object)
            /\ Replace(w, op.claim, [Latest(op.claim) EXCEPT !.object = op.object, !.by = at])

Apply(w) ==
  /\ Working(w, "apply")
  /\ CallStore(w)
  /\ job' = [job EXCEPT ![w].phase = "write"]
  /\ UNCHANGED seen

(* add_claim fails when another handler came first, attach_relation when   *)
(* the claim has a relation, be it another handler's or one that came      *)
(* without an object.  The error ends the whole merge, and the operations  *)
(* left are not tried.                                                     *)
Abort(w) ==
  /\ Working(w, "apply")
  /\ LET op == Op(job[w]) IN
       \/ op.kind = "add_claim" /\ Exists(op.claim)
       \/ op.kind = "add_relation" /\ HasRelation(Latest(op.claim).object)
  /\ job' = [job EXCEPT ![w] = None]
  /\ UNCHANGED <<tables, call, seen>>

CommitOp(w) ==
  /\ Working(w, "write")
  /\ Commit(w)
  /\ job' = NextOp(w)
  /\ UNCHANGED seen

(* The report goes back to the worker. *)
Finish(w) ==
  /\ job[w] # None
  /\ job[w].op > Len(job[w].delta.ops)
  /\ job' = [job EXCEPT ![w] = None]
  /\ UNCHANGED <<tables, call, seen>>

MergeCrash ==
  /\ Crash
  /\ job' = [w \in Workers |-> None]
  /\ UNCHANGED seen

Step(w) == Guard(w) \/ Apply(w) \/ Abort(w) \/ CommitOp(w) \/ Finish(w)

MergeNext ==
  \/ \E w \in Workers, d \in Deltas : Submit(w, d)
  \/ \E w \in Workers : Step(w)
  \/ MergeCrash

MergeSpec == MergeInit /\ [][MergeNext]_mergeVars

(* A handler that has begun goes on: its calls are synchronous and wait    *)
(* for nothing but the database.                                           *)
FairMergeSpec == MergeSpec /\ \A w \in Workers : WF_mergeVars(Step(w))
-----------------------------------------------------------------------------

(* A merge whose claims no other merge had in hand has made of them        *)
(* exactly what the rules make of them, although each operation read the   *)
(* graph twice and other claims changed meanwhile.                         *)
AloneIsSerial ==
  \A w \in Workers :
    job[w] # None /\ job[w].before # None /\ job[w].op > Len(job[w].delta.ops)
      => \A c \in Touched(job[w].delta) :
           Graph[c] = MergeDelta(job[w].before, job[w].delta)[c]

Opposite == [s \in {"Verified", "Refuted"} |-> IF s = "Verified" THEN "Refuted" ELSE "Verified"]

Reverses(w, c) ==
  /\ call[w] # Idle /\ call[w].claim = c
  /\ Exists(c) /\ Latest(c).status \in DOMAIN Opposite
  /\ call[w].body.status = Opposite[Latest(c).status]

(* What a merge goes by when it decides a claim is what its guard has      *)
(* read; when it adds a relation, what the store's call has read: the      *)
(* status is copied from there.                                            *)
GoneBy(w) ==
  IF Op(job[w]).kind = "add_relation" THEN Entry(call[w].previous) ELSE job[w].read

(* A settled decision is reversed only by a merge that went by something   *)
(* else than the decision that is reversed, never in spite of it           *)
(* (merge.rs:328-345).                                                     *)
SettledUnlessRaced ==
  [][\A w \in Workers, c \in Claims :
       Commit(w) /\ Reverses(w, c) => GoneBy(w) # Graph[c]]_mergeVars

(* Every merge comes to an end, with a report, an error or a crash. *)
MergesEnd == \A w \in Workers : job[w] # None ~> job[w] = None
=============================================================================
