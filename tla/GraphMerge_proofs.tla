------------------------- MODULE GraphMerge_proofs -------------------------
(***************************************************************************)
(* Proofs about GraphMerge, for any number of handlers and any deltas.     *)
(* Every step of a merge is a step of KnowledgeStore or leaves the store   *)
(* alone: MergesUseStore, so that what KnowledgeStore_proofs shows of Spec *)
(* holds of merges.  A merge never acts against the decision it has read:  *)
(* DecisionsAreSettled.  The rules themselves, as functions of the graph,  *)
(* forget nothing, can be applied again, and commute when deltas are about *)
(* different claims; a merge whose claims nobody else has in hand does     *)
(* what they say: AloneMergesAreSerial.                                    *)
(***************************************************************************)
EXTENDS GraphMerge, KnowledgeSerial_proofs

(* What was guarded holds on until the write: the guard let the operation  *)
(* pass on what it read, and the write is the one the operation asks for.  *)
Passed(j) == Outcome(j.read, Op(j), j.delta.at) \in {"apply", "fails"}

Intended(p, op) ==
  /\ p.claim = op.claim
  /\ op.kind = "add_claim" => p.body.status = "Proposed"
  /\ op.kind = "verify_claim" => p.body.status = "Verified"
  /\ op.kind = "refute_claim" => p.body.status = "Refuted"
  /\ op.kind = "add_relation" => p.body.status = p.previous.status

GoodJob(j, p) ==
  /\ Valid(j.delta)
  /\ j.phase \in {"apply", "write"} => j.op \in DOMAIN j.delta.ops /\ Passed(j)
  /\ j.phase = "write" => Intended(p, Op(j))

MergeInv ==
  /\ StoreInv
  /\ MergeTypeOK
  /\ \A w \in Workers : job[w] # None => GoodJob(job[w], call[w])

-----------------------------------------------------------------------------
(* The operations of a delta. *)

LEMMA OpIsOp ==
  ASSUME NEW j \in Jobs, j.op \in DOMAIN j.delta.ops
  PROVE  /\ Op(j) \in Ops
         /\ j.op \in Nat /\ j.op >= 1 /\ j.op <= Len(j.delta.ops)
         /\ Len(j.delta.ops) \in Nat
         /\ j.delta.at \in Provenances
BY DeltasAssumption DEF Jobs, Op

LEMMA OpKinds ==
  ASSUME NEW op \in Ops
  PROVE  /\ op.claim \in Claims
         /\ op.kind \in {"add_claim", "add_relation", "verify_claim", "refute_claim"}
         /\ op.kind = "add_claim" =>
              /\ op.subject \in Entities /\ op.object \in Objects /\ op.by \in Provenances
              /\ op.evidence \in {<<>>} \cup {<<e>> : e \in Evidence}
         /\ op.kind = "add_relation" => op.object \in Entities
         /\ op.kind \in {"verify_claim", "refute_claim"} => op.evidence \in Evidence
BY DEF Ops

(* The guards let a decision pass only where none has been made. *)
LEMMA GuardsSettled ==
  ASSUME NEW existing, NEW op \in Ops, NEW at,
         Outcome(existing, op, at) \in {"apply", "fails"},
         op.kind \in {"verify_claim", "refute_claim"}
  PROVE  existing # Absent /\ existing.status \notin {"Verified", "Refuted"}
<1>1. existing # Absent
  BY DEF Outcome
<1> DEFINE target == IF op.kind = "verify_claim" THEN "Verified" ELSE "Refuted"
<1>2. GuardTransition(existing, target, at) \in {"apply", "fails"}
  BY <1>1 DEF Outcome
<1> QED
  BY <1>1, <1>2 DEF GuardTransition

-----------------------------------------------------------------------------
(* Every step is one of the store, or leaves the store alone. *)

LEMMA StatusWritten ==
  ASSUME NEW r \in Revision, NEW s, NEW e, NEW o, NEW by
  PROVE  /\ [[r EXCEPT !.status = s, !.evidence = e, !.by = by] EXCEPT !.superseded = 0].status = s
         /\ [[r EXCEPT !.object = o, !.by = by] EXCEPT !.superseded = 0].status = r.status
BY DEF Revision

LEMMA ReplaceWrites ==
  ASSUME NEW w \in Workers, NEW c, NEW next, Replace(w, c, next),
         call \in [Workers -> Write \cup {Idle}]
  PROVE  /\ call'[w].claim = c /\ call'[w].previous = Latest(c)
         /\ call'[w].body = [next EXCEPT !.superseded = 0]
         /\ Exists(c)
BY DEF Replace, Begin

LEMMA ApplyIsCall ==
  ASSUME MergeInv, NEW w \in Workers, Apply(w)
  PROVE  /\ Call(w, Op(job[w]).claim) /\ Op(job[w]).claim \in Claims
         /\ Intended(call'[w], Op(job[w]))
<1> DEFINE j == job[w]
           op == Op(j)
           at == j.delta.at
<1>0. /\ j \in Jobs /\ j.op \in DOMAIN j.delta.ops /\ Valid(j.delta)
      /\ CallStore(w) /\ call \in [Workers -> Write \cup {Idle}]
  BY DEF MergeInv, MergeTypeOK, TypeOK, GoodJob, Apply, Working
<1>1. op \in Ops /\ at \in Provenances
  BY <1>0, OpIsOp
<1>2. /\ op.kind = "verify_claim" => op.evidence.supports
      /\ op.kind = "refute_claim" => ~op.evidence.supports
  BY <1>0 DEF Valid, Op
<1> HIDE DEF op, at, j
<1>3. op.claim \in Claims
  BY <1>1, OpKinds
<1>4. \A p : Begin(w, p) => call'[w] = p
  BY <1>0 DEF Begin
<1>5. CASE op.kind = "add_claim"
  <2> DEFINE body == [subject |-> op.subject, object |-> op.object, status |-> "Proposed",
                      evidence |-> op.evidence, by |-> op.by, superseded |-> 0]
  <2>1. AddClaim(w, op.claim, body)
    BY <1>0, <1>5 DEF CallStore, op, at, j
  <2>2. Intended(call'[w], op)
    BY <1>4, <1>5, <2>1 DEF AddClaim, Intended
  <2>3. /\ op.subject \in Entities /\ op.object \in Objects /\ op.by \in Provenances
        /\ op.evidence \in {<<>>} \cup {<<e>> : e \in Evidence}
    BY <1>1, <1>5, OpKinds
  <2>4. AddProposal(w, op.claim)
    BY <1>1, <2>1, <2>3 DEF AddProposal
  <2> QED
    BY <1>3, <2>2, <2>4 DEF Call, op, j
<1>6. CASE op.kind = "verify_claim"
  <2>1. Advance(w, op.claim, "Verified", <<op.evidence>>, at)
    BY <1>0, <1>6 DEF CallStore, op, at, j
  <2>2. Intended(call'[w], op)
    <3> DEFINE e == Latest(op.claim).evidence \o <<op.evidence>>
               next == [Latest(op.claim) EXCEPT !.status = "Verified", !.evidence = e, !.by = at]
    <3>1. Replace(w, op.claim, next)
      BY <2>1 DEF Advance
    <3>2. Latest(op.claim) \in Revision
      BY <1>3, <3>1, LatestIsStored DEF Replace, MergeInv
    <3>3. [next EXCEPT !.superseded = 0].status = "Verified"
      BY <3>2, StatusWritten
    <3> HIDE DEF next
    <3> QED
      BY <1>0, <1>6, <3>1, <3>3, ReplaceWrites DEF Intended
  <2>3. VerifyClaim(w, op.claim)
    BY <1>1, <1>2, <1>6, <2>1, OpKinds DEF VerifyClaim
  <2> QED
    BY <1>3, <2>2, <2>3 DEF Call, op, j
<1>7. CASE op.kind = "refute_claim"
  <2>1. Advance(w, op.claim, "Refuted", <<op.evidence>>, at)
    BY <1>0, <1>7 DEF CallStore, op, at, j
  <2>2. Intended(call'[w], op)
    <3> DEFINE e == Latest(op.claim).evidence \o <<op.evidence>>
               next == [Latest(op.claim) EXCEPT !.status = "Refuted", !.evidence = e, !.by = at]
    <3>1. Replace(w, op.claim, next)
      BY <2>1 DEF Advance
    <3>2. Latest(op.claim) \in Revision
      BY <1>3, <3>1, LatestIsStored DEF Replace, MergeInv
    <3>3. [next EXCEPT !.superseded = 0].status = "Refuted"
      BY <3>2, StatusWritten
    <3> HIDE DEF next
    <3> QED
      BY <1>0, <1>7, <3>1, <3>3, ReplaceWrites DEF Intended
  <2>3. RefuteClaim(w, op.claim)
    BY <1>1, <1>2, <1>7, <2>1, OpKinds DEF RefuteClaim
  <2> QED
    BY <1>3, <2>2, <2>3 DEF Call, op, j
<1>8. CASE op.kind = "add_relation"
  <2>1. /\ ~HasRelation(Latest(op.claim).object)
        /\ Replace(w, op.claim, [Latest(op.claim) EXCEPT !.object = op.object, !.by = at])
    BY <1>0, <1>8 DEF CallStore, op, at, j
  <2>2. Intended(call'[w], op)
    <3> DEFINE next == [Latest(op.claim) EXCEPT !.object = op.object, !.by = at]
    <3>1. Latest(op.claim) \in Revision
      BY <1>3, <2>1, LatestIsStored DEF Replace, MergeInv
    <3>2. [next EXCEPT !.superseded = 0].status = Latest(op.claim).status
      BY <3>1, StatusWritten
    <3>3. Replace(w, op.claim, next)
      BY <2>1
    <3> HIDE DEF next
    <3> QED
      BY <1>0, <1>8, <3>2, <3>3, ReplaceWrites DEF Intended
  <2>3. op.object \in Entities /\ Exists(op.claim)
    BY <1>1, <1>8, <2>1, OpKinds DEF Replace
  <2>4. AttachRelation(w, op.claim)
    BY <1>1, <2>1, <2>3 DEF AttachRelation
  <2> QED
    BY <1>3, <2>2, <2>4 DEF Call, op, j
<1> QED
  BY <1>1, <1>5, <1>6, <1>7, <1>8, OpKinds

LEMMA MergeStepUsesStore ==
  ASSUME MergeInv, [MergeNext]_mergeVars
  PROVE  [Next]_vars
<1>1. ASSUME NEW w \in Workers, NEW d \in Deltas, Submit(w, d) PROVE UNCHANGED vars
  BY <1>1 DEF Submit, tables, vars
<1>2. ASSUME NEW w \in Workers, Guard(w) \/ Abort(w) \/ Finish(w) PROVE UNCHANGED vars
  BY <1>2 DEF Guard, Abort, Finish, tables, vars
<1>3. ASSUME NEW w \in Workers, Apply(w) PROVE Next
  BY <1>3, ApplyIsCall DEF Next
<1>4. ASSUME NEW w \in Workers, CommitOp(w) PROVE Next
  BY <1>4 DEF CommitOp, Next
<1>5. ASSUME MergeCrash PROVE Next
  BY <1>5 DEF MergeCrash, Next
<1>6. CASE UNCHANGED mergeVars
  BY <1>6 DEF mergeVars, vars
<1> QED
  BY <1>1, <1>2, <1>3, <1>4, <1>5, <1>6 DEF MergeNext, Step

-----------------------------------------------------------------------------
(* MergeInv is inductive. *)

LEMMA GraphType ==
  ASSUME StoreInv
  PROVE  Graph \in [Claims -> Entries \cup {Absent}]
<1>1. ASSUME NEW c \in Claims, Exists(c) PROVE Entry(Latest(c)) \in Entries
  BY <1>1, LatestIsStored, EntryOfRevision
<1> QED
  BY <1>1 DEF Graph

LEMMA MergeInitSound == MergeInit => MergeInv
<1> SUFFICES ASSUME MergeInit PROVE MergeInv
  OBVIOUS
<1>1. StoreInv
  BY InitSound DEF MergeInit
<1>2. MergeTypeOK
  BY <1>1 DEF MergeInit, Init, MergeTypeOK, StoreInv
<1> QED
  BY <1>1, <1>2 DEF MergeInv, MergeInit

(* A step of one handler that leaves it with the merge j and the call p,   *)
(* and the others with theirs.                                             *)
LEMMA OneHandlerMoves ==
  ASSUME MergeInv, StoreInv', NEW w \in Workers, NEW j \in Jobs \cup {None},
         job' = [job EXCEPT ![w] = j], seen' = seen,
         \A v \in Workers : v # w => call'[v] = call[v],
         j # None => j.op \in 1..Len(j.delta.ops) + 1 /\ GoodJob(j, call'[w]),
         call'[w] # Idle <=> j # None /\ j.phase = "write"
  PROVE  MergeInv'
<1>1. job \in [Workers -> Jobs \cup {None}] /\ seen \subseteq {d \in Deltas : d.signed}
  BY DEF MergeInv, MergeTypeOK
<1>2. \A v \in Workers : job'[v] = IF v = w THEN j ELSE job[v]
  BY <1>1
<1>3. TypeOK'
  BY DEF StoreInv
<1>4. ASSUME NEW v \in Workers
      PROVE  /\ call'[v] # Idle <=> job'[v] # None /\ job'[v].phase = "write"
             /\ job'[v] # None => /\ job'[v].op \in 1..Len(job'[v].delta.ops) + 1
                                  /\ GoodJob(job'[v], call'[v])
  BY <1>2 DEF MergeInv, MergeTypeOK
<1> QED
  BY <1>1, <1>3, <1>4 DEF MergeInv, MergeTypeOK, GoodJob, Valid, Passed, Op, Outcome,
     GuardTransition, Intended

LEMMA MergeNextSound == MergeInv /\ [MergeNext]_mergeVars => MergeInv'
<1> SUFFICES ASSUME MergeInv, [MergeNext]_mergeVars PROVE MergeInv'
  OBVIOUS
<1>0. /\ StoreInv /\ MergeTypeOK
      /\ job \in [Workers -> Jobs \cup {None}]
      /\ call \in [Workers -> Write \cup {Idle}]
  BY DEF MergeInv, MergeTypeOK, TypeOK
<1>1. StoreInv'
  BY <1>0, MergeStepUsesStore, NextSound
<1>2. ASSUME NEW w \in Workers, NEW d \in Deltas, Submit(w, d) PROVE MergeInv'
  <2> DEFINE before == IF \A u \in Workers : job[u] # None => Apart(job[u].delta, d)
                       THEN Graph ELSE None
             j == [delta |-> d, op |-> 1, phase |-> "guard", read |-> Absent, before |-> before]
  <2>1. before \in [Claims -> Entries \cup {Absent}] \cup {None}
    BY <1>0, GraphType
  <2> HIDE DEF before
  <2>2. j \in Jobs /\ j # None
    BY <2>1, DeltasAssumption DEF Jobs, Phases
  <2>3. d.ops \in Seq(Ops)
    BY DeltasAssumption
  <2>4. job' = [v \in Workers |->
                  CASE v = w -> j
                    [] v # w /\ job[v] # None /\ ~Apart(job[v].delta, d) ->
                         [job[v] EXCEPT !.before = None]
                    [] OTHER -> job[v]]
    BY <1>2 DEF Submit, before
  <2>5. /\ job[w] = None /\ Valid(d) /\ call' = call /\ call[w] = Idle
        /\ seen' \subseteq {x \in Deltas : x.signed}
    BY <1>0, <1>2 DEF Submit, MergeTypeOK
  <2>6. j.op \in 1..Len(j.delta.ops) + 1 /\ GoodJob(j, call[w])
    BY <2>3, <2>5 DEF GoodJob, Valid
  <2> DEFINE o(v) == [job[v] EXCEPT !.before = None]
  <2>7. ASSUME NEW v \in Workers, job[v] # None
        PROVE  /\ o(v) \in Jobs /\ o(v).op = job[v].op /\ o(v).delta = job[v].delta
               /\ o(v).phase = job[v].phase /\ o(v).read = job[v].read
    BY <1>0, <2>7 DEF Jobs
  <2>8. ASSUME NEW v \in Workers, v # w, job[v] # None
        PROVE  o(v) # None /\ GoodJob(o(v), call[v]) /\ o(v).op \in 1..Len(o(v).delta.ops) + 1
    BY <1>0, <2>7, <2>8, DeltasAssumption DEF MergeInv, MergeTypeOK, GoodJob, Passed, Op
  <2> HIDE DEF j, o
  <2>9. ASSUME NEW v \in Workers
        PROVE  /\ job'[v] \in Jobs \cup {None}
               /\ call'[v] # Idle <=> job'[v] # None /\ job'[v].phase = "write"
               /\ job'[v] # None => /\ job'[v].op \in 1..Len(job'[v].delta.ops) + 1
                                    /\ GoodJob(job'[v], call'[v])
    <3>1. CASE v = w
      <4>1. job'[w] = j
        BY <2>4
      <4> QED
        BY <2>2, <2>5, <2>6, <3>1, <4>1 DEF j
    <3>2. CASE v # w /\ job[v] # None /\ ~Apart(job[v].delta, d)
      <4>1. job'[v] = o(v)
        BY <2>4, <3>2 DEF o
      <4> QED
        BY <1>0, <2>5, <2>7, <2>8, <3>2, <4>1 DEF MergeTypeOK
    <3>3. CASE v # w /\ ~(job[v] # None /\ ~Apart(job[v].delta, d))
      <4>1. job'[v] = job[v]
        BY <2>4, <3>3
      <4> QED
        BY <1>0, <2>5, <3>3, <4>1 DEF MergeTypeOK, MergeInv
    <3> QED
      BY <3>1, <3>2, <3>3
  <2> QED
    BY <1>1, <2>4, <2>5, <2>9 DEF MergeInv, MergeTypeOK, StoreInv
<1>3. ASSUME NEW w \in Workers, Guard(w) PROVE MergeInv'
  <2> DEFINE j == job[w]
             op == Op(j)
             passed == [j EXCEPT !.phase = "apply", !.read = Graph[op.claim]]
             n == j.op + 1
             next == [j EXCEPT !.op = n, !.phase = "guard", !.read = Absent]
  <2>1. /\ j \in Jobs /\ j # None /\ Valid(j.delta) /\ j.op \in DOMAIN j.delta.ops
        /\ j.phase = "guard" /\ call[w] = Idle
        /\ UNCHANGED <<tables, call, seen>>
    BY <1>0, <1>3 DEF Guard, Working, MergeInv, MergeTypeOK, GoodJob
  <2>2. op \in Ops /\ j.op \in Nat /\ j.op + 1 \in 1..Len(j.delta.ops) + 1
        /\ j.op \in 1..Len(j.delta.ops) + 1
    BY <2>1, OpIsOp
  <2>6. n \in Nat \ {0} /\ n \in 1..Len(j.delta.ops) + 1
    BY <2>2
  <2>3. Graph[op.claim] \in Entries \cup {Absent}
    BY <1>0, <2>2, GraphType, OpKinds
  <2>4. CASE Outcome(Graph[op.claim], op, j.delta.at) \in {"apply", "fails"}
    <3>1. job' = [job EXCEPT ![w] = passed]
      BY <1>3, <2>4 DEF Guard
    <3>2. /\ passed \in Jobs /\ passed.op = j.op /\ passed.delta = j.delta
          /\ passed.phase = "apply" /\ passed.read = Graph[op.claim]
      BY <2>1, <2>3 DEF Jobs, Phases
    <3> HIDE DEF passed
    <3>3. GoodJob(passed, call[w])
      BY <2>1, <2>4, <3>2 DEF GoodJob, Passed, Op
    <3> QED
      BY <1>1, <2>1, <2>2, <3>1, <3>2, <3>3, OneHandlerMoves
  <2>5. CASE Outcome(Graph[op.claim], op, j.delta.at) \notin {"apply", "fails"}
    <3>1. job' = [job EXCEPT ![w] = next]
      BY <1>3, <2>5 DEF Guard, NextOp
    <3> HIDE DEF n
    <3>2. /\ next \in Jobs /\ next.op = n /\ next.delta = j.delta
          /\ next.phase = "guard"
      BY <2>1, <2>6 DEF Jobs, Phases
    <3> HIDE DEF next
    <3>3. GoodJob(next, call[w])
      BY <2>1, <3>2 DEF GoodJob
    <3> QED
      BY <1>1, <2>1, <2>6, <3>1, <3>2, <3>3, OneHandlerMoves
  <2> QED
    BY <2>4, <2>5
<1>4. ASSUME NEW w \in Workers, Apply(w) PROVE MergeInv'
  <2> DEFINE j == job[w]
             next == [j EXCEPT !.phase = "write"]
  <2>1. /\ j \in Jobs /\ j # None /\ GoodJob(j, call[w]) /\ j.op \in DOMAIN j.delta.ops
        /\ j.phase = "apply" /\ seen' = seen /\ job' = [job EXCEPT ![w] = next]
        /\ j.op \in 1..Len(j.delta.ops) + 1
    BY <1>0, <1>4 DEF Apply, Working, MergeInv, MergeTypeOK
  <2>2. Intended(call'[w], Op(j)) /\ Reads(w)
    BY <1>0, <1>4, ApplyIsCall, CallReads
  <2>3. call'[w] # Idle /\ \A v \in Workers : v # w => call'[v] = call[v]
    BY <1>0, <2>2, IdleAssumption DEF Reads, Begin
  <2>4. /\ next \in Jobs /\ next.op = j.op /\ next.delta = j.delta
        /\ next.phase = "write" /\ next.read = j.read
    BY <2>1 DEF Jobs, Phases
  <2>5. next # None
    BY <2>4, DeltasAssumption
  <2> HIDE DEF next
  <2>6. GoodJob(next, call'[w])
    BY <2>1, <2>2, <2>4 DEF GoodJob, Passed, Op
  <2> QED
    BY <1>1, <2>1, <2>3, <2>4, <2>5, <2>6, OneHandlerMoves
<1>5. ASSUME NEW w \in Workers, Abort(w) \/ Finish(w) PROVE MergeInv'
  <2>1. /\ job' = [job EXCEPT ![w] = None] /\ UNCHANGED <<tables, call, seen>>
        /\ job[w] # None
    BY <1>5 DEF Abort, Finish, Working
  <2>2. call[w] = Idle
    <3>1. CASE Abort(w)
      BY <1>0, <3>1 DEF Abort, Working, MergeTypeOK
    <3>2. CASE Finish(w)
      <4>1. job[w] \in Jobs /\ job[w].op \notin DOMAIN job[w].delta.ops
        BY <1>0, <2>1, <3>2, OpIsOp DEF Finish
      <4> QED
        BY <1>0, <2>1, <4>1 DEF MergeInv, MergeTypeOK, GoodJob
    <3> QED
      BY <1>5, <3>1, <3>2
  <2> QED
    BY <1>1, <2>1, <2>2, OneHandlerMoves
<1>6. ASSUME NEW w \in Workers, CommitOp(w) PROVE MergeInv'
  <2> DEFINE j == job[w]
             n == j.op + 1
             next == [j EXCEPT !.op = n, !.phase = "guard", !.read = Absent]
  <2>1. /\ j \in Jobs /\ j # None /\ Valid(j.delta) /\ j.op \in DOMAIN j.delta.ops
        /\ seen' = seen /\ job' = [job EXCEPT ![w] = next]
    BY <1>0, <1>6 DEF CommitOp, Working, NextOp, MergeInv, GoodJob
  <2>2. n \in Nat \ {0} /\ n \in 1..Len(j.delta.ops) + 1
    BY <2>1, OpIsOp
  <2> HIDE DEF n
  <2>3. call'[w] = Idle /\ \A v \in Workers : v # w => call'[v] = call[v]
    BY <1>0, <1>6 DEF CommitOp, Commit
  <2>4. /\ next \in Jobs /\ next.op = n /\ next.delta = j.delta
        /\ next.phase = "guard"
    BY <2>1, <2>2 DEF Jobs, Phases
  <2> HIDE DEF next
  <2>5. GoodJob(next, call'[w])
    BY <2>1, <2>4 DEF GoodJob
  <2> QED
    BY <1>1, <2>1, <2>2, <2>3, <2>4, <2>5, OneHandlerMoves
<1>7. ASSUME MergeCrash PROVE MergeInv'
  <2>1. /\ job' = [w \in Workers |-> None] /\ call' = [w \in Workers |-> Idle]
        /\ seen' = seen
    BY <1>7 DEF MergeCrash, Crash
  <2> QED
    BY <1>0, <1>1, <2>1 DEF MergeInv, MergeTypeOK, StoreInv
<1>8. CASE UNCHANGED mergeVars
  BY <1>0, <1>1, <1>8 DEF mergeVars, MergeInv, MergeTypeOK, StoreInv
<1> QED
  BY <1>2, <1>3, <1>4, <1>5, <1>6, <1>7, <1>8 DEF MergeNext, Step

(* Merges keep their types, and what a merge is about to write has passed  *)
(* a guard (merge.rs:265-345).                                             *)
THEOREM MergeInvariant == MergeSpec => []MergeInv
BY MergeInitSound, MergeNextSound, PTL DEF MergeSpec

(* Merges change the store only through its calls: every behaviour of the  *)
(* handlers is one of KnowledgeStore.                                      *)
THEOREM MergesUseStore == MergeSpec => Spec
<1>1. MergeInit => Init
  BY DEF MergeInit
<1>2. MergeInv /\ [MergeNext]_mergeVars => [Next]_vars
  BY MergeStepUsesStore
<1> QED
  BY <1>1, <1>2, MergeInvariant, PTL DEF MergeSpec, Spec

(* However merges overlap, none leaves a status without evidence.          *)
THEOREM EvidenceStandsUnderMerges == MergeSpec => []EvidenceBacksStatus
BY MergesUseStore, EvidenceStands, PTL

-----------------------------------------------------------------------------
(* Settled decisions. *)

LEMMA ReversalIsRaced ==
  ASSUME MergeInv, NEW w \in Workers, NEW c \in Claims, Reverses(w, c)
  PROVE  GoneBy(w) # Graph[c]
<1> DEFINE p == call[w]
           j == job[w]
           op == Op(j)
<1>1. /\ j \in Jobs /\ j.op \in DOMAIN j.delta.ops /\ Passed(j) /\ Intended(p, op)
      /\ p.claim = c
  BY DEF Reverses, MergeInv, MergeTypeOK, GoodJob
<1>2. /\ Graph[c] = Entry(Latest(c)) /\ Latest(c).status \in {"Verified", "Refuted"}
      /\ p.body.status \in {"Verified", "Refuted"} /\ p.body.status # Latest(c).status
  BY DEF Reverses, Graph, Opposite
<1>3. op \in Ops /\ op.kind \in {"add_claim", "add_relation", "verify_claim", "refute_claim"}
  BY <1>1, OpIsOp, OpKinds
<1>4. Graph[c].status = Latest(c).status
  BY <1>2 DEF Entry
<1>5. CASE op.kind = "add_relation"
  <2>1. GoneBy(w) = Entry(p.previous)
    BY <1>5 DEF GoneBy
  <2>2. Entry(p.previous).status = p.body.status
    BY <1>1, <1>5 DEF Intended, Entry
  <2> QED
    BY <1>2, <1>4, <2>1, <2>2
<1>6. CASE op.kind \in {"verify_claim", "refute_claim"}
  <2>1. GoneBy(w) = j.read
    BY <1>6 DEF GoneBy
  <2>2. j.read.status \notin {"Verified", "Refuted"}
    BY <1>1, <1>3, <1>6, GuardsSettled DEF Passed
  <2> QED
    BY <1>2, <1>4, <2>1, <2>2
<1>7. CASE op.kind = "add_claim"
  BY <1>1, <1>2, <1>7 DEF Intended
<1> QED
  BY <1>3, <1>5, <1>6, <1>7

(* A merge reverses a settled decision only when it went by something else *)
(* than that decision: never on the strength of what the rules forbid.     *)
THEOREM DecisionsAreSettled == MergeSpec => SettledUnlessRaced
<1>1. MergeInv => \A w \in Workers, c \in Claims :
                    Commit(w) /\ Reverses(w, c) => GoneBy(w) # Graph[c]
  BY ReversalIsRaced
<1> QED
  BY <1>1, MergeInvariant, PTL DEF SettledUnlessRaced

-----------------------------------------------------------------------------
(* What the rules make of a graph, one operation after the other. *)

(* f is the graph after each of the first n operations. *)
Runs(f, graph, delta, n) ==
  f = [k \in 0..n |-> IF k = 0 THEN graph ELSE ApplyOp(f[k - 1], delta.ops[k], delta.at)]

LEMMA RunExists ==
  ASSUME NEW graph, NEW delta, NEW n \in Nat
  PROVE  \E f : Runs(f, graph, delta, n)
<1> DEFINE T == {k \in 0..n : \E f : Runs(f, graph, delta, k)}
<1>1. 0 \in T
  <2>1. Runs([k \in 0..0 |-> graph], graph, delta, 0)
    BY DEF Runs
  <2> QED
    BY <2>1
<1>2. ASSUME NEW k \in 0..n-1, k \in T PROVE k + 1 \in T
  <2>1. PICK f : Runs(f, graph, delta, k)
    BY <1>2
  <2> DEFINE g == [i \in 0..k+1 |-> IF i = k + 1 THEN ApplyOp(f[k], delta.ops[k + 1], delta.at)
                                    ELSE f[i]]
  <2>2. ASSUME NEW i \in 0..k+1
        PROVE  g[i] = IF i = 0 THEN graph ELSE ApplyOp(g[i - 1], delta.ops[i], delta.at)
    <3>1. CASE i = k + 1
      BY <3>1
    <3>2. CASE i # k + 1
      <4>1. i \in 0..k /\ g[i] = f[i] /\ (i # 0 => i - 1 \in 0..k+1 /\ g[i - 1] = f[i - 1])
        BY <3>2
      <4>2. f[i] = IF i = 0 THEN graph ELSE ApplyOp(f[i - 1], delta.ops[i], delta.at)
        BY <2>1, <4>1 DEF Runs
      <4> HIDE DEF g
      <4> QED
        BY <4>1, <4>2
    <3> QED
      BY <3>1, <3>2
  <2>3. DOMAIN g = 0..k+1 /\ g = [i \in 0..k+1 |-> g[i]]
    OBVIOUS
  <2> HIDE DEF g
  <2>4. Runs(g, graph, delta, k + 1)
    BY <2>2, <2>3 DEF Runs
  <2> QED
    BY <2>4
<1> HIDE DEF T
<1>3. n \in T
  BY <1>1, <1>2, CountingUp
<1> QED
  BY <1>3 DEF T

LEMMA AfterOpsRuns ==
  ASSUME NEW graph, NEW delta, Len(delta.ops) \in Nat
  PROVE  /\ AfterOps(graph, delta)[0] = graph
         /\ \A n \in 1..Len(delta.ops) :
              AfterOps(graph, delta)[n]
                = ApplyOp(AfterOps(graph, delta)[n - 1], delta.ops[n], delta.at)
<1> DEFINE after == AfterOps(graph, delta)
<1>1. after = CHOOSE f : Runs(f, graph, delta, Len(delta.ops))
  BY DEF AfterOps, Runs
<1>2. Runs(after, graph, delta, Len(delta.ops))
  BY <1>1, RunExists
<1> HIDE DEF after
<1>3. ASSUME NEW n \in 0..Len(delta.ops)
      PROVE  after[n] = IF n = 0 THEN graph ELSE ApplyOp(after[n - 1], delta.ops[n], delta.at)
  BY <1>2, <1>3 DEF Runs
<1> QED
  BY <1>3 DEF after

(* What the graph says of each claim. *)
Graphs == [Claims -> Entries \cup {Absent}]

LEMMA BodyFields ==
  ASSUME NEW x \in Entries \cup {Absent}, NEW op \in Ops, NEW at \in Provenances,
         Outcome(x, op, at) = "apply"
  PROVE  /\ x # Absent <=> op.kind # "add_claim"
         /\ Body(x, op, at) \in Entries
         /\ op.kind # "add_claim" => Body(x, op, at).by = at
         /\ op.kind = "add_claim" => Body(x, op, at).subject = op.subject
         /\ op.kind # "add_claim" => Body(x, op, at).subject = x.subject
         /\ op.kind = "add_relation" => /\ ~HasRelation(x.object)
                                        /\ Body(x, op, at).object = op.object
                                        /\ Body(x, op, at).status = x.status
                                        /\ Body(x, op, at).evidence = x.evidence
         /\ op.kind \in {"verify_claim", "refute_claim"} =>
              /\ x.status \notin {"Verified", "Refuted"}
              /\ x.by =< at
              /\ Body(x, op, at).object = x.object
              /\ Body(x, op, at).status = IF op.kind = "verify_claim" THEN "Verified" ELSE "Refuted"
              /\ Body(x, op, at).evidence = Append(x.evidence, op.evidence)
<1>1. op.kind \in {"add_claim", "add_relation", "verify_claim", "refute_claim"}
  BY OpKinds
<1>2. x # Absent <=> op.kind # "add_claim"
  BY <1>1 DEF Outcome
<1>3. CASE op.kind = "add_claim"
  <2>1. /\ op.subject \in Entities /\ op.object \in Objects /\ op.by \in Provenances
        /\ op.evidence \in {<<>>} \cup {<<e>> : e \in Evidence}
    BY <1>3, OpKinds
  <2>2. Body(x, op, at) = [subject |-> op.subject, object |-> op.object, status |-> "Proposed",
                           evidence |-> op.evidence, by |-> op.by]
    BY <1>3 DEF Body
  <2>3. op.evidence \in Seq(Evidence)
    <3>1. CASE op.evidence = <<>>
      BY <3>1
    <3>2. CASE \E e \in Evidence : op.evidence = <<e>>
      <4>1. PICK e \in Evidence : op.evidence = <<e>>
        BY <3>2
      <4> QED
        BY <4>1
    <3> QED
      BY <2>1, <3>1, <3>2
  <2> QED
    BY <1>2, <1>3, <2>1, <2>2, <2>3 DEF Entries, Statuses
<1>4. CASE op.kind = "add_relation"
  <2>1. x \in Entries /\ op.object \in Entities
    BY <1>2, <1>4, OpKinds
  <2>2. Body(x, op, at) = [x EXCEPT !.object = op.object, !.by = at]
    BY <1>4 DEF Body
  <2>3. ~HasRelation(x.object)
    BY <1>2, <1>4 DEF Outcome, HasRelation
  <2> QED
    BY <1>2, <1>4, <2>1, <2>2, <2>3, ObjectFacts DEF Entries
<1>5. CASE op.kind \in {"verify_claim", "refute_claim"}
  <2> DEFINE target == IF op.kind = "verify_claim" THEN "Verified" ELSE "Refuted"
             shown == Append(x.evidence, op.evidence)
  <2>1. x \in Entries /\ op.evidence \in Evidence
    BY <1>2, <1>5, OpKinds
  <2>2. x.by \in Nat /\ at \in Nat
    BY <2>1, DeltasAssumption DEF Entries
  <2>3. GuardTransition(x, target, at) = "apply"
    BY <1>2, <1>5 DEF Outcome
  <2>4. x.status \notin {"Verified", "Refuted"} /\ x.by =< at
    BY <2>2, <2>3 DEF GuardTransition
  <2>5. Body(x, op, at) = [x EXCEPT !.status = target, !.evidence = shown, !.by = at]
    BY <1>5 DEF Body
  <2>6. shown \in Seq(Evidence)
    BY <2>1 DEF Entries
  <2> HIDE DEF shown
  <2>7. /\ Body(x, op, at) \in Entries
        /\ Body(x, op, at).subject = x.subject
        /\ Body(x, op, at).object = x.object
        /\ Body(x, op, at).status = target
        /\ Body(x, op, at).evidence = shown
        /\ Body(x, op, at).by = at
    BY <2>1, <2>5, <2>6 DEF Entries, Statuses
  <2> QED
    BY <1>2, <1>5, <2>4, <2>7 DEF shown
<1> QED
  BY <1>1, <1>3, <1>4, <1>5

LEMMA ApplyOpAt ==
  ASSUME NEW graph \in Graphs, NEW op \in Ops, NEW at \in Provenances
  PROVE  /\ op.claim \in Claims
         /\ ApplyOp(graph, op, at) \in Graphs
         /\ \A c \in Claims :
              ApplyOp(graph, op, at)[c]
                = IF c = op.claim /\ Outcome(graph[c], op, at) = "apply"
                  THEN Body(graph[c], op, at) ELSE graph[c]
<1>1. op.claim \in Claims /\ graph[op.claim] \in Entries \cup {Absent}
  BY OpKinds DEF Graphs
<1>2. Outcome(graph[op.claim], op, at) = "apply" => Body(graph[op.claim], op, at) \in Entries
  BY <1>1, BodyFields
<1> QED
  BY <1>1, <1>2 DEF ApplyOp, Graphs

LEMMA DeltaOps ==
  ASSUME NEW delta \in Deltas
  PROVE  /\ Len(delta.ops) \in Nat
         /\ DOMAIN delta.ops = 1..Len(delta.ops)
         /\ delta.at \in Provenances
         /\ \A n \in 1..Len(delta.ops) : delta.ops[n] \in Ops
BY DeltasAssumption

(* Every stage of a merge is a graph, and each differs from the one before *)
(* by one operation.                                                       *)
LEMMA StagesAreGraphs ==
  ASSUME NEW graph \in Graphs, NEW delta \in Deltas
  PROVE  \A n \in 0..Len(delta.ops) : AfterOps(graph, delta)[n] \in Graphs
<1> DEFINE after == AfterOps(graph, delta)
           N == Len(delta.ops)
           T == {n \in 0..N : after[n] \in Graphs}
<1>1. /\ N \in Nat /\ after[0] = graph
      /\ \A n \in 1..N : after[n] = ApplyOp(after[n - 1], delta.ops[n], delta.at)
  BY DeltaOps, AfterOpsRuns
<1> HIDE DEF after, N
<1>2. 0 \in T
  BY <1>1
<1>3. ASSUME NEW k \in 0..N-1, k \in T PROVE k + 1 \in T
  <2>1. k + 1 \in 1..N /\ (k + 1) - 1 = k
    BY <1>1, <1>3
  <2>2. after[k + 1] = ApplyOp(after[k], delta.ops[k + 1], delta.at)
    BY <1>1, <2>1
  <2>3. after[k] \in Graphs /\ delta.ops[k + 1] \in Ops /\ delta.at \in Provenances
    BY <1>3, <2>1, DeltaOps DEF N
  <2> QED
    BY <2>1, <2>2, <2>3, ApplyOpAt
<1>4. 0..N \subseteq T
  BY <1>1, <1>2, <1>3, CountingUp
<1> QED
  BY <1>4 DEF after, N

(* What stays of a claim: it is there, under its subject, with its         *)
(* relation, its decision and its evidence.                                *)
Keeps(old, new) ==
  old # Absent =>
    /\ new # Absent
    /\ new.subject = old.subject
    /\ HasRelation(old.object) => new.object = old.object
    /\ old.status \in {"Verified", "Refuted"} => new.status = old.status
    /\ Len(old.evidence) =< Len(new.evidence)
    /\ \A i \in DOMAIN old.evidence : new.evidence[i] = old.evidence[i]

LEMMA KeepsOn ==
  ASSUME NEW x \in Entries \cup {Absent}, NEW y \in Entries \cup {Absent},
         NEW z \in Entries \cup {Absent}, Keeps(x, y), Keeps(y, z)
  PROVE  Keeps(x, z)
<1> SUFFICES ASSUME x # Absent PROVE Keeps(x, z)
  BY DEF Keeps
<1>1. y # Absent /\ z # Absent /\ x.evidence \in Seq(Evidence) /\ y.evidence \in Seq(Evidence)
      /\ z.evidence \in Seq(Evidence)
  BY DEF Keeps, Entries
<1>2. DOMAIN x.evidence \subseteq DOMAIN y.evidence
  BY <1>1 DEF Keeps
<1>3. Len(x.evidence) =< Len(z.evidence)
  BY <1>1 DEF Keeps
<1> QED
  BY <1>1, <1>2, <1>3 DEF Keeps

LEMMA OpKeeps ==
  ASSUME NEW graph \in Graphs, NEW op \in Ops, NEW at \in Provenances, NEW c \in Claims
  PROVE  Keeps(graph[c], ApplyOp(graph, op, at)[c])
<1> DEFINE x == graph[c]
           y == Body(x, op, at)
<1>0. x \in Entries \cup {Absent}
  BY DEF Graphs
<1>1. ASSUME x # Absent PROVE Keeps(x, x)
  BY <1>0, <1>1 DEF Keeps, Entries
<1>2. ASSUME Outcome(x, op, at) = "apply", x # Absent PROVE Keeps(x, y)
  <2>1. x \in Entries /\ y \in Entries /\ y # Absent
    BY <1>0, <1>2, BodyFields, DeltasAssumption
  <2>2. op.kind \in {"add_relation", "verify_claim", "refute_claim"} /\ y.subject = x.subject
    BY <1>0, <1>2, BodyFields, OpKinds
  <2>3. CASE op.kind = "add_relation"
    <3>1. ~HasRelation(x.object) /\ y.status = x.status /\ y.evidence = x.evidence
      BY <1>0, <1>2, <2>3, BodyFields
    <3>2. x.evidence \in Seq(Evidence)
      BY <2>1 DEF Entries
    <3> HIDE DEF y, x
    <3> QED
      BY <2>1, <2>2, <3>1, <3>2 DEF Keeps
  <2>4. CASE op.kind \in {"verify_claim", "refute_claim"}
    <3>1. /\ x.status \notin {"Verified", "Refuted"} /\ y.object = x.object
          /\ y.evidence = Append(x.evidence, op.evidence)
      BY <1>0, <1>2, <2>4, BodyFields
    <3>2. x.evidence \in Seq(Evidence) /\ op.evidence \in Evidence
      BY <2>1, <2>4, OpKinds DEF Entries
    <3> HIDE DEF y, x
    <3>3. /\ Len(x.evidence) =< Len(y.evidence)
          /\ \A i \in DOMAIN x.evidence : y.evidence[i] = x.evidence[i]
      BY <3>1, <3>2
    <3> QED
      BY <2>1, <2>2, <3>1, <3>3 DEF Keeps
  <2> QED
    BY <2>2, <2>3, <2>4
<1>3. ApplyOp(graph, op, at)[c] \in {x, y}
      /\ (ApplyOp(graph, op, at)[c] # x => Outcome(x, op, at) = "apply"
                                           /\ ApplyOp(graph, op, at)[c] = y)
  BY ApplyOpAt
<1> HIDE DEF x, y
<1> QED
  BY <1>1, <1>2, <1>3 DEF Keeps, x

(* By the rules, a merge forgets nothing: no claim, subject, relation,     *)
(* decision or piece of evidence is lost to a delta, whatever its          *)
(* operations and whatever the graph (merge.rs:14, 265-358).               *)
THEOREM RulesForgetNothing ==
  \A graph \in Graphs, delta \in Deltas, c \in Claims :
    Keeps(graph[c], MergeDelta(graph, delta)[c])
<1> SUFFICES ASSUME NEW graph \in Graphs, NEW delta \in Deltas, NEW c \in Claims
             PROVE  Keeps(graph[c], MergeDelta(graph, delta)[c])
  OBVIOUS
<1> DEFINE after == AfterOps(graph, delta)
           N == Len(delta.ops)
           T == {n \in 0..N : Keeps(graph[c], after[n][c])}
<1>1. /\ N \in Nat /\ after[0] = graph
      /\ \A n \in 1..N : after[n] = ApplyOp(after[n - 1], delta.ops[n], delta.at)
      /\ \A n \in 0..N : after[n] \in Graphs
  BY DeltaOps, AfterOpsRuns, StagesAreGraphs
<1>2. \A n \in 0..N : after[n][c] \in Entries \cup {Absent}
  BY <1>1 DEF Graphs
<1> HIDE DEF after, N
<1>3. 0 \in T
  <2>1. graph[c] \in Entries \cup {Absent}
    BY DEF Graphs
  <2>2. Keeps(graph[c], graph[c])
    BY <2>1 DEF Keeps, Entries
  <2> QED
    BY <1>1, <2>2
<1>4. ASSUME NEW k \in 0..N-1, k \in T PROVE k + 1 \in T
  <2>1. k \in 0..N /\ k + 1 \in 1..N /\ (k + 1) - 1 = k
    BY <1>1, <1>4
  <2>2. Keeps(after[k][c], after[k + 1][c])
    <3>1. after[k + 1] = ApplyOp(after[k], delta.ops[k + 1], delta.at)
      BY <1>1, <2>1
    <3>2. after[k] \in Graphs /\ delta.ops[k + 1] \in Ops /\ delta.at \in Provenances
      BY <1>1, <2>1, DeltaOps DEF N
    <3> QED
      BY <3>1, <3>2, OpKeeps
  <2>3. Keeps(graph[c], after[k][c])
    BY <1>4
  <2>4. k + 1 \in 0..N
    BY <2>1
  <2>5. Keeps(graph[c], after[k + 1][c])
    BY <1>1, <1>2, <2>1, <2>2, <2>3, <2>4, KeepsOn DEF Graphs
  <2> QED
    BY <2>4, <2>5
<1>5. 0..N \subseteq T
  BY <1>1, <1>3, <1>4, CountingUp
<1>6. N \in T
  BY <1>1, <1>5
<1> QED
  BY <1>6 DEF MergeDelta, after, N

-----------------------------------------------------------------------------
(* Merging a delta again. *)

(* The rank of an operation in the life of a claim. *)
Rank(op) == CASE op.kind = "add_claim" -> 1
              [] op.kind = "add_relation" -> 2
              [] op.kind \in {"verify_claim", "refute_claim"} -> 3

(* A delta that adds a claim before it relates it, and relates it before   *)
(* it decides it.                                                          *)
InOrder(delta) ==
  \A i, j \in DOMAIN delta.ops :
    i < j /\ delta.ops[i].claim = delta.ops[j].claim
      => Rank(delta.ops[i]) =< Rank(delta.ops[j])

Done(graph, op, at) == Outcome(graph[op.claim], op, at) # "apply"

(* After an operation there is nothing left for it to do. *)
LEMMA OpIsDone ==
  ASSUME NEW graph \in Graphs, NEW op \in Ops, NEW at \in Provenances
  PROVE  Done(ApplyOp(graph, op, at), op, at)
<1> DEFINE x == graph[op.claim]
           y == Body(x, op, at)
<1>1. /\ op.claim \in Claims /\ x \in Entries \cup {Absent}
      /\ op.kind \in {"add_claim", "add_relation", "verify_claim", "refute_claim"}
  BY OpKinds DEF Graphs
<1>2. CASE Outcome(x, op, at) = "apply"
  <2>1. y \in Entries /\ y # Absent /\ ApplyOp(graph, op, at)[op.claim] = y
    BY <1>1, <1>2, ApplyOpAt, BodyFields, DeltasAssumption
  <2>2. /\ op.kind = "add_claim" => y.subject = op.subject
        /\ op.kind = "add_relation" => y.object = op.object
        /\ op.kind = "verify_claim" => y.status = "Verified"
        /\ op.kind = "refute_claim" => y.status = "Refuted"
    <3>1. /\ op.kind = "add_claim" => y.subject = op.subject
          /\ op.kind = "add_relation" => y.object = op.object
          /\ op.kind \in {"verify_claim", "refute_claim"}
               => y.status = IF op.kind = "verify_claim" THEN "Verified" ELSE "Refuted"
      BY <1>1, <1>2, BodyFields
    <3> HIDE DEF x, y
    <3> QED
      BY <3>1
  <2> HIDE DEF x, y
  <2>3. CASE op.kind \in {"add_claim", "add_relation"}
    <3>1. op.kind = "add_relation" => op.object # Dangling
      BY OpKinds, HalvesAssumption
    <3>2. Outcome(y, op, at) = "already"
      BY <2>1, <2>2, <2>3, <3>1 DEF Outcome
    <3> QED
      BY <2>1, <3>2 DEF Done
  <2>4. CASE op.kind \in {"verify_claim", "refute_claim"}
    <3> DEFINE target == IF op.kind = "verify_claim" THEN "Verified" ELSE "Refuted"
    <3>1. y.status = target
      BY <2>2, <2>4
    <3>2. GuardTransition(y, target, at) = "already"
      BY <3>1 DEF GuardTransition
    <3>3. Outcome(y, op, at) = "already"
      BY <2>1, <2>4, <3>2 DEF Outcome
    <3> QED
      BY <2>1, <3>3 DEF Done
  <2> QED
    BY <1>1, <2>3, <2>4
<1>3. CASE Outcome(x, op, at) # "apply"
  <2>1. ApplyOp(graph, op, at) = graph
    BY <1>3 DEF ApplyOp
  <2> QED
    BY <1>3, <2>1 DEF Done
<1> QED
  BY <1>2, <1>3

(* And a later operation of the delta gives it nothing to do. *)
LEMMA StaysDone ==
  ASSUME NEW graph \in Graphs, NEW op \in Ops, NEW later \in Ops, NEW at \in Provenances,
         Done(graph, op, at), op.claim = later.claim => Rank(op) =< Rank(later)
  PROVE  Done(ApplyOp(graph, later, at), op, at)
<1> DEFINE x == graph[op.claim]
           y == Body(x, later, at)
<1>1. /\ op.claim \in Claims /\ x \in Entries \cup {Absent}
      /\ op.kind \in {"add_claim", "add_relation", "verify_claim", "refute_claim"}
      /\ later.kind \in {"add_claim", "add_relation", "verify_claim", "refute_claim"}
  BY OpKinds DEF Graphs
<1>2. CASE op.claim = later.claim /\ Outcome(x, later, at) = "apply"
  <2>1. y \in Entries /\ y # Absent /\ ApplyOp(graph, later, at)[op.claim] = y
    BY <1>1, <1>2, ApplyOpAt, BodyFields, DeltasAssumption
  <2>2. Rank(op) =< Rank(later) /\ Outcome(x, op, at) # "apply"
    BY <1>2 DEF Done
  <2>3. Outcome(y, op, at) # "apply"
    <3>1. CASE op.kind = "add_claim"
      BY <2>1, <3>1 DEF Outcome
    <3>2. CASE op.kind = "add_relation"
      <4>1. later.kind # "add_claim"
        BY <2>2, <3>2 DEF Rank
      <4>2. x # Absent
        BY <1>1, <1>2, <4>1, BodyFields
      <4>3. HasRelation(x.object)
        BY <2>2, <3>2, <4>2, OpKinds DEF Outcome, HasRelation
      <4>4. y.object = x.object
        BY <1>1, <1>2, <4>1, <4>3, BodyFields
      <4> QED
        BY <2>1, <3>2, <4>3, <4>4 DEF Outcome, HasRelation
    <3>3. CASE op.kind \in {"verify_claim", "refute_claim"}
      <4> DEFINE target == IF op.kind = "verify_claim" THEN "Verified" ELSE "Refuted"
      <4>1. later.kind \in {"verify_claim", "refute_claim"}
        BY <1>1, <2>2, <3>3 DEF Rank
      <4>2. x # Absent /\ x.status \notin {"Verified", "Refuted"} /\ x.by =< at
        BY <1>1, <1>2, <4>1, BodyFields
      <4>3. x.by \in Nat /\ at \in Nat
        BY <1>1, <4>2, DeltasAssumption DEF Entries
      <4>4. GuardTransition(x, target, at) = "apply"
        BY <4>2, <4>3 DEF GuardTransition
      <4>5. Outcome(x, op, at) = "apply"
        BY <3>3, <4>2, <4>4 DEF Outcome
      <4> QED
        BY <2>2, <4>5
    <3> QED
      BY <1>1, <3>1, <3>2, <3>3
  <2> HIDE DEF y
  <2> QED
    BY <2>1, <2>3 DEF Done
<1>3. CASE ~(op.claim = later.claim /\ Outcome(x, later, at) = "apply")
  BY <1>1, <1>3, ApplyOpAt DEF Done
<1> QED
  BY <1>2, <1>3

(* By the rules, merging a delta again changes nothing, as merge.rs:9-11   *)
(* promises of retries, when the delta adds, relates and decides a claim   *)
(* in that order and no operation fails (which would end the merge).  (In  *)
(* another order it may: an operation that came too early the first time   *)
(* finds its claim, or its time, the second time.)                         *)
THEOREM RetriesAreSafe ==
  \A graph \in Graphs, delta \in Deltas :
    InOrder(delta) => MergeDelta(MergeDelta(graph, delta), delta) = MergeDelta(graph, delta)
<1> SUFFICES ASSUME NEW graph \in Graphs, NEW delta \in Deltas, InOrder(delta)
             PROVE  MergeDelta(MergeDelta(graph, delta), delta) = MergeDelta(graph, delta)
  OBVIOUS
<1> DEFINE N == Len(delta.ops)
           at == delta.at
           op(n) == delta.ops[n]
           after == AfterOps(graph, delta)
           once == after[N]
           again == AfterOps(once, delta)
<1>1. /\ N \in Nat /\ at \in Provenances
      /\ \A n \in 1..N : op(n) \in Ops
      /\ \A n \in 0..N : after[n] \in Graphs
      /\ \A n \in 1..N : after[n] = ApplyOp(after[n - 1], op(n), at)
  BY DeltaOps, AfterOpsRuns, StagesAreGraphs
<1>2. /\ again[0] = once
      /\ \A n \in 1..N : again[n] = ApplyOp(again[n - 1], op(n), at)
  BY DeltaOps, AfterOpsRuns
<1>3. \A i, j \in 1..N : i < j /\ op(i).claim = op(j).claim => Rank(op(i)) =< Rank(op(j))
  BY DeltaOps DEF InOrder
<1>4. MergeDelta(graph, delta) = once /\ MergeDelta(once, delta) = again[N]
  BY DEF MergeDelta
<1> HIDE DEF N, at, op, after, again
<1>5. \A n \in 1..N : Done(after[N], op(n), at)
  <2> DEFINE T == {n \in 0..N : \A i \in 1..n : Done(after[n], op(i), at)}
  <2>1. 0 \in T
    BY <1>1
  <2>2. ASSUME NEW k \in 0..N-1, k \in T PROVE k + 1 \in T
    <3>1. k \in 0..N /\ k + 1 \in 1..N /\ k + 1 \in 0..N /\ (k + 1) - 1 = k
      BY <1>1, <2>2
    <3>2. after[k] \in Graphs /\ op(k + 1) \in Ops /\ after[k + 1] = ApplyOp(after[k], op(k + 1), at)
      BY <1>1, <3>1
    <3>3. ASSUME NEW i \in 1..k+1 PROVE Done(after[k + 1], op(i), at)
      <4>1. CASE i = k + 1
        <5>1. Done(ApplyOp(after[k], op(k + 1), at), op(k + 1), at)
          BY <1>1, <3>2, OpIsDone
        <5> QED
          BY <3>2, <4>1, <5>1
      <4>2. CASE i # k + 1
        <5>1. i \in 1..k /\ i \in 1..N /\ i < k + 1
          BY <1>1, <3>1, <4>2
        <5>2. Done(after[k], op(i), at) /\ op(i) \in Ops
          BY <1>1, <2>2, <5>1
        <5>3. op(i).claim = op(k + 1).claim => Rank(op(i)) =< Rank(op(k + 1))
          BY <1>3, <3>1, <5>1
        <5> QED
          BY <1>1, <3>2, <5>2, <5>3, StaysDone
      <4> QED
        BY <4>1, <4>2
    <3> QED
      BY <3>1, <3>3
  <2> HIDE DEF T
  <2>3. N \in T
    BY <1>1, <2>1, <2>2, CountingUp
  <2> QED
    BY <2>3 DEF T
<1>6. again[N] = once
  <2> DEFINE T == {n \in 0..N : again[n] = once}
  <2>1. 0 \in T
    BY <1>1, <1>2
  <2>2. ASSUME NEW k \in 0..N-1, k \in T PROVE k + 1 \in T
    <3>1. k + 1 \in 1..N /\ k + 1 \in 0..N /\ (k + 1) - 1 = k
      BY <1>1, <2>2
    <3>2. again[k + 1] = ApplyOp(once, op(k + 1), at)
      BY <1>2, <2>2, <3>1
    <3>3. ApplyOp(once, op(k + 1), at) = once
      BY <1>5, <3>1 DEF ApplyOp, Done
    <3> QED
      BY <3>1, <3>2, <3>3
  <2> HIDE DEF T
  <2>3. N \in T
    BY <1>1, <2>1, <2>2, CountingUp
  <2> QED
    BY <2>3 DEF T
<1> QED
  BY <1>4, <1>6

-----------------------------------------------------------------------------
(* Deltas about different claims. *)

(* A delta leaves the claims it is not about alone, and what it makes of   *)
(* the others depends on those others only.                                *)
LEMMA MergeIsLocal ==
  ASSUME NEW g \in Graphs, NEW h \in Graphs, NEW delta \in Deltas, NEW c \in Claims
  PROVE  /\ c \notin Touched(delta) => MergeDelta(g, delta)[c] = g[c]
         /\ g[c] = h[c] => MergeDelta(g, delta)[c] = MergeDelta(h, delta)[c]
<1> DEFINE N == Len(delta.ops)
           at == delta.at
           op(n) == delta.ops[n]
           fromG == AfterOps(g, delta)
           fromH == AfterOps(h, delta)
           T == {n \in 0..N : /\ c \notin Touched(delta) => fromG[n][c] = g[c]
                              /\ g[c] = h[c] => fromG[n][c] = fromH[n][c]}
<1>1. /\ N \in Nat /\ at \in Provenances
      /\ \A n \in 1..N : op(n) \in Ops /\ op(n).claim \in Touched(delta)
      /\ \A n \in 0..N : fromG[n] \in Graphs /\ fromH[n] \in Graphs
      /\ fromG[0] = g /\ fromH[0] = h
      /\ \A n \in 1..N : /\ fromG[n] = ApplyOp(fromG[n - 1], op(n), at)
                         /\ fromH[n] = ApplyOp(fromH[n - 1], op(n), at)
  BY DeltaOps, AfterOpsRuns, StagesAreGraphs DEF Touched
<1>2. MergeDelta(g, delta) = fromG[N] /\ MergeDelta(h, delta) = fromH[N]
  BY DEF MergeDelta
<1> HIDE DEF N, at, op, fromG, fromH
<1>3. 0 \in T
  BY <1>1
<1>4. ASSUME NEW k \in 0..N-1, k \in T PROVE k + 1 \in T
  <2>1. k \in 0..N /\ k + 1 \in 1..N /\ k + 1 \in 0..N /\ (k + 1) - 1 = k
    BY <1>1, <1>4
  <2>2. /\ fromG[k] \in Graphs /\ fromH[k] \in Graphs /\ op(k + 1) \in Ops
        /\ op(k + 1).claim \in Touched(delta)
        /\ fromG[k + 1] = ApplyOp(fromG[k], op(k + 1), at)
        /\ fromH[k + 1] = ApplyOp(fromH[k], op(k + 1), at)
    BY <1>1, <2>1
  <2>3. /\ fromG[k + 1][c] = IF c = op(k + 1).claim /\ Outcome(fromG[k][c], op(k + 1), at) = "apply"
                             THEN Body(fromG[k][c], op(k + 1), at) ELSE fromG[k][c]
        /\ fromH[k + 1][c] = IF c = op(k + 1).claim /\ Outcome(fromH[k][c], op(k + 1), at) = "apply"
                             THEN Body(fromH[k][c], op(k + 1), at) ELSE fromH[k][c]
    <3>1. PICK o \in Ops : o = op(k + 1)
      BY <2>2
    <3>2. \A x \in Graphs : ApplyOp(x, o, at)[c] = IF c = o.claim /\ Outcome(x[c], o, at) = "apply"
                                                   THEN Body(x[c], o, at) ELSE x[c]
      BY <1>1, ApplyOpAt
    <3> QED
      BY <2>2, <3>1, <3>2
  <2>4. /\ c \notin Touched(delta) => fromG[k][c] = g[c]
        /\ g[c] = h[c] => fromG[k][c] = fromH[k][c]
    BY <1>4
  <2>5. c \notin Touched(delta) => fromG[k + 1][c] = g[c]
    BY <2>2, <2>3, <2>4
  <2>6. g[c] = h[c] => fromG[k + 1][c] = fromH[k + 1][c]
    BY <2>3, <2>4
  <2> QED
    BY <2>1, <2>5, <2>6
<1> HIDE DEF T
<1>5. N \in T
  BY <1>1, <1>3, <1>4, CountingUp
<1> QED
  BY <1>2, <1>5 DEF T

(* By the rules, the order in which deltas about different claims are      *)
(* merged makes no difference to the graph: workers that divide the claims *)
(* among themselves need not agree on an order (merge.rs:131-136).         *)
THEOREM ApartDeltasCommute ==
  \A graph \in Graphs, d1, d2 \in Deltas :
    Apart(d1, d2) => MergeDelta(MergeDelta(graph, d1), d2) = MergeDelta(MergeDelta(graph, d2), d1)
<1> SUFFICES ASSUME NEW graph \in Graphs, NEW d1 \in Deltas, NEW d2 \in Deltas, Apart(d1, d2)
             PROVE  MergeDelta(MergeDelta(graph, d1), d2) = MergeDelta(MergeDelta(graph, d2), d1)
  OBVIOUS
<1> DEFINE g1 == MergeDelta(graph, d1)
           g2 == MergeDelta(graph, d2)
<1>1. \A g \in Graphs, d \in Deltas : MergeDelta(g, d) \in Graphs
  BY DeltaOps, StagesAreGraphs DEF MergeDelta
<1>2. g1 \in Graphs /\ g2 \in Graphs
  BY <1>1
<1> HIDE DEF g1, g2
<1>3. ASSUME NEW c \in Claims PROVE MergeDelta(g1, d2)[c] = MergeDelta(g2, d1)[c]
  <2>1. CASE c \notin Touched(d1)
    <3>1. g1[c] = graph[c]
      BY <2>1, MergeIsLocal DEF g1
    <3>2. MergeDelta(g1, d2)[c] = g2[c]
      BY <1>2, <3>1, MergeIsLocal DEF g2
    <3>3. MergeDelta(g2, d1)[c] = g2[c]
      BY <1>2, <2>1, MergeIsLocal
    <3> QED
      BY <3>2, <3>3
  <2>2. CASE c \notin Touched(d2)
    <3>1. g2[c] = graph[c]
      BY <2>2, MergeIsLocal DEF g2
    <3>2. MergeDelta(g2, d1)[c] = g1[c]
      BY <1>2, <3>1, MergeIsLocal DEF g1
    <3>3. MergeDelta(g1, d2)[c] = g1[c]
      BY <1>2, <2>2, MergeIsLocal
    <3> QED
      BY <3>2, <3>3
  <2> QED
    BY <2>1, <2>2 DEF Apart
<1>4. MergeDelta(g1, d2) \in Graphs /\ MergeDelta(g2, d1) \in Graphs
  BY <1>1, <1>2
<1> QED
  BY <1>3, <1>4 DEF g1, g2, Graphs

-----------------------------------------------------------------------------
(* A merge whose claims nobody else has in hand. *)

(* What a merge with the state j and the call p has made of its claims so  *)
(* far is what the rules make of them, and what it has in hand is what the *)
(* rules ask for: its call has read what its guard read.                   *)
ByRules(j, p) ==
  /\ \A c \in Touched(j.delta) : Graph[c] = AfterOps(j.before, j.delta)[j.op - 1][c]
  /\ j.phase \in {"apply", "write"} => j.read = Graph[Op(j).claim]
  /\ j.phase = "write" => /\ Outcome(Graph[Op(j).claim], Op(j), j.delta.at) = "apply"
                          /\ JustRead(p)
                          /\ p.claim = Op(j).claim
                          /\ Entry(p.body) = Body(Graph[p.claim], Op(j), j.delta.at)

AloneInv ==
  \A w \in Workers : job[w] # None /\ job[w].before # None =>
    /\ \A v \in Workers : v # w /\ job[v] # None => Apart(job[v].delta, job[w].delta)
    /\ ByRules(job[w], call[w])

(* A commit of what was just read writes one entry of the graph. *)
LEMMA CommitGraph ==
  ASSUME StoreInv, NEW w \in Workers, Commit(w), NEW p, p = call[w], JustRead(p)
  PROVE  Graph' = [Graph EXCEPT ![p.claim] = Entry(p.body)]
<1>1. /\ p \in Write /\ PendingSound(p)
      /\ p.base \in 0..MaxRevision /\ p.revision \in Revisions
      /\ \A c \in Claims : \A r \in Revisions :
           claims'[c][r] = IF c # p.claim THEN claims[c][r]
                           ELSE IF r = p.base THEN [p.previous EXCEPT !.superseded = p.revision]
                           ELSE IF r = p.revision THEN p.body
                           ELSE claims[c][r]
  BY CommitClaims
<1>2. p.claim \in Claims /\ p.revision = p.base + 1 /\ p.base = LatestRev(p.claim)
  BY <1>1 DEF Write, PendingSound, JustRead
<1>3. ASSUME NEW c \in Claims
      PROVE  LatestRev(c)' = IF c = p.claim THEN p.revision ELSE LatestRev(c)
  <2>1. LatestRev(c)' = IF c = p.claim /\ p.revision > LatestRev(c) THEN p.revision ELSE LatestRev(c)
    BY CommitTrail
  <2> QED
    BY <1>1, <1>2, <2>1
<1>4. ASSUME NEW c \in Claims
      PROVE  Graph'[c] = IF c = p.claim THEN Entry(p.body) ELSE Graph[c]
  <2>1. Graph'[c] = IF LatestRev(c)' # 0 THEN Entry(claims'[c][LatestRev(c)']) ELSE Absent
    BY DEF Graph, Exists, Latest, Entry
  <2>2. Graph[c] = IF LatestRev(c) # 0 THEN Entry(claims[c][LatestRev(c)]) ELSE Absent
    BY DEF Graph, Exists, Latest
  <2>3. CASE c = p.claim
    <3>1. p.revision # 0 /\ p.revision # p.base
      BY <1>1, <1>2 DEF Revisions
    <3>2. claims'[c][p.revision] = p.body
      BY <1>1, <2>3, <3>1
    <3> QED
      BY <1>3, <2>1, <2>3, <3>1, <3>2
  <2>4. CASE c # p.claim
    <3>1. LatestRev(c) # 0 => LatestRev(c) \in Revisions
      BY LatestIsStored DEF Exists
    <3>2. LatestRev(c)' = LatestRev(c)
      BY <1>3, <2>4
    <3>3. LatestRev(c) # 0 => claims'[c][LatestRev(c)] = claims[c][LatestRev(c)]
      BY <1>1, <2>4, <3>1
    <3> QED
      BY <2>1, <2>2, <2>4, <3>2, <3>3
  <2> QED
    BY <2>3, <2>4
<1>5. Graph = [c \in Claims |-> Graph[c]] /\ Graph' = [c \in Claims |-> Graph'[c]]
  BY DEF Graph
<1> QED
  BY <1>2, <1>4, <1>5

(* The entry of a changed revision is the changed entry. *)
Live(rev) == [rev EXCEPT !.superseded = 0]
Related(x, object, by) == [x EXCEPT !.object = object, !.by = by]
Decided(x, status, evidence, by) ==
  [x EXCEPT !.status = status, !.evidence = evidence, !.by = by]

LEMMA RelatedEntry ==
  ASSUME NEW rev \in Revision, NEW object \in Entities, NEW by \in Provenances
  PROVE  Entry(Live(Related(rev, object, by))) = Related(Entry(rev), object, by)
<1> DEFINE q == Live(Related(rev, object, by))
           e == Related(Entry(rev), object, by)
<1>1. Entry(rev) \in Entries /\ 0 \in 0..MaxRevision
  BY EntryOfRevision, BoundAssumption
<1>2. /\ q \in Revision /\ q.subject = rev.subject /\ q.object = object
      /\ q.status = rev.status /\ q.evidence = rev.evidence /\ q.by = by
  BY <1>1, ObjectFacts DEF Revision, Live, Related
<1>3. /\ e \in Entries /\ e.subject = rev.subject /\ e.object = object
      /\ e.status = rev.status /\ e.evidence = rev.evidence /\ e.by = by
  BY <1>1, EntryOfRevision, ObjectFacts DEF Entries, Related
<1> HIDE DEF q, e
<1>4. Entry(q) = e
  BY <1>2, <1>3, EntryOfRevision, SameEntry
<1> QED
  BY <1>4 DEF q, e

LEMMA DecidedEntry ==
  ASSUME NEW rev \in Revision, NEW status \in Statuses,
         NEW evidence \in Seq(Evidence), NEW by \in Provenances
  PROVE  Entry(Live(Decided(rev, status, evidence, by)))
           = Decided(Entry(rev), status, evidence, by)
<1> DEFINE q == Live(Decided(rev, status, evidence, by))
           e == Decided(Entry(rev), status, evidence, by)
<1>1. Entry(rev) \in Entries /\ 0 \in 0..MaxRevision
  BY EntryOfRevision, BoundAssumption
<1>2. /\ q \in Revision /\ q.subject = rev.subject /\ q.object = rev.object
      /\ q.status = status /\ q.evidence = evidence /\ q.by = by
  BY <1>1 DEF Revision, Live, Decided
<1>3. /\ e \in Entries /\ e.subject = rev.subject /\ e.object = rev.object
      /\ e.status = status /\ e.evidence = evidence /\ e.by = by
  BY <1>1, EntryOfRevision DEF Entries, Decided
<1> HIDE DEF q, e
<1>4. Entry(q) = e
  BY <1>2, <1>3, EntryOfRevision, SameEntry
<1> QED
  BY <1>4 DEF q, e

(* What the store's call is about to write is what the rules make of what  *)
(* it has read.                                                            *)
LEMMA ApplyWrites ==
  ASSUME MergeInv, NEW w \in Workers, Apply(w)
  PROVE  Entry(call'[w].body)
           = Body(Graph[Op(job[w]).claim], Op(job[w]), job[w].delta.at)
<1> DEFINE j == job[w]
           op == Op(j)
           at == j.delta.at
           c == op.claim
<1>0. /\ j \in Jobs /\ j.op \in DOMAIN j.delta.ops /\ StoreInv
      /\ CallStore(w) /\ call \in [Workers -> Write \cup {Idle}]
  BY DEF MergeInv, MergeTypeOK, TypeOK, Apply, Working
<1>1. op \in Ops /\ at \in Provenances
  BY <1>0, OpIsOp
<1> HIDE DEF op, at, j
<1>2. c \in Claims
  BY <1>1, OpKinds
<1>3. CASE op.kind = "add_claim"
  <2> DEFINE body == [subject |-> op.subject, object |-> op.object, status |-> "Proposed",
                      evidence |-> op.evidence, by |-> op.by, superseded |-> 0]
  <2>1. AddClaim(w, c, body)
    BY <1>0, <1>3 DEF CallStore, op, at, j
  <2>2. call'[w].body = body
    BY <1>0, <2>1 DEF AddClaim, Begin
  <2> QED
    BY <1>3, <2>2 DEF Entry, Body, op, at, j
<1>4. ASSUME op.kind \in {"add_relation", "verify_claim", "refute_claim"}
      PROVE  /\ Exists(c) /\ Latest(c) \in Revision /\ Graph[c] = Entry(Latest(c))
             /\ \A next : Replace(w, c, next) => call'[w].body = [next EXCEPT !.superseded = 0]
  <2>1. \E next : Replace(w, c, next)
    BY <1>0, <1>4 DEF CallStore, Advance, op, j
  <2>2. Exists(c)
    BY <2>1 DEF Replace
  <2> QED
    BY <1>0, <1>2, <2>2, LatestIsStored, ReplaceWrites DEF Graph
<1>5. CASE op.kind = "add_relation"
  <2> DEFINE next == Related(Latest(c), op.object, at)
  <2>1. Replace(w, c, next)
    BY <1>0, <1>5 DEF CallStore, Related, op, at, j
  <2>2. call'[w].body = Live(next) /\ Latest(c) \in Revision /\ Graph[c] = Entry(Latest(c))
    BY <1>4, <1>5, <2>1 DEF Live
  <2>3. Body(Graph[c], op, at) = Related(Entry(Latest(c)), op.object, at)
    BY <1>5, <2>2 DEF Body, Related
  <2>4. Entry(Live(next)) = Related(Entry(Latest(c)), op.object, at)
    BY <1>1, <1>5, <2>2, OpKinds, RelatedEntry
  <2> QED
    BY <2>2, <2>3, <2>4 DEF op, at, j
<1>6. ASSUME NEW target \in {"Verified", "Refuted"}, op.kind \in {"verify_claim", "refute_claim"},
             target = IF op.kind = "verify_claim" THEN "Verified" ELSE "Refuted"
      PROVE  Entry(call'[w].body) = Body(Graph[c], op, at)
  <2> DEFINE shown == Latest(c).evidence \o <<op.evidence>>
             next == Decided(Latest(c), target, shown, at)
  <2>1. Advance(w, c, target, <<op.evidence>>, at)
    BY <1>0, <1>6 DEF CallStore, op, at, j
  <2>2. Replace(w, c, next)
    BY <2>1 DEF Advance, Decided
  <2>3. call'[w].body = Live(next) /\ Latest(c) \in Revision /\ Graph[c] = Entry(Latest(c))
    BY <1>4, <1>6, <2>2 DEF Live
  <2>4. shown = Append(Entry(Latest(c)).evidence, op.evidence) /\ shown \in Seq(Evidence)
    <3>1. Latest(c).evidence \in Seq(Evidence) /\ op.evidence \in Evidence
      BY <1>1, <1>6, <2>3, OpKinds DEF Revision
    <3> QED
      BY <2>3, <3>1, AppendIsConcat DEF Entry
  <2>5. Body(Graph[c], op, at) = Decided(Entry(Latest(c)), target, shown, at)
    BY <1>6, <2>3, <2>4 DEF Body, Decided
  <2> HIDE DEF shown
  <2>6. Entry(Live(next)) = Decided(Entry(Latest(c)), target, shown, at)
    <3>1. target \in Statuses
      BY DEF Statuses
    <3> QED
      BY <1>1, <2>3, <2>4, <3>1, DecidedEntry
  <2> QED
    BY <2>3, <2>5, <2>6
<1> QED
  BY <1>1, <1>3, <1>5, <1>6, OpKinds DEF op, at, j

(* What the store lets a merge write is what the rules let it, when the    *)
(* claim is as the guard read it.                                          *)
LEMMA ApplyApplies ==
  ASSUME MergeInv, NEW w \in Workers, Apply(w), job[w].read = Graph[Op(job[w]).claim]
  PROVE  Outcome(Graph[Op(job[w]).claim], Op(job[w]), job[w].delta.at) = "apply"
<1> DEFINE op == Op(job[w])
           at == job[w].delta.at
           x == Graph[op.claim]
<1>1. /\ job[w] \in Jobs /\ job[w].op \in DOMAIN job[w].delta.ops
      /\ Outcome(x, op, at) \in {"apply", "fails"} /\ CallStore(w)
  BY DEF MergeInv, MergeTypeOK, GoodJob, Passed, Apply, Working
<1>2. op \in Ops
  BY <1>1, OpIsOp
<1>3. ASSUME Outcome(x, op, at) = "fails" PROVE FALSE
  <2>1. op.kind = "add_relation" /\ x # Absent /\ x.object = Dangling
    BY <1>2, <1>3, OpKinds DEF Outcome, GuardTransition
  <2>2. ~HasRelation(Latest(op.claim).object)
    BY <1>1, <2>1 DEF CallStore
  <2>3. x.object = Latest(op.claim).object
    BY <1>2, <2>1, OpKinds DEF Graph, Entry
  <2> QED
    BY <2>1, <2>2, <2>3 DEF HasRelation
<1> QED
  BY <1>1, <1>3

(* A step that makes of the graph what the rules make of the operation     *)
(* leaves the merge by the rules.                                          *)
LEMMA ByRulesOn ==
  ASSUME StoreInv, NEW j \in Jobs, j.op \in DOMAIN j.delta.ops, j.before # None, NEW k \in Jobs,
         k.before = j.before, k.delta = j.delta, k.op = j.op + 1, k.phase = "guard",
         \A c \in Touched(j.delta) : Graph[c] = AfterOps(j.before, j.delta)[j.op - 1][c],
         Graph' = ApplyOp(Graph, Op(j), j.delta.at), NEW p
  PROVE  ByRules(k, p)'
<1>1. /\ j.op \in 1..Len(j.delta.ops) /\ Len(j.delta.ops) \in Nat /\ j.delta \in Deltas
      /\ j.before \in Graphs /\ Op(j) \in Ops /\ j.delta.at \in Provenances
  BY OpIsOp DEF Jobs, Graphs
<1>2. PICK g : g = AfterOps(j.before, j.delta)[j.op - 1]
  OBVIOUS
<1>3. /\ g \in Graphs
      /\ AfterOps(j.before, j.delta)[j.op] = ApplyOp(g, Op(j), j.delta.at)
  <2>1. j.op - 1 \in 0..Len(j.delta.ops)
    BY <1>1
  <2> QED
    BY <1>1, <1>2, <2>1, StagesAreGraphs, AfterOpsRuns DEF Op
<1>4. Graph \in Graphs
  BY GraphType DEF Graphs
<1>5. ASSUME NEW c \in Touched(j.delta)
      PROVE  Graph'[c] = ApplyOp(g, Op(j), j.delta.at)[c]
  <2>1. c \in Claims
    BY <1>1, DeltaOps, OpKinds DEF Touched
  <2>2. Graph[c] = g[c]
    BY <1>2
  <2> QED
    BY <1>1, <1>3, <1>4, <2>1, <2>2, ApplyOpAt
<1>6. k.op - 1 = j.op
  BY <1>1
<1>7. \A c \in Touched(k.delta) : Graph'[c] = AfterOps(k.before, k.delta)[k.op - 1][c]
  BY <1>3, <1>5, <1>6
<1> QED
  BY <1>7 DEF ByRules

(* What a step does not write keeps its place in the graph. *)
LEMMA UnwrittenStays ==
  ASSUME NEW c \in Claims, claims'[c] = claims[c]
  PROVE  Graph'[c] = Graph[c] /\ LatestRev(c)' = LatestRev(c) /\ Latest(c)' = Latest(c)
BY DEF Graph, Exists, Latest, LatestRev, Entry

(* A step of one handler keeps AloneInv if it writes only claims of its    *)
(* delta and keeps its own merge by the rules.                             *)
LEMMA AloneMoves ==
  ASSUME AloneInv, MergeInv, NEW w \in Workers, job[w] # None, NEW j, NEW p,
         job' = [job EXCEPT ![w] = j], p = call'[w],
         \A v \in Workers : v # w => call'[v] = call[v],
         \A c \in Claims : c \notin Touched(job[w].delta) => claims'[c] = claims[c],
         j # None => j.delta = job[w].delta /\ j.before = job[w].before,
         job[w].before # None /\ j # None => ByRules(j, p)'
  PROVE  AloneInv'
<1>1. \A v \in Workers : job'[v] = IF v = w THEN j ELSE job[v]
  BY DEF MergeInv, MergeTypeOK
<1> SUFFICES ASSUME NEW v \in Workers, job'[v] # None, job'[v].before # None
             PROVE  /\ \A u \in Workers : u # v /\ job'[u] # None
                                          => Apart(job'[u].delta, job'[v].delta)
                    /\ ByRules(job[v], call[v])'
  BY DEF AloneInv, Apart, Touched
<1>2. /\ job[v] # None /\ job[v].before # None /\ job[v].delta = job'[v].delta
      /\ \A u \in Workers : job'[u] # None => job[u] # None /\ job[u].delta = job'[u].delta
  BY <1>1
<1>3. \A u \in Workers : u # v /\ job'[u] # None => Apart(job'[u].delta, job'[v].delta)
  BY <1>2 DEF AloneInv
<1>4. CASE v = w
  <2>1. ByRules(j, p)' /\ job'[v] = j /\ call'[v] = p
    BY <1>1, <1>2, <1>4
  <2> QED
    BY <1>3, <2>1 DEF ByRules, Op, JustRead, Touched
<1>5. CASE v # w
  <2>1. PICK k : k = job[v]
    OBVIOUS
  <2>2. PICK q : q = call[v]
    OBVIOUS
  <2>3. job'[v] = k /\ call'[v] = q
    BY <1>1, <1>5, <2>1, <2>2
  <2>4. /\ k \in Jobs /\ GoodJob(k, q) /\ ByRules(k, q) /\ Apart(job[w].delta, k.delta)
    BY <1>2, <1>5, <2>1, <2>2 DEF AloneInv, MergeInv, MergeTypeOK
  <2>5. ASSUME NEW c \in Touched(k.delta)
        PROVE  /\ Graph'[c] = Graph[c] /\ LatestRev(c)' = LatestRev(c)
               /\ Latest(c)' = Latest(c)
    <3>1. c \in Claims
      BY <2>4, DeltaOps, OpKinds DEF Touched, Jobs
    <3>2. c \notin Touched(job[w].delta)
      BY <2>4 DEF Apart
    <3> QED
      BY <3>1, <3>2, UnwrittenStays
  <2>6. k.phase \in {"apply", "write"} => Op(k).claim \in Touched(k.delta)
    BY <2>4 DEF GoodJob, Touched, Op
  <2>7. ByRules(k, q)'
    <3>1. \A c \in Touched(k.delta) : Graph'[c] = AfterOps(k.before, k.delta)[k.op - 1][c]
      BY <2>4, <2>5 DEF ByRules
    <3>2. k.phase \in {"apply", "write"} => k.read = Graph'[Op(k).claim]
      BY <2>4, <2>5, <2>6 DEF ByRules
    <3>3. ASSUME k.phase = "write"
          PROVE  /\ JustRead(q)' /\ q.claim = Op(k).claim
                 /\ Outcome(Graph'[Op(k).claim], Op(k), k.delta.at) = "apply"
                 /\ Entry(q.body) = Body(Graph'[q.claim], Op(k), k.delta.at)
      <4>1. JustRead(q) /\ q.claim = Op(k).claim /\ q.claim \in Touched(k.delta)
            /\ Entry(q.body) = Body(Graph[q.claim], Op(k), k.delta.at)
            /\ Outcome(Graph[Op(k).claim], Op(k), k.delta.at) = "apply"
        BY <2>4, <2>6, <3>3 DEF ByRules
      <4> QED
        BY <2>5, <4>1 DEF JustRead
    <3> QED
      BY <3>1, <3>2, <3>3 DEF ByRules, Entry
  <2> QED
    BY <1>3, <2>3, <2>7 DEF ByRules, Op, JustRead, Touched
<1> QED
  BY <1>4, <1>5

LEMMA AloneNextSound ==
  ASSUME MergeInv, AloneInv, [MergeNext]_mergeVars
  PROVE  AloneInv'
<1>0. /\ StoreInv /\ MergeTypeOK /\ job \in [Workers -> Jobs \cup {None}]
  BY DEF MergeInv, MergeTypeOK
<1>1. ASSUME NEW w \in Workers, NEW d \in Deltas, Submit(w, d) PROVE AloneInv'
  <2>1. /\ Graph' = Graph /\ call' = call
        /\ \A p : JustRead(p)' <=> JustRead(p)
    BY <1>1 DEF Submit, tables, Graph, Exists, Latest, LatestRev, Entry, JustRead
  <2> DEFINE alone == \A u \in Workers : job[u] # None => Apart(job[u].delta, d)
  <2>2. PICK j : j = [delta |-> d, op |-> 1, phase |-> "guard", read |-> Absent,
                      before |-> IF alone THEN Graph ELSE None]
    OBVIOUS
  <2>3. /\ j.delta = d /\ j.op = 1 /\ j.phase = "guard"
        /\ j.before = IF alone THEN Graph ELSE None
    BY <2>2
  <2>4. /\ job' = [v \in Workers |->
                    CASE v = w -> j
                      [] v # w /\ job[v] # None /\ ~Apart(job[v].delta, d) ->
                           [job[v] EXCEPT !.before = None]
                      [] OTHER -> job[v]]
        /\ job[w] = None
    BY <1>1, <2>2 DEF Submit
  <2> HIDE DEF alone
  <2>5. /\ job'[w] = j
        /\ \A v \in Workers : v # w /\ job[v] # None /\ ~Apart(job[v].delta, d)
                               => job'[v] = [job[v] EXCEPT !.before = None]
        /\ \A v \in Workers : v # w /\ (job[v] = None \/ Apart(job[v].delta, d))
                               => job'[v] = job[v]
    BY <2>4
  <2>6. \A v \in Workers : v # w =>
             /\ job'[v] # None => job[v] # None /\ job'[v].delta = job[v].delta
             /\ job'[v] # None /\ job'[v].before # None =>
                  job'[v] = job[v] /\ Apart(job[v].delta, d)
    <3>1. \A v \in Workers : job[v] # None => job[v] \in Jobs
      BY <1>0
    <3> QED
      BY <2>5, <3>1 DEF Jobs
  <2> SUFFICES ASSUME NEW v \in Workers, job'[v] # None, job'[v].before # None
               PROVE  /\ \A u \in Workers : u # v /\ job'[u] # None
                                              => Apart(job'[u].delta, job'[v].delta)
                      /\ ByRules(job[v], call[v])'
    BY DEF AloneInv, Apart, Touched
  <2>7. CASE v = w
    <3>1. job'[v] = j /\ alone
      BY <2>3, <2>5, <2>7
    <3>2. \A u \in Workers : u # v /\ job'[u] # None => Apart(job'[u].delta, d)
      BY <2>6, <2>7, <3>1 DEF alone
    <3>3. AfterOps(Graph, d)[0] = Graph
      BY DeltaOps, AfterOpsRuns
    <3>4. j.op - 1 = 0 /\ j.before = Graph /\ j.phase = "guard" /\ j.delta = d
      BY <2>3, <3>1
    <3>5. ByRules(job[v], call[v])'
      BY <2>1, <3>1, <3>3, <3>4 DEF ByRules
    <3> QED
      BY <3>1, <3>2, <3>4, <3>5
  <2>8. CASE v # w
    <3>1. /\ job'[v] = job[v] /\ job[v] # None /\ job[v].before # None
          /\ Apart(job[v].delta, d)
      BY <2>6, <2>8
    <3>2. \A u \in Workers : u # v /\ job'[u] # None => Apart(job'[u].delta, job'[v].delta)
      BY <2>3, <2>5, <2>6, <3>1 DEF AloneInv, Apart
    <3>3. ByRules(job[v], call[v]) /\ call'[v] = call[v]
      BY <2>1, <3>1 DEF AloneInv
    <3>4. ByRules(job[v], call[v])'
      BY <2>1, <3>1, <3>3 DEF ByRules, Op, Entry
    <3> QED
      BY <3>2, <3>4
  <2> QED
    BY <2>7, <2>8
<1>2. ASSUME NEW w \in Workers, Guard(w) PROVE AloneInv'
  <2> DEFINE op == Op(job[w])
             passed == Outcome(Graph[op.claim], op, job[w].delta.at) \in {"apply", "fails"}
  <2>1. /\ job[w] # None /\ job[w] \in Jobs /\ job[w].op \in DOMAIN job[w].delta.ops
        /\ job[w].op \in Nat \ {0} /\ Graph' = Graph /\ claims' = claims /\ call' = call
        /\ Op(job[w]).claim \in Touched(job[w].delta)
    <3>1. /\ job[w] # None /\ job[w] \in Jobs /\ job[w].op \in DOMAIN job[w].delta.ops
          /\ job[w].op \in Nat \ {0}
      BY <1>0, <1>2 DEF Guard, Working, Jobs
    <3>2. UNCHANGED <<tables, call>>
      BY <1>2 DEF Guard
    <3>3. Graph' = Graph /\ claims' = claims /\ call' = call
      BY <3>2 DEF tables, Graph, Exists, Latest, LatestRev, Entry
    <3>4. Op(job[w]).claim \in Touched(job[w].delta)
      BY <3>1 DEF Touched, Op
    <3> QED
      BY <3>1, <3>3, <3>4
  <2>2. CASE passed
    <3>1. PICK j : j = [job[w] EXCEPT !.phase = "apply", !.read = Graph[op.claim]]
      OBVIOUS
    <3>2. PICK p : p = call'[w]
      OBVIOUS
    <3>3. job' = [job EXCEPT ![w] = j]
      BY <1>2, <2>2, <3>1 DEF Guard
    <3>4. /\ j.before = job[w].before /\ j.delta = job[w].delta /\ j.op = job[w].op
          /\ j.phase = "apply" /\ j.read = Graph[op.claim]
      BY <2>1, <3>1 DEF Jobs
    <3>5. ASSUME job[w].before # None PROVE ByRules(j, p)'
      <4>1. /\ \A c \in Touched(j.delta) : Graph[c] = AfterOps(j.before, j.delta)[j.op - 1][c]
            /\ j.read = Graph[Op(j).claim]
        BY <2>1, <3>4, <3>5 DEF AloneInv, ByRules, Op
      <4>2. /\ \A c \in Touched(j.delta) : Graph'[c] = AfterOps(j.before, j.delta)[j.op - 1][c]
            /\ j.read = Graph'[Op(j).claim]
        BY <2>1, <4>1
      <4> QED
        BY <3>4, <4>2 DEF ByRules
    <3> QED
      BY <2>1, <3>2, <3>3, <3>4, <3>5, AloneMoves
  <2>3. CASE ~passed
    <3>1. PICK k \in Jobs : k = job[w]
      BY <2>1
    <3> DEFINE n == k.op + 1
    <3>2. PICK j : j = [k EXCEPT !.op = n, !.phase = "guard", !.read = Absent]
      OBVIOUS
    <3>3. PICK p : p = call'[w]
      OBVIOUS
    <3>4. job' = [job EXCEPT ![w] = j]
      BY <1>2, <2>3, <3>1, <3>2 DEF Guard, NextOp
    <3>5. /\ j \in Jobs /\ j.before = k.before /\ j.delta = k.delta /\ j.op = k.op + 1
          /\ j.phase = "guard"
      <4>1. n \in Nat \ {0}
        BY <2>1, <3>1
      <4> HIDE DEF n
      <4>2. /\ j \in Jobs /\ j.before = k.before /\ j.delta = k.delta /\ j.op = n
            /\ j.phase = "guard"
        BY <3>1, <3>2, <4>1 DEF Jobs, Phases
      <4> QED
        BY <4>2 DEF n
    <3>6. Graph' = ApplyOp(Graph, Op(k), k.delta.at)
      BY <2>1, <2>3, <3>1 DEF ApplyOp
    <3>7. ASSUME k.before # None PROVE ByRules(j, p)'
      <4>1. \A c \in Touched(k.delta) : Graph[c] = AfterOps(k.before, k.delta)[k.op - 1][c]
        BY <2>1, <3>1, <3>7 DEF AloneInv, ByRules
      <4> QED
        BY <1>0, <2>1, <3>1, <3>5, <3>6, <3>7, <4>1, ByRulesOn
    <3> QED
      BY <2>1, <3>1, <3>3, <3>4, <3>5, <3>7, AloneMoves
  <2> QED
    BY <2>2, <2>3
<1>3. ASSUME NEW w \in Workers, Apply(w) PROVE AloneInv'
  <2>1. /\ job[w] # None /\ job[w] \in Jobs /\ job[w].op \in DOMAIN job[w].delta.ops
        /\ job[w].phase = "apply"
    BY <1>0, <1>3 DEF Apply, Working
  <2>2. PICK j : j = [job[w] EXCEPT !.phase = "write"]
    OBVIOUS
  <2>3. PICK p : p = call'[w]
    OBVIOUS
  <2>4. job' = [job EXCEPT ![w] = j]
    BY <1>3, <2>2 DEF Apply
  <2>5. /\ j.before = job[w].before /\ j.delta = job[w].delta /\ j.op = job[w].op
        /\ j.phase = "write" /\ j.read = job[w].read
    BY <2>1, <2>2 DEF Jobs
  <2>6. /\ JustRead(p) /\ p.claim = Op(j).claim /\ UNCHANGED tables
        /\ \A v \in Workers : v # w => call'[v] = call[v]
        /\ Entry(p.body) = Body(Graph[p.claim], Op(j), j.delta.at)
    <3>1. Reads(w) /\ call \in [Workers -> Write \cup {Idle}]
      BY <1>0, <1>3, ApplyIsCall, CallReads DEF StoreInv, TypeOK
    <3>2. /\ JustRead(p) /\ UNCHANGED tables
          /\ \A v \in Workers : v # w => call'[v] = call[v]
      BY <2>3, <3>1 DEF Reads, Begin
    <3>3. p.claim = Op(j).claim
      BY <1>3, <2>3, <2>5, ApplyIsCall DEF Intended, Op
    <3>4. Entry(p.body) = Body(Graph[Op(j).claim], Op(j), j.delta.at)
      BY <1>3, <2>3, <2>5, ApplyWrites DEF Op
    <3> QED
      BY <3>2, <3>3, <3>4
  <2>7. Graph' = Graph /\ JustRead(p)' /\ claims' = claims
    BY <2>6 DEF tables, Graph, Exists, Latest, LatestRev, Entry, JustRead
  <2>8. ASSUME job[w].before # None PROVE ByRules(j, p)'
    <3>1. /\ \A c \in Touched(j.delta) : Graph[c] = AfterOps(j.before, j.delta)[j.op - 1][c]
          /\ j.read = Graph[Op(j).claim]
      BY <2>1, <2>5, <2>8 DEF AloneInv, ByRules, Op
    <3>2. /\ \A c \in Touched(j.delta) : Graph'[c] = AfterOps(j.before, j.delta)[j.op - 1][c]
          /\ j.read = Graph'[Op(j).claim]
          /\ Entry(p.body) = Body(Graph'[p.claim], Op(j), j.delta.at)
          /\ Outcome(Graph'[Op(j).claim], Op(j), j.delta.at) = "apply"
      <4>1. Outcome(Graph[Op(j).claim], Op(j), j.delta.at) = "apply"
        BY <1>3, <2>5, <3>1, ApplyApplies DEF Op
      <4> QED
        BY <2>6, <2>7, <3>1, <4>1
    <3> QED
      BY <2>6, <2>7, <3>2 DEF ByRules, Entry
  <2> QED
    BY <2>1, <2>3, <2>4, <2>5, <2>6, <2>7, <2>8, AloneMoves
<1>4. ASSUME NEW w \in Workers, Abort(w) \/ Finish(w) PROVE AloneInv'
  <2>1. /\ job[w] # None /\ job' = [job EXCEPT ![w] = None]
        /\ call' = call /\ claims' = claims
    BY <1>4 DEF Abort, Finish, Working, tables
  <2>2. PICK p : p = call'[w]
    OBVIOUS
  <2> QED
    BY <2>1, <2>2, AloneMoves
<1>5. ASSUME NEW w \in Workers, CommitOp(w) PROVE AloneInv'
  <2>1. /\ job[w] # None /\ job[w] \in Jobs /\ job[w].op \in DOMAIN job[w].delta.ops
        /\ job[w].phase = "write" /\ Commit(w) /\ Passed(job[w])
        /\ job[w].op \in Nat \ {0}
    BY <1>0, <1>5 DEF CommitOp, Working, MergeInv, GoodJob, Jobs
  <2>2. PICK k \in Jobs : k = job[w]
    BY <2>1
  <2> DEFINE n == k.op + 1
  <2>3. PICK j : j = [k EXCEPT !.op = n, !.phase = "guard", !.read = Absent]
    OBVIOUS
  <2>4. PICK p : p = call'[w]
    OBVIOUS
  <2>5. job' = [job EXCEPT ![w] = j]
    BY <1>5, <2>2, <2>3 DEF CommitOp, NextOp
  <2>6. /\ j \in Jobs /\ j.before = k.before /\ j.delta = k.delta /\ j.op = k.op + 1
        /\ j.phase = "guard"
    <3>1. n \in Nat \ {0}
      BY <2>1, <2>2
    <3> HIDE DEF n
    <3>2. /\ j \in Jobs /\ j.before = k.before /\ j.delta = k.delta /\ j.op = n
          /\ j.phase = "guard"
      BY <2>2, <2>3, <3>1 DEF Jobs, Phases
    <3> QED
      BY <3>2 DEF n
  <2>7. /\ \A v \in Workers : v # w => call'[v] = call[v]
        /\ \A c \in Claims : c \notin Touched(k.delta) => claims'[c] = claims[c]
    <3>1. call[w].claim \in Touched(k.delta)
      BY <2>1, <2>2 DEF MergeInv, GoodJob, Intended, Touched, Op
    <3>2. claims' = ClaimsAfter(call[w]) /\ call' = [call EXCEPT ![w] = Idle]
      BY <2>1 DEF Commit, WriteRevision
    <3> QED
      BY <1>0, <3>1, <3>2 DEF ClaimsAfter, StoreInv, TypeOK, TablesTypeOK
  <2>8. ASSUME k.before # None PROVE ByRules(j, p)'
    <3>1. /\ \A c \in Touched(k.delta) : Graph[c] = AfterOps(k.before, k.delta)[k.op - 1][c]
          /\ k.read = Graph[Op(k).claim] /\ JustRead(call[w])
          /\ call[w].claim = Op(k).claim
          /\ Outcome(Graph[Op(k).claim], Op(k), k.delta.at) = "apply"
          /\ Entry(call[w].body) = Body(Graph[Op(k).claim], Op(k), k.delta.at)
      BY <2>1, <2>2, <2>8 DEF AloneInv, ByRules
    <3>2. PICK q : q = call[w]
      OBVIOUS
    <3>3. Graph' = [Graph EXCEPT ![q.claim] = Entry(q.body)]
      BY <1>0, <2>1, <3>1, <3>2, CommitGraph
    <3>4. Outcome(Graph[Op(k).claim], Op(k), k.delta.at) = "apply"
      BY <3>1
    <3>5. Graph' = ApplyOp(Graph, Op(k), k.delta.at)
      BY <3>1, <3>2, <3>3, <3>4 DEF ApplyOp
    <3> QED
      BY <1>0, <2>1, <2>2, <2>6, <2>8, <3>1, <3>5, ByRulesOn
  <2> QED
    BY <2>1, <2>2, <2>4, <2>5, <2>6, <2>7, <2>8, AloneMoves
<1>6. ASSUME MergeCrash PROVE AloneInv'
  BY <1>6 DEF MergeCrash, AloneInv
<1>7. CASE UNCHANGED mergeVars
  <2>1. job' = job /\ call' = call /\ Graph' = Graph
        /\ \A p : JustRead(p)' <=> JustRead(p)
    BY <1>7 DEF mergeVars, Graph, Exists, Latest, LatestRev, Entry, JustRead
  <2> QED
    BY <2>1 DEF AloneInv, ByRules, Op, Entry
<1> QED
  BY <1>1, <1>2, <1>3, <1>4, <1>5, <1>6, <1>7 DEF MergeNext, Step

(* A merge whose claims no other merge had in hand has made of them        *)
(* exactly what the rules make of them, although each of its operations is *)
(* three transactions and other handlers wrote other claims in between     *)
(* (merge.rs:131-167).                                                     *)
THEOREM AloneMergesAreSerial == MergeSpec => []AloneIsSerial
<1>1. MergeInit => AloneInv
  BY DEF MergeInit, AloneInv
<1>2. MergeInv /\ MergeInv' /\ AloneInv /\ [MergeNext]_mergeVars => AloneInv'
  BY AloneNextSound
<1>3. MergeInv /\ AloneInv => AloneIsSerial
  <2> SUFFICES ASSUME MergeInv, AloneInv, NEW w \in Workers, job[w] # None,
                      job[w].before # None, job[w].op > Len(job[w].delta.ops),
                      NEW c \in Touched(job[w].delta)
               PROVE  Graph[c] = MergeDelta(job[w].before, job[w].delta)[c]
    BY DEF AloneIsSerial
  <2>1. /\ job[w] \in Jobs /\ job[w].op \in 1..Len(job[w].delta.ops) + 1
        /\ job[w].delta \in Deltas
    BY DEF MergeInv, MergeTypeOK, Jobs
  <2>2. job[w].op - 1 = Len(job[w].delta.ops)
    <3> DEFINE n == job[w].op
               N == Len(job[w].delta.ops)
    <3>1. N \in Nat /\ n \in 1..N+1 /\ n > N
      BY <2>1, DeltaOps
    <3> HIDE DEF n, N
    <3>2. n - 1 = N
      BY <3>1
    <3> QED
      BY <3>2 DEF n, N
  <2>3. Graph[c] = AfterOps(job[w].before, job[w].delta)[job[w].op - 1][c]
    BY DEF AloneInv, ByRules
  <2> QED
    BY <2>2, <2>3 DEF MergeDelta
<1> QED
  BY <1>1, <1>2, <1>3, MergeInvariant, PTL DEF MergeSpec

(* A merge whose claims no other merge has in hand reverses no settled     *)
(* decision, whichever claims it reaches and however its operations follow *)
(* each other: what SettledUnlessRaced leaves open needs a second merge of *)
(* the same claim (merge.rs:328-345).                                      *)
THEOREM AloneReversesNothing ==
  MergeSpec => [][\A w \in Workers, c \in Claims :
                    Commit(w) /\ job[w] # None /\ job[w].before # None
                      => ~Reverses(w, c)]_mergeVars
<1>1. MergeInit => AloneInv
  BY DEF MergeInit, AloneInv
<1>2. MergeInv /\ AloneInv /\ [MergeNext]_mergeVars => AloneInv'
  BY AloneNextSound
<1>3. ASSUME MergeInv, AloneInv, NEW w \in Workers, NEW c \in Claims,
             job[w] # None, job[w].before # None, Reverses(w, c)
      PROVE  FALSE
  <2>1. PICK j : j = job[w]
    OBVIOUS
  <2>2. PICK p : p = call[w]
    OBVIOUS
  <2>3. /\ p # Idle /\ p.claim = c /\ Exists(c) /\ j.phase = "write"
        /\ j.op \in DOMAIN j.delta.ops
    BY <1>3, <2>1, <2>2 DEF Reverses, MergeInv, MergeTypeOK, GoodJob
  <2>4. /\ j.read = Graph[Op(j).claim] /\ JustRead(p) /\ p.claim = Op(j).claim
    BY <1>3, <2>1, <2>2, <2>3 DEF AloneInv, ByRules
  <2>5. p.previous = Latest(c) /\ Graph[c] = Entry(Latest(c))
    BY <2>3, <2>4 DEF JustRead, Exists, Graph
  <2>6. GoneBy(w) = Graph[c]
    BY <2>1, <2>2, <2>3, <2>4, <2>5 DEF GoneBy
  <2> QED
    BY <1>3, <2>6, ReversalIsRaced
<1>4. MergeInv /\ AloneInv =>
        \A w \in Workers, c \in Claims :
          Commit(w) /\ job[w] # None /\ job[w].before # None => ~Reverses(w, c)
  BY <1>3
<1> QED
  BY <1>1, <1>2, <1>4, MergeInvariant, PTL DEF MergeSpec

(* Merges whose store calls do not overlap on a claim take only the steps  *)
(* of the ledger: what the merger adds to the graph is opened, decided     *)
(* with evidence that fits, and related once, as the store promises.       *)
THEOREM MergesImplementLedger == MergeSpec /\ []NoOverlap => ImplementsLedger
<1>1. MergeInit => Init
  BY DEF MergeInit
<1>2. MergeInv /\ [MergeNext]_mergeVars /\ NoOverlap' => [Next /\ NoOverlap']_vars
  BY MergeStepUsesStore
<1>3. MergeSpec /\ []NoOverlap => SerialSpec
  BY <1>1, <1>2, MergeInvariant, PTL DEF MergeSpec, SerialSpec
<1> QED
  BY <1>3, StoreImplementsLedger, PTL
=============================================================================
