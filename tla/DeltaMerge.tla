----------------------------- MODULE DeltaMerge -----------------------------
(***************************************************************************)
(* The rules by which a worker's GraphDelta is merged                      *)
(* (src/qo/qo-knowledge/src/merge.rs), as functions of the graph: what     *)
(* becomes of one operation, and what a whole delta makes of the graph     *)
(* when nothing runs beside it.                                            *)
(*                                                                         *)
(* A graph maps each claim id to what its newest revision says, Absent     *)
(* for an unknown claim; by is the observed_at of its provenance.  A delta *)
(* is [signed, at, ops]; at is the emitted_at of its producer.             *)
(***************************************************************************)
EXTENDS Integers, Sequences

CONSTANTS Claims, Entities, Dangling, Absent

(* validate(): a delta that fails it never reaches the graph.  Claims come *)
(* as proposals; evidence must fit what it is given for.                   *)
Valid(delta) ==
  /\ delta.ops # <<>>
  /\ \A i \in DOMAIN delta.ops :
       LET op == delta.ops[i] IN
         /\ op.kind = "verify_claim" => op.evidence.supports
         /\ op.kind = "refute_claim" => ~op.evidence.supports

(* Not the code: a decision that was already made is no obstacle. *)
GuardTransition_Unsettled(existing, target, at) ==
  CASE existing.status = target -> "already"
    [] existing.status # target /\ at < existing.by -> "stale"
    [] OTHER -> "apply"

GuardTransition(existing, target, at) ==
  CASE existing.status = target -> "already"
    [] existing.status # target /\ existing.status \in {"Verified", "Refuted"} -> "contradictory"
    [] OTHER -> IF at < existing.by THEN "stale" ELSE "apply"

(* What apply_op decides after reading the claim: "apply", "already", or   *)
(* the kind of the conflict it records; "fails" when it goes on and the    *)
(* store will refuse, which ends the merge with an error: apply_op looks   *)
(* for a relation with an object, attach_relation for a relation.          *)
Outcome(existing, op, at) ==
  CASE existing = Absent -> IF op.kind = "add_claim" THEN "apply" ELSE "unknown"
    [] existing # Absent /\ op.kind = "add_claim" ->
         IF existing.subject = op.subject THEN "already" ELSE "duplicate"
    [] existing # Absent /\ op.kind = "add_relation" ->
         CASE existing.object = op.object -> "already"
           [] existing.object # op.object /\ existing.object \in Entities -> "contradictory"
           [] existing.object = Dangling -> "fails"
           [] OTHER -> "apply"
    [] existing # Absent /\ op.kind = "verify_claim" -> GuardTransition(existing, "Verified", at)
    [] existing # Absent /\ op.kind = "refute_claim" -> GuardTransition(existing, "Refuted", at)

(* The claim after an operation that applies.  A new claim is stored as it *)
(* came, with its own time, evidence and relation.                         *)
Body(existing, op, at) ==
  CASE op.kind = "add_claim" ->
         [subject |-> op.subject, object |-> op.object, status |-> "Proposed",
          evidence |-> op.evidence, by |-> op.by]
    [] op.kind = "add_relation" ->
         [existing EXCEPT !.object = op.object, !.by = at]
    [] op.kind = "verify_claim" ->
         [existing EXCEPT !.status = "Verified", !.evidence = Append(@, op.evidence), !.by = at]
    [] op.kind = "refute_claim" ->
         [existing EXCEPT !.status = "Refuted", !.evidence = Append(@, op.evidence), !.by = at]

ApplyOp(graph, op, at) ==
  IF Outcome(graph[op.claim], op, at) = "apply"
  THEN [graph EXCEPT ![op.claim] = Body(@, op, at)]
  ELSE graph

(* The graph after the first n operations of a delta, of which none fails. *)
AfterOps(graph, delta) ==
  LET after[n \in 0..Len(delta.ops)] ==
        IF n = 0 THEN graph ELSE ApplyOp(after[n - 1], delta.ops[n], delta.at)
  IN after

MergeDelta(graph, delta) == AfterOps(graph, delta)[Len(delta.ops)]
=============================================================================
