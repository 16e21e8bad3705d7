---------------------------- MODULE MCSupervisor ----------------------------
(* TLC instance of Supervisor: two tasks, the second of which may wait for the
   first, requests one at a time and one daemon beside them, which may overlap. *)
EXTENDS Supervisor

MCDependencies == {{}, {1}}
MCAssignments == {Agents}

\* Bound: the first task does not wait for itself, which it would do for ever.
NoneForItself == \A w \in Workers : draft[w].tasks[1].deps = {}

\* Bound: init comes again when an agent has been started, or in the middle of
\* another operation.  Otherwise all begins once more as it was.
InitMatters ==
    \/ \E p \in Pids : procs[p].state # "unborn"
    \/ \E w \in Workers : stage[w] # "idle"

MCSpec ==
    /\ SupInit
    /\ [][SupNext /\ NoneForItself' /\ (inits' # inits => InitMatters)]_supVars
    /\ SupFairness
=============================================================================
