---------------------------- MODULE MCAutonomous ----------------------------
(* TLC instance of Autonomous: two swarms of two rounds and two configurations.
   The user, other clients, a slow swarm or midnight interfere with the loop
   and the orchestrators.                                                    *)
EXTENDS Autonomous

CONSTANTS g1, g2,
          MaxInterferences   \* bound: what interferes in one behaviour

MCGoals == {g1, g2}
MCConfigs ==
    {[queue |-> <<g1, g2>>, budget |-> 1, cap |-> 2, invent |-> FALSE],
     [queue |-> <<Blank>>, budget |-> 3, cap |-> 1, invent |-> TRUE]}

\* Swarms that are stopped or lost, or both, a working copy without a branch, and
\* reviews.
Mishaps ==
    Cardinality({s \in Swarms : swarms[s].stop \/ Gone(s)})
      + (IF tree.branch = Detached \/ \E s \in Swarms : swarms[s].home = Detached
         THEN 1 ELSE 0)
      + past.reviews

\* Interferences: requests after the first one, days, swarms of other clients,
\* living swarms that outlive the wait, agents that outlive their subtask, files that
\* the user edits and agents do not, and mishaps, each with an edit of an agent.
Interferences ==
    (IF log.commands = 0 THEN 0 ELSE log.commands - 1) + (day - 1)
      + Cardinality({s \in Swarms : Exists(s) /\ ~swarms[s].auto})
      + Cardinality({s \in log.overslept : ~Gone(s)})
      + Cardinality({w \in work : ~w.awaited})
      + Cardinality((tree.dirty \cup UNION {tree.commits[s] : s \in Swarms}) \ past.edited)
      + Greater(Cardinality(past.edited), Mishaps)

MCSpec ==
    /\ AutoInit /\ [][AutoNext /\ (Interferences <= MaxInterferences)']_vars
    /\ \A s \in Swarms : WF_vars(SwarmStep(s))
=============================================================================
