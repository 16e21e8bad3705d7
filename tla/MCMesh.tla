------------------------------ MODULE MCMesh ------------------------------
(* TLC instance of Mesh: two agents, an IDE, two requesters.  The tasks, the
   exchanges and what goes wrong with the presence of the IDE share a bound.  *)
EXTENDS Mesh

CONSTANTS a1, a2,
          MaxEvents   \* bound: tasks, exchanges, restarts, mishaps

VARIABLE events   \* how many there were

MCChains == {<<>>, <<a2>>, <<a2, a1>>}

\* The client ends or gives up, the flag is set, or a listed IDE registers again.
Mishap(i) ==
    \/ client[i].at = "live" /\ client'[i].at # "live"
    \/ /\ Listed(i) /\ Listed(i)' /\ entry[i].eligible # entry'[i].eligible
       /\ handler[i].at = handler'[i].at
    \/ Listed(i) /\ handler[i].at # "insert" /\ handler'[i].at = "insert"

MCNext ==
    /\ MeshNext
    /\ events' = events + (log'.started - log.started) + (counter' - counter)
                 + (log'.restarts - log.restarts) + Cardinality({i \in Ides : Mishap(i)})
    /\ events' <= MaxEvents

MCInit == MeshInit /\ events = 0

MCSpec == MCInit /\ [][MCNext]_<<vars, events>> /\ MeshFairness
=============================================================================
