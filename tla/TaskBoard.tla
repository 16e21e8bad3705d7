----------------------------- MODULE TaskBoard -----------------------------
(* What the supervisor promises whoever queues work on it: a board of tasks.
   A task is queued with the tasks it waits for, is started once, when all of
   those are done, and is done only after it was running.  Somebody may take a
   task into his own hands (start it, complete it, fail it, dispatch it live);
   only such a task moves in any other way.  The board may be wiped, and its
   names used again: a name once taken over stays so.  "broken" is raised when two
   writers of the board overlapped or one died while writing: no promise is
   made from then on.                                                        *)
EXTENDS FiniteSets

CONSTANT Tasks

VARIABLES board,     \* the status of every task
          waitsFor,  \* the tasks it was queued behind
          forced,    \* the tasks somebody took into his own hands
          broken

boardVars == <<board, waitsFor, forced, broken>>

BoardInit ==
    /\ board = [t \in Tasks |-> "none"]
    /\ waitsFor = [t \in Tasks |-> {}]
    /\ forced = {}
    /\ broken = FALSE

Settled == {"done", "failed"}

Queue(t, deps) ==
    /\ board[t] = "none"
    /\ board' = [board EXCEPT ![t] = "queued"]
    /\ waitsFor' = [waitsFor EXCEPT ![t] = deps]
    /\ UNCHANGED forced

\* A process is started for t, or could not be.
Start(t) ==
    /\ board[t] = "queued"
    /\ \A d \in waitsFor[t] : board[d] = "done"
    /\ board' \in {[board EXCEPT ![t] = s] : s \in {"running", "failed"}}
    /\ UNCHANGED <<waitsFor, forced>>

\* The processes of some running tasks were found to be gone.
Finish(T) ==
    /\ T # {}
    /\ \A t \in T : board[t] = "running"
    /\ board' = [t \in Tasks |-> IF t \in T THEN "done" ELSE board[t]]
    /\ UNCHANGED <<waitsFor, forced>>

TakeOver(t) ==
    /\ forced' = forced \cup {t}
    /\ UNCHANGED <<board, waitsFor>>

MoveByHand(t) ==
    /\ t \in forced
    /\ board' \in {[board EXCEPT ![t] = s] : s \in {"running"} \cup Settled}
    /\ UNCHANGED <<waitsFor, forced>>

Reset ==
    /\ board' = [t \in Tasks |-> "none"]
    /\ waitsFor' = [t \in Tasks |-> {}]
    /\ UNCHANGED forced

BoardStep ==
    \/ Reset
    \/ \E t \in Tasks : \/ \E deps \in SUBSET Tasks : Queue(t, deps)
                        \/ Start(t)
                        \/ TakeOver(t)
                        \/ MoveByHand(t)
    \/ \E T \in SUBSET Tasks : Finish(T)

BoardNext == \/ ~broken /\ ~broken' /\ BoardStep
             \/ broken'

BoardSpec == BoardInit /\ [][BoardNext]_boardVars
=============================================================================
