------------------------- MODULE Supervisor_proofs -------------------------
(* For every number of workers, tasks, sessions and processes and any overlap
   of their operations: every variable keeps its type, and the scheduler never
   starts the agent of a task before the tasks it waits for have ended.

   The invariant says of the file and of every content about to be written
   that what it calls done has ended and that its process ids are those of the
   task it names.  Both are kept by the operations because processes only
   ever move on: what a worker has read may be old, but it stays true.       *)
EXTENDS Supervisor, FiniteSetTheorems, TLAPS

\* What content c says of the tasks and processes of its era is true.
Believable(c) ==
    /\ c.era <= inits
    /\ \A t \in TaskIds : c.tasks[t].status = "done" => HasEnded(t, c.era)
    /\ \A s \in SessionIds : c.sessions[s].pid # None =>
        /\ procs[c.sessions[s].pid].state # "unborn"
        /\ procs[c.sessions[s].pid].task = c.sessions[s].task
        /\ procs[c.sessions[s].pid].era = c.era

\* No process is of an era to come.
Dated == \A p \in Pids : procs[p].era <= inits

\* A waiter waits for a process that was dispatched live.
Waited == \A p \in live : procs[p].state # "unborn" /\ procs[p].how = "live"

SupInv ==
    /\ SupTypeOK /\ Dated /\ Waited
    /\ Believable(file)
    /\ \A w \in Workers : Believable(draft[w])
    /\ StartedAfterDependencies

-----------------------------------------------------------------------------
(* A file just made is well typed and believable.                            *)
LEMMA FreshIsContent ==
    ASSUME NEW e \in Eras
    PROVE  /\ [Fresh EXCEPT !.era = e] \in Contents /\ Fresh \in Contents
           /\ [Fresh EXCEPT !.era = e].era = e /\ Fresh.era = 0
           /\ [Fresh EXCEPT !.era = e].tasks = Fresh.tasks
           /\ [Fresh EXCEPT !.era = e].sessions = Fresh.sessions
           /\ [Fresh EXCEPT !.era = e].nextTask = 1
           /\ [Fresh EXCEPT !.era = e].nextSession = 1
<1>1. Fresh \in Contents
  BY SupAssumption DEF Fresh, NoTask, NoSession, Contents, Tasks, Sessions, TaskStatus,
     SessionStatus, TaskIds, SessionIds, Pids, None, Eras
<1>. QED BY <1>1 DEF Contents, Fresh

LEMMA FreshIsBelievable ==
    ASSUME inits \in Eras
    PROVE  /\ Fresh \in Contents /\ Believable(Fresh)
           /\ \A e \in Eras : e <= inits => Believable([Fresh EXCEPT !.era = e])
<1>1. 0 <= inits
  BY SupAssumption DEF Eras
<1>2. ASSUME NEW c, c.era <= inits, c.tasks = Fresh.tasks, c.sessions = Fresh.sessions
      PROVE  Believable(c)
  BY <1>2 DEF Believable, Fresh, NoTask, NoSession
<1>3. Fresh \in Contents /\ Fresh.era = 0
  BY FreshIsContent
<1>4. ASSUME NEW e \in Eras, e <= inits PROVE Believable([Fresh EXCEPT !.era = e])
  <2>. DEFINE c == [Fresh EXCEPT !.era = e]
  <2>1. c.era = e /\ c.tasks = Fresh.tasks /\ c.sessions = Fresh.sessions
    BY FreshIsContent
  <2>. HIDE DEF c
  <2>2. Believable(c)
    BY <1>2, <1>4, <2>1
  <2>. QED BY <2>2 DEF c
<1>. QED BY <1>1, <1>2, <1>3, <1>4

(* The invariant holds initially.                                            *)
LEMMA InitInv == SupInit => SupInv
<1>1. SUFFICES ASSUME SupInit PROVE SupInv
  OBVIOUS
<1>0. inits \in Eras /\ 0 \in Eras /\ inits = 0
  BY <1>1, SupAssumption DEF SupInit, Eras
<1>2. SupTypeOK /\ Dated /\ Waited
  <2>1. Unborn \in Processes /\ Unborn.era = 0
    BY <1>0 DEF Unborn, Processes, Starters, None
  <2>2. Fresh \in Contents
    BY <1>0, FreshIsContent
  <2>3. 0 <= 0
    OBVIOUS
  <2>. QED BY <1>0, <1>1, <2>1, <2>2, <2>3 DEF SupInit, SupTypeOK, Dated, Waited
<1>3. Believable(file) /\ \A w \in Workers : Believable(draft[w])
  BY <1>0, <1>1, FreshIsBelievable DEF SupInit
<1>4. StartedAfterDependencies
  BY <1>1 DEF SupInit, StartedAfterDependencies, Unborn
<1>. QED BY <1>2, <1>3, <1>4 DEF SupInv

-----------------------------------------------------------------------------
(* Processes and declarations only move on.                                  *)
Onward ==
    /\ procs' \in [Pids -> Processes]
    /\ forced \subseteq forced'
    /\ inits' \in Eras /\ inits <= inits'
    /\ \A p \in Pids : procs'[p].era <= inits'
    /\ \A p \in live' : p \in live \/ (procs'[p].state # "unborn" /\ procs'[p].how = "live")
    /\ \A p \in Pids : procs[p].state # "unborn" =>
          /\ procs'[p].task = procs[p].task
          /\ procs'[p].how = procs[p].how /\ procs'[p].era = procs[p].era
          /\ procs'[p].state # "unborn"
          /\ Exited(p) => Exited(p)'

(* ... so that what has ended stays ended, and what was believable stays so. *)
LEMMA EndedStays ==
    ASSUME Onward, SupTypeOK, NEW t \in TaskIds, NEW e \in Eras, HasEnded(t, e)
    PROVE  HasEnded(t, e)'
<1>1. CASE <<t, "done", e>> \in forced
  BY <1>1 DEF Onward, HasEnded
<1>2. ASSUME NEW p \in Pids, Exited(p), procs[p].task = t,
             procs[p].era = e \/ procs[p].how = "live"
      PROVE  HasEnded(t, e)'
  <2>1. procs[p].state # "unborn"
    BY <1>2 DEF Exited
  <2>. QED BY <1>2, <2>1 DEF Onward, HasEnded
<1>. QED BY <1>1, <1>2 DEF HasEnded

LEMMA BelievableStays ==
    ASSUME Onward, SupTypeOK, NEW c \in Contents, Believable(c)
    PROVE  Believable(c)'
<1>0. c.era \in Eras
  BY DEF Contents
<1>1. ASSUME NEW t \in TaskIds, c.tasks[t].status = "done" PROVE HasEnded(t, c.era)'
  <2>1. HasEnded(t, c.era)
    BY <1>1 DEF Believable
  <2>. QED BY <1>0, <2>1, EndedStays
<1>2. ASSUME NEW s \in SessionIds, c.sessions[s].pid # None
      PROVE  /\ procs'[c.sessions[s].pid].state # "unborn"
             /\ procs'[c.sessions[s].pid].task = c.sessions[s].task
             /\ procs'[c.sessions[s].pid].era = c.era
  <2>1. c.sessions[s].pid \in Pids
    BY <1>2 DEF Contents, Sessions
  <2>2. /\ procs[c.sessions[s].pid].state # "unborn"
        /\ procs[c.sessions[s].pid].task = c.sessions[s].task
        /\ procs[c.sessions[s].pid].era = c.era
    BY <1>2 DEF Believable
  <2>. QED BY <2>1, <2>2 DEF Onward
<1>3. c.era <= inits'
  <2>1. c.era <= inits /\ inits <= inits'
    BY DEF Believable, Onward
  <2>2. c.era \in Int /\ inits \in Int /\ inits' \in Int
    BY <1>0, SupAssumption DEF Onward, SupTypeOK, Eras
  <2>. QED BY <2>1, <2>2
<1>. QED BY <1>1, <1>2, <1>3 DEF Believable
-----------------------------------------------------------------------------
(* The contents that the operations compute                                  *)

LEMMA ContentChange ==
    ASSUME NEW c \in Contents, NEW T \in [TaskIds -> Tasks],
           NEW S \in [SessionIds -> Sessions]
    PROVE  LET d == [[c EXCEPT !.sessions = S] EXCEPT !.tasks = T] IN
           d \in Contents /\ d.tasks = T /\ d.sessions = S /\ d.era = c.era
BY DEF Contents

LEMMA WithTaskKeeps ==
    ASSUME SupTypeOK, NEW c \in Contents, Believable(c), c.nextTask \in TaskIds,
           NEW task \in Tasks, task.status # "done"
    PROVE  /\ WithTask(c, task) \in Contents /\ Believable(WithTask(c, task))
           /\ WithTask(c, task).era = c.era
<1>. DEFINE d == WithTask(c, task)
            tasks == [c.tasks EXCEPT ![c.nextTask] = task]
<1>1. d = [[c EXCEPT !.tasks = tasks] EXCEPT !.nextTask = c.nextTask + 1]
  BY DEF WithTask, Contents
<1>2. c.nextTask + 1 \in 1..(MaxTasks + 1)
  BY SupAssumption DEF TaskIds
<1>3. tasks \in [TaskIds -> Tasks]
  BY DEF Contents
<1>4. d \in Contents /\ d.tasks = tasks /\ d.sessions = c.sessions /\ d.era = c.era
  BY <1>1, <1>2, <1>3 DEF Contents
<1>5. Believable(d)
  BY <1>4 DEF Believable, Contents
<1>. QED BY <1>4, <1>5

LEMMA WithAgentKeeps ==
    ASSUME NEW c \in Contents, Believable(c), NEW a \in Agents
    PROVE  /\ [c EXCEPT !.agents = @ \cup {a}] \in Contents
           /\ Believable([c EXCEPT !.agents = @ \cup {a}])
           /\ [c EXCEPT !.agents = @ \cup {a}].era = c.era
BY DEF Contents, Believable

LEMMA PolledKeeps ==
    ASSUME SupTypeOK, NEW c \in Contents, Believable(c),
           NEW errors, NEW parked,
           NEW d \in Contents, d = Polled(c, EndedSessions(c, errors), parked)
    PROVE  Believable(d)
<1>. DEFINE ended == EndedSessions(c, errors)
            tasks == {c.sessions[s].task : s \in ended}
<1>0. /\ d.sessions = [s \in SessionIds |->
            IF s \in ended THEN [c.sessions[s] EXCEPT !.status = "done"]
            ELSE IF s \in parked THEN [c.sessions[s] EXCEPT !.status = "waiting"]
            ELSE c.sessions[s]]
      /\ d.tasks = [t \in TaskIds |->
            IF t \in tasks /\ c.tasks[t].status = "running"
            THEN [c.tasks[t] EXCEPT !.status = "done"] ELSE c.tasks[t]]
      /\ d.era = c.era
  BY DEF Polled, Contents
<1>1. ASSUME NEW s \in SessionIds
      PROVE  /\ d.sessions[s].pid = c.sessions[s].pid
             /\ d.sessions[s].task = c.sessions[s].task
  <2>1. c.sessions[s] \in Sessions
    BY DEF Contents
  <2>. QED BY <1>0, <2>1 DEF Sessions
<1>2. ASSUME NEW t \in TaskIds, d.tasks[t].status = "done" PROVE HasEnded(t, d.era)
  <2>1. CASE c.tasks[t].status = "done"
    BY <1>0, <2>1 DEF Believable
  <2>2. CASE t \in tasks
    <3>1. PICK s \in ended : t = c.sessions[s].task
      BY <2>2
    <3>2. /\ s \in SessionIds
          /\ c.sessions[s].pid # None
          /\ procs[c.sessions[s].pid].state # "live"
      BY <3>1 DEF EndedSessions, Watched, IsProcessRunning
    <3>3. c.sessions[s].pid \in Pids
      BY <3>2 DEF Contents, Sessions
    <3>4. /\ procs[c.sessions[s].pid].state # "unborn"
          /\ procs[c.sessions[s].pid].task = t
          /\ procs[c.sessions[s].pid].era = d.era
      BY <1>0, <3>1, <3>2 DEF Believable
    <3>5. Exited(c.sessions[s].pid)
      BY <3>2, <3>3, <3>4 DEF Exited, SupTypeOK, Processes
    <3>. QED BY <3>3, <3>4, <3>5 DEF HasEnded
  <2>3. c.tasks[t].status = "done" \/ t \in tasks
    BY <1>0, <1>2
  <2>. QED BY <2>1, <2>2, <2>3
<1>3. ASSUME NEW s \in SessionIds, d.sessions[s].pid # None
      PROVE  procs[d.sessions[s].pid].state # "unborn"
             /\ procs[d.sessions[s].pid].task = d.sessions[s].task
             /\ procs[d.sessions[s].pid].era = d.era
  BY <1>0, <1>1, <1>3 DEF Believable
<1>. QED BY <1>0, <1>2, <1>3 DEF Believable

LEMMA PolledIsContent ==
    ASSUME NEW c \in Contents, NEW ended, NEW parked
    PROVE  Polled(c, ended, parked) \in Contents /\ Polled(c, ended, parked).era = c.era
<1>. DEFINE d == Polled(c, ended, parked)
            tasks == {c.sessions[s].task : s \in ended}
            NewSession(s) ==
                IF s \in ended THEN [c.sessions[s] EXCEPT !.status = "done"]
                ELSE IF s \in parked THEN [c.sessions[s] EXCEPT !.status = "waiting"]
                ELSE c.sessions[s]
            NewTask(t) == IF t \in tasks /\ c.tasks[t].status = "running"
                          THEN [c.tasks[t] EXCEPT !.status = "done"] ELSE c.tasks[t]
            S == [s \in SessionIds |-> NewSession(s)]
            T == [t \in TaskIds |-> NewTask(t)]
<1>1. d = [[c EXCEPT !.sessions = S] EXCEPT !.tasks = T]
  BY DEF Polled, Contents
<1>2. ASSUME NEW t \in TaskIds PROVE NewTask(t) \in Tasks
  BY DEF Contents, Tasks, TaskStatus
<1>3. ASSUME NEW s \in SessionIds PROVE NewSession(s) \in Sessions
  BY DEF Contents, Sessions, SessionStatus
<1>4. S \in [SessionIds -> Sessions] /\ T \in [TaskIds -> Tasks]
  <2>. HIDE DEF NewTask, NewSession
  <2>. QED BY <1>2, <1>3
<1>. HIDE DEF S, T, d
<1>5. d \in Contents /\ d.era = c.era
  BY <1>1, <1>4, ContentChange
<1>. QED BY <1>5 DEF d

LEMMA LiveExitKeeps ==
    ASSUME SupTypeOK, NEW c \in Contents, Believable(c),
           NEW p \in Pids, Exited(p), procs[p].how = "live"
    PROVE  /\ LiveExit(c, p) \in Contents /\ Believable(LiveExit(c, p))
           /\ LiveExit(c, p).era = c.era
<1>. DEFINE status == IF procs[p].state = "ok" THEN "done" ELSE "failed"
            i == procs[p].session
            j == procs[p].task
            S == [c.sessions EXCEPT ![i] = IF @.status = "none" THEN @
                      ELSE [@ EXCEPT !.status = status, !.pid = None]]
            T == [c.tasks EXCEPT ![j] = IF @.status = "none" THEN @
                      ELSE [@ EXCEPT !.status = status]]
            d == LiveExit(c, p)
<1>0. d = [[c EXCEPT !.sessions = S] EXCEPT !.tasks = T]
  BY DEF LiveExit, Contents
<1>4. T \in [TaskIds -> Tasks]
  <2>1. ASSUME j \in TaskIds PROVE [c.tasks[j] EXCEPT !.status = status] \in Tasks
    BY <2>1 DEF Contents, Tasks, TaskStatus
  <2>. QED BY <2>1 DEF Contents
<1>5. S \in [SessionIds -> Sessions]
  <2>1. ASSUME i \in SessionIds
        PROVE [c.sessions[i] EXCEPT !.status = status, !.pid = None] \in Sessions
    <3>1. c.sessions[i] \in Sessions /\ status \in SessionStatus
      BY <2>1 DEF Contents, SessionStatus
    <3>. HIDE DEF status, i
    <3>. QED BY <3>1 DEF Sessions
  <2>2. ASSUME i \in SessionIds PROVE S[i] \in Sessions
    <3>1. c.sessions \in [SessionIds -> Sessions]
      BY DEF Contents
    <3>2. S[i] = IF c.sessions[i].status = "none" THEN c.sessions[i]
                 ELSE [c.sessions[i] EXCEPT !.status = status, !.pid = None]
      BY <2>2, <3>1
    <3>. HIDE DEF S, status
    <3>. QED BY <2>1, <2>2, <3>1, <3>2
  <2>3. \A s \in SessionIds : s # i => S[s] = c.sessions[s]
    BY DEF Contents
  <2>. QED BY <2>2, <2>3 DEF Contents
<1>1. d \in Contents /\ d.tasks = T /\ d.sessions = S /\ d.era = c.era
  <2>. HIDE DEF T, S, d
  <2>. QED BY <1>0, <1>4, <1>5 DEF Contents
<1>2. ASSUME NEW t \in TaskIds, LiveExit(c, p).tasks[t].status = "done"
      PROVE  HasEnded(t, c.era)
  <2>1. CASE t = procs[p].task
    BY <2>1 DEF HasEnded
  <2>2. CASE t # procs[p].task
    BY <1>1, <1>2, <2>2 DEF Believable, Contents
  <2>. QED BY <2>1, <2>2
<1>3. ASSUME NEW s \in SessionIds, LiveExit(c, p).sessions[s].pid # None
      PROVE  /\ procs[LiveExit(c, p).sessions[s].pid].state # "unborn"
             /\ procs[LiveExit(c, p).sessions[s].pid].task
                    = LiveExit(c, p).sessions[s].task
             /\ procs[LiveExit(c, p).sessions[s].pid].era = c.era
  <2>1. LiveExit(c, p).sessions[s] = c.sessions[s]
    <3>1. c.sessions[s] \in Sessions
      BY DEF Contents
    <3>2. CASE s = i
      BY <1>1, <1>3, <3>1, <3>2 DEF Sessions, Contents
    <3>3. CASE s # i
      BY <1>1, <3>3 DEF Contents
    <3>. QED BY <3>2, <3>3
  <2>. QED BY <1>3, <2>1 DEF Believable
<1>. QED BY <1>1, <1>2, <1>3 DEF Believable

LEMMA SettledIsContent ==
    ASSUME NEW c \in Contents, NEW t \in TaskIds, NEW status \in {"done", "failed"}
    PROVE  /\ SettledByHand(c, t, status) \in Contents
           /\ SettledByHand(c, t, status).era = c.era
<1>. DEFINE running == {s \in SessionIds : c.sessions[s].task = t
                                          /\ c.sessions[s].status = "running"}
            NewSession(s) == IF IsFirst(s, running)
                             THEN [c.sessions[s] EXCEPT !.status = status]
                             ELSE c.sessions[s]
            S == [s \in SessionIds |-> NewSession(s)]
            T == [c.tasks EXCEPT ![t] = [@ EXCEPT !.status = status]]
            d == SettledByHand(c, t, status)
<1>1. d = [[c EXCEPT !.tasks = T] EXCEPT !.sessions = S]
  BY DEF SettledByHand, Contents
<1>2. ASSUME NEW s \in SessionIds PROVE NewSession(s) \in Sessions
  BY DEF Contents, Sessions, SessionStatus
<1>3. T \in [TaskIds -> Tasks]
  BY DEF Contents, Tasks, TaskStatus
<1>4. S \in [SessionIds -> Sessions]
  <2>. HIDE DEF NewSession
  <2>. QED BY <1>2
<1>5. d \in Contents /\ d.era = c.era
  <2>. HIDE DEF S, T, d
  <2>. QED BY <1>1, <1>3, <1>4 DEF Contents
<1>. QED BY <1>5

LEMMA WithSessionIsContent ==
    ASSUME SupTypeOK, NEW c \in Contents, NEW t \in TaskIds,
           c.nextSession <= MaxSessions,
           NEW p \in Pids \cup {None}, NEW status \in {"running", "failed"}
    PROVE  WithSession(c, t, p, status) \in Contents /\ WithSession(c, t, p, status).era = c.era
<1>. DEFINE session == [status |-> status, task |-> t, pid |-> p]
<1>1. WithSession(c, t, p, status) =
          [[[c EXCEPT !.tasks = [c.tasks EXCEPT ![t] = [@ EXCEPT !.status = status]]]
              EXCEPT !.sessions = [c.sessions EXCEPT ![c.nextSession] = session]]
              EXCEPT !.nextSession = c.nextSession + 1]
  BY DEF WithSession, Contents
<1>2. [c.tasks EXCEPT ![t] = [@ EXCEPT !.status = status]] \in [TaskIds -> Tasks]
  BY DEF Contents, Tasks, TaskStatus
<1>3. [c.sessions EXCEPT ![c.nextSession] = session] \in [SessionIds -> Sessions]
  BY DEF Contents, Sessions, SessionStatus
<1>4. c.nextSession + 1 \in 1..(MaxSessions + 1)
  BY SupAssumption DEF Contents
<1>. QED BY <1>1, <1>2, <1>3, <1>4 DEF Contents

-----------------------------------------------------------------------------
(* Steps                                                                     *)

\* A process of the scheduler is as before or starts after what it waits for.
Sound == \A p \in Pids : procs'[p].how = "tick" =>
             \/ /\ procs[p].how = "tick" /\ procs'[p].deps = procs[p].deps
                /\ procs'[p].era = procs[p].era
             \/ \A t \in procs'[p].deps : HasEnded(t, procs'[p].era)

\* The variables other than the file and its writers keep their types.
RestTyped ==
    /\ daemon \in [Daemons -> {"off", "poll", "tick"}]
    /\ live \subseteq Pids
    /\ forced \subseteq TaskIds \X {"run", "done", "failed"} \X Eras

LEMMA StartedStays ==
    ASSUME SupInv, Onward, Sound
    PROVE  StartedAfterDependencies'
<1>. SUFFICES ASSUME NEW p \in Pids, procs'[p].how = "tick",
                     NEW t \in procs'[p].deps, NEW e \in Eras, e = procs'[p].era
              PROVE  HasEnded(t, e)'
  BY DEF StartedAfterDependencies, HasEnded, Onward, Processes
<1>1. t \in TaskIds
  BY DEF Onward, Processes
<1>2. HasEnded(t, e)
  BY DEF Sound, SupInv, StartedAfterDependencies
<1>. QED BY <1>1, <1>2, EndedStays DEF SupInv

LEMMA WaitedStays ==
    ASSUME SupInv, Onward
    PROVE  Waited'
<1>. SUFFICES ASSUME NEW p \in live'
              PROVE  procs'[p].state # "unborn" /\ procs'[p].how = "live"
  BY DEF Waited
<1>. QED BY DEF SupInv, SupTypeOK, Waited, Onward

LEMMA QuietRest ==
    ASSUME SupInv, UNCHANGED <<procs, forced, inits>>, live' \subseteq live
    PROVE  Onward /\ Sound
<1>1. inits <= inits' /\ inits' \in Eras
  BY SupAssumption DEF SupInv, SupTypeOK, Eras
<1>. QED BY <1>1 DEF SupInv, SupTypeOK, Dated, Onward, Sound, Exited

\* A worker takes a believable content into its hands.
LEMMA ComputeKeeps ==
    ASSUME SupInv, Onward, Sound, RestTyped', NEW w \in Workers,
           NEW c \in Contents, Believable(c)', Compute(w, c)
    PROVE  SupInv'
<1>1. SupTypeOK'
  BY DEF SupInv, SupTypeOK, Onward, RestTyped, Compute, Mishap
<1>2. Believable(file)'
  <2>1. file' = file /\ file \in Contents /\ Believable(file)
    BY DEF Compute, SupInv, SupTypeOK
  <2>. QED BY <2>1, BelievableStays DEF Believable, SupInv
<1>3. ASSUME NEW x \in Workers PROVE Believable(draft[x])'
  <2>1. CASE x = w
    BY <2>1 DEF Compute, Believable, SupInv, SupTypeOK
  <2>2. CASE x # w
    <3>1. draft'[x] = draft[x] /\ draft[x] \in Contents /\ Believable(draft[x])
      BY <2>2 DEF Compute, SupInv, SupTypeOK
    <3>. QED BY <3>1, BelievableStays DEF Believable, SupInv
  <2>. QED BY <2>1, <2>2
<1>. QED BY <1>1, <1>2, <1>3, StartedStays, WaitedStays DEF SupInv, Dated, Onward

\* ... that it computed while no process moved and nobody took a task over.
LEMMA QuietSave ==
    ASSUME SupInv, UNCHANGED <<procs, forced, inits>>, live' \subseteq live,
           RestTyped', NEW w \in Workers,
           NEW c \in Contents, Believable(c), Compute(w, c)
    PROVE  SupInv'
<1>1. Onward /\ Sound
  BY QuietRest
<1>2. Believable(c)'
  BY <1>1, BelievableStays DEF SupInv
<1>. QED BY <1>1, <1>2, ComputeKeeps

\* Nothing happens to the file, to the contents or to the processes.
LEMMA FileUntouched ==
    ASSUME SupInv, Onward, Sound, RestTyped', UNCHANGED <<file, torn>>,
           stage' \in [Workers -> {"idle", "computed", "writing", "late"}],
           \A w \in Workers : draft'[w] \in {draft[w], Fresh},
           draft' \in [Workers -> Contents], mishaps' \in Nat
    PROVE  SupInv'
<1>1. SupTypeOK'
  BY DEF SupInv, SupTypeOK, Onward, RestTyped
<1>2. file \in Contents /\ Believable(file)
  BY DEF SupInv, SupTypeOK
<1>3. Believable(file)'
  BY <1>2, BelievableStays DEF Believable, SupInv
<1>4. ASSUME NEW w \in Workers PROVE Believable(draft[w])'
  <2>1. PICK c \in Contents : c = draft'[w] /\ Believable(c)
    BY FreshIsBelievable DEF SupInv, SupTypeOK
  <2>. QED BY <2>1, BelievableStays DEF Believable, SupInv
<1>. QED BY <1>1, <1>3, <1>4, StartedStays, WaitedStays DEF SupInv, Dated, Onward

LEMMA SaveStep ==
    ASSUME SupInv, NEW w \in Workers, OpenForWriting(w) \/ Write(w)
    PROVE  SupInv'
<1>1. Onward /\ Sound
  BY QuietRest DEF OpenForWriting, Write
<1>2. RestTyped'
  BY DEF OpenForWriting, Write, RestTyped, SupInv, SupTypeOK
<1>3. CASE OpenForWriting(w)
  <2>1. SupTypeOK'
    BY <1>3 DEF SupInv, SupTypeOK, OpenForWriting
  <2>2. StartedAfterDependencies'
    BY <1>1, StartedStays
  <2>3. ASSUME NEW c \in Contents, Believable(c) PROVE Believable(c)'
    BY <1>1, <2>3, BelievableStays DEF SupInv
  <2>4. Believable(file)' /\ \A x \in Workers : Believable(draft[x])'
    BY <1>3, <2>3 DEF OpenForWriting, Believable, SupInv, SupTypeOK
  <2>. QED BY <1>1, <2>1, <2>2, <2>4, WaitedStays DEF SupInv, Dated, Onward
<1>4. CASE Write(w)
  <2>1. SupTypeOK'
    BY <1>4, FreshIsBelievable DEF SupInv, SupTypeOK, Write
  <2>2. StartedAfterDependencies'
    BY <1>1, StartedStays
  <2>3. ASSUME NEW c \in Contents, Believable(c) PROVE Believable(c)'
    BY <1>1, <2>3, BelievableStays DEF SupInv
  <2>4. Believable(file)'
    <3>1. PICK c \in Contents : c = file' /\ Believable(c)
      BY <1>4 DEF Write, SupInv, SupTypeOK
    <3>. QED BY <2>3, <3>1 DEF Believable
  <2>5. ASSUME NEW x \in Workers PROVE Believable(draft[x])'
    <3>1. PICK c \in Contents : c = draft'[x] /\ Believable(c)
      BY <1>4, FreshIsBelievable DEF Write, SupInv, SupTypeOK
    <3>. QED BY <2>3, <3>1 DEF Believable
  <2>. QED BY <1>1, <2>1, <2>2, <2>4, <2>5, WaitedStays DEF SupInv, Dated, Onward
<1>. QED BY <1>3, <1>4

\* A process starts for a task whose dependencies have ended, or not for the
\* scheduler, or cannot be started.
LEMMA SpawnIsOnward ==
    ASSUME SupInv, NEW w \in Workers, NEW p \in Pids,
           NEW t \in TaskIds, NEW how \in Starters, Spawn(w, p, t, how),
           file.nextSession <= MaxSessions, forced \subseteq forced', UNCHANGED inits,
           live' \subseteq live \/ (how = "live" /\ live' = live \cup {p}),
           how = "tick" => \A d \in file.tasks[t].deps : HasEnded(d, file.era)
    PROVE  /\ Onward /\ Sound /\ procs'[p].state = "live" /\ procs'[p].task = t
           /\ procs'[p].era = file.era
<1>. DEFINE deps == IF how = "live" THEN {} ELSE file.tasks[t].deps
            new == [task |-> t, session |-> file.nextSession, how |-> how,
                    by |-> w, state |-> "live", era |-> file.era, deps |-> deps]
<1>0. inits \in Eras /\ inits <= inits' /\ file.era <= inits
  BY SupAssumption DEF SupInv, SupTypeOK, Believable, Eras
<1>1. /\ file \in Contents /\ procs \in [Pids -> Processes] /\ procs[p].state = "unborn"
      /\ \A q \in Pids : procs[q].era <= inits
  BY DEF SupInv, SupTypeOK, Dated, Spawn, NextPid
<1>2. new \in Processes
  <2>1. deps \in SUBSET TaskIds
    BY <1>1 DEF Contents, Tasks
  <2>2. file.nextSession \in SessionIds
    BY <1>1, SupAssumption DEF Contents, SessionIds
  <2>3. file.era \in Eras
    BY <1>1 DEF Contents
  <2>. QED BY <2>1, <2>2, <2>3 DEF Processes
<1>3. procs' = [procs EXCEPT ![p] = new]
  BY DEF Spawn
<1>. QED BY <1>0, <1>1, <1>2, <1>3 DEF Onward, Sound, Exited

LEMMA LaunchKeeps ==
    ASSUME SupInv, NEW w \in Workers, NEW t \in TaskIds, NEW how \in Starters,
           NEW mayOmit, Launch(w, t, how, mayOmit), RestTyped', forced \subseteq forced',
           UNCHANGED inits, live' \subseteq live,
           how = "tick" => \A d \in file.tasks[t].deps : HasEnded(d, file.era)
    PROVE  SupInv'
<1>0. file \in Contents /\ Believable(file) /\ SupTypeOK
  BY DEF SupInv, SupTypeOK
<1>1. ASSUME NEW p \in Pids \cup {None}, NEW status \in {"running", "failed"},
             Compute(w, WithSession(file, t, p, status)),
             Onward, Sound,
             p # None => /\ procs'[p].state # "unborn" /\ procs'[p].task = t
                         /\ procs'[p].era = file.era
      PROVE  SupInv'
  <2>1. WithSession(file, t, p, status) \in Contents
        /\ WithSession(file, t, p, status).era = file.era
    BY <1>0, WithSessionIsContent DEF Launch
  <2>2. PICK c \in Contents : c = WithSession(file, t, p, status)
    BY <2>1
  <2>3. PICK f \in Contents : f = file
    BY <1>0
  <2>4. Believable(f)'
    BY <1>0, <1>1, <2>3, BelievableStays DEF Believable
  <2>5. Believable(c)'
    <3>1. ASSUME NEW u \in TaskIds, c.tasks[u].status = "done"
          PROVE  f.tasks[u].status = "done"
      BY <2>2, <2>3, <3>1, <1>0 DEF WithSession, Contents, Tasks
    <3>2. ASSUME NEW s \in SessionIds
          PROVE  \/ c.sessions[s] = f.sessions[s]
                 \/ c.sessions[s].pid = p /\ c.sessions[s].task = t
      BY <2>2, <2>3, <1>0 DEF WithSession, Contents
    <3>3. c.era = f.era
      BY <2>1, <2>2, <2>3
    <3>. QED BY <1>1, <2>3, <2>4, <3>1, <3>2, <3>3 DEF Believable
  <2>. QED BY <1>1, <2>2, <2>5, ComputeKeeps
<1>2. ASSUME NEW p \in Pids, Spawn(w, p, t, how),
             Compute(w, WithSession(file, t, p, "running"))
      PROVE  SupInv'
  <2>1. /\ Onward /\ Sound /\ procs'[p].state = "live" /\ procs'[p].task = t
        /\ procs'[p].era = file.era
    BY <1>2, SpawnIsOnward DEF Launch
  <2>. QED BY <1>1, <1>2, <2>1
<1>3. ASSUME UNCHANGED procs, NEW status \in {"running", "failed"},
             Compute(w, WithSession(file, t, None, status))
      PROVE  SupInv'
  <2>1. Onward /\ Sound
    <3>1. inits <= inits' /\ inits' \in Eras
      BY <1>0, SupAssumption DEF SupTypeOK, Eras
    <3>. QED BY <1>0, <1>3, <3>1 DEF SupInv, Dated, SupTypeOK, Onward, Sound, Exited
  <2>. QED BY <1>1, <1>3, <2>1
<1>. QED BY <1>2, <1>3 DEF Launch

\* The scheduler's candidates wait for nothing that has not ended.
LEMMA RunnableIsFree ==
    ASSUME SupInv, NEW t \in TaskIds, IsFirst(t, Runnable(file)),
           NEW d \in file.tasks[t].deps
    PROVE  HasEnded(d, file.era)
<1>1. t \in Runnable(file)
  BY DEF IsFirst
<1>. QED BY <1>1 DEF Runnable, Done, SupInv, Believable

\* A request that leaves room for the queued tasks finds room for its own.
LEMMA RoomForSession ==
    ASSUME NEW c \in Contents, NEW t, Room(c, t)
    PROVE  c.nextSession <= MaxSessions
<1>. DEFINE Q == {u \in TaskIds \ {t} : c.tasks[u].status = "queued"}
<1>1. IsFiniteSet(TaskIds) /\ Q \subseteq TaskIds
  BY SupAssumption, FS_Interval DEF TaskIds
<1>2. c.nextSession + Cardinality(Q) <= MaxSessions /\ c.nextSession \in Nat
  BY SupAssumption DEF Room, Contents
<1>. HIDE DEF Q
<1>3. IsFiniteSet(Q)
  BY <1>1, FS_Subset
<1>4. Cardinality(Q) \in Nat
  BY <1>3, FS_CardinalityType
<1>. QED BY <1>2, <1>4, SupAssumption

LEMMA RequestStep ==
    ASSUME SupInv, NEW h \in Handlers, Request(h)
    PROVE  SupInv'
<1>0. /\ h \in Workers /\ SupTypeOK
      /\ file \in Contents /\ Believable(file) /\ RestTyped
  BY DEF Workers, SupInv, SupTypeOK, RestTyped
<1>1. CASE Reinit(h)
  <2>1. inits \in Eras /\ inits' = inits + 1 /\ inits' \in Eras /\ inits <= inits'
    BY <1>0, <1>1, SupAssumption DEF Reinit, SupTypeOK, Eras
  <2>2. ASSUME NEW p \in Pids PROVE procs[p].era <= inits'
    <3>1. procs[p].era \in Int /\ inits \in Int /\ procs[p].era <= inits
      BY <1>0, SupAssumption DEF SupInv, Dated, SupTypeOK, Processes, Eras
    <3>. QED BY <2>1, <3>1
  <2>3. Onward /\ Sound /\ RestTyped'
    BY <1>0, <1>1, <2>1, <2>2 DEF Reinit, RestTyped, SupTypeOK, Onward, Sound, Exited
  <2>4. PICK c \in Contents : /\ c = [Fresh EXCEPT !.era = inits + 1]
                              /\ c.tasks = Fresh.tasks /\ c.sessions = Fresh.sessions
                              /\ c.era = inits'
    BY <2>1, FreshIsContent
  <2>5. Believable(c)'
    <3>1. c.era <= inits'
      BY <2>1, <2>4, SupAssumption DEF Eras
    <3>. QED BY <2>4, <3>1 DEF Believable, Fresh, NoTask, NoSession
  <2>. QED BY <1>0, <1>1, <2>3, <2>4, <2>5, ComputeKeeps DEF Reinit
<1>2. ASSUME NEW a \in Agents, AddAgent(h, a) PROVE SupInv'
  <2>1. PICK c \in Contents : c = [file EXCEPT !.agents = @ \cup {a}] /\ Believable(c)
    BY <1>0, WithAgentKeeps
  <2>. QED BY <1>0, <1>2, <2>1, QuietSave DEF AddAgent, RestTyped
<1>3. ASSUME NEW deps \in Dependencies, NEW a \in Assignments, Enqueue(h, deps, a)
      PROVE  SupInv'
  <2>1. [status |-> "queued", deps |-> deps, agent |-> a] \in Tasks
    BY SupAssumption DEF Tasks, TaskStatus, TaskIds
  <2>2. file.nextTask \in TaskIds
    BY <1>0, <1>3, SupAssumption DEF Enqueue, Contents, TaskIds
  <2>3. PICK c \in Contents :
            /\ c = WithTask(file, [status |-> "queued", deps |-> deps, agent |-> a])
            /\ Believable(c)
    BY <1>0, <2>1, <2>2, WithTaskKeeps
  <2>. QED BY <1>0, <1>3, <2>3, QuietSave DEF Enqueue, RestTyped
<1>4. ASSUME NEW a \in Agents, DispatchQueued(h, a) PROVE SupInv'
  <2>1. [status |-> "queued", deps |-> {}, agent |-> {a}] \in Tasks
    BY DEF Tasks, TaskStatus
  <2>2. PICK f \in Contents : f = [file EXCEPT !.agents = @ \cup {a}] /\ Believable(f)
    BY <1>0, WithAgentKeeps
  <2>3. f.nextTask \in TaskIds
    BY <1>0, <1>4, <2>2, SupAssumption DEF DispatchQueued, Contents, TaskIds
  <2>4. PICK c \in Contents :
            /\ c = WithTask(f, [status |-> "queued", deps |-> {}, agent |-> {a}])
            /\ Believable(c)
    BY <1>0, <2>1, <2>2, <2>3, WithTaskKeeps
  <2>. QED BY <1>0, <1>4, <2>2, <2>4, QuietSave DEF DispatchQueued, RestTyped
<1>5. ASSUME NEW a \in Agents, DispatchLive(h, a) PROVE SupInv'
  <2>. DEFINE t == file.nextTask
              s == file.nextSession
              task == [status |-> "running", deps |-> {}, agent |-> {a}]
  <2>1. PICK p \in Pids :
          /\ Spawn(h, p, t, "live")
          /\ live' = live \cup {p}
          /\ Compute(h, WithSession(WithTask([file EXCEPT !.agents = @ \cup {a}], task),
                                    t, p, "running"))
    BY <1>5 DEF DispatchLive
  <2>2. task \in Tasks
    BY DEF Tasks, TaskStatus
  <2>3. t \in TaskIds
    BY <1>0, <1>5, SupAssumption DEF DispatchLive, Contents, TaskIds
  <2>4. PICK f \in Contents : f = [file EXCEPT !.agents = @ \cup {a}] /\ Believable(f)
    BY <1>0, WithAgentKeeps
  <2>5. f.nextTask = t /\ f.nextSession = s /\ f.era = file.era
    BY <1>0, <2>4 DEF Contents
  <2>6. PICK g \in Contents : g = WithTask(f, task) /\ Believable(g) /\ g.era = f.era
    BY <1>0, <2>2, <2>3, <2>4, <2>5, WithTaskKeeps
  <2>7. g.nextSession = s
    BY <2>5, <2>6 DEF WithTask, Contents
  <2>8. s <= MaxSessions
    BY <1>0, <1>5, RoomForSession DEF DispatchLive
  <2>9. /\ WithSession(g, t, p, "running") \in Contents
        /\ WithSession(g, t, p, "running").era = g.era
    BY <1>0, <2>3, <2>7, <2>8, WithSessionIsContent
  <2>10. PICK c \in Contents : c = WithSession(g, t, p, "running") /\ c.era = file.era
    BY <2>5, <2>6, <2>9
  <2>11. /\ forced \subseteq forced' /\ RestTyped' /\ UNCHANGED inits
         /\ "live" \in Starters
    <3>1. file.era \in Eras
      BY <1>0 DEF Contents
    <3>. QED BY <1>0, <1>5, <2>1, <2>3, <3>1 DEF DispatchLive, TakeOver, RestTyped, Starters
  <2>12. /\ Onward /\ Sound /\ procs'[p].state = "live" /\ procs'[p].task = t
         /\ procs'[p].era = file.era
    BY <1>0, <2>1, <2>3, <2>8, <2>11, SpawnIsOnward
  <2>13. Believable(g)'
    BY <1>0, <2>6, <2>12, BelievableStays
  <2>14. Believable(c)'
    <3>1. ASSUME NEW u \in TaskIds, c.tasks[u].status = "done"
          PROVE  g.tasks[u].status = "done"
      BY <2>10, <3>1 DEF WithSession, Contents, Tasks
    <3>2. ASSUME NEW i \in SessionIds
          PROVE  \/ c.sessions[i] = g.sessions[i]
                 \/ c.sessions[i].pid = p /\ c.sessions[i].task = t
      BY <2>10 DEF WithSession, Contents
    <3>3. c.era = g.era /\ procs'[p].era = c.era
      BY <2>5, <2>6, <2>10, <2>12
    <3>. HIDE DEF t
    <3>. QED BY <2>12, <2>13, <3>1, <3>2, <3>3 DEF Believable
  <2>15. Compute(h, c)
    BY <2>1, <2>4, <2>6, <2>10
  <2>. QED BY <1>0, <2>11, <2>12, <2>14, <2>15, ComputeKeeps
<1>6. CASE Touch(h)
  BY <1>0, <1>6, QuietSave DEF Touch, RestTyped
<1>7. CASE Tick(h)
  <2>1. PICK t \in TaskIds : IsFirst(t, Runnable(file)) /\ Launch(h, t, "tick", TRUE)
    BY <1>7 DEF Tick
  <2>2. \A d \in file.tasks[t].deps : HasEnded(d, file.era)
    BY <2>1, RunnableIsFree
  <2>3. RestTyped' /\ forced \subseteq forced' /\ "tick" \in Starters
        /\ UNCHANGED <<live, inits>>
    BY <1>0, <1>7 DEF Tick, RestTyped, Starters
  <2>. QED BY <1>0, <2>1, <2>2, <2>3, LaunchKeeps
<1>8. CASE ServerPoll(h)
  <2>1. PICK c \in Contents :
            c = Polled(file, EndedSessions(file, {}), {}) /\ Believable(c)
    BY <1>0, PolledKeeps, PolledIsContent
  <2>. QED BY <1>0, <1>8, <2>1, QuietSave DEF ServerPoll, RestTyped
<1>9. ASSUME NEW errors \in SUBSET SessionIds, CliPoll(h, errors) PROVE SupInv'
  <2>1. PICK c \in Contents :
            c = Polled(file, EndedSessions(file, errors), errors) /\ Believable(c)
    BY <1>0, PolledKeeps, PolledIsContent
  <2>. QED BY <1>0, <1>9, <2>1, QuietSave DEF CliPoll, RestTyped
<1>10. ASSUME NEW t \in TaskIds, RunAgent(h, t) PROVE SupInv'
  <2>1. Launch(h, t, "run", TRUE) /\ "run" \in Starters
    BY <1>10 DEF RunAgent, Starters
  <2>2. forced' = forced \cup {<<t, "run", file.era>>} /\ UNCHANGED <<daemon, live, inits>>
    BY <1>10 DEF RunAgent, TakeOver
  <2>3. RestTyped' /\ forced \subseteq forced'
    BY <1>0, <2>2 DEF RestTyped, Contents
  <2>. QED BY <1>0, <2>1, <2>2, <2>3, LaunchKeeps
<1>11. ASSUME NEW t \in TaskIds, NEW status \in {"done", "failed"},
              Settle(h, t, status)
       PROVE  SupInv'
  <2>1. PICK c \in Contents : c = SettledByHand(file, t, status) /\ c.era = file.era
    BY <1>0, SettledIsContent
  <2>2. PICK f \in Contents : f = file /\ Believable(f)
    BY <1>0
  <2>3. Onward /\ Sound /\ RestTyped' /\ <<t, status, c.era>> \in forced'
    <3>1. inits <= inits' /\ inits' \in Eras /\ file.era \in Eras
      BY <1>0, <1>11, SupAssumption DEF Settle, SupTypeOK, Eras, Contents
    <3>2. forced' = forced \cup {<<t, status, file.era>>}
          /\ UNCHANGED <<daemon, procs, live, inits>>
      BY <1>11 DEF Settle, TakeOver
    <3>3. RestTyped' /\ <<t, status, c.era>> \in forced'
      BY <1>0, <2>1, <3>1, <3>2 DEF RestTyped
    <3>4. \A p \in Pids : procs'[p].era <= inits'
      BY <3>2 DEF SupInv, Dated
    <3>. QED BY <1>0, <3>1, <3>2, <3>3, <3>4 DEF SupTypeOK, Onward, Sound, Exited
  <2>4. Believable(f)'
    BY <1>0, <2>2, <2>3, BelievableStays
  <2>5. Believable(c)'
    <3>0. c.era = f.era
      BY <2>1, <2>2
    <3>1. ASSUME NEW u \in TaskIds, c.tasks[u].status = "done" PROVE HasEnded(u, c.era)'
      <4>1. CASE u = t
        <5>1. c.tasks[t].status = status
          <6>1. c.tasks = [f.tasks EXCEPT ![t].status = status]
            BY <2>1, <2>2 DEF SettledByHand, Contents
          <6>2. f.tasks \in [TaskIds -> Tasks]
            BY DEF Contents
          <6>. QED BY <6>1, <6>2 DEF Tasks
        <5>. QED BY <2>3, <3>1, <4>1, <5>1 DEF HasEnded
      <4>2. CASE u # t
        <5>1. f.tasks[u].status = "done"
          BY <2>1, <2>2, <3>1, <4>2 DEF SettledByHand, Contents
        <5>. QED BY <2>4, <3>0, <5>1 DEF Believable
      <4>. QED BY <4>1, <4>2
    <3>2. ASSUME NEW s \in SessionIds
          PROVE  /\ c.sessions[s].pid = f.sessions[s].pid
                 /\ c.sessions[s].task = f.sessions[s].task
      <4>1. f.sessions[s] \in Sessions
        BY DEF Contents
      <4>. QED BY <2>1, <2>2, <4>1 DEF SettledByHand, Contents, Sessions
    <3>. QED BY <2>4, <3>0, <3>1, <3>2 DEF Believable
  <2>. QED BY <1>0, <1>11, <2>1, <2>3, <2>5, ComputeKeeps DEF Settle
<1>12. ASSUME NEW p \in Pids, FinishLive(h, p) PROVE SupInv'
  <2>1. /\ RestTyped' /\ UNCHANGED <<procs, forced, inits>> /\ live' \subseteq live
        /\ Exited(p) /\ procs[p].how = "live"
    BY <1>0, <1>12 DEF FinishLive, RestTyped, Exited, SupInv, Waited
  <2>2. CASE torn
    BY <1>0, <1>12, <2>1, <2>2, QuietRest, FileUntouched DEF FinishLive, SupTypeOK
  <2>3. CASE ~torn
    <3>1. PICK c \in Contents : c = LiveExit(file, p) /\ Believable(c)
      BY <1>0, <2>1, LiveExitKeeps
    <3>. QED BY <1>0, <1>12, <2>1, <2>3, <3>1, QuietSave DEF FinishLive
  <2>. QED BY <2>2, <2>3
<1>13. CASE CommandKilled(h)
  <2>1. Onward /\ Sound /\ RestTyped'
    BY <1>0, <1>13, QuietRest DEF CommandKilled, RestTyped
  <2>. QED BY <1>0, <1>13, <2>1, FileUntouched, FreshIsBelievable
       DEF CommandKilled, Drop, Mishap, SupTypeOK
<1>. QED
  BY <1>1, <1>2, <1>3, <1>4, <1>5, <1>6, <1>7, <1>8, <1>9, <1>10, <1>11, <1>12, <1>13
  DEF Request

LEMMA DaemonStep ==
    ASSUME SupInv, NEW d \in Daemons,
           \/ DaemonCycle(d) \/ DaemonStart(d) \/ DaemonStop(d) \/ DaemonKilled(d)
    PROVE  SupInv'
<1>0. /\ d \in Workers /\ SupTypeOK
      /\ file \in Contents /\ Believable(file) /\ RestTyped
  BY DEF Workers, SupInv, SupTypeOK, RestTyped
<1>1. ASSUME NEW from, NEW to \in {"off", "poll", "tick"}, DaemonMove(d, from, to)
      PROVE  RestTyped'
  BY <1>0, <1>1 DEF DaemonMove, RestTyped
<1>2. ASSUME NoSave, NEW from, NEW to, DaemonMove(d, from, to), RestTyped' PROVE SupInv'
  <2>1. Onward /\ Sound
    BY <1>2, QuietRest DEF NoSave, DaemonMove
  <2>. QED BY <1>0, <1>2, <2>1, FileUntouched DEF NoSave, SupTypeOK
<1>3. CASE DaemonPoll(d)
  <2>1. RestTyped' /\ DaemonMove(d, "poll", "tick")
    BY <1>1, <1>3 DEF DaemonPoll
  <2>2. CASE EndedSessions(file, {}) = {}
    BY <1>2, <1>3, <2>1, <2>2 DEF DaemonPoll
  <2>3. CASE EndedSessions(file, {}) # {}
    <3>1. PICK c \in Contents :
              c = Polled(file, EndedSessions(file, {}), {}) /\ Believable(c)
      BY <1>0, PolledKeeps, PolledIsContent
    <3>. QED BY <1>0, <1>3, <2>1, <2>3, <3>1, QuietSave DEF DaemonPoll, DaemonMove
  <2>. QED BY <2>2, <2>3
<1>4. CASE DaemonTick(d)
  <2>1. RestTyped' /\ DaemonMove(d, "tick", "poll")
    BY <1>1, <1>4 DEF DaemonTick
  <2>2. CASE Runnable(file) = {}
    BY <1>2, <1>4, <2>1, <2>2 DEF DaemonTick
  <2>3. CASE Runnable(file) # {}
    <3>1. PICK t \in TaskIds : IsFirst(t, Runnable(file)) /\ Launch(d, t, "tick", FALSE)
      BY <1>4, <2>3 DEF DaemonTick
    <3>2. \A u \in file.tasks[t].deps : HasEnded(u, file.era)
      BY <3>1, RunnableIsFree
    <3>3. "tick" \in Starters /\ forced \subseteq forced' /\ UNCHANGED <<live, inits>>
      BY <2>1 DEF Starters, DaemonMove
    <3>. QED BY <1>0, <2>1, <3>1, <3>2, <3>3, LaunchKeeps
  <2>. QED BY <2>2, <2>3
<1>5. CASE DaemonGivesUp(d)
  BY <1>1, <1>2, <1>5 DEF DaemonGivesUp
<1>6. CASE DaemonStart(d)
  BY <1>1, <1>2, <1>6 DEF DaemonStart
<1>7. CASE DaemonStop(d) \/ DaemonKilled(d)
  <2>1. Onward /\ Sound
    <3>1. CASE DaemonStop(d)
      <4>1. ASSUME NEW p \in Pids
            PROVE  /\ procs'[p] \in Processes
                   /\ procs'[p].task = procs[p].task /\ procs'[p].deps = procs[p].deps
                   /\ procs'[p].how = procs[p].how /\ procs'[p].era = procs[p].era
                   /\ procs[p].state # "unborn" => procs'[p].state # "unborn"
                   /\ procs[p].state \in {"ok", "failed"} => procs'[p] = procs[p]
        <5>1. procs[p] \in Processes
          BY <1>0 DEF SupTypeOK
        <5>. QED BY <3>1, <5>1 DEF DaemonStop, Processes
      <4>2. procs' \in [Pids -> Processes]
        BY <3>1, <4>1 DEF DaemonStop
      <4>3. inits <= inits' /\ inits' \in Eras /\ \A p \in Pids : procs'[p].era <= inits'
        <5>1. inits' = inits /\ inits \in Eras /\ inits <= inits
          BY <1>0, <3>1, SupAssumption DEF DaemonStop, SupTypeOK, Eras
        <5>. QED BY <4>1, <5>1 DEF SupInv, Dated
      <4>. QED BY <3>1, <4>1, <4>2, <4>3 DEF DaemonStop, Onward, Sound, Exited
    <3>2. CASE DaemonKilled(d)
      BY <3>2, QuietRest DEF DaemonKilled
    <3>. QED BY <1>7, <3>1, <3>2
  <2>2. RestTyped'
    BY <1>0, <1>7 DEF DaemonStop, DaemonKilled, RestTyped
  <2>. QED BY <1>0, <1>7, <2>1, <2>2, FileUntouched, FreshIsBelievable
       DEF DaemonStop, DaemonKilled, Drop, Mishap, SupTypeOK
<1>. QED BY <1>3, <1>4, <1>5, <1>6, <1>7 DEF DaemonCycle

LEMMA OtherStep ==
    ASSUME SupInv, (\E p \in Pids : ProcessExit(p)) \/ ServerRestart \/ UNCHANGED supVars
    PROVE  SupInv'
<1>0. SupTypeOK /\ RestTyped
  BY DEF SupInv, SupTypeOK, RestTyped
<1>1. ASSUME NEW p \in Pids, ProcessExit(p) PROVE SupInv'
  <2>1. PICK s \in {"ok", "failed"} : procs' = [procs EXCEPT ![p].state = s]
    BY <1>1 DEF ProcessExit
  <2>2. Onward /\ Sound
    <3>1. inits' = inits /\ inits \in Eras /\ inits <= inits
      BY <1>0, <1>1, SupAssumption DEF ProcessExit, SupTypeOK, Eras
    <3>2. \A q \in Pids : procs[q].era <= inits
      BY DEF SupInv, Dated
    <3>. QED BY <1>0, <1>1, <2>1, <3>1, <3>2
         DEF ProcessExit, SupTypeOK, Processes, Onward, Sound, Exited
  <2>. QED BY <1>0, <1>1, <2>2, FileUntouched DEF ProcessExit, RestTyped, SupTypeOK
<1>2. CASE ServerRestart
  <2>1. Onward /\ Sound /\ RestTyped'
    BY <1>0, <1>2, QuietRest DEF ServerRestart, RestTyped
  <2>. QED BY <1>0, <1>2, <2>1, FileUntouched, FreshIsBelievable
       DEF ServerRestart, Drop, Mishap, SupTypeOK
<1>3. CASE UNCHANGED supVars
  BY <1>0, <1>3, QuietRest, FileUntouched DEF supVars, RestTyped, SupTypeOK
<1>. QED BY <1>1, <1>2, <1>3

LEMMA SupInvariant == SupSpec => []SupInv
<1>1. SupInv /\ [SupNext]_supVars => SupInv'
  BY SaveStep, RequestStep, DaemonStep, OtherStep DEF SupNext, Save
<1>. QED BY InitInv, <1>1, PTL DEF SupSpec

-----------------------------------------------------------------------------
(* Every variable keeps its type, for every instance.                        *)
THEOREM SupervisorTypes == SupSpec => []SupTypeOK
<1>1. SupInv => SupTypeOK
  BY DEF SupInv
<1>. QED BY <1>1, SupInvariant, PTL

(* However many handlers, commands and daemons share the file, and however
   they overlap, overwrite each other, die or call init under agents that
   run: the scheduler starts an agent only after, in the same era, an agent
   has really ended, or complete was called, for every task that the agent's
   task depends on; only a live session of another era, of a task with that
   number, can have ended in its place.                                      *)
THEOREM AgentsStartAfterDependencies == SupSpec => []StartedAfterDependencies
<1>1. SupInv => StartedAfterDependencies
  BY DEF SupInv
<1>. QED BY <1>1, SupInvariant, PTL

-----------------------------------------------------------------------------
(* As long as no two operations overlap and none dies                        *)

Busy(w) == stage[w] # "idle"
Born(p) == procs[p].state # "unborn"

\* What has not been given out is empty.
Numbered(c) ==
    /\ \A t \in TaskIds : c.nextTask <= t => c.tasks[t] = NoTask
    /\ \A s \in SessionIds : c.nextSession <= s => c.sessions[s] = NoSession

\* Of the era of c, every process of the scheduler has moved its task, and every
\* process that runs is where its session says.
Known(c) ==
    \A p \in Pids : Born(p) /\ procs[p].era = c.era =>
        /\ procs[p].task \in TaskIds /\ procs[p].session \in SessionIds
        /\ procs[p].session < c.nextSession
        /\ procs[p].how = "tick" =>
               c.tasks[procs[p].task].status \notin {"none", "queued"}
        /\ procs[p].state = "live" => Recorded(c, p) \/ Shadowed(p)

Statuses(c) == [t \in TaskIds |-> c.tasks[t].status]
Waits(c) == [t \in TaskIds |-> c.tasks[t].deps]

\* From content c to content d one task gets another status.
Turned(c, d, t, status) ==
    Statuses(d) = [Statuses(c) EXCEPT ![t] = status] /\ Waits(d) = Waits(c)

\* From content c to content d the board moves once or not at all.
Moves(c, d) ==
    \/ Statuses(d) = Statuses(c) /\ Waits(d) = Waits(c)
    \/ /\ Statuses(d) = [t \in TaskIds |-> "none"]
       /\ Waits(d) = [t \in TaskIds |-> {}]
    \/ \E t \in TaskIds, deps \in SUBSET TaskIds :
          /\ c.tasks[t].status = "none"
          /\ Statuses(d) = [Statuses(c) EXCEPT ![t] = "queued"]
          /\ Waits(d) = [Waits(c) EXCEPT ![t] = deps]
    \/ \E t \in Runnable(c), s \in {"running", "failed"} : Turned(c, d, t, s)
    \/ \E T \in SUBSET TaskIds :
          /\ \A t \in T : c.tasks[t].status = "running"
          /\ Statuses(d) = [t \in TaskIds |-> IF t \in T THEN "done"
                                              ELSE Statuses(c)[t]]
          /\ Waits(d) = Waits(c)
    \/ \E t \in TaskIds, s \in {"running", "done", "failed"} :
          TakenOver(t) /\ Turned(c, d, t, s)

\* In one era no task has two processes of the scheduler, no session two
\* processes.
Distinct ==
    \A p, q \in Pids : Born(p) /\ Born(q) /\ procs[p].era = procs[q].era =>
        /\ procs[p].session = procs[q].session => p = q
        /\ procs[p].how = "tick" /\ procs[q].how = "tick"
           /\ procs[p].task = procs[q].task => p = q

LiveTaken ==
    \A p \in live :
        /\ Born(p) /\ procs[p].how = "live" /\ TakenOver(procs[p].task)
        /\ procs[p].task \in TaskIds /\ procs[p].session \in SessionIds

Good(c) == Numbered(c) /\ Known(c)

CleanInv ==
    clean =>
        /\ Distinct /\ LiveTaken
        /\ \A w, x \in Workers : Busy(w) /\ Busy(x) => w = x
        /\ (\A w \in Workers : ~Busy(w)) => Good(file)
        /\ \A w \in Workers : Busy(w) =>
               /\ Good(draft[w]) /\ Moves(file, draft[w])
               /\ (draft[w].era # file.era => Good(file))

(* Initially.                                                                *)
LEMMA CleanInit == SupInit => CleanInv
<1>1. SUFFICES ASSUME SupInit PROVE CleanInv
  OBVIOUS
<1>2. Good(file)
  BY <1>1 DEF SupInit, Good, Numbered, Known, Born, Fresh, Unborn
<1>. QED BY <1>1, <1>2 DEF SupInit, CleanInv, Distinct, LiveTaken, Born, Busy, Unborn

\* Processes end and none starts.
NoBirth ==
    \A p \in Pids :
        /\ procs'[p].task = procs[p].task /\ procs'[p].session = procs[p].session
        /\ procs'[p].how = procs[p].how /\ procs'[p].era = procs[p].era
        /\ \/ procs'[p].state = procs[p].state
           \/ procs[p].state = "live" /\ procs'[p].state \in {"ok", "failed"}

LEMMA GoodStays ==
    ASSUME NoBirth, forced \subseteq forced', NEW c \in Contents, Good(c)
    PROVE  Good(c)'
<1>1. Numbered(c)'
  BY DEF Good, Numbered
<1>2. ASSUME NEW p \in Pids, Recorded(c, p) PROVE Recorded(c, p)'
  BY <1>2 DEF NoBirth, Recorded
<1>3. ASSUME NEW p \in Pids, Shadowed(p) PROVE Shadowed(p)'
  BY <1>3 DEF NoBirth, Shadowed
<1>4. Known(c)'
  BY <1>2, <1>3 DEF NoBirth, Good, Known, Born
<1>. QED BY <1>1, <1>4 DEF Good

LEMMA DistinctStays == NoBirth /\ Distinct => Distinct'
BY DEF NoBirth, Distinct, Born

LEMMA LiveTakenStays ==
    ASSUME NoBirth, SupTypeOK, forced \subseteq forced', live' \subseteq live, LiveTaken
    PROVE  LiveTaken'
BY DEF NoBirth, LiveTaken, Born, TakenOver, SupTypeOK

LEMMA MovesStay ==
    ASSUME forced \subseteq forced', NEW c, NEW d, Moves(c, d)
    PROVE  Moves(c, d)'
<1>1. \A t : TakenOver(t) => TakenOver(t)'
  BY DEF TakenOver
<1>. QED BY <1>1 DEF Moves, Turned, Statuses, Waits, Runnable, Done

LEMMA CleanBefore ==
    ASSUME SupTypeOK, NEW b \in BOOLEAN, Mishap(b), clean'
    PROVE  clean /\ ~b
BY DEF SupTypeOK, Mishap, clean

\* The writers of the file go on with what they have in hand.
LEMMA WritersStay ==
    ASSUME SupInv, CleanInv, NoBirth, forced \subseteq forced', live' \subseteq live,
           clean' => clean, file' = file,
           clean' => \A w \in Workers : /\ Busy(w)' <=> Busy(w)
                                        /\ Busy(w) => draft'[w] = draft[w]
    PROVE  CleanInv'
<1>. SUFFICES ASSUME clean'
              PROVE  /\ Distinct' /\ LiveTaken'
                     /\ \A w, x \in Workers : Busy(w)' /\ Busy(x)' => w = x
                     /\ (\A w \in Workers : ~Busy(w)') => Good(file)'
                     /\ \A w \in Workers : Busy(w)' =>
                            /\ Good(draft[w])' /\ Moves(file, draft[w])'
                            /\ ((draft[w].era # file.era)' => Good(file)')
  BY DEF CleanInv
<1>0. SupTypeOK /\ clean
  BY DEF SupInv
<1>1. Distinct' /\ LiveTaken'
  BY <1>0, DistinctStays, LiveTakenStays DEF CleanInv
<1>2. \A w \in Workers : Busy(w)' <=> Busy(w)
  OBVIOUS
<1>3. PICK f \in Contents : f = file
  BY <1>0 DEF SupTypeOK
<1>4. ASSUME \A w \in Workers : ~Busy(w)' PROVE Good(file)'
  <2>1. Good(f)
    BY <1>0, <1>2, <1>3, <1>4 DEF CleanInv
  <2>2. Good(f)'
    BY <2>1, GoodStays
  <2>. QED BY <1>3, <2>2
<1>5. ASSUME NEW w \in Workers, Busy(w)'
      PROVE  /\ Good(draft[w])' /\ Moves(file, draft[w])'
             /\ ((draft[w].era # file.era)' => Good(file)')
  <2>1. PICK d \in Contents : d = draft[w]
    BY <1>0 DEF SupTypeOK
  <2>2. Good(d) /\ Moves(f, d) /\ (d.era # f.era => Good(f))
    BY <1>0, <1>2, <1>3, <1>5, <2>1 DEF CleanInv
  <2>3. Good(d)' /\ Moves(f, d)' /\ (d.era # f.era => Good(f)')
    BY <2>2, GoodStays, MovesStay
  <2>4. draft'[w] = d
    BY <1>2, <1>5, <2>1
  <2>. QED BY <1>3, <2>3, <2>4
<1>. QED BY <1>0, <1>1, <1>2, <1>4, <1>5 DEF CleanInv

\* A worker takes a content into its hands that is good and one move ahead.
LEMMA ComputeClean ==
    ASSUME SupInv, CleanInv, NEW w \in Workers, NEW c \in Contents, Compute(w, c),
           NEW f \in Contents, f = file,
           clean /\ Good(f) =>
               /\ Distinct' /\ LiveTaken' /\ Good(c)' /\ Moves(f, c)'
               /\ (c.era # f.era => Good(f)')
    PROVE  CleanInv'
<1>. SUFFICES ASSUME clean'
              PROVE  /\ Distinct' /\ LiveTaken'
                     /\ \A v, x \in Workers : Busy(v)' /\ Busy(x)' => v = x
                     /\ (\A v \in Workers : ~Busy(v)') => Good(file)'
                     /\ \A v \in Workers : Busy(v)' =>
                            /\ Good(draft[v])' /\ Moves(file, draft[v])'
                            /\ ((draft[v].era # file.era)' => Good(file)')
  BY DEF CleanInv
<1>0. SupTypeOK
  BY DEF SupInv
<1>1. clean /\ \A x \in Workers : ~Busy(x)
  BY <1>0 DEF Compute, Mishap, clean, Busy, SupTypeOK
<1>2. Good(f)
  BY <1>1 DEF CleanInv
<1>3. stage' = [stage EXCEPT ![w] = "computed"] /\ draft' = [draft EXCEPT ![w] = c]
      /\ file' = f
  BY DEF Compute
<1>4. \A x \in Workers : Busy(x)' <=> x = w
  BY <1>0, <1>1, <1>3 DEF Busy, SupTypeOK
<1>5. draft'[w] = c
  BY <1>0, <1>3 DEF SupTypeOK
<1>. QED BY <1>1, <1>2, <1>3, <1>4, <1>5

\* ... no process starts meanwhile.
LEMMA QuietClean ==
    ASSUME SupInv, CleanInv, NEW w \in Workers, NEW c \in Contents, Compute(w, c),
           NEW f \in Contents, f = file,
           UNCHANGED procs, forced \subseteq forced', live' \subseteq live,
           clean /\ Good(f) => (Good(c) \/ Good(c)') /\ Moves(f, c)'
    PROVE  CleanInv'
<1>0. SupTypeOK
  BY DEF SupInv
<1>2. NoBirth
  BY DEF NoBirth
<1>1. ASSUME clean, Good(f)
      PROVE  Distinct' /\ LiveTaken' /\ Good(c)' /\ Moves(f, c)' /\ Good(f)'
  <2>1. Distinct' /\ LiveTaken'
    BY <1>0, <1>1, <1>2, DistinctStays, LiveTakenStays DEF CleanInv
  <2>. QED BY <1>1, <1>2, <2>1, GoodStays
<1>. QED BY <1>1, ComputeClean

-----------------------------------------------------------------------------
(* The operations keep contents good and move the board once.                *)

LEMMA KnownKept ==
    ASSUME NEW f \in Contents, NEW d \in Contents, Known(f),
           f.nextSession <= d.nextSession, d.era = f.era,
           \A t \in TaskIds : f.tasks[t].status \notin {"none", "queued"}
                                => d.tasks[t].status \notin {"none", "queued"},
           \A p \in Pids : /\ Born(p) /\ procs[p].era = f.era
                           /\ procs[p].state = "live" /\ Recorded(f, p)
               => Recorded(d, p) \/ Shadowed(p)
    PROVE  Known(d)
<1>1. f.nextSession \in Nat /\ d.nextSession \in Nat
  BY SupAssumption DEF Contents
<1>2. SessionIds \subseteq Nat
  BY SupAssumption DEF SessionIds
<1>3. ASSUME NEW p \in Pids, Born(p), procs[p].era = f.era
      PROVE  procs[p].session < d.nextSession
  <2>1. procs[p].session \in Nat /\ procs[p].session < f.nextSession
    BY <1>2, <1>3 DEF Known
  <2>. QED BY <1>1, <2>1
<1>. QED BY <1>3 DEF Known

LEMMA WithAgentMoves ==
    ASSUME NEW f \in Contents, NEW a \in Agents, Good(f),
           NEW d \in Contents, d = [f EXCEPT !.agents = @ \cup {a}]
    PROVE  Good(d) /\ Moves(f, d)
<1>1. /\ d.tasks = f.tasks /\ d.sessions = f.sessions /\ d.era = f.era
      /\ d.nextTask = f.nextTask /\ d.nextSession = f.nextSession
  BY DEF Contents
<1>. QED BY <1>1 DEF Good, Numbered, Known, Recorded, Moves, Statuses, Waits

LEMMA WithTaskGood ==
    ASSUME NEW f \in Contents, Good(f), f.nextTask \in TaskIds, NEW task \in Tasks,
           NEW d \in Contents, d = WithTask(f, task)
    PROVE  /\ Good(d) /\ f.tasks[f.nextTask] = NoTask
           /\ \A t \in TaskIds : d.tasks[t] = IF t = f.nextTask THEN task ELSE f.tasks[t]
           /\ d.nextSession = f.nextSession /\ d.sessions = f.sessions
           /\ d.nextTask = f.nextTask + 1 /\ d.era = f.era
<1>1. /\ d.tasks = [f.tasks EXCEPT ![f.nextTask] = task] /\ d.sessions = f.sessions
      /\ d.nextTask = f.nextTask + 1 /\ d.nextSession = f.nextSession /\ d.era = f.era
  BY DEF WithTask, Contents
<1>2. f.nextTask \in Nat /\ TaskIds \subseteq Nat
  BY SupAssumption DEF Contents, TaskIds
<1>3. f.tasks[f.nextTask] = NoTask
  BY <1>2 DEF Good, Numbered
<1>4. Numbered(d)
  BY <1>1, <1>2 DEF Good, Numbered, Contents
<1>5. f.nextSession <= d.nextSession
  BY <1>1, SupAssumption DEF Contents
<1>6. ASSUME NEW t \in TaskIds, f.tasks[t].status \notin {"none", "queued"}
      PROVE  d.tasks[t].status \notin {"none", "queued"}
  BY <1>1, <1>3, <1>6 DEF NoTask, Contents
<1>7. Known(d)
  BY <1>1, <1>5, <1>6, KnownKept DEF Good, Recorded
<1>8. \A t \in TaskIds : d.tasks[t] = IF t = f.nextTask THEN task ELSE f.tasks[t]
  BY <1>1 DEF Contents
<1>. QED BY <1>1, <1>3, <1>4, <1>7, <1>8 DEF Good

LEMMA QueuedMoves ==
    ASSUME NEW f \in Contents, NEW g \in Contents, Good(f), Good(g),
           g.tasks = f.tasks, g.nextTask = f.nextTask,
           g.nextTask \in TaskIds, NEW task \in Tasks, task.status = "queued",
           NEW d \in Contents, d = WithTask(g, task)
    PROVE  Good(d) /\ Moves(f, d)
<1>. DEFINE t == g.nextTask
<1>1. /\ Good(d) /\ f.tasks[t] = NoTask
      /\ \A u \in TaskIds : d.tasks[u] = IF u = t THEN task ELSE f.tasks[u]
  BY WithTaskGood
<1>2. f.tasks[t].status = "none" /\ task.deps \in SUBSET TaskIds
  BY <1>1 DEF NoTask, Tasks
<1>3. Statuses(d) = [Statuses(f) EXCEPT ![t] = "queued"]
  BY <1>1 DEF Statuses, Contents
<1>4. Waits(d) = [Waits(f) EXCEPT ![t] = task.deps]
  BY <1>1 DEF Waits, Contents
<1>. HIDE DEF t
<1>. QED BY <1>1, <1>2, <1>3, <1>4 DEF Moves, Turned, t

LEMMA PolledMoves ==
    ASSUME NEW f \in Contents, Good(f), NEW errors, NEW parked \in SUBSET Watched(f),
           NEW d \in Contents, d = Polled(f, EndedSessions(f, errors), parked)
    PROVE  Good(d) /\ Moves(f, d)
<1>. DEFINE ended == EndedSessions(f, errors)
            tasks == {f.sessions[s].task : s \in ended}
            T == {t \in TaskIds : t \in tasks /\ f.tasks[t].status = "running"}
<1>0. /\ d.sessions = [s \in SessionIds |->
            IF s \in ended THEN [f.sessions[s] EXCEPT !.status = "done"]
            ELSE IF s \in parked THEN [f.sessions[s] EXCEPT !.status = "waiting"]
            ELSE f.sessions[s]]
      /\ d.tasks = [t \in TaskIds |->
            IF t \in tasks /\ f.tasks[t].status = "running"
            THEN [f.tasks[t] EXCEPT !.status = "done"] ELSE f.tasks[t]]
      /\ d.nextTask = f.nextTask /\ d.nextSession = f.nextSession /\ d.era = f.era
  BY DEF Polled, Contents
<1>1. ended \subseteq Watched(f) /\ Watched(f) \subseteq SessionIds
  BY DEF EndedSessions, Watched
<1>2. ASSUME NEW s \in SessionIds
      PROVE  /\ d.sessions[s].pid = f.sessions[s].pid
             /\ d.sessions[s].task = f.sessions[s].task
             /\ s \notin ended => d.sessions[s].status \in {f.sessions[s].status, "waiting"}
             /\ f.sessions[s] = NoSession => d.sessions[s] = NoSession
  <2>1. f.sessions[s] \in Sessions
    BY DEF Contents
  <2>2. f.sessions[s] = NoSession => s \notin Watched(f)
    BY DEF NoSession, Watched
  <2>. HIDE DEF ended
  <2>. QED BY <1>0, <1>1, <2>1, <2>2 DEF Sessions
<1>3. ASSUME NEW t \in TaskIds
      PROVE  /\ d.tasks[t].status = IF t \in T THEN "done" ELSE f.tasks[t].status
             /\ d.tasks[t].deps = f.tasks[t].deps
             /\ f.tasks[t] = NoTask => d.tasks[t] = NoTask
  <2>1. f.tasks[t] \in Tasks
    BY DEF Contents
  <2>2. f.tasks[t] = NoTask => f.tasks[t].status # "running"
    BY DEF NoTask
  <2>. HIDE DEF tasks
  <2>. QED BY <1>0, <2>1, <2>2 DEF Tasks
<1>4. Numbered(d)
  BY <1>0, <1>2, <1>3 DEF Good, Numbered
<1>5. Known(d)
  <2>1. f.nextSession <= d.nextSession
    BY <1>0, SupAssumption DEF Contents
  <2>2. \A t \in TaskIds : f.tasks[t].status \notin {"none", "queued"}
                             => d.tasks[t].status \notin {"none", "queued"}
    <3>. HIDE DEF T
    <3>. QED BY <1>3
  <2>3. ASSUME NEW p \in Pids, Born(p), procs[p].era = f.era, procs[p].state = "live",
               Recorded(f, p)
        PROVE  Recorded(d, p)
    <3>. DEFINE s == procs[p].session
    <3>1. s \in SessionIds
      BY <2>3 DEF Good, Known
    <3>2. f.sessions[s].pid = p /\ f.sessions[s].task = procs[p].task
      BY <2>3 DEF Recorded
    <3>3. s \notin ended
      BY <2>3, <3>2 DEF EndedSessions, IsProcessRunning
    <3>4. /\ d.sessions[s].pid = p /\ d.sessions[s].task = procs[p].task
          /\ d.sessions[s].status \in {f.sessions[s].status, "waiting"}
      BY <1>2, <3>1, <3>2, <3>3
    <3>. QED BY <2>3, <3>4 DEF Recorded
  <2>. QED BY <1>0, <2>1, <2>2, <2>3, KnownKept DEF Good
<1>6. Moves(f, d)
  <2>1. \A t \in T : f.tasks[t].status = "running"
    OBVIOUS
  <2>2. T \in SUBSET TaskIds
    OBVIOUS
  <2>. HIDE DEF T
  <2>3. Statuses(d) = [t \in TaskIds |-> IF t \in T THEN "done" ELSE Statuses(f)[t]]
    BY <1>3 DEF Statuses
  <2>4. Waits(d) = Waits(f)
    BY <1>3 DEF Waits
  <2>. QED BY <2>1, <2>2, <2>3, <2>4 DEF Moves
<1>. QED BY <1>4, <1>5, <1>6 DEF Good

LEMMA SettledMoves ==
    ASSUME NEW f \in Contents, Good(f), NEW t \in TaskIds, NEW status \in {"done", "failed"},
           f.tasks[t].status # "none", TakenOver(t)',
           UNCHANGED procs, forced \subseteq forced', <<t, status, f.era>> \in forced',
           NEW d \in Contents, d = SettledByHand(f, t, status)
    PROVE  Good(d)' /\ Moves(f, d)'
<1>. DEFINE running == {s \in SessionIds : f.sessions[s].task = t
                                          /\ f.sessions[s].status = "running"}
<1>0. /\ d.sessions = [s \in SessionIds |->
             IF IsFirst(s, running) THEN [f.sessions[s] EXCEPT !.status = status]
                                    ELSE f.sessions[s]]
      /\ d.tasks = [f.tasks EXCEPT ![t].status = status]
      /\ d.nextTask = f.nextTask /\ d.nextSession = f.nextSession /\ d.era = f.era
  BY DEF SettledByHand, Contents
<1>2. ASSUME NEW s \in SessionIds
      PROVE  /\ d.sessions[s].pid = f.sessions[s].pid
             /\ d.sessions[s].task = f.sessions[s].task
             /\ \/ d.sessions[s].status = f.sessions[s].status
                \/ d.sessions[s].status = status /\ f.sessions[s].task = t
             /\ f.sessions[s] = NoSession => d.sessions[s] = NoSession
  <2>1. f.sessions[s] \in Sessions
    BY DEF Contents
  <2>3. IsFirst(s, running) => f.sessions[s].task = t
    BY DEF IsFirst
  <2>2. f.sessions[s] = NoSession => ~IsFirst(s, running)
    BY DEF NoSession, IsFirst
  <2>. HIDE DEF running
  <2>. QED BY <1>0, <2>1, <2>2, <2>3 DEF Sessions
<1>3. ASSUME NEW u \in TaskIds
      PROVE  /\ d.tasks[u].status = IF u = t THEN status ELSE f.tasks[u].status
             /\ d.tasks[u].deps = f.tasks[u].deps
             /\ f.tasks[u] = NoTask => d.tasks[u] = NoTask
  <2>1. f.tasks \in [TaskIds -> Tasks]
    BY DEF Contents
  <2>2. f.tasks[u] = NoTask => u # t
    BY DEF NoTask
  <2>. QED BY <1>0, <2>1, <2>2 DEF Tasks
<1>4. Numbered(d)
  BY <1>0, <1>2, <1>3 DEF Good, Numbered
<1>5. Known(d)'
  <2>2. \A u \in TaskIds : f.tasks[u].status \notin {"none", "queued"}
                             => d.tasks[u].status \notin {"none", "queued"}
    BY <1>3
  <2>3. ASSUME NEW p \in Pids, Born(p), procs[p].era = f.era, procs[p].state = "live",
               Recorded(f, p)
        PROVE  Recorded(d, p)'
    <3>. DEFINE s == procs[p].session
    <3>1. s \in SessionIds
      BY <2>3 DEF Good, Known
    <3>2. f.sessions[s].pid = p /\ f.sessions[s].task = procs[p].task
      BY <2>3 DEF Recorded
    <3>3. /\ d.sessions[s].pid = p /\ d.sessions[s].task = procs[p].task
          /\ \/ d.sessions[s].status = f.sessions[s].status
             \/ procs[p].task = t
      BY <1>2, <3>1, <3>2
    <3>4. \/ f.sessions[s].status \in {"running", "waiting"}
          \/ \E how \in {"done", "failed"} :
                 <<procs[p].task, how, procs[p].era>> \in forced
      BY <2>3 DEF Recorded
    <3>5. \/ d.sessions[s].status \in {"running", "waiting"}
          \/ \E how \in {"done", "failed"} :
                 <<procs[p].task, how, procs[p].era>> \in forced'
      BY <2>3, <3>3, <3>4
    <3>. QED BY <3>3, <3>5 DEF Recorded
  <2>4. \A p \in Pids : Shadowed(p) => Shadowed(p)'
    BY DEF Shadowed
  <2>. QED BY <1>0, <2>2, <2>3, <2>4 DEF Good, Known, Born
<1>6. Moves(f, d)'
  <2>1. Statuses(d) = [Statuses(f) EXCEPT ![t] = status]
    BY <1>3 DEF Statuses
  <2>2. Waits(d) = Waits(f)
    BY <1>3 DEF Waits
  <2>. QED BY <2>1, <2>2 DEF Moves, Turned, Statuses, Waits
<1>7. Numbered(d)'
  BY <1>4 DEF Numbered
<1>. QED BY <1>5, <1>6, <1>7 DEF Good

LEMMA LiveExitMoves ==
    ASSUME NEW f \in Contents, Good(f), Distinct, LiveTaken,
           NEW p \in Pids, p \in live, Exited(p),
           NEW d \in Contents, d = LiveExit(f, p)
    PROVE  Good(d) /\ Moves(f, d)
<1>. DEFINE status == IF procs[p].state = "ok" THEN "done" ELSE "failed"
            i == procs[p].session
            j == procs[p].task
<1>0. /\ d.sessions = [f.sessions EXCEPT ![i] = IF @.status = "none" THEN @
                          ELSE [@ EXCEPT !.status = status, !.pid = None]]
      /\ d.tasks = [f.tasks EXCEPT ![j] = IF @.status = "none" THEN @
                          ELSE [@ EXCEPT !.status = status]]
      /\ d.nextTask = f.nextTask /\ d.nextSession = f.nextSession /\ d.era = f.era
  BY DEF LiveExit, Contents
<1>1. /\ Born(p) /\ procs[p].how = "live" /\ i \in SessionIds /\ j \in TaskIds
      /\ TakenOver(j)
  BY DEF LiveTaken
<1>. HIDE DEF i, j
<1>2. ASSUME NEW s \in SessionIds
      PROVE  /\ s # i => d.sessions[s] = f.sessions[s]
             /\ f.sessions[s] = NoSession => d.sessions[s] = NoSession
  BY <1>0, <1>1 DEF NoSession, Contents
<1>3. ASSUME NEW u \in TaskIds
      PROVE  /\ d.tasks[u].status = IF u = j /\ f.tasks[j].status # "none"
                                    THEN status ELSE f.tasks[u].status
             /\ d.tasks[u].deps = f.tasks[u].deps
             /\ f.tasks[u] = NoTask => d.tasks[u] = NoTask
  <2>1. f.tasks \in [TaskIds -> Tasks]
    BY DEF Contents
  <2>2. f.tasks[u] = NoTask => f.tasks[u].status = "none"
    BY DEF NoTask
  <2>. QED BY <1>0, <1>1, <2>1, <2>2 DEF Tasks
<1>4. Numbered(d)
  BY <1>0, <1>2, <1>3 DEF Good, Numbered
<1>5. Known(d)
  <2>1. f.nextSession <= d.nextSession
    BY <1>0, SupAssumption DEF Contents
  <2>2. \A u \in TaskIds : f.tasks[u].status \notin {"none", "queued"}
                             => d.tasks[u].status \notin {"none", "queued"}
    BY <1>3
  <2>3. ASSUME NEW q \in Pids, Born(q), procs[q].era = f.era, procs[q].state = "live",
               Recorded(f, q)
        PROVE  Recorded(d, q) \/ Shadowed(q)
    <3>1. procs[q].session \in SessionIds /\ q # p
      BY <2>3 DEF Good, Known, Exited
    <3>2. CASE procs[q].session # i
      BY <1>2, <2>3, <3>1, <3>2 DEF Recorded
    <3>3. CASE procs[q].session = i
      <4>1. procs[p].era # procs[q].era
        BY <1>1, <2>3, <3>1, <3>3 DEF Distinct, i
      <4>. QED BY <1>1, <3>3, <4>1 DEF Shadowed, Born, i
    <3>. QED BY <3>2, <3>3
  <2>. QED BY <1>0, <2>1, <2>2, <2>3, KnownKept DEF Good
<1>6. Moves(f, d)
  <2>1. Waits(d) = Waits(f)
    BY <1>3 DEF Waits
  <2>2. CASE f.tasks[j].status = "none"
    <3>1. Statuses(d) = Statuses(f)
      BY <1>3, <2>2 DEF Statuses
    <3>. QED BY <2>1, <3>1 DEF Moves
  <2>3. CASE f.tasks[j].status # "none"
    <3>1. Statuses(d) = [Statuses(f) EXCEPT ![j] = status]
      BY <1>1, <1>3, <2>3 DEF Statuses
    <3>2. status \in {"running", "done", "failed"} /\ TakenOver(j)
      BY <1>1
    <3>. HIDE DEF status
    <3>. QED BY <1>1, <2>1, <3>1, <3>2 DEF Moves, Turned
  <2>. QED BY <2>2, <2>3
<1>. QED BY <1>4, <1>5, <1>6 DEF Good

-----------------------------------------------------------------------------
(* Sessions and processes that begin                                         *)

\* A session can be made for a task that exists, and has been made.
MayBegin(c, t) == c.tasks[t].status # "none" /\ c.nextSession <= MaxSessions
Begun(c, d, t, p, status) ==
    /\ d.sessions[c.nextSession] = [status |-> status, task |-> t, pid |-> p]
    /\ d.nextSession = c.nextSession + 1
    /\ Turned(c, d, t, status)

LEMMA WithSessionGood ==
    ASSUME NEW g \in Contents, Good(g), NEW t \in TaskIds, MayBegin(g, t),
           NEW p \in Pids \cup {None}, NEW status \in {"running", "failed"},
           NEW d \in Contents, d = WithSession(g, t, p, status)
    PROVE  Good(d) /\ Begun(g, d, t, p, status) /\ d.era = g.era
<1>0. g.tasks[t].status # "none" /\ g.nextSession <= MaxSessions
  BY DEF MayBegin
<1>1. /\ d.tasks = [g.tasks EXCEPT ![t].status = status]
      /\ d.sessions = [g.sessions EXCEPT ![g.nextSession] =
                          [status |-> status, task |-> t, pid |-> p]]
      /\ d.nextSession = g.nextSession + 1 /\ d.nextTask = g.nextTask /\ d.era = g.era
  BY DEF WithSession, Contents
<1>2. /\ g.nextSession \in SessionIds /\ SessionIds \subseteq Nat
      /\ g.nextSession <= d.nextSession
  BY <1>0, <1>1, SupAssumption DEF Contents, SessionIds
<1>3. ASSUME NEW u \in TaskIds
      PROVE  /\ d.tasks[u].status = IF u = t THEN status ELSE g.tasks[u].status
             /\ d.tasks[u].deps = g.tasks[u].deps
             /\ g.tasks[u] = NoTask => d.tasks[u] = NoTask
  <2>1. g.tasks \in [TaskIds -> Tasks]
    BY DEF Contents
  <2>2. g.tasks[u] = NoTask => u # t
    BY <1>0 DEF NoTask
  <2>. QED BY <1>1, <2>1, <2>2 DEF Tasks
<1>4. ASSUME NEW s \in SessionIds, s # g.nextSession
      PROVE  d.sessions[s] = g.sessions[s]
  BY <1>1, <1>4 DEF Contents
<1>5. Numbered(d)
  <2>1. \A s \in SessionIds : d.nextSession <= s => s # g.nextSession /\ g.nextSession <= s
    BY <1>1, <1>2
  <2>. QED BY <1>1, <1>3, <1>4, <2>1 DEF Good, Numbered
<1>6. Known(d)
  <2>1. ASSUME NEW q \in Pids, Born(q), procs[q].era = g.era
        PROVE  d.sessions[procs[q].session] = g.sessions[procs[q].session]
    <3>1. procs[q].session \in SessionIds /\ procs[q].session < g.nextSession
      BY <2>1 DEF Good, Known
    <3>2. procs[q].session \in Nat /\ g.nextSession \in Nat
      BY <1>2, <3>1
    <3>3. procs[q].session # g.nextSession
      BY <3>1, <3>2
    <3>. QED BY <1>4, <3>1, <3>3
  <2>2. \A u \in TaskIds : g.tasks[u].status \notin {"none", "queued"}
                             => d.tasks[u].status \notin {"none", "queued"}
    BY <1>3
  <2>3. \A q \in Pids : Born(q) /\ procs[q].era = g.era /\ Recorded(g, q) => Recorded(d, q)
    BY <2>1 DEF Recorded
  <2>. QED BY <1>1, <1>2, <2>2, <2>3, KnownKept DEF Good
<1>7. Turned(g, d, t, status)
  BY <1>3 DEF Turned, Statuses, Waits
<1>8. d.sessions[g.nextSession] = [status |-> status, task |-> t, pid |-> p]
  BY <1>1, <1>2 DEF Contents
<1>. QED BY <1>1, <1>5, <1>6, <1>7, <1>8 DEF Good, Begun

\* Its process: no other has its session, and none of the scheduler its task.
LEMMA SpawnGood ==
    ASSUME SupTypeOK, Distinct, LiveTaken, NEW w \in Workers, NEW p \in Pids,
           NEW t \in TaskIds, NEW how \in Starters, Spawn(w, p, t, how),
           forced \subseteq forced',
           \/ live' \subseteq live
           \/ how = "live" /\ TakenOver(t)' /\ live' = live \cup {p},
           NEW g \in Contents, Good(g), MayBegin(g, t),
           how = "tick" => g.tasks[t].status = "queued",
           g.nextSession = file.nextSession, g.era = file.era,
           NEW d \in Contents, d = WithSession(g, t, p, "running")
    PROVE  Distinct' /\ LiveTaken' /\ Good(d)' /\ d.era = g.era
<1>0. Good(d) /\ Begun(g, d, t, p, "running") /\ d.era = g.era
  <2>1. p \in Pids \cup {None} /\ "running" \in {"running", "failed"}
    OBVIOUS
  <2>. QED BY <2>1, WithSessionGood
<1>1. /\ Good(d)
      /\ d.sessions[g.nextSession] = [status |-> "running", task |-> t, pid |-> p]
      /\ d.nextSession = g.nextSession + 1
      /\ Turned(g, d, t, "running")
  BY <1>0 DEF Begun
<1>2. g.nextSession \in SessionIds /\ SessionIds \subseteq Nat
  BY SupAssumption DEF MayBegin, Contents, SessionIds
<1>3. /\ ~Born(p) /\ Born(p)' /\ procs'[p].task = t /\ procs'[p].how = how
      /\ procs'[p].session = g.nextSession /\ procs'[p].era = g.era
      /\ \A q \in Pids : q # p => procs'[q] = procs[q]
  BY DEF Spawn, NextPid, Born, SupTypeOK
<1>4. ASSUME NEW q \in Pids, Born(q), procs[q].era = g.era
      PROVE  /\ procs[q].session # g.nextSession
             /\ procs[q].how = "tick" /\ how = "tick" => procs[q].task # t
  <2>1. /\ procs[q].session \in SessionIds /\ procs[q].session < g.nextSession
        /\ procs[q].how = "tick" =>
               g.tasks[procs[q].task].status \notin {"none", "queued"}
    BY <1>4 DEF Good, Known
  <2>2. procs[q].session \in Nat /\ g.nextSession \in Nat
    BY <1>2, <2>1
  <2>3. procs[q].session # g.nextSession
    BY <2>1, <2>2
  <2>4. how = "tick" => g.tasks[t].status = "queued"
    OBVIOUS
  <2>. QED BY <2>1, <2>3, <2>4
<1>5. Distinct'
  BY <1>3, <1>4 DEF Distinct, Born
<1>6. LiveTaken'
  <2>1. \A q \in live : q \in Pids /\ q # p
    BY <1>3 DEF SupTypeOK, LiveTaken
  <2>2. \A u : TakenOver(u) => TakenOver(u)'
    BY DEF TakenOver
  <2>. QED BY <1>2, <1>3, <2>1, <2>2 DEF LiveTaken, Born, TakenOver
<1>7. d.tasks[t].status = "running"
  BY <1>1 DEF Turned, Statuses
<1>8. Recorded(d, p)'
  BY <1>1, <1>3 DEF Recorded
<1>9. Known(d)'
  <2>0. ASSUME NEW q \in Pids, q # p
        PROVE  /\ Recorded(d, q) => Recorded(d, q)'
               /\ Shadowed(q) => Shadowed(q)'
    <3>1. Recorded(d, q) => Recorded(d, q)'
      BY <1>3, <2>0 DEF Recorded
    <3>2. ASSUME NEW x \in Pids, procs[x].state # "unborn" PROVE procs'[x] = procs[x]
      BY <1>3, <3>2 DEF Born
    <3>3. Shadowed(q) => Shadowed(q)'
      BY <1>3, <2>0, <3>2 DEF Shadowed
    <3>. QED BY <3>1, <3>3
  <2>1. ASSUME NEW q \in Pids, q # p, Born(q)', procs'[q].era = d.era
        PROVE  /\ procs'[q].task \in TaskIds /\ procs'[q].session \in SessionIds
               /\ procs'[q].session < d.nextSession
               /\ procs'[q].how = "tick" =>
                      d.tasks[procs'[q].task].status \notin {"none", "queued"}
               /\ procs'[q].state = "live" => Recorded(d, q)' \/ Shadowed(q)'
    BY <1>1, <1>3, <2>0, <2>1 DEF Good, Known, Born
  <2>2. g.nextSession < d.nextSession
    <3>1. d.nextSession = g.nextSession + 1 /\ g.nextSession \in Nat
      BY <1>1, <1>2
    <3>. QED BY <3>1
  <2>. QED BY <1>2, <1>3, <1>7, <1>8, <2>1, <2>2 DEF Known
<1>10. Numbered(d)'
  BY <1>1 DEF Good, Numbered
<1>. QED BY <1>0, <1>5, <1>6, <1>9, <1>10 DEF Good

LEMMA StartMoves ==
    ASSUME NEW f \in Contents, NEW d \in Contents, NEW t \in TaskIds,
           NEW status \in {"running", "failed"},
           Turned(f, d, t, status),
           t \in Runnable(f) \/ TakenOver(t)'
    PROVE  Moves(f, d)'
BY DEF Moves, Turned, Statuses, Waits, Runnable, Done

LEMMA LaunchClean ==
    ASSUME SupInv, CleanInv, NEW w \in Workers, NEW t \in TaskIds,
           NEW how \in {"tick", "run"}, NEW mayOmit, Launch(w, t, how, mayOmit),
           how = "tick" => t \in Runnable(file), how = "run" => TakenOver(t)',
           file.tasks[t].status # "none", forced \subseteq forced', live' \subseteq live
    PROVE  CleanInv'
<1>0. /\ file \in Contents /\ SupTypeOK /\ file.nextSession <= MaxSessions
      /\ how \in Starters
  BY DEF SupInv, SupTypeOK, Launch, Starters
<1>1. PICK f \in Contents : f = file
  BY <1>0
<1>2. ASSUME NEW p \in Pids \cup {None}, NEW status \in {"running", "failed"}
      PROVE  \E c \in Contents : c = WithSession(file, t, p, status)
  BY <1>0, WithSessionIsContent
<1>3. ASSUME NEW p \in Pids \cup {None}, NEW status \in {"running", "failed"},
             NEW c \in Contents, c = WithSession(file, t, p, status), Good(f)
      PROVE  Good(c) /\ Moves(f, c)'
  <2>1. c = WithSession(f, t, p, status) /\ MayBegin(f, t)
    BY <1>0, <1>1, <1>3 DEF MayBegin
  <2>2. Good(c) /\ Begun(f, c, t, p, status)
    BY <1>3, <2>1, WithSessionGood
  <2>3. t \in Runnable(f) \/ TakenOver(t)'
    BY <1>1
  <2>. QED BY <2>2, <2>3, StartMoves DEF Begun
<1>4. ASSUME NEW p \in Pids, Spawn(w, p, t, how),
             Compute(w, WithSession(file, t, p, "running"))
      PROVE  CleanInv'
  <2>1. PICK c \in Contents : c = WithSession(file, t, p, "running")
    BY <1>2
  <2>2. ASSUME clean, Good(f)
        PROVE  Distinct' /\ LiveTaken' /\ Good(c)' /\ Moves(f, c)' /\ c.era = f.era
    <3>1. Moves(f, c)'
      BY <1>3, <2>1, <2>2
    <3>2. how = "tick" => f.tasks[t].status = "queued"
      BY <1>1 DEF Runnable
    <3>3. Distinct /\ LiveTaken
      BY <2>2 DEF CleanInv
    <3>4. /\ MayBegin(f, t) /\ f.nextSession = file.nextSession /\ f.era = file.era
          /\ c = WithSession(f, t, p, "running")
      BY <1>0, <1>1, <2>1 DEF MayBegin
    <3>5. Distinct' /\ LiveTaken' /\ Good(c)' /\ c.era = f.era
      BY <1>0, <1>4, <2>2, <3>2, <3>3, <3>4, SpawnGood
    <3>. QED BY <3>1, <3>5
  <2>. QED BY <1>1, <1>4, <2>1, <2>2, ComputeClean
<1>5. ASSUME UNCHANGED procs, NEW status \in {"running", "failed"},
             Compute(w, WithSession(file, t, None, status))
      PROVE  CleanInv'
  <2>1. PICK c \in Contents : c = WithSession(file, t, None, status)
    BY <1>2
  <2>2. Good(f) => Good(c) /\ Moves(f, c)'
    BY <1>3, <2>1
  <2>. QED BY <1>1, <1>5, <2>1, <2>2, QuietClean
<1>. QED BY <1>4, <1>5 DEF Launch

LEMMA DispatchLiveClean ==
    ASSUME SupInv, CleanInv, NEW h \in Handlers, NEW a \in Agents, DispatchLive(h, a)
    PROVE  CleanInv'
<1>. DEFINE task == [status |-> "running", deps |-> {}, agent |-> {a}]
<1>0. SupTypeOK /\ file \in Contents /\ h \in Workers /\ task \in Tasks /\ "live" \in Starters
  BY DEF SupInv, SupTypeOK, Workers, Tasks, TaskStatus, Starters
<1>t. PICK t \in TaskIds : t = file.nextTask
  BY <1>0, SupAssumption DEF DispatchLive, Contents, TaskIds
<1>1. PICK p \in Pids :
        /\ Spawn(h, p, t, "live")
        /\ live' = live \cup {p}
        /\ Compute(h, WithSession(WithTask([file EXCEPT !.agents = @ \cup {a}], task),
                                  t, p, "running"))
  BY <1>t DEF DispatchLive
<1>2. TakenOver(t)' /\ forced \subseteq forced'
  <2>1. TakeOver(t, "run")
    BY <1>t DEF DispatchLive
  <2>2. forced' = forced \cup {<<t, "run", file.era>>} /\ <<t, "run", file.era>>[1] = t
    BY <2>1 DEF TakeOver
  <2>. QED BY <2>2 DEF TakenOver
<1>3. file.nextSession <= MaxSessions
  BY <1>0, RoomForSession DEF DispatchLive
<1>4. PICK f \in Contents : f = file
  BY <1>0
<1>5. PICK e \in Contents : e = [f EXCEPT !.agents = @ \cup {a}]
  BY DEF Contents
<1>6. e.nextTask = t /\ e.nextSession = f.nextSession /\ e.tasks = f.tasks /\ e.era = f.era
  BY <1>t, <1>4, <1>5 DEF Contents
<1>7. WithTask(e, task) \in Contents
  <2>1. WithTask(e, task) = [[e EXCEPT !.tasks = [e.tasks EXCEPT ![t] = task]]
                               EXCEPT !.nextTask = t + 1]
    BY <1>6 DEF WithTask, Contents
  <2>2. [e.tasks EXCEPT ![t] = task] \in [TaskIds -> Tasks]
    BY <1>0 DEF Contents
  <2>3. t + 1 \in 1..(MaxTasks + 1)
    BY <1>2, SupAssumption DEF TaskIds
  <2>. HIDE DEF task
  <2>. QED BY <2>1, <2>2, <2>3 DEF Contents
<1>8. PICK g \in Contents : g = WithTask(e, task)
  BY <1>7
<1>9. g.nextSession = f.nextSession /\ g.era = f.era
  BY <1>6, <1>8 DEF WithTask, Contents
<1>10. PICK c \in Contents : c = WithSession(g, t, p, "running")
  BY <1>0, <1>2, <1>3, <1>4, <1>9, WithSessionIsContent
<1>11. Compute(h, c)
  BY <1>1, <1>4, <1>5, <1>8, <1>10
<1>12. ASSUME clean, Good(f)
       PROVE  Distinct' /\ LiveTaken' /\ Good(c)' /\ Moves(f, c)' /\ c.era = f.era
  <2>1. Good(e)
    BY <1>5, <1>12, WithAgentMoves
  <2>2. g = WithTask(e, task) /\ e.nextTask = t /\ e.nextTask \in TaskIds
    BY <1>2, <1>6, <1>8
  <2>3. /\ Good(g) /\ e.tasks[t] = NoTask
        /\ \A u \in TaskIds : g.tasks[u] = IF u = t THEN task ELSE e.tasks[u]
    <3>. HIDE DEF task
    <3>1. /\ Good(g) /\ e.tasks[e.nextTask] = NoTask
          /\ \A u \in TaskIds : g.tasks[u] = IF u = e.nextTask THEN task ELSE e.tasks[u]
      BY <1>0, <2>1, <2>2, WithTaskGood
    <3>. QED BY <2>2, <3>1
  <2>4. /\ g.tasks[t].status # "none" /\ g.nextSession = file.nextSession
        /\ g.era = file.era /\ MayBegin(g, t)
    BY <1>2, <1>3, <1>4, <1>9, <2>3 DEF MayBegin
  <2>5. Begun(g, c, t, p, "running")
    <3>1. p \in Pids \cup {None} /\ "running" \in {"running", "failed"}
      OBVIOUS
    <3>. QED BY <1>2, <1>10, <2>3, <2>4, <3>1, WithSessionGood
  <2>6. Distinct /\ LiveTaken
    BY <1>12 DEF CleanInv
  <2>7. Distinct' /\ LiveTaken' /\ Good(c)' /\ c.era = f.era
    <3>1. "live" = "live" /\ TakenOver(t)' /\ live' = live \cup {p}
      BY <1>1, <1>2
    <3>2. "live" # "tick"
      OBVIOUS
    <3>. QED BY <1>0, <1>1, <1>2, <1>9, <1>10, <2>3, <2>4, <2>6, <3>1, <3>2, SpawnGood
  <2>8. Turned(f, c, t, "running")
    <3>1. \A u \in TaskIds \ {t} : g.tasks[u] = f.tasks[u]
      BY <1>6, <2>3
    <3>2. g.tasks[t].deps = f.tasks[t].deps
      BY <1>2, <1>6, <2>3 DEF NoTask
    <3>3. Waits(g) = Waits(f)
      BY <3>1, <3>2 DEF Waits
    <3>4. [Statuses(g) EXCEPT ![t] = "running"] = [Statuses(f) EXCEPT ![t] = "running"]
      BY <3>1 DEF Statuses
    <3>. QED BY <2>5, <3>3, <3>4 DEF Begun, Turned
  <2>9. Moves(f, c)'
    BY <1>2, <2>8, StartMoves
  <2>. QED BY <2>7, <2>9
<1>. QED BY <1>0, <1>4, <1>11, <1>12, ComputeClean

-----------------------------------------------------------------------------
(* The steps                                                                 *)

LEMMA SaveClean ==
    ASSUME SupInv, CleanInv, NEW w \in Workers, OpenForWriting(w) \/ Write(w)
    PROVE  CleanInv'
<1>0. SupTypeOK /\ NoBirth /\ UNCHANGED <<procs, live, forced, mishaps>>
  BY DEF SupInv, OpenForWriting, Write, NoBirth
<1>1. CASE OpenForWriting(w)
  <2>1. \A x \in Workers : Busy(x)' <=> Busy(x)
    BY <1>0, <1>1 DEF OpenForWriting, Busy
  <2>. QED BY <1>0, <1>1, <2>1, WritersStay DEF OpenForWriting, clean
<1>2. CASE Write(w)
  <2>. SUFFICES ASSUME clean
                PROVE  /\ Distinct' /\ LiveTaken' /\ Good(file)'
                       /\ \A x \in Workers : ~Busy(x)'
    BY <1>0 DEF CleanInv, clean
  <2>1. Distinct' /\ LiveTaken'
    BY <1>0, DistinctStays, LiveTakenStays DEF CleanInv
  <2>2. Busy(w)
    BY <1>2 DEF Write, Busy
  <2>3. \A x \in Workers : ~Busy(x)'
    <3>1. \A x \in Workers : Busy(x) => x = w
      BY <2>2 DEF CleanInv
    <3>. QED BY <1>0, <1>2, <3>1 DEF Write, Busy
  <2>4. PICK c \in Contents : c = draft[w] /\ Good(c)
    BY <1>0, <2>2 DEF CleanInv, SupTypeOK
  <2>5. Good(c)' /\ file' = c
    BY <1>0, <1>2, <2>4, GoodStays DEF Write
  <2>. QED BY <2>1, <2>3, <2>5 DEF Good, Numbered, Known
<1>. QED BY <1>1, <1>2

\* Workers that are dropped in a step that leaves no trace had nothing in hand.
LEMMA DropClean ==
    ASSUME SupInv, CleanInv, NEW W \in SUBSET Workers, Drop(W), NoBirth,
           forced \subseteq forced', live' \subseteq live
    PROVE  CleanInv'
<1>0. SupTypeOK
  BY DEF SupInv
<1>1. ASSUME clean'
      PROVE  /\ clean
             /\ \A w \in Workers : (Busy(w)' <=> Busy(w)) /\ (Busy(w) => draft'[w] = draft[w])
  <2>1. clean /\ \A w \in W : ~Busy(w)
    BY <1>0, <1>1 DEF Drop, Mishap, clean, Busy, SupTypeOK
  <2>. QED BY <2>1 DEF Drop, Busy
<1>. QED BY <1>1, WritersStay DEF Drop

LEMMA RequestClean ==
    ASSUME SupInv, CleanInv, NEW h \in Handlers, Request(h)
    PROVE  CleanInv'
<1>0. /\ h \in Workers /\ SupTypeOK
      /\ file \in Contents /\ Believable(file)
  BY DEF Workers, SupInv, SupTypeOK
<1>f. PICK f \in Contents : f = file
  BY <1>0
<1>1. CASE Reinit(h)
  <2>1. inits + 1 \in Eras
    BY <1>0, <1>1, SupAssumption DEF Reinit, SupTypeOK, Eras
  <2>2. PICK c \in Contents : /\ c = [Fresh EXCEPT !.era = inits + 1] /\ c.era = inits + 1
                              /\ c.tasks = Fresh.tasks /\ c.sessions = Fresh.sessions
    BY <2>1, FreshIsContent
  <2>3. Good(c)
    <3>1. Numbered(c)
      BY <2>2 DEF Numbered, Fresh
    <3>2. ASSUME NEW p \in Pids PROVE procs[p].era # c.era
      <4>1. procs[p].era \in Int /\ inits \in Int /\ procs[p].era <= inits
        BY <1>0, SupAssumption DEF SupInv, Dated, SupTypeOK, Processes, Eras
      <4>. QED BY <2>2, <4>1
    <3>. QED BY <3>1, <3>2 DEF Good, Known
  <2>4. Moves(f, c)'
    <3>1. Statuses(c) = [t \in TaskIds |-> "none"] /\ Waits(c) = [t \in TaskIds |-> {}]
      BY <2>2 DEF Fresh, NoTask, Statuses, Waits
    <3>. QED BY <3>1 DEF Moves, Statuses, Waits
  <2>5. forced \subseteq forced' /\ live' \subseteq live /\ UNCHANGED procs /\ Compute(h, c)
    BY <1>1, <2>2 DEF Reinit
  <2>. QED BY <1>0, <1>f, <2>3, <2>4, <2>5, QuietClean
<1>2. ASSUME NEW a \in Agents, AddAgent(h, a) PROVE CleanInv'
  <2>1. PICK c \in Contents : c = [f EXCEPT !.agents = @ \cup {a}]
    BY <1>0, <1>f, WithAgentKeeps
  <2>2. Good(f) => Good(c) /\ Moves(f, c)
    BY <2>1, WithAgentMoves
  <2>3. forced \subseteq forced' /\ live' \subseteq live /\ UNCHANGED procs /\ Compute(h, c)
    BY <1>2, <1>f, <2>1 DEF AddAgent
  <2>. QED BY <1>0, <1>f, <2>2, <2>3, QuietClean, MovesStay
<1>3. ASSUME NEW deps \in Dependencies, NEW a \in Assignments, Enqueue(h, deps, a)
      PROVE  CleanInv'
  <2>1. PICK task \in Tasks : task = [status |-> "queued", deps |-> deps, agent |-> a]
    BY SupAssumption DEF Tasks, TaskStatus, TaskIds
  <2>2. f.nextTask \in TaskIds
    BY <1>f, <1>3, SupAssumption DEF Enqueue, Contents, TaskIds
  <2>3. PICK c \in Contents : c = WithTask(f, task)
    BY <1>0, <1>f, <2>1, <2>2, WithTaskKeeps
  <2>4. Good(f) => Good(c) /\ Moves(f, c)
    BY <2>1, <2>2, <2>3, QueuedMoves
  <2>5. forced \subseteq forced' /\ live' \subseteq live /\ UNCHANGED procs /\ Compute(h, c)
    BY <1>3, <1>f, <2>1, <2>3 DEF Enqueue
  <2>. QED BY <1>0, <1>f, <2>4, <2>5, QuietClean, MovesStay
<1>4. ASSUME NEW a \in Agents, DispatchQueued(h, a) PROVE CleanInv'
  <2>1. PICK task \in Tasks : task = [status |-> "queued", deps |-> {}, agent |-> {a}]
    BY DEF Tasks, TaskStatus
  <2>2. PICK g \in Contents : g = [f EXCEPT !.agents = @ \cup {a}] /\ Believable(g)
    BY <1>0, <1>f, WithAgentKeeps
  <2>3. g.tasks = f.tasks /\ g.nextTask = f.nextTask
    BY <2>2 DEF Contents
  <2>4. g.nextTask \in TaskIds
    BY <1>f, <1>4, <2>3, SupAssumption DEF DispatchQueued, Contents, TaskIds
  <2>5. PICK c \in Contents : c = WithTask(g, task)
    BY <1>0, <2>1, <2>2, <2>4, WithTaskKeeps
  <2>6. Good(f) => Good(g)
    BY <2>2, WithAgentMoves
  <2>7. Good(f) => Good(c) /\ Moves(f, c)
    BY <2>1, <2>3, <2>4, <2>5, <2>6, QueuedMoves
  <2>8. forced \subseteq forced' /\ live' \subseteq live /\ UNCHANGED procs /\ Compute(h, c)
    BY <1>4, <1>f, <2>1, <2>2, <2>5 DEF DispatchQueued
  <2>. QED BY <1>0, <1>f, <2>7, <2>8, QuietClean, MovesStay
<1>5. ASSUME NEW a \in Agents, DispatchLive(h, a) PROVE CleanInv'
  BY <1>5, DispatchLiveClean
<1>6. CASE Touch(h)
  <2>1. Moves(f, f)'
    BY DEF Moves
  <2>2. forced \subseteq forced' /\ live' \subseteq live /\ UNCHANGED procs /\ Compute(h, f)
    BY <1>6, <1>f DEF Touch
  <2>. QED BY <1>0, <1>f, <2>1, <2>2, QuietClean
<1>7. CASE Tick(h)
  <2>1. PICK t \in TaskIds : IsFirst(t, Runnable(file)) /\ Launch(h, t, "tick", TRUE)
    BY <1>7 DEF Tick
  <2>2. t \in Runnable(file) /\ file.tasks[t].status # "none"
    BY <2>1 DEF IsFirst, Runnable
  <2>3. forced \subseteq forced' /\ live' \subseteq live /\ "tick" \in {"tick", "run"}
        /\ "tick" # "run"
    BY <1>7 DEF Tick
  <2>. QED BY <1>0, <2>1, <2>2, <2>3, LaunchClean
<1>8. CASE ServerPoll(h)
  <2>1. PICK c \in Contents : c = Polled(f, EndedSessions(f, {}), {})
    BY PolledIsContent
  <2>2. Good(f) => Good(c) /\ Moves(f, c)
    BY <2>1, PolledMoves
  <2>3. forced \subseteq forced' /\ live' \subseteq live /\ UNCHANGED procs /\ Compute(h, c)
    BY <1>8, <1>f, <2>1 DEF ServerPoll
  <2>. QED BY <1>0, <1>f, <2>2, <2>3, QuietClean, MovesStay
<1>9. ASSUME NEW errors \in SUBSET SessionIds, CliPoll(h, errors) PROVE CleanInv'
  <2>1. PICK c \in Contents : c = Polled(f, EndedSessions(f, errors), errors)
    BY PolledIsContent
  <2>2. errors \in SUBSET Watched(f)
    BY <1>9, <1>f DEF CliPoll
  <2>3. Good(f) => Good(c) /\ Moves(f, c)
    BY <2>1, <2>2, PolledMoves
  <2>4. forced \subseteq forced' /\ live' \subseteq live /\ UNCHANGED procs /\ Compute(h, c)
    BY <1>9, <1>f, <2>1 DEF CliPoll
  <2>. QED BY <1>0, <1>f, <2>3, <2>4, QuietClean, MovesStay
<1>10. ASSUME NEW t \in TaskIds, RunAgent(h, t) PROVE CleanInv'
  <2>1. forced' = forced \cup {<<t, "run", file.era>>} /\ <<t, "run", file.era>>[1] = t
    BY <1>10 DEF RunAgent, TakeOver
  <2>2. forced \subseteq forced' /\ TakenOver(t)'
    BY <2>1 DEF TakenOver
  <2>3. /\ Launch(h, t, "run", TRUE) /\ file.tasks[t].status # "none"
        /\ live' \subseteq live /\ "run" \in {"tick", "run"} /\ "run" # "tick"
    BY <1>10 DEF RunAgent
  <2>. QED BY <1>0, <2>2, <2>3, LaunchClean
<1>11. ASSUME NEW t \in TaskIds, NEW status \in {"done", "failed"},
              Settle(h, t, status)
       PROVE  CleanInv'
  <2>1. PICK c \in Contents : c = SettledByHand(f, t, status)
    BY SettledIsContent
  <2>2. forced' = forced \cup {<<t, status, f.era>>} /\ <<t, status, f.era>>[1] = t
    BY <1>11, <1>f DEF Settle, TakeOver
  <2>3. /\ forced \subseteq forced' /\ TakenOver(t)' /\ UNCHANGED procs
        /\ <<t, status, f.era>> \in forced'
    BY <1>11, <2>2 DEF TakenOver, Settle
  <2>4. Good(f) => Good(c)' /\ Moves(f, c)'
    BY <1>11, <1>f, <2>1, <2>3, SettledMoves DEF Settle
  <2>5. live' \subseteq live /\ UNCHANGED procs /\ Compute(h, c)
    BY <1>11, <1>f, <2>1 DEF Settle
  <2>. QED BY <1>0, <1>f, <2>3, <2>4, <2>5, QuietClean
<1>12. ASSUME NEW p \in Pids, FinishLive(h, p) PROVE CleanInv'
  <2>1. /\ UNCHANGED <<procs, forced>> /\ live' \subseteq live /\ Exited(p) /\ p \in live
        /\ forced \subseteq forced' /\ NoBirth
    BY <1>12 DEF FinishLive, Exited, NoBirth
  <2>2. CASE torn
    <3>1. UNCHANGED <<file, stage, draft, mishaps>>
      BY <1>12, <2>2 DEF FinishLive
    <3>. QED BY <2>1, <3>1, WritersStay DEF Busy, clean
  <2>3. CASE ~torn
    <3>1. PICK c \in Contents : c = LiveExit(f, p)
      BY <1>0, <1>f, <2>1, LiveExitKeeps DEF SupInv, Waited
    <3>2. ASSUME clean, Good(f) PROVE Good(c) /\ Moves(f, c)
      <4>1. Distinct /\ LiveTaken
        BY <3>2 DEF CleanInv
      <4>. QED BY <2>1, <3>1, <3>2, <4>1, LiveExitMoves
    <3>3. Compute(h, c)
      BY <1>12, <1>f, <2>3, <3>1 DEF FinishLive
    <3>. QED BY <1>0, <1>f, <2>1, <3>2, <3>3, QuietClean, MovesStay
  <2>. QED BY <2>2, <2>3
<1>13. CASE CommandKilled(h)
  <2>1. {h} \in SUBSET Workers /\ NoBirth /\ Drop({h})
        /\ forced \subseteq forced' /\ live' \subseteq live
    BY <1>0, <1>13 DEF CommandKilled, NoBirth
  <2>. QED BY <2>1, DropClean
<1>. QED
  BY <1>1, <1>2, <1>3, <1>4, <1>5, <1>6, <1>7, <1>8, <1>9, <1>10, <1>11, <1>12, <1>13
  DEF Request

LEMMA DaemonClean ==
    ASSUME SupInv, CleanInv, NEW d \in Daemons,
           \/ DaemonCycle(d) \/ DaemonStart(d) \/ DaemonStop(d) \/ DaemonKilled(d)
    PROVE  CleanInv'
<1>0. d \in Workers /\ SupTypeOK /\ file \in Contents
  BY DEF Workers, SupInv, SupTypeOK
<1>f. PICK f \in Contents : f = file
  BY <1>0
<1>1. ASSUME NEW from, NEW to, DaemonMove(d, from, to)
      PROVE  forced \subseteq forced' /\ live' \subseteq live
  BY <1>1 DEF DaemonMove
<1>2. ASSUME NoSave, NEW from, NEW to, DaemonMove(d, from, to) PROVE CleanInv'
  <2>1. NoBirth /\ UNCHANGED <<file, stage, draft, mishaps>>
    BY <1>2 DEF NoSave, NoBirth
  <2>. QED BY <1>1, <1>2, <2>1, WritersStay DEF Busy, clean
<1>3. CASE DaemonPoll(d)
  <2>1. DaemonMove(d, "poll", "tick")
    BY <1>3 DEF DaemonPoll
  <2>2. CASE EndedSessions(file, {}) = {}
    BY <1>2, <1>3, <2>1, <2>2 DEF DaemonPoll
  <2>3. CASE EndedSessions(file, {}) # {}
    <3>1. PICK c \in Contents : c = Polled(f, EndedSessions(f, {}), {})
      BY PolledIsContent
    <3>2. Good(f) => Good(c) /\ Moves(f, c)
      BY <3>1, PolledMoves
    <3>3. UNCHANGED procs /\ Compute(d, c)
      BY <1>3, <1>f, <2>3, <3>1 DEF DaemonPoll
    <3>4. forced \subseteq forced' /\ live' \subseteq live
      BY <1>1, <2>1
    <3>. QED BY <1>0, <1>f, <3>2, <3>3, <3>4, QuietClean, MovesStay
  <2>. QED BY <2>2, <2>3
<1>4. CASE DaemonTick(d)
  <2>1. DaemonMove(d, "tick", "poll")
    BY <1>4 DEF DaemonTick
  <2>2. CASE Runnable(file) = {}
    BY <1>2, <1>4, <2>1, <2>2 DEF DaemonTick
  <2>3. CASE Runnable(file) # {}
    <3>1. PICK t \in TaskIds : IsFirst(t, Runnable(file)) /\ Launch(d, t, "tick", FALSE)
      BY <1>4, <2>3 DEF DaemonTick
    <3>2. t \in Runnable(file) /\ file.tasks[t].status # "none"
      BY <3>1 DEF IsFirst, Runnable
    <3>3. /\ forced \subseteq forced' /\ live' \subseteq live
          /\ "tick" \in {"tick", "run"} /\ "tick" # "run"
      BY <1>1, <2>1
    <3>. QED BY <1>0, <3>1, <3>2, <3>3, LaunchClean
  <2>. QED BY <2>2, <2>3
<1>5. CASE DaemonGivesUp(d)
  BY <1>2, <1>5 DEF DaemonGivesUp
<1>6. CASE DaemonStart(d)
  BY <1>2, <1>6 DEF DaemonStart
<1>7. CASE DaemonStop(d) \/ DaemonKilled(d)
  <2>1. /\ {d} \in SUBSET Workers /\ Drop({d})
        /\ forced \subseteq forced' /\ live' \subseteq live
    BY <1>0, <1>7 DEF DaemonStop, DaemonKilled
  <2>2. NoBirth
    <3>1. CASE DaemonStop(d)
      <4>1. ASSUME NEW p \in Pids, procs[p].state = "live"
            PROVE  /\ [procs[p] EXCEPT !.state = "ok"].task = procs[p].task
                   /\ [procs[p] EXCEPT !.state = "ok"].session = procs[p].session
                   /\ [procs[p] EXCEPT !.state = "ok"].how = procs[p].how
                   /\ [procs[p] EXCEPT !.state = "ok"].era = procs[p].era
                   /\ [procs[p] EXCEPT !.state = "ok"].state = "ok"
        <5>1. procs[p] \in Processes
          BY <1>0 DEF SupTypeOK
        <5>. QED BY <5>1 DEF Processes
      <4>2. \A p \in Pids : \/ procs'[p] = procs[p]
                            \/ /\ procs[p].state = "live"
                               /\ procs'[p] = [procs[p] EXCEPT !.state = "ok"]
        BY <3>1 DEF DaemonStop
      <4>. QED BY <4>1, <4>2 DEF NoBirth
    <3>2. CASE DaemonKilled(d)
      BY <3>2 DEF DaemonKilled, NoBirth
    <3>. QED BY <1>7, <3>1, <3>2
  <2>. QED BY <2>1, <2>2, DropClean
<1>. QED BY <1>3, <1>4, <1>5, <1>6, <1>7 DEF DaemonCycle

LEMMA OtherClean ==
    ASSUME SupInv, CleanInv,
           (\E p \in Pids : ProcessExit(p)) \/ ServerRestart \/ UNCHANGED supVars
    PROVE  CleanInv'
<1>0. SupTypeOK
  BY DEF SupInv
<1>1. ASSUME NEW p \in Pids, ProcessExit(p) PROVE CleanInv'
  <2>1. PICK s \in {"ok", "failed"} : procs' = [procs EXCEPT ![p].state = s]
    BY <1>1 DEF ProcessExit
  <2>2. NoBirth
    BY <1>0, <1>1, <2>1 DEF ProcessExit, SupTypeOK, Processes, NoBirth
  <2>. QED BY <1>1, <2>2, WritersStay DEF ProcessExit, Busy, clean
<1>2. CASE ServerRestart
  <2>1. /\ Handlers \in SUBSET Workers /\ Drop(Handlers) /\ NoBirth
        /\ forced \subseteq forced' /\ live' \subseteq live
    BY <1>2 DEF ServerRestart, Workers, NoBirth
  <2>. QED BY <2>1, DropClean
<1>3. CASE UNCHANGED supVars
  <2>1. NoBirth
    BY <1>3 DEF supVars, NoBirth
  <2>. QED BY <1>3, <2>1, WritersStay DEF supVars, Busy, clean
<1>. QED BY <1>1, <1>2, <1>3

LEMMA CleanInvariant == SupSpec => []CleanInv
<1>1. SupInv /\ CleanInv /\ [SupNext]_supVars => CleanInv'
  BY SaveClean, RequestClean, DaemonClean, OtherClean DEF SupNext, Save
<1>. QED BY CleanInit, SupInvariant, <1>1, PTL DEF SupSpec

-----------------------------------------------------------------------------
(* For every instance: as long as no two writers of the file overlap and none
   dies, whatever is queued, polled, taken over or restarted, the scheduler
   starts one agent for a task and never another before the next init.       *)
THEOREM TasksRunOnce == SupSpec => []RunsOnce
<1>1. CleanInv => RunsOnce
  BY DEF CleanInv, Distinct, Born, RunsOnce
<1>. QED BY <1>1, CleanInvariant, PTL

(* ... and until then every agent process that runs is recorded in its
   session, in the file or in what a worker is about to write, where every
   poll looks for it; only a failed probe, somebody who settles the task by
   hand and the end of a live session of an earlier era with the number of
   the session take a running agent from the polls.                          *)
THEOREM NoAgentIsForgotten == SupSpec => []NoOrphan
<1>1. CleanInv => NoOrphan
  <2>. SUFFICES ASSUME CleanInv, clean, NEW p \in Pids, procs[p].state = "live",
                       procs[p].era = file.era
                PROVE  Shadowed(p) \/ \E c \in Held : c.era = procs[p].era /\ Recorded(c, p)
    BY DEF NoOrphan
  <2>1. PICK c \in Held : Good(c) /\ c.era = file.era
    <3>1. ASSUME NEW w \in Workers, Busy(w)
          PROVE  \E c \in Held : Good(c) /\ c.era = file.era
      <4>1. Good(draft[w]) /\ (draft[w].era # file.era => Good(file))
        BY <3>1 DEF CleanInv
      <4>2. draft[w] \in Held /\ file \in Held
        BY <3>1 DEF Held, Busy
      <4>. QED BY <4>1, <4>2
    <3>2. CASE \A w \in Workers : ~Busy(w)
      BY <3>2 DEF CleanInv, Held
    <3>. QED BY <3>1, <3>2
  <2>. QED BY <2>1 DEF Good, Known, Born
<1>. QED BY <1>1, CleanInvariant, PTL

-----------------------------------------------------------------------------
(* The file moves as a board of tasks                                        *)

Stepped == Board!BoardNext \/ UNCHANGED Board!boardVars

\* A step that does not write the file at most takes one task over.
FileKept ==
    /\ file' = file
    /\ \/ forced' = forced
       \/ \E t \in TaskIds, how \in {"run", "done", "failed"}, e \in Eras :
              forced' = forced \cup {<<t, how, e>>}

LEMMA OnlyWritesMoveTheFile ==
    ASSUME SupInv, SupNext, \A w \in Workers : ~Write(w)
    PROVE  FileKept
<1>0. file \in Contents /\ file.era \in Eras
  BY DEF SupInv, SupTypeOK, Contents
<1>1. ASSUME NEW w \in Workers, OpenForWriting(w) PROVE FileKept
  BY <1>1 DEF OpenForWriting, FileKept
<1>2. ASSUME NEW h \in Handlers, Request(h) PROVE FileKept
  <2>1. ASSUME NEW a \in Agents, DispatchLive(h, a) PROVE FileKept
    <3>1. PICK t \in TaskIds : t = file.nextTask
      BY <1>0, <2>1, SupAssumption DEF DispatchLive, Contents, TaskIds
    <3>. QED BY <1>0, <2>1, <3>1 DEF DispatchLive, TakeOver, Compute, FileKept
  <2>2. ASSUME NEW t \in TaskIds, RunAgent(h, t) PROVE FileKept
    BY <1>0, <2>2 DEF RunAgent, TakeOver, Launch, Compute, FileKept
  <2>3. ASSUME NEW t \in TaskIds, NEW s \in {"done", "failed"}, Settle(h, t, s)
        PROVE  FileKept
    BY <1>0, <2>3 DEF Settle, TakeOver, Compute, FileKept
  <2>4. CASE Reinit(h) \/ Touch(h) \/ ServerPoll(h) \/ CommandKilled(h)
    BY <2>4 DEF Reinit, Touch, ServerPoll, CommandKilled, Drop, Compute, FileKept
  <2>5. CASE Tick(h)
    BY <2>5 DEF Tick, Launch, Compute, FileKept
  <2>6. ASSUME NEW a \in Agents, AddAgent(h, a) \/ DispatchQueued(h, a) PROVE FileKept
    BY <2>6 DEF AddAgent, DispatchQueued, Compute, FileKept
  <2>7. ASSUME NEW deps \in Dependencies, NEW a \in Assignments, Enqueue(h, deps, a)
        PROVE  FileKept
    BY <2>7 DEF Enqueue, Compute, FileKept
  <2>8. ASSUME NEW errors \in SUBSET SessionIds, CliPoll(h, errors) PROVE FileKept
    BY <2>8 DEF CliPoll, Compute, FileKept
  <2>9. ASSUME NEW p \in Pids, FinishLive(h, p) PROVE FileKept
    BY <2>9 DEF FinishLive, Compute, FileKept
  <2>. QED BY <1>2, <2>1, <2>2, <2>3, <2>4, <2>5, <2>6, <2>7, <2>8, <2>9 DEF Request
<1>3. ASSUME NEW d \in Daemons,
             \/ DaemonCycle(d) \/ DaemonStart(d) \/ DaemonStop(d) \/ DaemonKilled(d)
      PROVE  FileKept
  <2>1. CASE DaemonPoll(d)
    BY <2>1 DEF DaemonPoll, DaemonMove, NoSave, Compute, FileKept
  <2>2. CASE DaemonTick(d)
    BY <2>2 DEF DaemonTick, DaemonMove, NoSave, Launch, Compute, FileKept
  <2>3. CASE DaemonGivesUp(d) \/ DaemonStart(d)
    BY <2>3 DEF DaemonGivesUp, DaemonStart, DaemonMove, NoSave, FileKept
  <2>4. CASE DaemonStop(d) \/ DaemonKilled(d)
    BY <2>4 DEF DaemonStop, DaemonKilled, Drop, FileKept
  <2>. QED BY <1>3, <2>1, <2>2, <2>3, <2>4 DEF DaemonCycle
<1>4. CASE (\E p \in Pids : ProcessExit(p)) \/ ServerRestart
  BY <1>4 DEF ProcessExit, ServerRestart, Drop, FileKept
<1>. QED BY <1>1, <1>2, <1>3, <1>4 DEF SupNext, Save

\* Every operation counts its overlaps, and none takes the count back.
LEMMA NothingIsMended ==
    ASSUME SupInv, SupNext, clean'
    PROVE  clean
<1>0. mishaps \in Nat
  BY DEF SupInv, SupTypeOK
<1>1. ASSUME NEW b, Mishap(b) PROVE clean
  BY <1>0, <1>1 DEF Mishap, clean
<1>2. ASSUME UNCHANGED mishaps PROVE clean
  BY <1>2 DEF clean
<1>3. ASSUME NEW w, NEW c, Compute(w, c) PROVE clean
  BY <1>1, <1>3 DEF Compute
<1>4. ASSUME NEW W, Drop(W) PROVE clean
  BY <1>1, <1>4 DEF Drop
<1>5. ASSUME NEW w, NEW t, NEW how, NEW mayOmit, Launch(w, t, how, mayOmit) PROVE clean
  BY <1>3, <1>5 DEF Launch
<1>6. ASSUME NEW h \in Handlers, Request(h) PROVE clean
  <2>1. CASE Reinit(h)
    BY <1>3, <2>1 DEF Reinit
  <2>2. ASSUME NEW a \in Agents, AddAgent(h, a) \/ DispatchQueued(h, a) \/ DispatchLive(h, a)
        PROVE  clean
    BY <1>3, <2>2 DEF AddAgent, DispatchQueued, DispatchLive
  <2>3. ASSUME NEW deps \in Dependencies, NEW a \in Assignments, Enqueue(h, deps, a)
        PROVE  clean
    BY <1>3, <2>3 DEF Enqueue
  <2>4. CASE Touch(h) \/ ServerPoll(h)
    BY <1>3, <2>4 DEF Touch, ServerPoll
  <2>5. CASE Tick(h)
    BY <1>5, <2>5 DEF Tick
  <2>6. ASSUME NEW t \in TaskIds, RunAgent(h, t) PROVE clean
    BY <1>5, <2>6 DEF RunAgent
  <2>7. ASSUME NEW t \in TaskIds, NEW s \in {"done", "failed"}, Settle(h, t, s) PROVE clean
    BY <1>3, <2>7 DEF Settle
  <2>8. ASSUME NEW errors \in SUBSET SessionIds, CliPoll(h, errors) PROVE clean
    BY <1>3, <2>8 DEF CliPoll
  <2>9. ASSUME NEW p \in Pids, FinishLive(h, p) PROVE clean
    BY <1>2, <1>3, <2>9 DEF FinishLive
  <2>10. CASE CommandKilled(h)
    BY <1>4, <2>10 DEF CommandKilled
  <2>. QED BY <1>6, <2>1, <2>2, <2>3, <2>4, <2>5, <2>6, <2>7, <2>8, <2>9, <2>10 DEF Request
<1>7. ASSUME NEW d \in Daemons,
             \/ DaemonCycle(d) \/ DaemonStart(d) \/ DaemonStop(d) \/ DaemonKilled(d)
      PROVE  clean
  <2>1. CASE DaemonPoll(d)
    BY <1>2, <1>3, <2>1 DEF DaemonPoll, NoSave
  <2>2. CASE DaemonTick(d)
    BY <1>2, <1>5, <2>2 DEF DaemonTick, NoSave
  <2>3. CASE DaemonGivesUp(d) \/ DaemonStart(d)
    BY <1>2, <2>3 DEF DaemonGivesUp, DaemonStart, NoSave
  <2>4. CASE DaemonStop(d) \/ DaemonKilled(d)
    BY <1>4, <2>4 DEF DaemonStop, DaemonKilled
  <2>. QED BY <1>7, <2>1, <2>2, <2>3, <2>4 DEF DaemonCycle
<1>8. CASE Save \/ \E p \in Pids : ProcessExit(p)
  BY <1>2, <1>8 DEF Save, OpenForWriting, Write, ProcessExit
<1>9. CASE ServerRestart
  BY <1>4, <1>9 DEF ServerRestart
<1>. QED BY <1>6, <1>7, <1>8, <1>9 DEF SupNext

\* What a worker writes is one move of the board away from what is there.
LEMMA WriteSteps ==
    ASSUME SupInv, CleanInv, NEW w \in Workers, Write(w), clean, clean'
    PROVE  Stepped
<1>0. SupTypeOK /\ Busy(w)
  BY DEF SupInv, Write, Busy
<1>1. PICK f \in Contents : f = file
  BY <1>0 DEF SupTypeOK
<1>2. PICK d \in Contents : d = draft[w]
  BY <1>0 DEF SupTypeOK
<1>3. file' = d /\ forced' = forced
  BY <1>2 DEF Write
<1>4. Moves(f, d)
  BY <1>0, <1>1, <1>2 DEF CleanInv
<1>5. \A t : TakenOver(t)' <=> TakenOver(t)
  BY <1>3 DEF TakenOver
<1>6. {t \in TaskIds : TakenOver(t)}' = {t \in TaskIds : TakenOver(t)}
  BY <1>5
<1>7. CASE Statuses(d) = Statuses(f) /\ Waits(d) = Waits(f)
  BY <1>1, <1>3, <1>6, <1>7 DEF Stepped, Board!boardVars, Statuses, Waits
<1>8. ASSUME NEW t \in TaskIds, NEW deps \in SUBSET TaskIds, f.tasks[t].status = "none",
             Statuses(d) = [Statuses(f) EXCEPT ![t] = "queued"],
             Waits(d) = [Waits(f) EXCEPT ![t] = deps]
      PROVE  Board!Queue(t, deps)
  BY <1>1, <1>3, <1>6, <1>8 DEF Board!Queue, Statuses, Waits
<1>9. ASSUME NEW t \in Runnable(f), NEW s \in {"running", "failed"}, Turned(f, d, t, s)
      PROVE  t \in TaskIds /\ Board!Start(t)
  <2>1. t \in TaskIds /\ f.tasks[t].status = "queued"
    BY DEF Runnable
  <2>2. \A u \in f.tasks[t].deps : u \in TaskIds /\ f.tasks[u].status = "done"
    BY DEF Runnable, Done
  <2>3. /\ Statuses(file)[t] = "queued"
        /\ \A u \in Waits(file)[t] : Statuses(file)[u] = "done"
    BY <1>1, <2>1, <2>2 DEF Statuses, Waits
  <2>4. /\ Statuses(file)' = [Statuses(file) EXCEPT ![t] = s]
        /\ Waits(file)' = Waits(file)
    BY <1>1, <1>3, <1>9 DEF Turned, Statuses, Waits
  <2>. QED BY <1>6, <1>3, <2>1, <2>3, <2>4 DEF Board!Start, Statuses, Waits
<1>10. ASSUME NEW T \in SUBSET TaskIds, \A t \in T : f.tasks[t].status = "running",
              Statuses(d) = [t \in TaskIds |-> IF t \in T THEN "done" ELSE Statuses(f)[t]],
              Waits(d) = Waits(f)
       PROVE  T = {} \/ Board!Finish(T)
  BY <1>1, <1>3, <1>6, <1>10 DEF Board!Finish, Statuses, Waits
<1>11. ASSUME Statuses(d) = [t \in TaskIds |-> Statuses(f)[t]]
       PROVE  Statuses(d) = Statuses(f)
  BY <1>11 DEF Statuses
<1>12. ASSUME NEW t \in TaskIds, NEW s \in {"running", "done", "failed"},
              TakenOver(t), Turned(f, d, t, s)
       PROVE  Board!MoveByHand(t)
  BY <1>1, <1>3, <1>6, <1>12 DEF Board!MoveByHand, Board!Settled, Turned, Statuses, Waits
<1>13. Board!BoardStep => Stepped
  BY DEF Stepped, Board!BoardNext
<1>15. ASSUME Statuses(d) = [t \in TaskIds |-> "none"], Waits(d) = [t \in TaskIds |-> {}]
       PROVE  Board!Reset
  BY <1>3, <1>6, <1>15 DEF Board!Reset, Statuses, Waits
<1>14. \/ Statuses(d) = Statuses(f) /\ Waits(d) = Waits(f)
       \/ Board!BoardStep
  BY <1>4, <1>15, <1>8, <1>9, <1>10, <1>11, <1>12 DEF Moves, Board!BoardStep
<1>. QED BY <1>7, <1>13, <1>14

LEMMA StepsOfTheBoard ==
    ASSUME SupInv, CleanInv, [SupNext]_supVars
    PROVE  Stepped
<1>1. CASE UNCHANGED supVars
  BY <1>1 DEF supVars, Stepped, Board!boardVars, TakenOver, clean
<1>2. CASE SupNext
  <2>1. CASE ~clean'
    BY <2>1 DEF Stepped, Board!BoardNext
  <2>2. CASE clean'
    <3>1. clean
      BY <1>2, <2>2, NothingIsMended
    <3>2. CASE \E w \in Workers : Write(w)
      BY <2>2, <3>1, <3>2, WriteSteps
    <3>3. CASE \A w \in Workers : ~Write(w)
      <4>1. FileKept
        BY <1>2, <3>3, OnlyWritesMoveTheFile
      <4>2. CASE forced' = forced
        BY <2>2, <3>1, <4>1, <4>2 DEF FileKept, Stepped, Board!boardVars, TakenOver
      <4>3. ASSUME NEW t \in TaskIds, NEW how \in {"run", "done", "failed"}, NEW e \in Eras,
                   forced' = forced \cup {<<t, how, e>>}
            PROVE  Stepped
        <5>1. \A u : TakenOver(u)' <=> TakenOver(u) \/ u = t
          <6>1. <<t, how, e>>[1] = t
            OBVIOUS
          <6>. QED BY <4>3, <6>1 DEF TakenOver
        <5>2. {u \in TaskIds : TakenOver(u)}' = {u \in TaskIds : TakenOver(u)} \cup {t}
          BY <5>1
        <5>3. Board!TakeOver(t)
          BY <4>1, <5>2 DEF FileKept, Board!TakeOver
        <5>. QED BY <2>2, <3>1, <5>3 DEF Stepped, Board!BoardNext, Board!BoardStep
      <4>. QED BY <4>1, <4>2, <4>3 DEF FileKept
    <3>. QED BY <3>2, <3>3
  <2>. QED BY <2>1, <2>2
<1>. QED BY <1>1, <1>2

(* For every instance: the file is a board of tasks, which init wipes, until
   two of its writers overlap or one dies: nothing starts before its
   dependencies are done, or twice, and only tasks taken over by hand, or with
   the number of one that was, move in any other way.                        *)
THEOREM SupervisorImplementsBoard == SupSpec => ImplementsBoard
<1>1. SupInit => Board!BoardInit
  BY DEF SupInit, Board!BoardInit, Fresh, NoTask, TakenOver, clean
<1>2. SupInv /\ CleanInv /\ [SupNext]_supVars => [Board!BoardNext]_(Board!boardVars)
  BY StepsOfTheBoard DEF Stepped
<1>. QED BY <1>1, <1>2, SupInvariant, CleanInvariant, PTL DEF SupSpec, ImplementsBoard, Board!BoardSpec

\* A task nobody took over runs, or is done, only when the tasks it waits for
\* are done or in somebody's hands.
DependenciesDone ==
    clean => \A t \in TaskIds :
        file.tasks[t].status \in {"running", "done"} /\ ~TakenOver(t) =>
            \A d \in file.tasks[t].deps \cap TaskIds :
                file.tasks[d].status = "done" \/ TakenOver(d)

\* One step of a board, seen from one task and one it waits for.
LEMMA BoardKeepsOrder ==
  ASSUME DependenciesDone, [Board!BoardNext]_(Board!boardVars)
  PROVE  DependenciesDone'
<1>. DEFINE now == [t \in TaskIds |-> file.tasks[t].status]
           next == [t \in TaskIds |-> file'.tasks[t].status]
           behind == [t \in TaskIds |-> file.tasks[t].deps]
           behindNext == [t \in TaskIds |-> file'.tasks[t].deps]
           taken == {t \in TaskIds : TakenOver(t)}
           takenNext == {t \in TaskIds : TakenOver(t)'}
<1>1. SUFFICES ASSUME clean',
                      NEW t \in TaskIds, next[t] \in {"running", "done"}, t \notin takenNext,
                      NEW d \in behindNext[t], d \in TaskIds
               PROVE  next[d] = "done" \/ d \in takenNext
  BY DEF DependenciesDone, TakenOver
<1>2. ASSUME clean, now[t] \in {"running", "done"}, t \notin taken, d \in behind[t]
      PROVE  now[d] = "done" \/ d \in taken
  BY <1>1, <1>2 DEF DependenciesDone
<1>3. CASE UNCHANGED Board!boardVars
  <2>1. next = now /\ behindNext = behind /\ takenNext = taken
    BY <1>3 DEF Board!boardVars
  <2>2. (~clean)' = ~clean
    BY <1>3 DEF Board!boardVars
  <2>3. clean
    BY <1>1, <2>2
  <2>. QED BY <1>1, <1>2, <2>1, <2>3
<1>4. CASE clean /\ Board!BoardStep
  <2>1. ASSUME NEW u \in TaskIds, NEW deps, Board!Queue(u, deps)
        PROVE  next[d] = "done" \/ d \in takenNext
    <3>1. /\ now[u] = "none" /\ next = [now EXCEPT ![u] = "queued"]
          /\ behindNext = [behind EXCEPT ![u] = deps] /\ takenNext = taken
      BY <2>1 DEF Board!Queue
    <3>. HIDE DEF now, next, behind, behindNext, taken, takenNext
    <3>2. t # u /\ next[t] = now[t] /\ behindNext[t] = behind[t]
      BY <1>1, <3>1 DEF now, behind, next
    <3>3. now[d] = "done" \/ d \in taken
      BY <1>1, <1>2, <1>4, <3>1, <3>2
    <3>. QED BY <1>1, <3>1, <3>3 DEF now, next
  <2>2. ASSUME NEW u \in TaskIds, Board!Start(u)
        PROVE  next[d] = "done" \/ d \in takenNext
    <3>1. /\ now[u] = "queued" /\ \A x \in behind[u] : now[x] = "done"
          /\ \E s \in {"running", "failed"} : next = [now EXCEPT ![u] = s]
          /\ behindNext = behind /\ takenNext = taken
      BY <2>2 DEF Board!Start
    <3>. HIDE DEF now, next, behind, behindNext, taken, takenNext
    <3>2. now[d] = "done" \/ d \in taken
      BY <1>1, <1>2, <1>4, <3>1 DEF now, next
    <3>. QED BY <1>1, <3>1, <3>2 DEF now, next
  <2>3. ASSUME NEW u \in TaskIds, Board!TakeOver(u)
        PROVE  next[d] = "done" \/ d \in takenNext
    <3>1. next = now /\ behindNext = behind /\ takenNext = taken \cup {u}
      BY <2>3 DEF Board!TakeOver
    <3>. QED BY <1>1, <1>2, <1>4, <3>1
  <2>4. ASSUME NEW u \in TaskIds, Board!MoveByHand(u)
        PROVE  next[d] = "done" \/ d \in takenNext
    <3>1. /\ u \in taken /\ \E s : next = [now EXCEPT ![u] = s]
          /\ behindNext = behind /\ takenNext = taken
      BY <2>4 DEF Board!MoveByHand
    <3>. HIDE DEF now, next, behind, behindNext, taken, takenNext
    <3>2. t # u /\ next[t] = now[t]
      BY <1>1, <3>1 DEF now, next
    <3>3. now[d] = "done" \/ d \in taken
      BY <1>1, <1>2, <1>4, <3>1, <3>2
    <3>. QED BY <1>1, <3>1, <3>3 DEF now, next
  <2>5. ASSUME NEW T \in SUBSET TaskIds, Board!Finish(T)
        PROVE  next[d] = "done" \/ d \in takenNext
    <3>1. /\ \A x \in T : now[x] = "running"
          /\ next = [x \in TaskIds |-> IF x \in T THEN "done" ELSE now[x]]
          /\ behindNext = behind /\ takenNext = taken
      BY <2>5 DEF Board!Finish
    <3>. HIDE DEF now, next, behind, behindNext, taken, takenNext
    <3>2. now[t] \in {"running", "done"}
      BY <1>1, <3>1
    <3>3. now[d] = "done" \/ d \in taken
      BY <1>1, <1>2, <1>4, <3>1, <3>2
    <3>. QED BY <1>1, <3>1, <3>3
  <2>6. ASSUME Board!Reset PROVE next[d] = "done" \/ d \in takenNext
    BY <1>1, <2>6 DEF Board!Reset
  <2>. QED BY <1>4, <2>1, <2>2, <2>3, <2>4, <2>5, <2>6 DEF Board!BoardStep
<1>. QED BY <1>1, <1>3, <1>4 DEF Board!BoardNext

(* What a reader of the state file may count on, until two writers overlap or
   one dies: a task shown running or done, unless somebody took it into his
   own hands, has all the tasks it was queued behind done, not just ended, or
   taken over (supervisor.rs:376-392).                                       *)
THEOREM DependenciesAreDone == SupSpec => []DependenciesDone
<1>1. Board!BoardInit => DependenciesDone
  BY DEF Board!BoardInit, DependenciesDone
<1>2. DependenciesDone /\ [Board!BoardNext]_(Board!boardVars) => DependenciesDone'
  BY BoardKeepsOrder
<1>3. Board!BoardSpec => []DependenciesDone
  BY <1>1, <1>2, PTL DEF Board!BoardSpec
<1>. QED BY <1>3, SupervisorImplementsBoard, PTL DEF ImplementsBoard
=============================================================================
