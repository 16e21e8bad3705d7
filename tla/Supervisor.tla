----------------------------- MODULE Supervisor -----------------------------
(* The supervisor: tasks with dependencies, agent sessions and registered
   agents in one JSON file that CLI commands, the handlers of the server, the
   waiters of live sessions and the daemon all load, change and write back
   whole, without a lock (src/src/supervisor.rs and
   src/qo/qo-server/src/routes/supervisor.rs).

   One operation is three steps: load the file and compute the new content,
   spawning a process where the code does; open the file for writing, which
   truncates it; write the content.  A worker may die between any two.
   "file" is the last content written completely and "torn" says that the
   file on disk does not parse, so nothing reads "file" while "torn".

   "supervisor init" writes an empty state over whatever is there, and numbers
   tasks and sessions from 1 again: agents that run belong to an earlier era
   from then on, and so do their numbers.  The era of a content, of a process
   and of what was done by hand is a history variable.                       *)
EXTENDS Naturals, FiniteSets

CONSTANTS Handlers,     \* server handlers, waiters and CLI commands
          Daemons,      \* runs of "supervisor daemon --spawn"
          Agents,
          MaxTasks, MaxSessions, MaxPids,  \* bounds: identifiers given out
          Dependencies, \* the dependency lists given to enqueue
          Assignments,  \* the agents given to enqueue: {} or one
          MaxTrouble,   \* bound: interventions by hand and mishaps together
          MaxInits      \* bound: further calls of init

ASSUME SupAssumption ==
    /\ Handlers \cap Daemons = {}
    /\ MaxTasks \in Nat /\ MaxSessions \in Nat /\ MaxPids \in Nat
    /\ MaxTrouble \in Nat /\ MaxInits \in Nat
    /\ Dependencies \subseteq SUBSET (1..MaxTasks)
    /\ Assignments \subseteq SUBSET Agents

VARIABLES file, torn,
          stage,        \* where each worker is in its operation
          draft,        \* the content it is about to write
          daemon,       \* where each daemon is in its cycle
          procs,        \* the agent processes, by pid
          live,         \* pids of live sessions the server still waits for
          mishaps,      \* history: operations that overlapped others or died
          forced,       \* history: what was done to tasks by hand, and when
          inits         \* history: further calls of init

supVars == <<file, torn, stage, draft, daemon, procs, live,
             mishaps, forced, inits>>

Workers == Handlers \cup Daemons
TaskIds == 1..MaxTasks
SessionIds == 1..MaxSessions
Pids == 1..MaxPids
Eras == 0..MaxInits
None == 0       \* process_id: None, current_task_id: None

TaskStatus == {"none", "queued", "running", "done", "failed"}
SessionStatus == {"none", "running", "waiting", "done", "failed"}

\* "agent" is the one given to enqueue.  The one a tick assigns is not kept: no
\* code launches a started task from the queue again.
Tasks == [status : TaskStatus, deps : SUBSET TaskIds, agent : SUBSET Agents]
Sessions == [status : SessionStatus, task : TaskIds \cup {None},
             pid : Pids \cup {None}]
Contents == [agents : SUBSET Agents,
             tasks : [TaskIds -> Tasks], sessions : [SessionIds -> Sessions],
             nextTask : 1..(MaxTasks + 1), nextSession : 1..(MaxSessions + 1),
             era : Eras]

NoTask == [status |-> "none", deps |-> {}, agent |-> {}]
NoSession == [status |-> "none", task |-> None, pid |-> None]
\* cmd_init
Fresh == [agents |-> {}, tasks |-> [t \in TaskIds |-> NoTask],
          sessions |-> [s \in SessionIds |-> NoSession],
          nextTask |-> 1, nextSession |-> 1, era |-> 0]

Starters == {"tick", "run", "live"}
Processes == [task : TaskIds \cup {None}, session : SessionIds \cup {None},
              how : Starters, by : Workers \cup {None}, deps : SUBSET TaskIds,
              state : {"unborn", "live", "ok", "failed"}, era : Eras]
Unborn == [task |-> None, session |-> None, how |-> "tick", by |-> None,
           deps |-> {}, state |-> "unborn", era |-> 0]

SupInit ==
    /\ file = Fresh
    /\ torn = FALSE
    /\ stage = [w \in Workers |-> "idle"]
    /\ draft = [w \in Workers |-> Fresh]
    /\ daemon = [d \in Daemons |-> "off"]
    /\ procs = [p \in Pids |-> Unborn]
    /\ live = {}
    /\ mishaps = 0
    /\ forced = {}
    /\ inits = 0

-----------------------------------------------------------------------------
(* load_state, save_state                                                    *)

Loads(w) == stage[w] = "idle" /\ ~torn

Mishap(occurs) ==
    IF occurs THEN /\ mishaps + Cardinality(forced) < MaxTrouble
                   /\ mishaps' = mishaps + 1
              ELSE UNCHANGED mishaps

\* The worker holds c and will write it.
Compute(w, c) ==
    /\ stage' = [stage EXCEPT ![w] = "computed"]
    /\ draft' = [draft EXCEPT ![w] = c]
    /\ Mishap(\E x \in Workers : stage[x] # "idle")
    /\ UNCHANGED <<file, torn>>

\* std::fs::write opens with truncation: what others wrote is gone as well.
OpenForWriting(w) ==
    /\ stage[w] = "computed"
    /\ stage' = [x \in Workers |-> IF x = w \/ stage[x] = "late"
                                   THEN "writing" ELSE stage[x]]
    /\ torn' = TRUE
    /\ UNCHANGED <<file, draft, daemon, procs, live, mishaps, forced, inits>>

\* ... and writes from offset 0.  Over a file somebody wrote after this worker
\* truncated it, a shorter content leaves the end of the longer one.
Write(w) ==
    /\ stage[w] \in {"writing", "late"}
    /\ file' = draft[w]
    /\ torn' \in (IF stage[w] = "late" THEN BOOLEAN ELSE {FALSE})
    /\ stage' = [x \in Workers |->
                    CASE x = w -> "idle"
                      [] x # w /\ stage[x] = "writing" -> "late"
                      [] OTHER -> stage[x]]
    /\ draft' = [draft EXCEPT ![w] = Fresh]
    /\ UNCHANGED <<daemon, procs, live, mishaps, forced, inits>>

\* "supervisor init" again: it looks neither at the file nor at who works on it.
Reinit(h) ==
    /\ stage[h] = "idle" /\ inits < MaxInits
    /\ Compute(h, [Fresh EXCEPT !.era = inits + 1])
    /\ inits' = inits + 1
    /\ UNCHANGED <<daemon, procs, live, forced>>

-----------------------------------------------------------------------------
(* Registering agents and queueing tasks                                     *)

AddAgent(h, a) ==
    /\ Loads(h)
    /\ a \notin file.agents
    /\ Compute(h, [file EXCEPT !.agents = @ \cup {a}])
    /\ UNCHANGED <<daemon, procs, live, forced, inits>>

\* Bounds: requests leave a session for every queued task, so that no tick ever
\* fails for want of an identifier, and queue nothing after a mishap.
Room(c, t) ==
    /\ mishaps = 0
    /\ c.nextSession + Cardinality({u \in TaskIds \ {t} :
                           c.tasks[u].status = "queued"}) <= MaxSessions

WithTask(c, task) == [c EXCEPT !.tasks[c.nextTask] = task, !.nextTask = @ + 1]

Enqueue(h, deps, agent) ==
    /\ Loads(h)
    /\ file.nextTask <= MaxTasks /\ Room(file, file.nextTask)
    /\ Compute(h, WithTask(file, [status |-> "queued", deps |-> deps,
                                  agent |-> agent]))
    /\ UNCHANGED <<daemon, procs, live, forced, inits>>

\* Without start_now; with it, a tick follows as an operation of its own.
DispatchQueued(h, a) ==
    /\ Loads(h)
    /\ file.nextTask <= MaxTasks /\ Room(file, file.nextTask)
    /\ Compute(h, WithTask([file EXCEPT !.agents = @ \cup {a}],
                           [status |-> "queued", deps |-> {}, agent |-> {a}]))
    /\ UNCHANGED <<daemon, procs, live, forced, inits>>

\* Handovers and session prompts: the whole content goes back, with a path, a
\* note and an event that nothing here depends on.
Touch(h) ==
    /\ Loads(h)
    /\ Compute(h, file)
    /\ UNCHANGED <<daemon, procs, live, forced, inits>>

-----------------------------------------------------------------------------
(* Starting processes                                                        *)

NextPid(p) == /\ procs[p].state = "unborn"
              /\ \A q \in Pids : q < p => procs[q].state # "unborn"

Spawn(w, p, t, how) ==
    /\ NextPid(p)
    /\ procs' = [procs EXCEPT ![p] =
                    [task |-> t, session |-> file.nextSession, how |-> how,
                     by |-> w, state |-> "live", era |-> file.era,
                     deps |-> IF how = "live" THEN {} ELSE file.tasks[t].deps]]

\* A new session for t with its process, or with none (p = None).
WithSession_KeepsQueued(c, t, p, status) ==
    [c EXCEPT !.sessions[c.nextSession] = [status |-> status, task |-> t, pid |-> p],
              !.nextSession = @ + 1]
WithSession_SameId(c, t, p, status) ==
    [c EXCEPT !.tasks[t].status = status,
              !.sessions[c.nextSession] = [status |-> status, task |-> t, pid |-> p]]
WithSession(c, t, p, status) ==
    [c EXCEPT !.tasks[t].status = status,
              !.sessions[c.nextSession] = [status |-> status, task |-> t, pid |-> p],
              !.nextSession = @ + 1]

\* The process runs, it could not be spawned, or none was asked for.
Launch(w, t, how, mayOmit) ==
    /\ file.nextSession <= MaxSessions
    /\ \/ \E p \in Pids : Spawn(w, p, t, how)
                          /\ Compute(w, WithSession(file, t, p, "running"))
       \/ Compute(w, WithSession(file, t, None, "failed")) /\ UNCHANGED procs
       \/ mayOmit /\ Compute(w, WithSession(file, t, None, "running"))
                  /\ UNCHANGED procs

Done(c) == {t \in TaskIds : c.tasks[t].status = "done"}

Runnable_AfterFailures(c) ==
    {t \in TaskIds : c.tasks[t].status = "queued" /\
        \A d \in c.tasks[t].deps : c.tasks[d].status \in {"done", "failed"}}
Runnable_RetriesFailed(c) ==
    {t \in TaskIds : c.tasks[t].status \in {"queued", "failed"}
                      /\ c.tasks[t].deps \subseteq Done(c)}
Runnable(c) ==
    {t \in TaskIds : c.tasks[t].status = "queued" /\ c.tasks[t].deps \subseteq Done(c)}

IsFirst(t, T) == t \in T /\ \A u \in T : t <= u

\* The agent of the task, or any when it has none, must be registered.
Launchable(c, t) == LET a == c.tasks[t].agent IN
    IF a = {} THEN c.agents # {} ELSE a \subseteq c.agents

Tick(h) ==
    /\ Loads(h)
    /\ \E t \in TaskIds : /\ IsFirst(t, Runnable(file))
                          /\ Launchable(file, t)
                          /\ Launch(h, t, "tick", TRUE)
    /\ UNCHANGED <<daemon, live, forced, inits>>

\* Somebody takes t into his own hands.
TakeOver(t, how) ==
    /\ forced' = forced \cup {<<t, how, file.era>>}
    /\ mishaps + Cardinality(forced') <= MaxTrouble

\* run-agent: whatever the status of the task and of its dependencies.
RunAgent(h, t) ==
    /\ Loads(h)
    /\ file.agents # {} /\ file.tasks[t].status # "none" /\ Room(file, t)
    /\ Launch(h, t, "run", TRUE)
    /\ TakeOver(t, "run")
    /\ UNCHANGED <<daemon, live, inits>>

\* start_now with a live bridge: the process runs before the task is saved.
DispatchLive(h, a) == LET t == file.nextTask IN
    /\ Loads(h)
    /\ t <= MaxTasks /\ Room(file, t)
    /\ \E p \in Pids :
        /\ Spawn(h, p, t, "live")
        /\ live' = live \cup {p}
        /\ Compute(h, WithSession(
             WithTask([file EXCEPT !.agents = @ \cup {a}],
                      [status |-> "running", deps |-> {}, agent |-> {a}]),
             t, p, "running"))
    /\ TakeOver(t, "run")
    /\ UNCHANGED <<daemon, inits>>

-----------------------------------------------------------------------------
(* Noticing that work has ended                                              *)

\* Only the waiter of a live session ever learns the exit code.
ProcessExit(p) ==
    /\ procs[p].state = "live"
    /\ \E s \in {"ok"} \cup (IF procs[p].how = "live" THEN {"failed"} ELSE {}) :
           procs' = [procs EXCEPT ![p].state = s]
    /\ UNCHANGED <<file, torn, stage, draft, daemon, live, mishaps, forced, inits>>

Watched(c) == {s \in SessionIds : c.sessions[s].status = "running"
                                  /\ c.sessions[s].pid # None}

IsProcessRunning(pid) == procs[pid].state = "live"

EndedSessions(c, errors) ==
    {s \in Watched(c) \ errors : ~IsProcessRunning(c.sessions[s].pid)}

\* The sessions whose process is gone are done, and so are their tasks that
\* were running; "parked" become Waiting, which no poll looks at again.
Polled_SessionsOnly(c, ended, parked) ==
    [c EXCEPT !.sessions = [s \in SessionIds |->
        IF s \in ended THEN [@[s] EXCEPT !.status = "done"]
        ELSE IF s \in parked THEN [@[s] EXCEPT !.status = "waiting"] ELSE @[s]]]
Polled(c, ended, parked) ==
    LET tasks == {c.sessions[s].task : s \in ended} IN
    [c EXCEPT
        !.sessions = [s \in SessionIds |->
            IF s \in ended THEN [@[s] EXCEPT !.status = "done"]
            ELSE IF s \in parked THEN [@[s] EXCEPT !.status = "waiting"]
            ELSE @[s]],
        !.tasks = [t \in TaskIds |->
            IF t \in tasks /\ @[t].status = "running"
            THEN [@[t] EXCEPT !.status = "done"] ELSE @[t]]]

\* run_poll saves whether or not anything ended.
ServerPoll(h) ==
    /\ Loads(h)
    /\ Compute(h, Polled(file, EndedSessions(file, {}), {}))
    /\ UNCHANGED <<daemon, procs, live, forced, inits>>

\* cmd_poll parks a session whose probe failed, and saves only with an update.
CliPoll(h, errors) == LET ended == EndedSessions(file, errors) IN
    /\ Loads(h)
    /\ errors \subseteq Watched(file) /\ ended # {}
    /\ Compute(h, Polled(file, ended, errors))
    /\ UNCHANGED <<daemon, procs, live, forced, inits>>

\* complete and fail: any status; the first running session of the task only.
SettledByHand(c, t, status) ==
    LET running == {s \in SessionIds : c.sessions[s].task = t
                                       /\ c.sessions[s].status = "running"}
    IN [c EXCEPT !.tasks[t].status = status,
                 !.sessions = [s \in SessionIds |->
                     IF IsFirst(s, running) THEN [@[s] EXCEPT !.status = status]
                                            ELSE @[s]]]

Settle(h, t, status) ==
    /\ Loads(h)
    /\ file.tasks[t].status # "none"
    /\ Compute(h, SettledByHand(file, t, status))
    /\ TakeOver(t, status)
    /\ UNCHANGED <<daemon, procs, live, inits>>

\* finish_live_session: by id, whatever is recorded there by now.
LiveExit_RawCode(c, p) == LET s == procs[p].session IN
    [c EXCEPT !.sessions[s] = IF @.status = "none" THEN @
                              ELSE [@ EXCEPT !.status = procs[p].state, !.pid = None]]
LiveExit(c, p) ==
    LET status == IF procs[p].state = "ok" THEN "done" ELSE "failed"
        s == procs[p].session
        t == procs[p].task
    IN [c EXCEPT
          !.sessions[s] = IF @.status = "none" THEN @
                          ELSE [@ EXCEPT !.status = status, !.pid = None],
          !.tasks[t] = IF @.status = "none" THEN @ ELSE [@ EXCEPT !.status = status]]

FinishLive(h, p) ==
    /\ p \in live /\ procs[p].state \in {"ok", "failed"}
    /\ stage[h] = "idle"
    /\ live' = live \ {p}
    /\ IF torn THEN UNCHANGED <<file, torn, stage, draft, mishaps>>
               ELSE Compute(h, LiveExit(file, p))
    /\ UNCHANGED <<daemon, procs, forced, inits>>

-----------------------------------------------------------------------------
(* The daemon: poll, tick, load once more for a summary, sleep.  A load that
   fails or a task without a registered agent ends the process; that the third
   load fails is the poll after it finding the file torn.                    *)

DaemonMove(d, from, to) ==
    /\ daemon[d] = from /\ stage[d] = "idle"
    /\ daemon' = [daemon EXCEPT ![d] = to]
    /\ UNCHANGED <<live, forced, inits>>

NoSave == UNCHANGED <<file, torn, stage, draft, mishaps, procs>>

DaemonPoll(d) == LET ended == EndedSessions(file, {}) IN
    /\ ~torn
    /\ DaemonMove(d, "poll", "tick")
    /\ IF ended = {} THEN NoSave
       ELSE Compute(d, Polled(file, ended, {})) /\ UNCHANGED procs

DaemonTick(d) ==
    /\ ~torn
    /\ DaemonMove(d, "tick", "poll")
    /\ IF Runnable(file) = {} THEN NoSave
       ELSE \E t \in TaskIds : /\ IsFirst(t, Runnable(file))
                               /\ Launchable(file, t)
                               /\ Launch(d, t, "tick", FALSE)

DaemonGivesUp(d) ==
    /\ \/ torn /\ daemon[d] # "off"
       \/ /\ ~torn /\ daemon[d] = "tick"
          /\ \E t \in TaskIds : IsFirst(t, Runnable(file)) /\ ~Launchable(file, t)
    /\ DaemonMove(d, daemon[d], "off")
    /\ NoSave

DaemonStart(d) ==
    /\ DaemonMove(d, "off", "poll")
    /\ NoSave

\* What w had in hand is lost.
Drop(W) ==
    /\ stage' = [w \in Workers |-> IF w \in W THEN "idle" ELSE stage[w]]
    /\ draft' = [w \in Workers |-> IF w \in W THEN Fresh ELSE draft[w]]
    /\ Mishap(\E w \in W : stage[w] # "idle")
    /\ UNCHANGED <<file, torn>>

\* taskkill /T: the daemon and the agents it has spawned.
DaemonStop(d) ==
    /\ daemon[d] # "off"
    /\ daemon' = [daemon EXCEPT ![d] = "off"]
    /\ Drop({d})
    /\ procs' = [p \in Pids |-> IF procs[p].by = d /\ procs[p].state = "live"
                                THEN [procs[p] EXCEPT !.state = "ok"]
                                ELSE procs[p]]
    /\ UNCHANGED <<live, forced, inits>>

CommandKilled(h) ==
    /\ stage[h] # "idle"
    /\ Drop({h})
    /\ UNCHANGED <<daemon, procs, live, forced, inits>>

DaemonKilled(d) ==
    /\ daemon[d] # "off"
    /\ daemon' = [daemon EXCEPT ![d] = "off"]
    /\ Drop({d})
    /\ UNCHANGED <<procs, live, forced, inits>>

ServerRestart ==
    /\ Drop(Handlers)
    /\ live' = {}
    /\ UNCHANGED <<daemon, procs, forced, inits>>

-----------------------------------------------------------------------------
Save == \E w \in Workers : OpenForWriting(w) \/ Write(w)

Request(h) ==
    \/ Reinit(h)
    \/ \E a \in Agents : AddAgent(h, a) \/ DispatchQueued(h, a) \/ DispatchLive(h, a)
    \/ \E deps \in Dependencies, a \in Assignments : Enqueue(h, deps, a)
    \/ Touch(h) \/ Tick(h) \/ ServerPoll(h)
    \/ \E t \in TaskIds : \/ RunAgent(h, t)
                          \/ \E s \in {"done", "failed"} : Settle(h, t, s)
    \/ \E errors \in SUBSET SessionIds : CliPoll(h, errors)
    \/ \E p \in Pids : FinishLive(h, p)
    \/ CommandKilled(h)

DaemonCycle(d) ==
    DaemonPoll(d) \/ DaemonTick(d) \/ DaemonGivesUp(d)

SupNext ==
    \/ Save
    \/ \E h \in Handlers : Request(h)
    \/ \E d \in Daemons : \/ DaemonCycle(d) \/ DaemonStart(d)
                          \/ DaemonStop(d) \/ DaemonKilled(d)
    \/ \E p \in Pids : ProcessExit(p)
    \/ ServerRestart

\* A command that has begun goes on to write, and a running daemon goes on: a
\* loop around a sleep, which nothing outside ever disables.  Strong fairness,
\* because the bound on mishaps disables its steps now and then.
SupFairness ==
    /\ \A w \in Workers : WF_supVars(OpenForWriting(w) \/ Write(w))
    /\ \A d \in Daemons : SF_supVars(DaemonCycle(d))

SupSpec == SupInit /\ [][SupNext]_supVars /\ SupFairness
-----------------------------------------------------------------------------
(* Every variable keeps its type.                                            *)
SupTypeOK ==
    /\ file \in Contents /\ torn \in BOOLEAN
    /\ stage \in [Workers -> {"idle", "computed", "writing", "late"}]
    /\ draft \in [Workers -> Contents]
    /\ daemon \in [Daemons -> {"off", "poll", "tick"}]
    /\ procs \in [Pids -> Processes]
    /\ live \subseteq Pids /\ mishaps \in Nat /\ inits \in Eras
    /\ forced \subseteq TaskIds \X {"run", "done", "failed"} \X Eras

\* No two operations have overlapped and none has died.
clean == mishaps = 0
Exited(p) == procs[p].state \in {"ok", "failed"}

\* A process for the task has come to its end, or somebody said it is done, in
\* the era e; or one ended that was dispatched live, and whose waiter knows the
\* task and the session by number only.
HasEnded(t, e) ==
    \/ <<t, "done", e>> \in forced
    \/ \E p \in Pids : /\ Exited(p) /\ procs[p].task = t
                       /\ procs[p].era = e \/ procs[p].how = "live"

(* However the writers of the file overlap, overwrite each other, die or
   start it afresh, under agents that run: the scheduler starts the agent of
   a task only after, in the same era, an agent has really ended or somebody
   has called complete for every task it depends on; all that can take the
   place of that is the end of a live session from another era whose task
   had the number (supervisor.rs:376-392, 239-264).                          *)
StartedAfterDependencies ==
    \A p \in Pids : procs[p].how = "tick" =>
        \A t \in procs[p].deps : HasEnded(t, procs[p].era)

(* As long as the file's writers have neither overlapped nor died, the
   scheduler starts an agent for a task at most once before the next init
   (supervisor.rs:404).                                                      *)
RunsOnce ==
    clean => \A p, q \in Pids :
        /\ procs[p].state # "unborn" /\ procs[q].state # "unborn"
        /\ procs[p].how = "tick" /\ procs[q].how = "tick"
        /\ procs[p].task = procs[q].task /\ procs[p].era = procs[q].era
        => p = q

Held == {file} \cup {draft[w] : w \in {x \in Workers : stage[x] # "idle"}}

\* A live session of another era had the number of p's session.
Shadowed(p) ==
    \E q \in Pids : /\ procs[q].state # "unborn" /\ procs[q].how = "live"
                    /\ procs[q].era # procs[p].era
                    /\ procs[q].session = procs[p].session

\* The session of p names it, and polls look at that session; or a failed probe
\* has parked it; or complete or fail closed it while p went on.
Recorded(c, p) ==
    LET s == c.sessions[procs[p].session] IN
    /\ s.pid = p /\ s.task = procs[p].task
    /\ \/ s.status \in {"running", "waiting"}
       \/ \E how \in {"done", "failed"} :
              <<procs[p].task, how, procs[p].era>> \in forced

(* ... and until the next init every agent that runs is the process of its
   session, in the file or in the content about to be written, and every poll
   looks for it, unless one of the three has happened that take a session
   away from a running agent: a failed probe, a complete or fail by hand, the
   end of a live session of an earlier era with the same number
   (supervisor.rs:440-456).                                                  *)
NoOrphan ==
    clean => \A p \in Pids : procs[p].state = "live" /\ procs[p].era = file.era =>
        Shadowed(p) \/ \E c \in Held : c.era = procs[p].era /\ Recorded(c, p)

TakenOver(t) == \E f \in forced : f[1] = t

Board == INSTANCE TaskBoard WITH
    Tasks <- TaskIds,
    board <- [t \in TaskIds |-> file.tasks[t].status],
    waitsFor <- [t \in TaskIds |-> file.tasks[t].deps],
    forced <- {t \in TaskIds : TakenOver(t)},
    broken <- ~clean

(* The file moves its tasks as the board of TaskBoard does, an init being its
   reset, until two writers overlap or one dies.                             *)
ImplementsBoard == Board!BoardSpec

Closed(s) == file.sessions[s].status \notin {"none", "running"}
Noticed(p) == Exited(p) /\ LET s == procs[p].session
                              t == procs[p].task IN
    Closed(s) /\ (\/ file.tasks[t].status # "running"
                  \/ file.sessions[s].status = "waiting"
                  \/ TakenOver(t))

(* A daemon that stays alive notices the end of every agent the scheduler has
   started: the session is closed and the task no longer Running, unless a
   failed probe had parked the session, somebody took the task over, an init
   has begun another era meanwhile, or a live session of an earlier era with
   the same number took the session away (supervisor.rs:897-950).            *)
ExitIsNoticed ==
    ([]clean /\ <>[](\E d \in Daemons : daemon[d] # "off"))
        => \A p \in Pids : (Exited(p) /\ procs[p].how = "tick")
                           ~> (Noticed(p) \/ procs[p].era # file.era \/ Shadowed(p))
=============================================================================
