---------------------------- MODULE Autonomous ----------------------------
(* The autonomous scheduler (src/qo/qo-server/src/routes/autonomous.rs) over
   the swarms of module Swarm.

   One loop takes a snapshot of the shared state, decides, waits for a model
   or a swarm, and writes back what it found, under a lock that it holds only
   for each of these.  start, stop and set_queue run in between.  The time of
   day is a day; whether the interval since the last swarm is over is left
   open.  One unit of cost is one call of the strategist.                    *)
EXTENDS Swarm, Sequences

CONSTANTS Goals,
          Blank,        \* an empty goal, which start lets through
          Configs,      \* the configurations users give
          MaxDays,      \* bound: days
          MaxCommands   \* bound: requests of the user to the scheduler

\* What set_queue makes of the user's goals.
NonBlank(queue) == SelectSeq(queue, LAMBDA g : g # Blank)

ASSUME AutonomousAssumption ==
    /\ Blank \notin Goals
    /\ Configs \subseteq [queue : Seq(Goals \cup {Blank}), budget : Nat,
                          cap : Nat, invent : BOOLEAN]
    /\ \A config \in Configs : NonBlank(config.queue) \in Seq(Goals)
    /\ MaxDays \in Nat \ {0} /\ MaxCommands \in Nat

VARIABLES auto,   \* the shared state
          loop,   \* the scheduler's loop and its locals
          day,
          log     \* history: what the properties speak of

autoVars == <<auto, loop, day, log>>
vars == <<swarmVars, autoVars>>

Days == 1..MaxDays
NoGoal == "no goal"
NoSwarm == 0
Places == {"off", "tick", "decide", "meta", "pop", "start", "record", "wait", "account"}

\* A tick knows nothing of the one before.
Ticking == [at |-> "tick", enabled |-> FALSE, spent |-> 0, budget |-> 0,
            begun |-> 0, cap |-> 0, first |-> NoGoal, invent |-> FALSE, last |-> 0,
            today |-> 1, goal |-> NoGoal, swarm |-> NoSwarm, cost |-> 0]

AutoInit ==
    /\ SwarmInit
    /\ auto = [enabled |-> FALSE, paused |-> "no", queue |-> <<>>, budget |-> 0,
               cap |-> 0, invent |-> FALSE, spent |-> 0, begun |-> 0, last |-> 0,
               current |-> NoSwarm]
    /\ loop = [Ticking EXCEPT !.at = "off"]
    /\ day = 1
    /\ log = [spent |-> [d \in Days |-> 0], begun |-> [d \in Days |-> 0],
              budget |-> 0, cap |-> 0, commands |-> 0, replaced |-> FALSE, afterStop |-> 0,
              overslept |-> {}, midnight |-> FALSE]

-----------------------------------------------------------------------------
(* Requests of the user                                                      *)

Command == log.commands < MaxCommands
Greater(m, n) == IF m > n THEN m ELSE n

\* A new configuration, its queue included; the first call spawns the loop.
\* max_swarms_per_hour * 24 is the cap.
Start(config) ==
    /\ Command
    /\ auto' = [auto EXCEPT !.enabled = TRUE, !.paused = "no",
                            !.queue = config.queue, !.budget = config.budget,
                            !.cap = config.cap, !.invent = config.invent]
    /\ loop' = IF loop.at = "off" THEN Ticking ELSE loop
    /\ log' = [log EXCEPT !.commands = @ + 1, !.replaced = TRUE, !.afterStop = 0,
                          !.budget = Greater(@, config.budget),
                          !.cap = Greater(@, config.cap)]
    /\ UNCHANGED <<swarmVars, day>>

Stop ==
    /\ Command
    /\ auto' = [auto EXCEPT !.enabled = FALSE, !.paused = "user"]
    /\ log' = [log EXCEPT !.commands = @ + 1, !.afterStop = 0]
    /\ UNCHANGED <<swarmVars, loop, day>>

SetQueue(queue) ==
    /\ Command
    /\ auto' = [auto EXCEPT !.queue = NonBlank(queue)]
    /\ log' = [log EXCEPT !.commands = @ + 1, !.replaced = TRUE]
    /\ UNCHANGED <<swarmVars, loop, day>>

-----------------------------------------------------------------------------
(* The loop                                                                  *)

\* The loop leaves a place for another, or for the next tick.
Leaves(place, next) == loop.at = place /\ loop' = next

\* Not the code: the last goal of the queue is taken.
First_Last(queue) == IF queue = <<>> THEN NoGoal ELSE queue[Len(queue)]

First(queue) == IF queue = <<>> THEN NoGoal ELSE Head(queue)

Snapshot ==
    /\ Leaves("tick",
              [Ticking EXCEPT !.at = "decide", !.enabled = auto.enabled,
                 !.spent = auto.spent, !.budget = auto.budget, !.begun = auto.begun,
                 !.cap = auto.cap, !.first = First(auto.queue),
                 !.invent = auto.invent, !.last = auto.last, !.swarm = auto.current])
    /\ log' = [log EXCEPT !.replaced = FALSE]
    /\ UNCHANGED <<swarmVars, auto, day>>

\* Not enabled, or a swarm is in flight: the tick is over.
SkipTick ==
    /\ ~loop.enabled \/ loop.swarm # NoSwarm
    /\ Leaves("decide", Ticking)
    /\ UNCHANGED <<swarmVars, auto, day, log>>

NewDay == loop.last # 0 /\ loop.last # day

\* Not the code: once started, the loop no longer looks at the flag.
Awake_Always == loop.at = "decide" /\ loop.swarm = NoSwarm

Awake == loop.at = "decide" /\ loop.enabled /\ loop.swarm = NoSwarm

ResetDay ==
    /\ Awake /\ NewDay
    /\ auto' = [auto EXCEPT !.begun = 0, !.spent = 0, !.last = day]
    /\ Leaves("decide", Ticking)
    /\ UNCHANGED <<swarmVars, day, log>>

PauseForBudget ==
    /\ Awake /\ ~NewDay /\ loop.spent >= loop.budget
    /\ auto' = [auto EXCEPT !.enabled = FALSE, !.paused = "budget"]
    /\ Leaves("decide", Ticking)
    /\ log' = [log EXCEPT !.afterStop = 0]
    /\ UNCHANGED <<swarmVars, day>>

\* Not the code: the budget is not looked at.
MayBegin_NoBudget == Awake /\ ~NewDay /\ loop.begun < loop.cap
MayBegin == Awake /\ ~NewDay /\ loop.spent < loop.budget /\ loop.begun < loop.cap

\* The cap is reached, the interval since the last swarm is not over, or there
\* is neither a goal nor a meta-agent.
Rest ==
    /\ Awake /\ ~NewDay /\ loop.spent < loop.budget
    /\ \/ loop.begun >= loop.cap
       \/ loop.last # 0
       \/ loop.first = NoGoal /\ ~loop.invent
    /\ Leaves("decide", Ticking)
    /\ UNCHANGED <<swarmVars, auto, day, log>>

Choose ==
    /\ MayBegin
    /\ \/ /\ loop.first # NoGoal
          /\ Leaves("decide", [Ticking EXCEPT !.at = "pop", !.goal = loop.first,
                                              !.today = day])
       \/ /\ loop.first = NoGoal /\ loop.invent
          /\ Leaves("decide", [Ticking EXCEPT !.at = "meta", !.today = day])
    /\ UNCHANGED <<swarmVars, auto, day, log>>

\* The meta-agent invents a goal, or fails and the tick is over.
AskMetaAgent ==
    /\ \/ \E g \in Goals : Leaves("meta", [loop EXCEPT !.at = "start", !.goal = g])
       \/ Leaves("meta", Ticking)
    /\ UNCHANGED <<swarmVars, auto, day, log>>

\* Whatever is first by now.
Pop ==
    /\ Leaves("pop", [loop EXCEPT !.at = "start"])
    /\ auto' = [auto EXCEPT !.queue = IF @ = <<>> THEN @ ELSE Tail(@)]
    /\ UNCHANGED <<swarmVars, day, log>>

Begin(s) ==
    /\ loop.goal # Blank
    /\ StartSwarm(s, TRUE)
    /\ Leaves("start", [Ticking EXCEPT !.at = "record", !.swarm = s,
                                       !.today = loop.today])
    /\ log' = [log EXCEPT !.begun[day] = @ + 1, !.afterStop = @ + 1]
    /\ UNCHANGED <<auto, day>>

RefuseBlank ==
    /\ loop.goal = Blank
    /\ Leaves("start", Ticking)
    /\ UNCHANGED <<swarmVars, auto, day, log>>

Record ==
    /\ Leaves("record", [loop EXCEPT !.at = "wait"])
    /\ auto' = [auto EXCEPT !.current = loop.swarm, !.last = loop.today, !.begun = @ + 1]
    /\ UNCHANGED <<swarmVars, day, log>>

\* Not the code: a swarm that is being evaluated passes for over.
WaitForSwarm_Early ==
    /\ Leaves("wait", [loop EXCEPT !.at = "account", !.cost = swarms[loop.swarm].cost])
    /\ log' = IF Over(loop.swarm) \/ swarms[loop.swarm].status = "evaluating" THEN log
              ELSE [log EXCEPT !.overslept = @ \cup {loop.swarm}]
    /\ UNCHANGED <<swarmVars, auto, day>>

\* The swarm is over, or five minutes have passed; what it has cost so far.
WaitForSwarm ==
    /\ Leaves("wait", [loop EXCEPT !.at = "account", !.cost = swarms[loop.swarm].cost])
    /\ log' = IF Over(loop.swarm) THEN log
              ELSE [log EXCEPT !.overslept = @ \cup {loop.swarm}]
    /\ UNCHANGED <<swarmVars, auto, day>>

Account ==
    /\ Leaves("account", Ticking)
    /\ auto' = [auto EXCEPT !.spent = @ + loop.cost, !.current = NoSwarm]
    /\ UNCHANGED <<swarmVars, day, log>>

-----------------------------------------------------------------------------
(* Swarms and time go on.                                                    *)

\* What the strategist costs the user today, for swarms of the scheduler.
Spend(s) == IF swarms[s].auto THEN swarms'[s].cost - swarms[s].cost ELSE 0

SwarmStep(s) ==
    /\ Orchestrate(s)
    /\ log' = [log EXCEPT !.spent[day] = @ + Spend(s)]
    /\ UNCHANGED <<auto, loop, day>>

SwarmsGoOn ==
    /\ \/ \E s \in Swarms : StopSwarm(s) \/ StartSwarm(s, FALSE)
       \/ \E w \in work : \/ SubtaskEnds(w) \/ SubtaskTimesOut(w)
                          \/ \E f \in Files : AgentEdit(w, f)
       \/ \E f \in Files : UserEdit(f)
       \/ Review
    /\ UNCHANGED autoVars

Midnight ==
    /\ day < MaxDays
    /\ day' = day + 1
    /\ log' = [log EXCEPT !.midnight = @ \/ loop.at \notin {"off", "tick"}]
    /\ UNCHANGED <<swarmVars, auto, loop>>

Tick == \/ Snapshot \/ SkipTick \/ ResetDay \/ PauseForBudget \/ Rest \/ Choose
        \/ AskMetaAgent \/ Pop \/ (\E s \in Swarms : Begin(s)) \/ RefuseBlank
        \/ Record \/ WaitForSwarm \/ Account

AutoNext ==
    \/ \E config \in Configs : Start(config) \/ SetQueue(config.queue)
    \/ Stop
    \/ Tick
    \/ \E s \in Swarms : SwarmStep(s)
    \/ SwarmsGoOn
    \/ Midnight

AutoSpec ==
    /\ AutoInit /\ [][AutoNext]_vars
    /\ \A s \in Swarms : WF_vars(SwarmStep(s))

-----------------------------------------------------------------------------
(* Every variable keeps its type.                                            *)
AutoTypeOK ==
    /\ SwarmTypeOK
    /\ auto.enabled \in BOOLEAN /\ auto.paused \in {"no", "user", "budget"}
    /\ auto.queue \in Seq(Goals \cup {Blank}) /\ auto.invent \in BOOLEAN
    /\ {auto.budget, auto.cap, auto.spent, auto.begun} \subseteq Nat
    /\ {auto.last, loop.last} \subseteq Days \cup {0}
    /\ {auto.current, loop.swarm} \subseteq Swarms \cup {NoSwarm}
    /\ loop.at \in Places /\ loop.goal \in Goals \cup {Blank, NoGoal}
    /\ loop.at \in {"record", "wait", "account"} => loop.swarm # NoSwarm
    /\ day \in Days

Begins(s) == ~Exists(s) /\ swarms'[s].auto

(* The hard caps hold: on no day does the scheduler begin a swarm once its
   swarms have cost the largest budget, or are as many as the largest cap, that
   the user has granted.  Unless a swarm outlived the wait or a tick went past
   midnight: those costs are lost to the accounts (autonomous.rs:6-9).       *)
HardCaps ==
    [][\A s \in Swarms : Begins(s) /\ ~log.midnight =>
          /\ log.overslept = {} => log.spent[day] < log.budget
          /\ log.begun[day] < log.cap]_vars

(* Two swarms of the scheduler are under way at once only when the first has
   outlived the wait, after which the two share the working copy
   (autonomous.rs:300-304, 489).                                             *)
OneAtATime ==
    \A s, t \in Swarms \ log.overslept :
        /\ swarms[s].auto /\ Exists(s) /\ ~Over(s)
        /\ swarms[t].auto /\ Exists(t) /\ ~Over(t)
        => s = t

(* After a stop, or a pause for the budget, at most one more swarm begins: the
   one of the tick that was under way (autonomous.rs:17-18).                 *)
OneMoreAfterStop == ~auto.enabled => log.afterStop <= 1

(* The goal that leaves the queue is the goal that will be run, unless the user
   has replaced the queue since the tick began (autonomous.rs:391-396).      *)
PopsWhatItRuns ==
    [][loop.at = "pop" /\ loop'.at = "start" /\ ~log.replaced
          => auto.queue = <<loop.goal>> \o auto'.queue]_vars
=============================================================================
