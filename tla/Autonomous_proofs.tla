------------------------- MODULE Autonomous_proofs -------------------------
(* Proofs about the scheduler and the swarms it runs: the hard caps, one swarm
   at a time, at most one more after a stop, the queue, final costs and the
   user's branch hold for any number of swarms, rounds, days and requests.

   The invariant has a part for the entries of the swarms, one for the working
   copy, and one for the accounts of the loop: what the loop has read, what it
   still owes to the shared counters, and what was really spent.  Lemmas show
   what each step of an orchestrator and of the loop does to each part.      *)
EXTENDS Autonomous, TLAPS

-----------------------------------------------------------------------------
(* The invariant: swarms                                                     *)

\* What an entry says of itself.  A round calls the strategist twice at most.
EntryOK(e) ==
    /\ e.at = "over" <=> e.status \in Ended
    /\ e.at = "none" => ~e.auto
    /\ e.at \in {"none", "capture", "check", "plan", "join", "eval", "look"} => e.home = User
    /\ e.at \in {"none", "capture"} => e.round = 0 /\ e.cost = 0
    /\ e.at \in {"check", "plan"} => e.round >= 1 /\ e.cost <= 2 * (e.round - 1)
    /\ e.at \in {"join", "eval"} => e.round >= 1 /\ e.cost <= 2 * e.round - 1

EntriesOK ==
    /\ SwarmTypeOK
    /\ \A s \in Swarms : EntryOK(swarms[s])

\* Whoever is between "branch" and "finalize" is alone there, works on its own
\* branch once it has one, and knows the way home while nobody has strayed.  A
\* review is alone as well, and merges what it was asked for.
TreeOK ==
    ~past.overlap =>
        /\ tree.tip[User] \subseteq past.merged
        /\ review # NoReview => /\ Piping = {} /\ tree.branch = User
                                /\ tree.tip[review] \subseteq past.merged
        /\ \A s, t \in Piping : s = t
        /\ \A s \in Piping : swarms[s].at # "branch" => tree.branch = s
        /\ Strayed = {} /\ ~past.refused =>
              /\ Piping = {} => tree.branch \in {User, Detached}
              /\ \A s \in Piping : /\ swarms[s].home = User
                                   /\ swarms[s].at = "branch" => tree.branch = User

-----------------------------------------------------------------------------
(* The invariant: the loop                                                   *)

AutoStates ==
    [enabled : BOOLEAN, paused : {"no", "user", "budget"},
     queue : Seq(Goals \cup {Blank}), budget : Nat, cap : Nat, invent : BOOLEAN,
     spent : Nat, begun : Nat, last : Days \cup {0}, current : Swarms \cup {NoSwarm}]

LoopStates ==
    [at : Places, enabled : BOOLEAN, spent : Nat, budget : Nat, begun : Nat,
     cap : Nat, first : Goals \cup {Blank, NoGoal}, invent : BOOLEAN,
     last : Days \cup {0}, today : Days, goal : Goals \cup {Blank, NoGoal},
     swarm : Swarms \cup {NoSwarm}, cost : Nat]

Logs ==
    [spent : [Days -> Nat], begun : [Days -> Nat], budget : Nat, cap : Nat,
     commands : Nat, replaced : BOOLEAN, afterStop : Nat,
     overslept : SUBSET Swarms, midnight : BOOLEAN]

LoopTypeOK ==
    /\ auto \in AutoStates /\ loop \in LoopStates /\ log \in Logs /\ day \in Days

\* The loop has a swarm of its own from its start to its account.
HasSwarm == loop.at \in {"record", "wait", "account"}

Current ==
    HasSwarm => /\ loop.swarm \in Swarms
                /\ Exists(loop.swarm) /\ swarms[loop.swarm].auto

UnderWay(t) == swarms[t].auto /\ Exists(t) /\ ~Over(t)

\* A swarm of the scheduler that is under way is the loop's, or was given up.
Alone ==
    \A t \in Swarms : UnderWay(t) =>
        \/ t \in log.overslept
        \/ t = loop.swarm /\ loop.at \in {"record", "wait"}

\* A tick that has found the loop enabled may still begin a swarm.
Armed == \/ loop.at \in {"meta", "pop", "start"}
         \/ loop.at = "decide" /\ loop.enabled

StopOK ==
    ~auto.enabled => log.afterStop <= 1 /\ (Armed => log.afterStop = 0)

QueueOK ==
    ~log.replaced =>
        /\ loop.at = "decide" => loop.first = First(auto.queue)
        /\ loop.at = "pop" => loop.goal = First(auto.queue) /\ auto.queue # <<>>

\* What the shared counters say of today.
Counted(n) == IF auto.last = day THEN n ELSE 0

\* A tick in the middle of its work, all of it on one day.
Busy == loop.at \in {"meta", "pop", "start", "record", "wait", "account"}

Limits ==
    /\ auto.budget <= log.budget /\ auto.cap <= log.cap
    /\ loop.at = "decide" => loop.budget <= log.budget /\ loop.cap <= log.cap

Dates ==
    /\ auto.last <= day
    /\ auto.last = 0 => auto.begun = 0 /\ auto.spent = 0
    /\ \A d \in Days : d > day => log.begun[d] = 0 /\ log.spent[d] = 0
    /\ loop.at = "decide" => /\ loop.last = auto.last
                             /\ loop.spent = auto.spent
                             /\ loop.begun = auto.begun
    /\ Busy => loop.today <= day
    /\ loop.at \in {"wait", "account"} => auto.last # 0

\* As long as no tick went past midnight: begun and spent are what the shared
\* counters say and what the loop still owes them.
Accounts ==
    ~log.midnight =>
        /\ Busy => loop.today = day /\ auto.last \in {0, day}
        /\ loop.at \in {"wait", "account"} => auto.last = day
        /\ log.begun[day] = Counted(auto.begun) + (IF loop.at = "record" THEN 1 ELSE 0)
        /\ loop.at \in {"meta", "pop", "start"} => log.begun[day] < log.cap

Costs ==
    ~log.midnight /\ log.overslept = {} =>
        /\ log.spent[day] = Counted(auto.spent)
                            + (IF HasSwarm THEN swarms[loop.swarm].cost ELSE 0)
        /\ loop.at = "account" => /\ Over(loop.swarm)
                                  /\ loop.cost = swarms[loop.swarm].cost
        /\ loop.at \in {"meta", "pop", "start"} => log.spent[day] < log.budget

LoopInv ==
    /\ LoopTypeOK /\ Current /\ Alone /\ StopOK /\ QueueOK
    /\ Limits /\ Dates /\ Accounts /\ Costs

AutoInv == EntriesOK /\ TreeOK /\ LoopInv

-----------------------------------------------------------------------------
(* Entries                                                                   *)

USE SwarmAssumption

LEMMA EntriesInit == SwarmInit => EntriesOK
<1> SUFFICES ASSUME SwarmInit PROVE EntriesOK
  OBVIOUS
<1>1. NoEntry \in Entries /\ EntryOK(NoEntry)
  BY DEF NoEntry, Entries, EntryOK, Steps, Ended, Branches, User
<1>2. SwarmTypeOK
  BY <1>1 DEF SwarmInit, SwarmTypeOK, Branches, User, NoReview
<1> QED
  BY <1>1, <1>2 DEF SwarmInit, EntriesOK

LEMMA OneEntry ==
  ASSUME EntriesOK, NEW s \in Swarms, NEW e \in Entries, EntryOK(e),
         swarms' = [swarms EXCEPT ![s] = e]
  PROVE  /\ swarms' \in [Swarms -> Entries]
         /\ \A t \in Swarms : EntryOK(swarms[t])'
         /\ swarms'[s] = e
         /\ \A t \in Swarms : t # s => swarms'[t] = swarms[t]
<1>1. swarms \in [Swarms -> Entries]
  BY DEF EntriesOK, SwarmTypeOK
<1>2. /\ swarms' \in [Swarms -> Entries]
      /\ swarms'[s] = e
      /\ \A t \in Swarms : t # s => swarms'[t] = swarms[t]
  BY <1>1
<1>3. \A t \in Swarms : EntryOK(swarms'[t])
  BY <1>2 DEF EntriesOK
<1> QED
  BY <1>2, <1>3 DEF EntryOK

LEMMA ChargedOK ==
  ASSUME NEW e \in Entries, e.at \in {"plan", "eval"}, EntryOK(e)
  PROVE  /\ Charged(e) \in Entries
         /\ Charged(e) = [e EXCEPT !.tokens = Charged(e).tokens, !.cost = e.cost + 1]
         /\ Charged(e).tokens \in 0..(MaxTokens + 1)
         /\ Charged(e).cost <= 2 * e.round
<1> DEFINE n == Plus(e.tokens, 1)
<1>1. n \in 0..(MaxTokens + 1)
  BY DEF Entries, Plus
<1>2. e.cost + 1 \in 0..(2 * MaxRounds) /\ e.cost + 1 <= 2 * e.round
  BY DEF Entries, EntryOK
<1>3. Charged(e) = [[e EXCEPT !.tokens = n] EXCEPT !.cost = e.cost + 1]
  BY DEF Charged, Entries
<1> HIDE DEF n
<1>4. /\ Charged(e) \in Entries
      /\ Charged(e).tokens = n /\ Charged(e).cost = e.cost + 1
      /\ Charged(e) = [e EXCEPT !.tokens = n, !.cost = e.cost + 1]
  BY <1>1, <1>2, <1>3 DEF Entries
<1> QED
  BY <1>1, <1>2, <1>4

\* What the orchestrator may make of an entry.
Moves(s, e) ==
    /\ e \in Entries /\ EntryOK(e) /\ e.at # "none"
    /\ e.auto = swarms[s].auto /\ e.cost >= swarms[s].cost
    /\ swarms[s].at \notin {"none", "over", "stranded"}
    /\ swarms[s].at # "look" => e.home = swarms[s].home

LEMMA NextRoundOK ==
  ASSUME NEW e \in Entries, e.at \in {"plan", "eval"}, e.round >= 1, e.cost <= 2 * e.round,
         e.status \notin Ended, e.home = User
  PROVE  /\ NextRound(e) \in Entries /\ EntryOK(NextRound(e))
         /\ NextRound(e).at \in {"check", "look"}
         /\ NextRound(e).auto = e.auto /\ NextRound(e).cost = e.cost
         /\ NextRound(e).home = e.home
<1>1. CASE e.round < MaxRounds
  <2> DEFINE r == e.round + 1
             f == [[e EXCEPT !.at = "check"] EXCEPT !.round = r]
  <2>1. NextRound(e) = f
    BY <1>1 DEF NextRound, Entries
  <2>2. r \in 0..MaxRounds /\ r - 1 = e.round /\ r >= 1
    BY <1>1 DEF Entries
  <2> HIDE DEF r
  <2>3. /\ f \in Entries /\ f.at = "check" /\ f.round = r /\ f.cost = e.cost
        /\ f.auto = e.auto /\ f.status = e.status /\ f.home = e.home
    BY <2>2 DEF Entries, Steps
  <2> HIDE DEF f
  <2> QED
    BY <2>1, <2>2, <2>3 DEF EntryOK
<1>2. CASE ~(e.round < MaxRounds)
  <2> DEFINE f == [e EXCEPT !.at = "look"]
  <2>1. NextRound(e) = f
    BY <1>2 DEF NextRound
  <2>2. /\ f \in Entries /\ f.at = "look" /\ f.cost = e.cost /\ f.auto = e.auto
        /\ f.status = e.status /\ f.home = e.home
    BY DEF Entries, Steps
  <2> HIDE DEF f
  <2> QED
    BY <2>1, <2>2 DEF EntryOK
<1> QED
  BY <1>1, <1>2

\* A lost orchestrator leaves its entry as it was.
LEMMA LoseOK ==
  ASSUME NEW s \in Swarms, NEW from \in Steps \ {"none", "over", "stranded"}, NEW e \in Entries,
         e.status \notin Ended, e.auto = swarms[s].auto, e.cost >= swarms[s].cost,
         e.home = swarms[s].home, Lose(s, from, e)
  PROVE  \E f : /\ swarms' = [swarms EXCEPT ![s] = f] /\ Moves(s, f)
                /\ f.home = swarms[s].home
                /\ f.at = IF from \in {"commit", "test"} THEN "stranded" ELSE "lost"
<1> DEFINE at == IF from \in {"commit", "test"} THEN "stranded" ELSE "lost"
           f == [e EXCEPT !.at = at]
<1>1. swarms' = [swarms EXCEPT ![s] = f] /\ swarms[s].at = from
  BY DEF Lose, Go
<1>2. at \in {"lost", "stranded"}
  OBVIOUS
<1> HIDE DEF at
<1>3. /\ f \in Entries /\ f.at = at /\ f.status = e.status /\ f.auto = e.auto
      /\ f.cost = e.cost /\ f.home = e.home
  BY <1>2 DEF Entries, Steps
<1> HIDE DEF f
<1>4. Moves(s, f)
  BY <1>1, <1>2, <1>3 DEF Moves, EntryOK
<1> QED
  BY <1>1, <1>3, <1>4 DEF at

LEMMA PlanOK ==
  ASSUME EntriesOK, NEW s \in Swarms, Plan(s)
  PROVE  /\ \E e : swarms' = [swarms EXCEPT ![s] = e] /\ Moves(s, e)
                   /\ e.at \in {"check", "look", "join", "lost"}
         /\ work' \subseteq [swarm : Swarms, round : 1..MaxRounds, task : Subtasks,
                             awaited : BOOLEAN]
         /\ UNCHANGED <<tree, review, past>>
<1> DEFINE b == swarms[s]
<1>0. b \in Entries /\ EntryOK(b) /\ b.at = "plan"
  BY DEF EntriesOK, SwarmTypeOK, Plan, Lose, Go
<1>00. b.status \notin Ended /\ b.round >= 1 /\ b.round \in 1..MaxRounds /\ b.cost <= 2 * b.round
  BY <1>0 DEF EntryOK, Entries
<1>3. work \subseteq [swarm : Swarms, round : 1..MaxRounds, task : Subtasks, awaited : BOOLEAN]
  BY DEF EntriesOK, SwarmTypeOK
<1>4. /\ Charged(b) \in Entries
      /\ Charged(b) = [b EXCEPT !.tokens = Charged(b).tokens, !.cost = b.cost + 1]
      /\ Charged(b).tokens \in 0..(MaxTokens + 1)
      /\ Charged(b).cost <= 2 * b.round
  BY <1>0, ChargedOK
<1>5. /\ Charged(b).at = "plan" /\ Charged(b).round = b.round /\ Charged(b).status = b.status
      /\ Charged(b).auto = b.auto /\ Charged(b).cost = b.cost + 1 /\ Charged(b).home = b.home
  BY <1>0, <1>4 DEF Entries
<1>1. CASE /\ \E entry \in {swarms[s], Charged(swarms[s])} :
                  Go(s, "plan", NextRound(entry)) \/ Lose(s, "plan", entry)
           /\ UNCHANGED <<work, tree, review, past>>
  <2>1. PICK e \in {b, Charged(b)} : Go(s, "plan", NextRound(e)) \/ Lose(s, "plan", e)
    BY <1>1
  <2>2. /\ e \in Entries /\ e.at = "plan" /\ e.round >= 1 /\ e.cost <= 2 * e.round
        /\ e.status \notin Ended /\ e.auto = b.auto /\ e.cost >= b.cost /\ e.home = b.home
        /\ b.home = User
    BY <2>1, <1>0, <1>00, <1>4, <1>5 DEF Entries, EntryOK
  <2>3. Moves(s, NextRound(e)) /\ NextRound(e).at \in {"check", "look"}
    BY <2>2, <1>0, NextRoundOK DEF Moves
  <2>4. ASSUME Lose(s, "plan", e)
        PROVE  \E f : swarms' = [swarms EXCEPT ![s] = f] /\ Moves(s, f) /\ f.at = "lost"
    BY <2>2, <2>4, LoseOK DEF Steps
  <2> QED
    BY <1>1, <1>3, <2>1, <2>3, <2>4 DEF Go
<1>2. ASSUME NEW T \in SUBSET Subtasks \ {{}},
             Go(s, "plan", [Charged(swarms[s]) EXCEPT !.at = "join", !.status = "dispatching"]),
             work' = work \cup [swarm : {s}, round : {swarms[s].round},
                                task : T, awaited : {TRUE}],
             UNCHANGED <<tree, review, past>>
      PROVE  /\ \E e : swarms' = [swarms EXCEPT ![s] = e] /\ Moves(s, e) /\ e.at = "join"
             /\ work' \subseteq [swarm : Swarms, round : 1..MaxRounds, task : Subtasks,
                                 awaited : BOOLEAN]
  <2> DEFINE c == Charged(b)
             f == [[c EXCEPT !.at = "join"] EXCEPT !.status = "dispatching"]
  <2>1. swarms' = [swarms EXCEPT ![s] = f]
    BY <1>2 DEF Go
  <2>11. /\ c \in Entries /\ c.round = b.round /\ c.auto = b.auto /\ c.cost = b.cost + 1
         /\ c.home = b.home
    BY <1>4, <1>5
  <2>12. b.cost <= 2 * (b.round - 1)
    BY <1>0 DEF EntryOK
  <2> HIDE DEF c
  <2>2. /\ f \in Entries /\ f.at = "join" /\ f.status = "dispatching" /\ f.round = b.round
        /\ f.auto = b.auto /\ f.cost = b.cost + 1 /\ f.home = b.home
    BY <2>11 DEF Entries, Steps
  <2> HIDE DEF f
  <2>3. EntryOK(f)
    BY <2>2, <2>12, <1>00, <1>0 DEF EntryOK, Entries, Ended
  <2>4. Moves(s, f)
    BY <2>2, <2>3, <1>0 DEF Moves, Entries
  <2> QED
    BY <1>2, <1>3, <1>00, <2>1, <2>2, <2>4
<1> QED
  BY <1>1, <1>2 DEF Plan

\* The steps that change only the entry, and Plan, keep an entry in order.
LEMMA RoundMoves ==
  ASSUME EntriesOK, NEW s \in Swarms,
         Capture(s) \/ Check(s) \/ Join(s) \/ Eval(s) \/ Finalize(s)
  PROVE  /\ \E e : swarms' = [swarms EXCEPT ![s] = e] /\ Moves(s, e)
                /\ e.at \notin {"branch", "commit", "test"}
         /\ UNCHANGED <<work, tree, review, past>>
<1> DEFINE b == swarms[s]
<1>0. b \in Entries /\ EntryOK(b)
  BY DEF EntriesOK, SwarmTypeOK
<1>6. ASSUME NEW from \in {"capture", "eval"}, Lose(s, from, b)
      PROVE  \E f : swarms' = [swarms EXCEPT ![s] = f] /\ Moves(s, f) /\ f.at = "lost"
  <2>1. b.at = from
    BY <1>6 DEF Lose, Go
  <2>2. b.status \notin Ended /\ b.cost >= b.cost
    BY <1>0, <2>1 DEF EntryOK, Entries
  <2> QED
    BY <1>0, <1>6, <2>2, LoseOK DEF Steps
<1>1. CASE Capture(s)
  <2> DEFINE f == [[[b EXCEPT !.at = "check"] EXCEPT !.round = 1] EXCEPT !.before = CaptureStatus]
  <2>0. CASE Lose(s, "capture", b)
    BY <1>1, <1>6, <2>0 DEF Capture
  <2> SUFFICES ASSUME Go(s, "capture", [swarms[s] EXCEPT !.at = "check", !.round = 1,
                                                         !.before = CaptureStatus])
               PROVE  \E e : swarms' = [swarms EXCEPT ![s] = e] /\ Moves(s, e)
                             /\ e.at \notin {"branch", "commit", "test"}
    BY <1>1, <2>0 DEF Capture
  <2>1. swarms' = [swarms EXCEPT ![s] = f] /\ b.at = "capture"
    BY DEF Go
  <2>10. 1 \in 0..MaxRounds
    OBVIOUS
  <2>11. CaptureStatus \in SUBSET Files
    BY DEF CaptureStatus
  <2>2. /\ f \in Entries /\ f.at = "check" /\ f.round = 1 /\ f.cost = b.cost
        /\ f.auto = b.auto /\ f.status = b.status /\ f.home = b.home
    BY <1>0, <2>10, <2>11 DEF Entries, Steps
  <2> HIDE DEF f
  <2>3. EntryOK(f)
    BY <1>0, <2>1, <2>2 DEF EntryOK
  <2>4. Moves(s, f)
    BY <1>0, <2>1, <2>2, <2>3 DEF Moves, Entries
  <2> QED
    BY <2>1, <2>2, <2>4
<1>2. CASE Check(s)
  <2> DEFINE f == IF Precheck(s) THEN [[b EXCEPT !.at = "plan"] EXCEPT !.status = "planning"]
                                 ELSE [b EXCEPT !.at = "look"]
  <2>1. swarms' = [swarms EXCEPT ![s] = f] /\ b.at = "check"
    BY <1>2 DEF Check, Go
  <2>2. /\ f \in Entries /\ f.at \in {"plan", "look"} /\ f.round = b.round /\ f.cost = b.cost
        /\ f.auto = b.auto /\ f.status \in {b.status, "planning"} /\ f.home = b.home
    BY <1>0 DEF Entries, Steps
  <2> HIDE DEF f
  <2>3. EntryOK(f)
    BY <1>0, <2>1, <2>2 DEF EntryOK, Ended
  <2>4. Moves(s, f)
    BY <1>0, <2>1, <2>2, <2>3 DEF Moves, Entries
  <2> QED
    BY <1>2, <2>1, <2>2, <2>4 DEF Check
<1>3. CASE Join(s)
  <2> DEFINE f == IF Precheck(s) THEN [[b EXCEPT !.at = "eval"] EXCEPT !.status = "evaluating"]
                                 ELSE [b EXCEPT !.at = "look"]
  <2>1. swarms' = [swarms EXCEPT ![s] = f] /\ b.at = "join"
    BY <1>3 DEF Join, Go
  <2>2. /\ f \in Entries /\ f.at \in {"eval", "look"} /\ f.round = b.round /\ f.cost = b.cost
        /\ f.auto = b.auto /\ f.status \in {b.status, "evaluating"} /\ f.home = b.home
    BY <1>0 DEF Entries, Steps
  <2> HIDE DEF f
  <2>3. EntryOK(f)
    BY <1>0, <2>1, <2>2 DEF EntryOK, Ended
  <2>4. Moves(s, f)
    BY <1>0, <2>1, <2>2, <2>3 DEF Moves, Entries
  <2> QED
    BY <1>3, <2>1, <2>2, <2>4 DEF Join
<1>4. CASE Eval(s)
  <2>0. b.at = "eval"
    BY <1>4 DEF Eval, Lose, Go
  <2>1. b.status \notin Ended /\ b.round >= 1 /\ b.cost <= 2 * b.round
    BY <1>0, <2>0 DEF EntryOK, Entries
  <2>2. /\ Charged(b) \in Entries
        /\ Charged(b) = [b EXCEPT !.tokens = Charged(b).tokens, !.cost = b.cost + 1]
        /\ Charged(b).tokens \in 0..(MaxTokens + 1)
        /\ Charged(b).cost <= 2 * b.round
    BY <1>0, <2>0, ChargedOK
  <2>3. /\ Charged(b).at = "eval" /\ Charged(b).round = b.round /\ Charged(b).status = b.status
        /\ Charged(b).auto = b.auto /\ Charged(b).cost = b.cost + 1
        /\ Charged(b).home = b.home
    BY <1>0, <2>0, <2>2 DEF Entries
  <2>4. CASE \E entry \in {swarms[s], Charged(swarms[s])} : Go(s, "eval", NextRound(entry))
    <3>1. PICK e \in {b, Charged(b)} : Go(s, "eval", NextRound(e))
      BY <2>4
    <3>2. /\ e \in Entries /\ e.at = "eval" /\ e.round >= 1 /\ e.cost <= 2 * e.round
          /\ e.status \notin Ended /\ e.auto = b.auto /\ e.cost >= b.cost /\ e.home = b.home
          /\ b.home = User
      BY <3>1, <1>0, <2>0, <2>1, <2>2, <2>3 DEF Entries, EntryOK
    <3>3. Moves(s, NextRound(e)) /\ NextRound(e).at \in {"check", "look"}
      BY <3>2, <2>0, NextRoundOK DEF Moves
    <3> QED
      BY <1>4, <3>1, <3>3 DEF Go, Eval
  <2>5. CASE Go(s, "eval", [Charged(swarms[s]) EXCEPT !.at = "look"])
    <3> DEFINE c == Charged(b)
               f == [c EXCEPT !.at = "look"]
    <3>1. swarms' = [swarms EXCEPT ![s] = f]
      BY <2>5 DEF Go
    <3>2. /\ c \in Entries /\ c.status = b.status /\ c.auto = b.auto /\ c.cost = b.cost + 1
          /\ c.home = b.home
      BY <2>2, <2>3
    <3> HIDE DEF c
    <3>3. /\ f \in Entries /\ f.at = "look" /\ f.status = b.status
          /\ f.auto = b.auto /\ f.cost = b.cost + 1 /\ f.home = b.home
      BY <3>2 DEF Entries, Steps
    <3> HIDE DEF f
    <3>4. Moves(s, f)
      BY <1>0, <2>0, <2>1, <3>3 DEF Moves, EntryOK, Entries
    <3> QED
      BY <1>4, <3>1, <3>3, <3>4 DEF Eval
  <2>6. CASE Lose(s, "eval", b)
    BY <1>4, <1>6, <2>6 DEF Eval
  <2> QED
    BY <1>4, <2>4, <2>5, <2>6 DEF Eval
<1>5. CASE Finalize(s)
  <2> DEFINE st == IF swarms[s].stop THEN "stopped" ELSE "done"
             f == [[b EXCEPT !.at = "over"] EXCEPT !.status = st]
  <2>1. swarms' = [swarms EXCEPT ![s] = f] /\ b.at = "finalize"
    BY <1>5 DEF Finalize, Go
  <2>11. st \in Ended
    BY DEF Ended
  <2> HIDE DEF st
  <2>2. /\ f \in Entries /\ f.at = "over" /\ f.cost = b.cost
        /\ f.auto = b.auto /\ f.status = st /\ f.home = b.home
    BY <1>0, <2>11 DEF Entries, Steps
  <2> HIDE DEF f
  <2>3. EntryOK(f)
    BY <2>11, <2>2 DEF EntryOK
  <2>4. Moves(s, f)
    BY <1>0, <2>1, <2>2, <2>3 DEF Moves, Entries
  <2> QED
    BY <1>5, <2>1, <2>2, <2>4 DEF Finalize
<1> QED
  BY <1>1, <1>2, <1>3, <1>4, <1>5

\* The steps of the pipeline change where the orchestrator is.
LEMMA Moved ==
  ASSUME NEW b \in Entries, EntryOK(b), b.at \in {"look", "branch", "commit", "test"},
         NEW at \in {"branch", "commit", "test", "finalize", "lost", "stranded"}
  PROVE  LET e == [b EXCEPT !.at = at]
         IN /\ e \in Entries /\ EntryOK(e) /\ e.at = at /\ e.home = b.home
            /\ e.auto = b.auto /\ e.cost = b.cost
<1> DEFINE e == [b EXCEPT !.at = at]
<1>1. /\ e \in Entries /\ e.at = at /\ e.home = b.home /\ e.status = b.status
      /\ e.auto = b.auto /\ e.cost = b.cost
  BY DEF Entries, Steps
<1> HIDE DEF e
<1>2. EntryOK(e)
  BY <1>1 DEF EntryOK
<1> QED
  BY <1>1, <1>2 DEF e

-----------------------------------------------------------------------------
(* The working copy                                                          *)

Trees == [branch : Branches, dirty : SUBSET Files, made : SUBSET Swarms,
          tip : [Branches -> SUBSET Swarms], commits : [Swarms -> SUBSET Files]]
Pasts == [edited : SUBSET Files, merged : SUBSET Swarms, reviews : Nat,
          overlap : BOOLEAN, refused : BOOLEAN]
InPipe == {"branch", "commit", "test"}

LEMMA TreeInit == SwarmInit => TreeOK
<1> SUFFICES ASSUME SwarmInit PROVE TreeOK
  OBVIOUS
<1>1. Piping = {}
  BY DEF SwarmInit, Piping, NoEntry
<1>2. tree.tip[User] = {} /\ tree.branch \in {User, Detached} /\ review = NoReview
  BY DEF SwarmInit, Branches, User
<1> QED
  BY <1>1, <1>2 DEF TreeOK

\* Who has strayed has strayed for good.
LEMMA StrayedStay ==
  ASSUME EntriesOK, NEW s \in Swarms, NEW e \in Entries, swarms' = [swarms EXCEPT ![s] = e],
         swarms[s].at # "stranded",
         swarms[s].home = Detached => e.home = Detached
  PROVE  Strayed' = {} => Strayed = {} /\ e.at # "stranded" /\ e.home # Detached
<1>1. swarms \in [Swarms -> Entries]
  BY DEF EntriesOK, SwarmTypeOK
<1>2. swarms'[s] = e /\ \A t \in Swarms : t # s => swarms'[t] = swarms[t]
  BY <1>1
<1>3. \A t \in Strayed : t \in Strayed'
  BY <1>2 DEF Strayed
<1>4. e.at = "stranded" \/ e.home = Detached => s \in Strayed'
  BY <1>2 DEF Strayed
<1> QED
  BY <1>3, <1>4

\* The orchestrator leaves the pipeline or stays out of it.
LEMMA TreeKept ==
  ASSUME EntriesOK, TreeOK, NEW s \in Swarms, NEW e \in Entries,
         swarms' = [swarms EXCEPT ![s] = e], UNCHANGED <<tree, review, past>>,
         swarms[s].at \notin InPipe \cup {"stranded"}, e.at \notin InPipe,
         e.home = swarms[s].home
  PROVE  TreeOK'
<1>0. Strayed' = {} => Strayed = {}
  BY StrayedStay
<1>1. swarms \in [Swarms -> Entries]
  BY DEF EntriesOK, SwarmTypeOK
<1>2. swarms'[s] = e /\ \A t \in Swarms : t # s => swarms'[t] = swarms[t]
  BY <1>1
<1>3. Piping' = Piping
  BY <1>2 DEF Piping, InPipe
<1>4. \A t \in Piping : t \in Swarms /\ t # s /\ swarms'[t] = swarms[t]
  BY <1>2 DEF Piping, InPipe
<1> QED
  BY <1>0, <1>3, <1>4 DEF TreeOK

LEMMA LookOK ==
  ASSUME EntriesOK, TreeOK, NEW s \in Swarms, LookOnly(s)
  PROVE  /\ \E e : swarms' = [swarms EXCEPT ![s] = e] /\ Moves(s, e)
         /\ UNCHANGED <<work, tree, review>> /\ past' \in Pasts /\ TreeOK'
<1> DEFINE b == swarms[s]
<1>0. /\ b \in Entries /\ EntryOK(b) /\ swarms \in [Swarms -> Entries]
      /\ tree \in Trees /\ past \in Pasts
  BY DEF EntriesOK, SwarmTypeOK, Trees, Pasts
<1>00. b.at = "look" /\ UNCHANGED <<work, tree, review>>
  BY DEF LookOnly, Look, Lose, Go
<1>1. CASE Go(s, "look", [swarms[s] EXCEPT !.at = "finalize"]) /\ UNCHANGED past
  <2> DEFINE f == [b EXCEPT !.at = "finalize"]
  <2>1. /\ f \in Entries /\ EntryOK(f) /\ f.at = "finalize" /\ f.auto = b.auto /\ f.cost = b.cost
        /\ f.home = b.home
    BY <1>0, <1>00, Moved
  <2>2. swarms' = [swarms EXCEPT ![s] = f]
    BY <1>1 DEF Go
  <2> HIDE DEF f
  <2>3. Moves(s, f)
    BY <1>0, <1>00, <2>1 DEF Moves, Entries
  <2>4. TreeOK'
    BY <1>00, <1>1, <2>1, <2>2, TreeKept DEF InPipe
  <2> QED
    BY <1>0, <1>00, <1>1, <2>2, <2>3, <2>4
<1>2. CASE /\ swarms[s].auto /\ tree.dirty # {}
           /\ Go(s, "look", [swarms[s] EXCEPT !.at = "branch", !.home = tree.branch])
           /\ past' = [past EXCEPT !.overlap = @ \/ Piping # {} \/ review # NoReview]
  <2> DEFINE h == tree.branch
             f == [[b EXCEPT !.at = "branch"] EXCEPT !.home = h]
  <2>0. h \in Branches
    BY <1>0 DEF Trees
  <2>20. swarms' = [swarms EXCEPT ![s] = f]
    BY <1>2 DEF Go
  <2> HIDE DEF h
  <2>10. /\ f \in Entries /\ f.at = "branch" /\ f.home = h /\ f.status = b.status
         /\ f.auto = b.auto /\ f.cost = b.cost
    BY <1>0, <2>0 DEF Entries, Steps
  <2> HIDE DEF f
  <2>11. EntryOK(f)
    BY <1>0, <1>00, <2>10 DEF EntryOK
  <2>1. /\ f \in Entries /\ EntryOK(f) /\ f.at = "branch" /\ f.home = tree.branch
        /\ f.auto = b.auto /\ f.cost = b.cost
    BY <2>10, <2>11 DEF h
  <2>2. swarms' = [swarms EXCEPT ![s] = f]
    BY <2>20
  <2>3. Moves(s, f)
    BY <1>0, <1>00, <2>1 DEF Moves, Entries
  <2>4. swarms'[s] = f /\ \A t \in Swarms : t # s => swarms'[t] = swarms[t]
    BY <1>0, <2>1, <2>2
  <2>5. /\ past' \in Pasts /\ past'.refused = past.refused /\ past'.merged = past.merged
        /\ past'.overlap <=> past.overlap \/ Piping # {} \/ review # NoReview
    BY <1>0, <1>2 DEF Pasts
  <2>6. TreeOK'
    <3> SUFFICES ASSUME ~past'.overlap PROVE TreeOK'
      BY DEF TreeOK
    <3>1. ~past.overlap /\ Piping = {} /\ review = NoReview
      BY <2>5
    <3>2. Piping' = {s}
      BY <2>1, <2>4, <3>1 DEF Piping
    <3>3. Strayed' = {} => Strayed = {} /\ f.home # Detached
      <4>1. Strayed \subseteq Strayed' \cup {s}
        BY <2>4 DEF Strayed
      <4>2. s \notin Strayed
        BY <1>0, <1>00 DEF Strayed, EntryOK, User, Detached
      <4>3. f.home = Detached => s \in Strayed'
        BY <2>4 DEF Strayed
      <4> QED
        BY <4>1, <4>2, <4>3
    <3> QED
      BY <1>00, <2>1, <2>4, <2>5, <3>1, <3>2, <3>3 DEF TreeOK
  <2> QED
    BY <1>0, <1>00, <2>2, <2>3, <2>5, <2>6
<1>3. CASE Lose(s, "look", b) /\ UNCHANGED past
  <2>1. b.status \notin Ended /\ b.cost >= b.cost
    BY <1>0, <1>00 DEF EntryOK, Entries
  <2>2. PICK f : /\ swarms' = [swarms EXCEPT ![s] = f] /\ Moves(s, f)
                 /\ f.home = b.home /\ f.at = "lost"
    BY <1>0, <1>3, <2>1, LoseOK DEF Steps
  <2>3. TreeOK'
    BY <1>00, <1>3, <2>2, TreeKept DEF InPipe, Moves
  <2> QED
    BY <1>0, <1>00, <1>3, <2>2, <2>3
<1> QED
  BY <1>1, <1>2, <1>3 DEF LookOnly, Look

LEMMA TreeType == EntriesOK => tree \in Trees /\ past \in Pasts
  BY DEF EntriesOK, SwarmTypeOK, Trees, Pasts

\* While no two pipelines have met, the one that runs is the only one.
LEMMA OnlyPipe ==
  ASSUME EntriesOK, TreeOK, NEW s \in Swarms, NEW e \in Entries, EntryOK(e),
         swarms' = [swarms EXCEPT ![s] = e], swarms[s].at \in InPipe, ~past.overlap
  PROVE  /\ Piping = {s} /\ review = NoReview
         /\ Piping' = IF e.at \in InPipe THEN {s} ELSE {}
<1>1. swarms'[s] = e /\ \A t \in Swarms : t # s => swarms'[t] = swarms[t]
  BY OneEntry
<1>2. s \in Piping /\ review = NoReview /\ \A t \in Piping : t = s
  BY DEF TreeOK, Piping, InPipe
<1> QED
  BY <1>1, <1>2 DEF Piping, InPipe

LEMMA BranchOK ==
  ASSUME EntriesOK, TreeOK, NEW s \in Swarms, Branch(s)
  PROVE  /\ \E e : swarms' = [swarms EXCEPT ![s] = e] /\ Moves(s, e)
         /\ UNCHANGED <<work, review, past>> /\ tree' \in Trees /\ TreeOK'
<1> DEFINE b == swarms[s]
<1>0. b \in Entries /\ EntryOK(b)
  BY DEF EntriesOK, SwarmTypeOK
<1>1. b.at = "branch" /\ UNCHANGED <<work, review, past>> /\ tree \in Trees
  BY TreeType DEF Branch, Lose, Go
<1>2. s \in Branches /\ s # User
  BY DEF Branches, Swarms, User
<1>3. CASE CreateBranch(s) /\ Go(s, "branch", [swarms[s] EXCEPT !.at = "commit"])
  <2> DEFINE f == [b EXCEPT !.at = "commit"]
  <2>1. /\ f \in Entries /\ EntryOK(f) /\ f.at = "commit" /\ f.auto = b.auto
        /\ f.cost = b.cost /\ f.home = b.home
    BY <1>0, <1>1, Moved
  <2>2. swarms' = [swarms EXCEPT ![s] = f]
    BY <1>3 DEF Go
  <2> HIDE DEF f
  <2>3. Moves(s, f)
    BY <1>0, <1>1, <2>1 DEF Moves, Entries
  <2> DEFINE h == tree.tip[tree.branch]
             tips == [tree.tip EXCEPT ![s] = h]
             made == tree.made \cup {s}
  <2>4. h \in SUBSET Swarms
    BY <1>1 DEF Trees
  <2>5. tree' = [[[tree EXCEPT !.branch = s] EXCEPT !.made = made] EXCEPT !.tip = tips]
    BY <1>1, <1>3 DEF CreateBranch, Trees
  <2>50. made \in SUBSET Swarms
    BY <1>1 DEF Trees
  <2> HIDE DEF h, made
  <2>6. tips \in [Branches -> SUBSET Swarms] /\ tips[User] = tree.tip[User]
    BY <1>1, <1>2, <2>4 DEF Trees, Branches
  <2> HIDE DEF tips
  <2>7. tree' \in Trees /\ tree'.branch = s /\ tree'.tip = tips
    BY <1>1, <1>2, <2>5, <2>50, <2>6 DEF Trees
  <2>8. TreeOK'
    <3> SUFFICES ASSUME ~past.overlap PROVE TreeOK'
      BY <1>1 DEF TreeOK
    <3>1. Piping = {s} /\ review = NoReview /\ Piping' = {s}
      BY <1>1, <2>1, <2>2, OnlyPipe DEF InPipe
    <3>2. swarms'[s] = f
      BY <2>1, <2>2, OneEntry
    <3>3. Strayed' = {} => Strayed = {}
      BY <1>1, <2>1, <2>2, StrayedStay
    <3> QED
      BY <1>1, <2>1, <2>6, <2>7, <3>1, <3>2, <3>3 DEF TreeOK
  <2> QED
    BY <1>1, <2>2, <2>3, <2>7, <2>8
<1>5. ASSUME NEW f, swarms' = [swarms EXCEPT ![s] = f], Moves(s, f), UNCHANGED tree,
             f.at \in {"finalize", "lost"}
      PROVE  TreeOK'
  <2> SUFFICES ASSUME ~past.overlap PROVE TreeOK'
    BY <1>1 DEF TreeOK
  <2>0. f \in Entries /\ EntryOK(f) /\ f.home = b.home
    BY <1>1, <1>5 DEF Moves
  <2>1. Piping = {s} /\ review = NoReview /\ Piping' = {}
    BY <1>1, <1>5, <2>0, OnlyPipe DEF InPipe
  <2>2. Strayed' = {} => Strayed = {}
    BY <1>1, <1>5, <2>0, StrayedStay
  <2> QED
    BY <1>1, <1>5, <2>1, <2>2 DEF TreeOK
<1>4. CASE UNCHANGED tree /\ Go(s, "branch", [swarms[s] EXCEPT !.at = "finalize"])
  <2> DEFINE f == [b EXCEPT !.at = "finalize"]
  <2>1. /\ f \in Entries /\ EntryOK(f) /\ f.at = "finalize" /\ f.auto = b.auto
        /\ f.cost = b.cost /\ f.home = b.home
    BY <1>0, <1>1, Moved
  <2>2. swarms' = [swarms EXCEPT ![s] = f]
    BY <1>4 DEF Go
  <2> HIDE DEF f
  <2>3. Moves(s, f)
    BY <1>0, <1>1, <2>1 DEF Moves, Entries
  <2> QED
    BY <1>1, <1>4, <1>5, <2>1, <2>2, <2>3
<1>6. CASE UNCHANGED tree /\ Lose(s, "branch", b)
  <2>1. b.status \notin Ended /\ b.cost >= b.cost
    BY <1>0, <1>1 DEF EntryOK, Entries
  <2>2. PICK f : swarms' = [swarms EXCEPT ![s] = f] /\ Moves(s, f) /\ f.at = "lost"
    BY <1>0, <1>6, <2>1, LoseOK DEF Steps
  <2> QED
    BY <1>1, <1>5, <1>6, <2>2
<1> QED
  BY <1>3, <1>4, <1>6 DEF Branch

LEMMA CheckoutOK ==
  ASSUME NEW h \in Branches, tree \in Trees, past \in Pasts, Checkout(h)
  PROVE  /\ tree' \in Trees /\ past' \in Pasts
         /\ tree'.tip = tree.tip /\ past'.overlap = past.overlap
         /\ past'.merged = past.merged
         /\ past'.refused \/ (tree'.branch \in {tree.branch, h} /\ UNCHANGED past)
         /\ past'.refused \/ h = Detached \/ tree'.branch = h
<1> DEFINE b == IF h = Detached THEN tree.branch ELSE h
<1>1. CASE tree' = [tree EXCEPT !.branch = b] /\ UNCHANGED past
  BY <1>1 DEF Trees, Pasts
<1>2. CASE past' = [past EXCEPT !.refused = TRUE] /\ UNCHANGED tree
  BY <1>2 DEF Trees, Pasts
<1> QED
  BY <1>1, <1>2 DEF Checkout

\* A pipeline that checks out what it found, done or failed, is over.
LEMMA HomeOK ==
  ASSUME EntriesOK, TreeOK, NEW s \in Swarms, NEW from \in {"commit", "test"}, Home(s, from),
         UNCHANGED review
  PROVE  /\ \E e : swarms' = [swarms EXCEPT ![s] = e] /\ Moves(s, e)
         /\ tree' \in Trees /\ past' \in Pasts /\ TreeOK'
<1> DEFINE b == swarms[s]
           h == b.home
<1>0. b \in Entries /\ EntryOK(b) /\ h \in Branches
  BY DEF EntriesOK, SwarmTypeOK, Entries
<1>01. PICK place \in {"finalize", "lost"} : Go(s, from, [b EXCEPT !.at = place])
  BY DEF Home
<1> DEFINE f == [b EXCEPT !.at = place]
<1>02. b.at \in {"commit", "test"}
  BY <1>01 DEF Go
<1>1. /\ f \in Entries /\ EntryOK(f) /\ f.at \in {"finalize", "lost"} /\ f.auto = b.auto
      /\ f.cost = b.cost /\ f.home = h
  <2>1. /\ place \in {"branch", "commit", "test", "finalize", "lost", "stranded"}
        /\ b.at \in {"look", "branch", "commit", "test"}
    BY <1>02
  <2> HIDE DEF b
  <2>2. LET e == [b EXCEPT !.at = place]
        IN /\ e \in Entries /\ EntryOK(e) /\ e.at = place /\ e.home = b.home
           /\ e.auto = b.auto /\ e.cost = b.cost
    BY <1>0, <2>1, Moved
  <2> QED
    BY <2>2
<1>2. swarms' = [swarms EXCEPT ![s] = f]
  BY <1>01 DEF Go
<1>3. Checkout(h)
  BY DEF Home
<1> HIDE DEF f
<1>4. Moves(s, f)
  BY <1>0, <1>02, <1>1 DEF Moves, Entries
<1>5. tree \in Trees /\ past \in Pasts
  BY TreeType
<1>6. /\ tree' \in Trees /\ past' \in Pasts
      /\ tree'.tip = tree.tip /\ past'.overlap = past.overlap
      /\ past'.merged = past.merged
      /\ past'.refused \/ h = Detached \/ tree'.branch = h
      /\ past'.refused \/ UNCHANGED past
  BY <1>0, <1>3, <1>5, CheckoutOK
<1>7. TreeOK'
  <2> SUFFICES ASSUME ~past.overlap PROVE TreeOK'
    BY <1>6 DEF TreeOK
  <2>1. Piping = {s} /\ review = NoReview /\ Piping' = {}
    BY <1>02, <1>1, <1>2, OnlyPipe DEF InPipe
  <2>2. tree.tip[User] \subseteq past.merged /\ (Strayed = {} /\ ~past.refused => h = User)
    BY <2>1 DEF TreeOK
  <2>3. Strayed' = {} => Strayed = {} /\ h # Detached
    BY <1>02, <1>1, <1>2, StrayedStay
  <2> QED
    BY <1>6, <2>1, <2>2, <2>3 DEF TreeOK
<1> QED
  BY <1>2, <1>4, <1>6, <1>7

\* A pipeline that is lost has left the user on its branch.
LEMMA StrandOK ==
  ASSUME EntriesOK, TreeOK, NEW s \in Swarms, NEW from \in {"commit", "test"},
         Lose(s, from, swarms[s]), UNCHANGED <<tree, review, past>>
  PROVE  /\ \E e : swarms' = [swarms EXCEPT ![s] = e] /\ Moves(s, e)
         /\ tree' \in Trees /\ past' \in Pasts /\ TreeOK'
<1> DEFINE b == swarms[s]
<1>0. b \in Entries /\ EntryOK(b) /\ tree \in Trees /\ past \in Pasts
  BY TreeType DEF EntriesOK, SwarmTypeOK
<1>1. b.at \in {"commit", "test"}
  BY DEF Lose, Go
<1>2. b.status \notin Ended /\ b.cost >= b.cost
  BY <1>0, <1>1 DEF EntryOK, Entries
<1>3. PICK f : /\ swarms' = [swarms EXCEPT ![s] = f] /\ Moves(s, f)
               /\ f.home = b.home /\ f.at = "stranded"
  BY <1>0, <1>2, LoseOK DEF Steps
<1>4. f \in Entries /\ EntryOK(f)
  BY <1>3 DEF Moves
<1>5. Strayed' # {}
  BY <1>1, <1>3, <1>4, StrayedStay
<1>6. ~past.overlap => Piping = {s} /\ review = NoReview /\ Piping' = {}
  BY <1>1, <1>3, <1>4, OnlyPipe DEF InPipe
<1>7. TreeOK'
  BY <1>5, <1>6 DEF TreeOK
<1> QED
  BY <1>0, <1>3, <1>7

LEMMA ReturnOK ==
  ASSUME EntriesOK, TreeOK, NEW s \in Swarms, Return(s)
  PROVE  /\ \E e : swarms' = [swarms EXCEPT ![s] = e] /\ Moves(s, e)
         /\ UNCHANGED <<work, review>> /\ tree' \in Trees /\ past' \in Pasts /\ TreeOK'
  BY HomeOK, StrandOK DEF Return

LEMMA CommitOK ==
  ASSUME EntriesOK, TreeOK, NEW s \in Swarms, Commit(s)
  PROVE  /\ \E e : swarms' = [swarms EXCEPT ![s] = e] /\ Moves(s, e)
         /\ UNCHANGED <<work, review>> /\ tree' \in Trees /\ past' \in Pasts /\ TreeOK'
<1> DEFINE b == swarms[s]
           files == DiffStatus(b.before, CaptureStatus)
<1>0. b \in Entries /\ EntryOK(b) /\ tree \in Trees /\ past \in Pasts
  BY TreeType DEF EntriesOK, SwarmTypeOK
<1>1. b.at = "commit" /\ UNCHANGED <<work, review>>
  BY DEF Commit, Home, Lose, Go
<1>2. CASE /\ CommitAll(s, files)
           /\ Go(s, "commit", [swarms[s] EXCEPT !.at = "test"])
           /\ UNCHANGED past
  <2> DEFINE f == [b EXCEPT !.at = "test"]
             staged == Staged(files)
             commits == [tree.commits EXCEPT ![s] = staged]
             tip == tree.tip[tree.branch] \cup {s}
             tips == [tree.tip EXCEPT ![tree.branch] = tip]
             dirt == tree.dirty \ staged
  <2>1. /\ f \in Entries /\ EntryOK(f) /\ f.at = "test" /\ f.auto = b.auto
        /\ f.cost = b.cost /\ f.home = b.home
    BY <1>0, <1>1, Moved
  <2>2. swarms' = [swarms EXCEPT ![s] = f]
    BY <1>2 DEF Go
  <2> HIDE DEF f
  <2>3. Moves(s, f)
    BY <1>0, <1>1, <2>1 DEF Moves, Entries
  <2>4. staged \in SUBSET Files
    BY <1>0 DEF Staged, DiffStatus, CaptureStatus, Trees
  <2>5. tree' = [[[tree EXCEPT !.commits = commits] EXCEPT !.tip = tips] EXCEPT !.dirty = dirt]
    BY <1>0, <1>2 DEF CommitAll, Trees
  <2> HIDE DEF staged, files
  <2>6. commits \in [Swarms -> SUBSET Files]
    BY <1>0, <2>4 DEF Trees
  <2>7. tip \in SUBSET Swarms
    BY <1>0 DEF Trees
  <2>8. dirt \in SUBSET Files
    BY <1>0 DEF Trees
  <2> HIDE DEF commits, tip, dirt
  <2>9. /\ tips \in [Branches -> SUBSET Swarms]
        /\ tree.branch # User => tips[User] = tree.tip[User]
    BY <1>0, <2>7 DEF Trees, Branches
  <2> HIDE DEF tips
  <2>10. tree' \in Trees /\ tree'.branch = tree.branch /\ tree'.tip = tips
    BY <1>0, <2>5, <2>6, <2>8, <2>9 DEF Trees
  <2>11. TreeOK'
    <3> SUFFICES ASSUME ~past.overlap PROVE TreeOK'
      BY <1>2 DEF TreeOK
    <3>1. Piping = {s} /\ review = NoReview /\ Piping' = {s}
      BY <1>1, <2>1, <2>2, OnlyPipe DEF InPipe
    <3>2. swarms'[s] = f
      BY <2>1, <2>2, OneEntry
    <3>3. tree.branch = s /\ s # User /\ tree.tip[User] \subseteq past.merged
          /\ (Strayed = {} /\ ~past.refused => b.home = User)
      BY <1>1, <3>1 DEF TreeOK, Swarms, User
    <3>4. Strayed' = {} => Strayed = {}
      BY <1>1, <2>1, <2>2, StrayedStay
    <3> QED
      BY <1>1, <1>2, <2>1, <2>9, <2>10, <3>1, <3>2, <3>3, <3>4 DEF TreeOK
  <2> QED
    BY <1>0, <1>1, <1>2, <2>2, <2>3, <2>10, <2>11
<1>3. CASE Home(s, "commit")
  BY <1>1, <1>3, HomeOK
<1>4. CASE Lose(s, "commit", b) /\ UNCHANGED <<tree, past>>
  BY <1>1, <1>4, StrandOK
<1> QED
  BY <1>2, <1>3, <1>4 DEF Commit

-----------------------------------------------------------------------------
(* Every step of an orchestrator                                             *)

LEMMA OrchestrateOK ==
  ASSUME EntriesOK, TreeOK, NEW s \in Swarms, Orchestrate(s)
  PROVE  /\ EntriesOK' /\ TreeOK'
         /\ \E e : swarms' = [swarms EXCEPT ![s] = e] /\ Moves(s, e)
<1> DEFINE W == [swarm : Swarms, round : 1..MaxRounds, task : Subtasks, awaited : BOOLEAN]
<1>0. tree \in Trees /\ past \in Pasts /\ work \subseteq W /\ review \in Swarms \cup {NoReview}
  BY TreeType DEF EntriesOK, SwarmTypeOK
<1>1. /\ \E e : swarms' = [swarms EXCEPT ![s] = e] /\ Moves(s, e)
      /\ work' \subseteq W /\ tree' \in Trees /\ past' \in Pasts /\ TreeOK'
      /\ UNCHANGED review
  <2>1. ASSUME NEW e, swarms' = [swarms EXCEPT ![s] = e], Moves(s, e),
               e.at \notin InPipe, swarms[s].at \notin InPipe \cup {"look"},
               UNCHANGED <<tree, review, past>>
        PROVE  TreeOK'
    <3>1. e \in Entries /\ e.home = swarms[s].home /\ swarms[s].at # "stranded"
      BY <2>1 DEF Moves
    <3> QED
      BY <2>1, <3>1, TreeKept
  <2>2. CASE Capture(s) \/ Check(s) \/ Join(s) \/ Eval(s) \/ Finalize(s)
    <3>1. swarms[s].at \notin InPipe \cup {"look"}
      BY <2>2 DEF Capture, Check, Join, Eval, Finalize, Lose, Go, InPipe
    <3>2. PICK e : /\ swarms' = [swarms EXCEPT ![s] = e] /\ Moves(s, e)
                   /\ e.at \notin InPipe
      BY <2>2, RoundMoves DEF InPipe
    <3>3. UNCHANGED <<work, tree, review, past>>
      BY <2>2, RoundMoves
    <3> QED
      BY <1>0, <2>1, <3>1, <3>2, <3>3
  <2>3. CASE Plan(s)
    <3>1. swarms[s].at \notin InPipe \cup {"look"}
      BY <2>3 DEF Plan, Lose, Go, InPipe
    <3>2. PICK e : /\ swarms' = [swarms EXCEPT ![s] = e] /\ Moves(s, e)
                   /\ e.at \in {"check", "look", "join", "lost"}
      BY <2>3, PlanOK
    <3>3. work' \subseteq W /\ UNCHANGED <<tree, review, past>>
      BY <2>3, PlanOK
    <3> QED
      BY <1>0, <2>1, <3>1, <3>2, <3>3 DEF InPipe
  <2>4. CASE LookOnly(s)
    BY <1>0, <2>4, LookOK
  <2>5. CASE Branch(s)
    BY <1>0, <2>5, BranchOK
  <2>6. CASE Commit(s)
    BY <1>0, <2>6, CommitOK
  <2>7. CASE Return(s)
    BY <1>0, <2>7, ReturnOK
  <2> QED
    BY <2>2, <2>3, <2>4, <2>5, <2>6, <2>7 DEF Orchestrate
<1>2. PICK e : swarms' = [swarms EXCEPT ![s] = e] /\ Moves(s, e)
  BY <1>1
<1>3. e \in Entries /\ EntryOK(e)
  BY <1>2 DEF Moves
<1>4. swarms' \in [Swarms -> Entries] /\ \A t \in Swarms : EntryOK(swarms[t])'
  BY <1>2, <1>3, OneEntry
<1>5. SwarmTypeOK'
  BY <1>0, <1>1, <1>4 DEF SwarmTypeOK, Trees, Pasts
<1> QED
  BY <1>1, <1>2, <1>4, <1>5 DEF EntriesOK

-----------------------------------------------------------------------------
(* Everything else that swarms, agents and the user do                       *)

\* The entry of a swarm says the same to the scheduler and to git as before.
Same(t) ==
    /\ swarms'[t].at = swarms[t].at /\ swarms'[t].status = swarms[t].status
    /\ swarms'[t].auto = swarms[t].auto /\ swarms'[t].cost = swarms[t].cost
    /\ swarms'[t].home = swarms[t].home

LEMMA TreeStays ==
  ASSUME TreeOK,
         \A t \in Swarms : \/ Same(t)
                           \/ /\ swarms[t].at \notin InPipe \cup {"stranded"}
                              /\ swarms'[t].at \notin InPipe /\ swarms[t].home = User,
         tree'.tip = tree.tip, tree'.branch = tree.branch,
         past'.overlap = past.overlap, past'.refused = past.refused,
         past'.merged = past.merged, UNCHANGED review
  PROVE  TreeOK'
<1>1. Piping' = Piping
  BY DEF Piping, Same, InPipe
<1>2. \A t \in Piping : t \in Swarms /\ Same(t)
  BY DEF Piping, InPipe
<1>3. Strayed' = {} => Strayed = {}
  <2>1. User # Detached
    BY DEF User, Detached
  <2>2. \A t \in Strayed : t \in Strayed'
    BY <2>1 DEF Strayed, Same, InPipe
  <2> QED
    BY <2>2
<1> QED
  BY <1>1, <1>2, <1>3 DEF TreeOK, Same

LEMMA StartOK ==
  ASSUME EntriesOK, TreeOK, NEW s \in Swarms, NEW a \in BOOLEAN, StartSwarm(s, a)
  PROVE  /\ EntriesOK' /\ TreeOK'
         /\ ~Exists(s) /\ swarms'[s].at = "capture" /\ swarms'[s].auto = a
         /\ swarms'[s].cost = 0 /\ swarms'[s].status = "planning"
         /\ \A t \in Swarms : t # s => swarms'[t] = swarms[t]
<1> DEFINE f == [[[NoEntry EXCEPT !.at = "capture"] EXCEPT !.status = "planning"] EXCEPT !.auto = a]
<1>1. swarms' = [swarms EXCEPT ![s] = f] /\ ~Exists(s) /\ UNCHANGED <<work, tree, review, past>>
  BY DEF StartSwarm
<1>10. NoEntry \in Entries /\ NoEntry.cost = 0 /\ NoEntry.round = 0 /\ NoEntry.home = User
  BY DEF NoEntry, Entries, Steps, Ended, Branches, User
<1>2. f \in Entries /\ f.at = "capture" /\ f.auto = a /\ f.cost = 0 /\ f.status = "planning"
      /\ f.round = 0 /\ f.home = User
  BY <1>10 DEF Entries, Steps
<1> HIDE DEF f
<1>3. EntryOK(f)
  BY <1>2 DEF EntryOK, Ended
<1>4. /\ swarms' \in [Swarms -> Entries]
      /\ \A t \in Swarms : EntryOK(swarms[t])'
      /\ swarms'[s] = f
      /\ \A t \in Swarms : t # s => swarms'[t] = swarms[t]
  BY <1>1, <1>2, <1>3, OneEntry
<1>5. EntriesOK'
  BY <1>1, <1>4 DEF EntriesOK, SwarmTypeOK
<1>6. TreeOK'
  <2>1. swarms[s].at = "none" /\ swarms[s].home = User
    BY <1>1 DEF Exists, EntriesOK, EntryOK
  <2> QED
    BY <1>1, <1>2, <1>4, <2>1, TreeStays DEF Same, InPipe
<1> QED
  BY <1>1, <1>2, <1>4, <1>5, <1>6

\* A change of an entry that only a check of the orchestrator would notice.
LEMMA SameOK ==
  ASSUME EntriesOK, TreeOK, NEW s \in Swarms, NEW e \in Entries,
         swarms' = [swarms EXCEPT ![s] = e],
         e = [swarms[s] EXCEPT !.stop = e.stop, !.tokens = e.tokens],
         UNCHANGED <<tree, review, past>>,
         work' \subseteq [swarm : Swarms, round : 1..MaxRounds, task : Subtasks,
                          awaited : BOOLEAN]
  PROVE  EntriesOK' /\ TreeOK' /\ \A t \in Swarms : Same(t)
<1> DEFINE b == swarms[s]
<1>1. b \in Entries /\ EntryOK(b)
  BY DEF EntriesOK, SwarmTypeOK
<1>2. /\ e.at = b.at /\ e.status = b.status /\ e.auto = b.auto /\ e.cost = b.cost
      /\ e.home = b.home /\ e.round = b.round
  BY <1>1 DEF Entries
<1>3. EntryOK(e)
  BY <1>1, <1>2 DEF EntryOK
<1>4. /\ swarms' \in [Swarms -> Entries]
      /\ \A t \in Swarms : EntryOK(swarms[t])'
      /\ swarms'[s] = e
      /\ \A t \in Swarms : t # s => swarms'[t] = swarms[t]
  BY <1>3, OneEntry
<1>5. \A t \in Swarms : Same(t)
  BY <1>2, <1>4 DEF Same
<1>6. EntriesOK'
  BY <1>4 DEF EntriesOK, SwarmTypeOK
<1> QED
  BY <1>5, <1>6, TreeStays

LEMMA ReviewOK ==
  ASSUME EntriesOK, TreeOK, Review
  PROVE  EntriesOK' /\ TreeOK' /\ UNCHANGED swarms
<1>0. /\ tree \in Trees /\ past \in Pasts /\ review \in Swarms \cup {NoReview}
      /\ User \in Branches /\ Swarms \subseteq Branches
  BY TreeType DEF EntriesOK, SwarmTypeOK, Branches
<1>1. ASSUME UNCHANGED <<swarms, work>>, tree' \in Trees, past' \in Pasts,
             review' \in Swarms \cup {NoReview}
      PROVE  EntriesOK'
  BY <1>1 DEF EntriesOK, SwarmTypeOK, EntryOK, Trees, Pasts
<1>2. ASSUME NEW s \in Swarms, ReviewCheckout(s) PROVE EntriesOK' /\ TreeOK' /\ UNCHANGED swarms
  <2> DEFINE n == past.reviews + 1
             m == past.merged \cup tree.tip[s]
  <2>1. n \in Nat /\ m \in SUBSET Swarms
    BY <1>0 DEF Trees, Pasts
  <2>2. /\ UNCHANGED <<swarms, work>> /\ review' = s
        /\ tree' = [tree EXCEPT !.branch = User]
        /\ past' = [past EXCEPT !.reviews = n, !.merged = m, !.overlap = @ \/ Piping # {}]
    BY <1>2 DEF ReviewCheckout
  <2>3. tree.tip[s] \subseteq m /\ past.merged \subseteq m
    OBVIOUS
  <2> HIDE DEF n, m
  <2>4. tree' \in Trees /\ tree'.branch = User /\ tree'.tip = tree.tip
    BY <1>0, <2>2 DEF Trees
  <2>5. /\ past' \in Pasts /\ past'.merged = m /\ past'.refused = past.refused
        /\ past'.overlap <=> past.overlap \/ Piping # {}
    BY <1>0, <2>1, <2>2 DEF Pasts
  <2>6. Piping' = Piping /\ Strayed' = Strayed
    BY <2>2 DEF Piping, Strayed
  <2>7. TreeOK'
    BY <2>2, <2>3, <2>4, <2>5, <2>6 DEF TreeOK
  <2> QED
    BY <1>1, <2>2, <2>4, <2>5, <2>7
<1>3. CASE ReviewMerge
  <2>1. UNCHANGED <<swarms, work, past>> /\ review' = NoReview /\ review \in Swarms
    BY <1>0, <1>3 DEF ReviewMerge
  <2>2. Piping' = Piping /\ Strayed' = Strayed
    BY <2>1 DEF Piping, Strayed
  <2>3. CASE Merge(review)
    <3> DEFINE u == tree.tip[tree.branch] \cup tree.tip[review]
               tips == [tree.tip EXCEPT ![tree.branch] = u]
    <3>1. u \in SUBSET Swarms
      BY <1>0, <2>1 DEF Trees
    <3>2. tree' = [tree EXCEPT !.tip = tips]
      BY <1>0, <2>3 DEF Merge, Trees
    <3>3. u = tree.tip[tree.branch] \cup tree.tip[review]
      OBVIOUS
    <3> HIDE DEF u
    <3>4. tips \in [Branches -> SUBSET Swarms] /\ (tree.branch = User => tips[User] = u)
      BY <1>0, <3>1 DEF Trees
    <3> HIDE DEF tips
    <3>5. tree' \in Trees /\ tree'.branch = tree.branch /\ tree'.tip = tips
      BY <1>0, <3>2, <3>4 DEF Trees
    <3>6. TreeOK'
      BY <2>1, <2>2, <3>3, <3>4, <3>5 DEF TreeOK, NoReview, Swarms
    <3> QED
      BY <1>0, <1>1, <2>1, <3>5, <3>6
  <2>4. ASSUME tree' \in Trees, tree'.branch = tree.branch, tree'.tip = tree.tip
        PROVE  EntriesOK' /\ TreeOK' /\ UNCHANGED swarms
    <3>1. TreeOK'
      BY <2>1, <2>2, <2>4 DEF TreeOK, NoReview, Swarms
    <3> QED
      BY <1>0, <1>1, <2>1, <2>4, <3>1
  <2>5. CASE UNCHANGED tree
    BY <1>0, <2>4, <2>5
  <2>6. CASE tree' = [tree EXCEPT !.dirty = @ \cup Between(tree.branch, review)]
    <3> DEFINE files == tree.dirty \cup Between(tree.branch, review)
    <3>1. files \in SUBSET Files
      BY <1>0, <2>1 DEF Between, Trees
    <3>2. tree' = [tree EXCEPT !.dirty = files]
      BY <2>6
    <3> HIDE DEF files
    <3>3. tree' \in Trees /\ tree'.branch = tree.branch /\ tree'.tip = tree.tip
      BY <1>0, <3>1, <3>2 DEF Trees
    <3> QED
      BY <2>4, <3>3
  <2> QED
    BY <1>3, <2>3, <2>5, <2>6 DEF ReviewMerge
<1>4. ASSUME NEW s \in Swarms, Discard(s) PROVE EntriesOK' /\ TreeOK' /\ UNCHANGED swarms
  <2> DEFINE n == past.reviews + 1
             made == tree.made \ {s}
             tips == [tree.tip EXCEPT ![s] = {}]
  <2>1. n \in Nat /\ made \in SUBSET Swarms /\ s # User /\ s # tree.branch
    BY <1>0, <1>4 DEF Trees, Pasts, Discard, Swarms, User
  <2>2. /\ UNCHANGED <<swarms, work, review>>
        /\ tree' = [[tree EXCEPT !.made = made] EXCEPT !.tip = tips]
        /\ past' = [past EXCEPT !.reviews = n]
    BY <1>0, <1>4 DEF Discard, Trees
  <2>3. /\ tips \in [Branches -> SUBSET Swarms] /\ tips[User] = tree.tip[User]
        /\ \A b \in Branches : tips[b] \subseteq tree.tip[b]
    BY <1>0, <2>1 DEF Trees
  <2> HIDE DEF n, made, tips
  <2>4. tree' \in Trees /\ tree'.branch = tree.branch /\ tree'.tip = tips
    BY <1>0, <2>1, <2>2, <2>3 DEF Trees
  <2>5. /\ past' \in Pasts /\ past'.merged = past.merged /\ past'.refused = past.refused
        /\ past'.overlap = past.overlap
    BY <1>0, <2>1, <2>2 DEF Pasts
  <2>6. Piping' = Piping /\ Strayed' = Strayed
    BY <2>2 DEF Piping, Strayed
  <2>7. review # NoReview => tips[review] \subseteq tree.tip[review]
    BY <1>0, <2>3
  <2>8. TreeOK'
    BY <2>2, <2>3, <2>4, <2>5, <2>6, <2>7 DEF TreeOK
  <2> QED
    BY <1>0, <1>1, <2>2, <2>4, <2>5, <2>8
<1> QED
  BY <1>2, <1>3, <1>4 DEF Review

\* A swarm that is not under way for the scheduler begins on its own account.
LEMMA GoesOnOK ==
  ASSUME EntriesOK, TreeOK, SwarmsGoOn
  PROVE  /\ EntriesOK' /\ TreeOK' /\ UNCHANGED autoVars
         /\ \A t \in Swarms : Same(t) \/ (~Exists(t) /\ ~swarms'[t].auto)
<1> DEFINE W == [swarm : Swarms, round : 1..MaxRounds, task : Subtasks, awaited : BOOLEAN]
<1>0. /\ tree \in Trees /\ past \in Pasts /\ work \subseteq W
      /\ swarms \in [Swarms -> Entries] /\ UNCHANGED autoVars
  BY TreeType DEF EntriesOK, SwarmTypeOK, SwarmsGoOn
<1>1. ASSUME NEW s \in Swarms, StopSwarm(s)
      PROVE  EntriesOK' /\ TreeOK' /\ \A t \in Swarms : Same(t)
  <2> DEFINE f == [swarms[s] EXCEPT !.stop = TRUE]
  <2>1. swarms' = [swarms EXCEPT ![s] = f] /\ UNCHANGED <<work, tree, review, past>>
    BY <1>1 DEF StopSwarm
  <2>2. f \in Entries /\ f = [swarms[s] EXCEPT !.stop = f.stop, !.tokens = f.tokens]
    BY <1>0 DEF Entries
  <2> HIDE DEF f
  <2> QED
    BY <1>0, <2>1, <2>2, SameOK
<1>2. ASSUME NEW s \in Swarms, StartSwarm(s, FALSE)
      PROVE  /\ EntriesOK' /\ TreeOK'
             /\ \A t \in Swarms : Same(t) \/ (~Exists(t) /\ ~swarms'[t].auto)
  BY <1>2, StartOK DEF Same
<1>3. ASSUME NEW w \in work, SubtaskEnds(w)
      PROVE  EntriesOK' /\ TreeOK' /\ \A t \in Swarms : Same(t)
  <2>1. work' \subseteq W /\ UNCHANGED <<tree, review, past>> /\ w.swarm \in Swarms
    BY <1>0, <1>3 DEF SubtaskEnds
  <2>2. PICK n \in {0, 1} : swarms' = [swarms EXCEPT ![w.swarm].tokens = Plus(@, n)]
    BY <1>3 DEF SubtaskEnds
  <2> DEFINE s == w.swarm
             k == Plus(swarms[s].tokens, n)
             f == [swarms[s] EXCEPT !.tokens = k]
  <2>3. swarms' = [swarms EXCEPT ![s] = f]
    BY <2>2
  <2>4. k \in 0..(MaxTokens + 1)
    BY <1>0, <2>1 DEF Entries, Plus
  <2> HIDE DEF k
  <2>5. f \in Entries /\ f = [swarms[s] EXCEPT !.stop = f.stop, !.tokens = f.tokens]
    BY <1>0, <2>1, <2>4 DEF Entries
  <2> HIDE DEF f
  <2> QED
    BY <2>1, <2>3, <2>5, SameOK
<1>4. ASSUME NEW w \in work, SubtaskTimesOut(w)
      PROVE  EntriesOK' /\ TreeOK' /\ \A t \in Swarms : Same(t)
  <2>1. w \in W /\ UNCHANGED <<swarms, tree, review, past>>
    BY <1>0, <1>4 DEF SubtaskTimesOut
  <2>2. [w EXCEPT !.awaited = FALSE] \in W
    BY <2>1
  <2>3. work' \subseteq W
    BY <1>0, <1>4, <2>2 DEF SubtaskTimesOut
  <2>4. \A t \in Swarms : Same(t)
    BY <2>1 DEF Same
  <2> QED
    BY <1>0, <2>1, <2>3, <2>4, TreeStays DEF EntriesOK, SwarmTypeOK, EntryOK
<1>5. ASSUME NEW f \in Files, NEW by \in BOOLEAN, Dirty(f, by),
             UNCHANGED <<swarms, work, review>>
      PROVE  EntriesOK' /\ TreeOK' /\ \A t \in Swarms : Same(t)
  <2> DEFINE dirt == tree.dirty \cup {f}
             seen == past.edited \cup {f}
  <2>1. dirt \in SUBSET Files /\ seen \in SUBSET Files
    BY <1>0 DEF Trees, Pasts
  <2>2. /\ tree' = [tree EXCEPT !.dirty = dirt]
        /\ past' = IF by THEN [past EXCEPT !.edited = seen] ELSE past
    BY <1>5 DEF Dirty
  <2> HIDE DEF dirt, seen
  <2>3. /\ tree' \in Trees /\ tree'.tip = tree.tip /\ tree'.branch = tree.branch
    BY <1>0, <2>1, <2>2 DEF Trees
  <2>4. /\ past' \in Pasts /\ past'.overlap = past.overlap /\ past'.refused = past.refused
        /\ past'.merged = past.merged
    BY <1>0, <2>1, <2>2 DEF Pasts
  <2>5. \A t \in Swarms : Same(t)
    BY <1>5 DEF Same
  <2>6. EntriesOK'
    BY <1>0, <1>5, <2>3, <2>4 DEF EntriesOK, SwarmTypeOK, EntryOK, Trees, Pasts
  <2> QED
    BY <1>5, <2>3, <2>4, <2>5, <2>6, TreeStays
<1>6. ASSUME Review
      PROVE  EntriesOK' /\ TreeOK' /\ \A t \in Swarms : Same(t)
  <2>1. EntriesOK' /\ TreeOK' /\ UNCHANGED swarms
    BY <1>6, ReviewOK
  <2>2. \A t \in Swarms : Same(t)
    BY <2>1 DEF Same
  <2> QED
    BY <2>1, <2>2
<1> QED
  BY <1>0, <1>1, <1>2, <1>3, <1>4, <1>5, <1>6 DEF SwarmsGoOn, AgentEdit, UserEdit

-----------------------------------------------------------------------------
(* The loop: it begins                                                       *)

LEMMA TickingOK ==
  /\ Ticking \in LoopStates /\ Ticking.at = "tick" /\ Ticking.swarm = NoSwarm
  BY AutonomousAssumption DEF Ticking, LoopStates, Places, Days, NoGoal, NoSwarm

LEMMA FirstOK ==
  ASSUME NEW q \in Seq(Goals \cup {Blank})
  PROVE  /\ First(q) \in Goals \cup {Blank, NoGoal}
         /\ First(q) # NoGoal => q # <<>>
         /\ q # <<>> => First(q) = Head(q) /\ Tail(q) \in Seq(Goals \cup {Blank})
                        /\ q = <<Head(q)>> \o Tail(q)
  BY DEF First

LEMMA Numbers ==
  ASSUME LoopTypeOK
  PROVE  /\ auto.budget \in Nat /\ auto.cap \in Nat /\ auto.spent \in Nat /\ auto.begun \in Nat
         /\ auto.last \in Days \cup {0}
         /\ loop.budget \in Nat /\ loop.cap \in Nat /\ loop.spent \in Nat /\ loop.begun \in Nat
         /\ loop.last \in Days \cup {0} /\ loop.cost \in Nat /\ loop.today \in Days
         /\ log.budget \in Nat /\ log.cap \in Nat /\ log.afterStop \in Nat /\ day \in Days
         /\ \A d \in Days : log.begun[d] \in Nat /\ log.spent[d] \in Nat
         /\ \A d \in Days : d \in Nat /\ d # 0
<1>1. \A d \in Days : d \in Nat /\ d # 0
  BY DEF Days
<1> QED
  BY <1>1 DEF LoopTypeOK, AutoStates, LoopStates, Logs

LEMMA LoopInit == AutoInit => LoopInv
<1> SUFFICES ASSUME AutoInit PROVE LoopInv
  OBVIOUS
<1>1. swarms = [s \in Swarms |-> NoEntry]
  BY DEF AutoInit, SwarmInit
<1>2. \A s \in Swarms : ~Exists(s)
  BY <1>1 DEF Exists, NoEntry
<1>3. day = 1 /\ day \in Days
  BY AutonomousAssumption DEF AutoInit, Days
<1>4. /\ loop \in LoopStates /\ loop.at = "off" /\ loop.swarm = NoSwarm
  <2>1. loop = [Ticking EXCEPT !.at = "off"]
    BY DEF AutoInit
  <2> QED
    BY <2>1, TickingOK DEF LoopStates, Places
<1>5. /\ auto \in AutoStates /\ ~auto.enabled /\ auto.last = 0 /\ auto.begun = 0
      /\ auto.spent = 0 /\ auto.budget = 0 /\ auto.cap = 0
  BY DEF AutoInit, AutoStates, NoSwarm
<1>6. /\ log \in Logs /\ log.afterStop = 0 /\ ~log.replaced /\ log.budget = 0 /\ log.cap = 0
      /\ \A d \in Days : log.begun[d] = 0 /\ log.spent[d] = 0
  BY DEF AutoInit, Logs
<1>7. LoopTypeOK
  BY <1>3, <1>4, <1>5, <1>6 DEF LoopTypeOK
<1>8. Current /\ Alone /\ StopOK /\ QueueOK
  BY <1>2, <1>4, <1>5, <1>6 DEF Current, HasSwarm, Alone, UnderWay, StopOK, Armed, QueueOK
<1>9. Limits /\ Dates
  <2>1. Limits
    BY <1>4, <1>5, <1>6 DEF Limits
  <2>2. ~Busy /\ loop.at \notin {"decide", "wait", "account"}
    BY <1>4 DEF Busy
  <2> QED
    BY <1>3, <1>5, <1>6, <2>1, <2>2 DEF Dates
<1>10. Accounts /\ Costs
  BY <1>3, <1>4, <1>5, <1>6 DEF Accounts, Costs, Counted, Busy, HasSwarm
<1> QED
  BY <1>7, <1>8, <1>9, <1>10 DEF LoopInv

-----------------------------------------------------------------------------
(* Requests                                                                  *)

LEMMA StartKeeps ==
  ASSUME LoopInv, NEW config \in Configs, Start(config)
  PROVE  LoopInv'
<1>0. /\ auto \in AutoStates /\ loop \in LoopStates /\ log \in Logs /\ day \in Days
      /\ day' = day /\ swarms' = swarms
  BY DEF LoopInv, LoopTypeOK, Start, swarmVars
<1>1. /\ config.queue \in Seq(Goals \cup {Blank}) /\ config.budget \in Nat
      /\ config.cap \in Nat /\ config.invent \in BOOLEAN
  BY AutonomousAssumption
<1>2. /\ auto' \in AutoStates /\ auto'.enabled /\ auto'.budget = config.budget
      /\ auto'.cap = config.cap /\ auto'.spent = auto.spent /\ auto'.begun = auto.begun
      /\ auto'.last = auto.last
  BY <1>0, <1>1 DEF Start, AutoStates
<1>3. loop' \in LoopStates /\ (loop' = loop \/ (loop.at = "off" /\ loop'.at = "tick"))
  BY <1>0, TickingOK DEF Start
<1>4. /\ log' \in Logs /\ log'.replaced /\ log'.afterStop = 0
      /\ log'.budget >= log.budget /\ log'.budget >= config.budget
      /\ log'.cap >= log.cap /\ log'.cap >= config.cap
      /\ log'.begun = log.begun /\ log'.spent = log.spent
      /\ log'.overslept = log.overslept /\ log'.midnight = log.midnight
  <2> DEFINE m == Greater(log.budget, config.budget)
             n == Greater(log.cap, config.cap)
             k == log.commands + 1
  <2>1. /\ m \in Nat /\ m >= log.budget /\ m >= config.budget
        /\ n \in Nat /\ n >= log.cap /\ n >= config.cap
    BY <1>0, <1>1 DEF Greater, Logs
  <2>2. k \in Nat
    BY <1>0 DEF Logs
  <2>3. log' = [log EXCEPT !.commands = k, !.replaced = TRUE, !.afterStop = 0,
                           !.budget = m, !.cap = n]
    BY DEF Start
  <2> HIDE DEF m, n, k
  <2> QED
    BY <1>0, <2>1, <2>2, <2>3 DEF Logs
<1>5. LoopTypeOK'
  BY <1>0, <1>2, <1>3, <1>4 DEF LoopTypeOK
<1>50. /\ auto.budget \in Nat /\ auto.cap \in Nat /\ loop.budget \in Nat /\ loop.cap \in Nat
       /\ log.budget \in Nat /\ log.cap \in Nat /\ log'.budget \in Nat /\ log'.cap \in Nat
       /\ log.begun[day] \in Nat /\ log.spent[day] \in Nat
  BY <1>0, <1>4, Numbers DEF LoopInv, Logs
<1>6. Current' /\ Alone'
  BY <1>0, <1>3, <1>4 DEF LoopInv, Current, HasSwarm, Alone, UnderWay, Exists, Over
<1>7. StopOK' /\ QueueOK'
  BY <1>2, <1>4 DEF StopOK, QueueOK
<1>8. Limits' /\ Dates'
  <2>1. Limits'
    <3>1. CASE loop' = loop
      BY <1>1, <1>2, <1>4, <1>50, <3>1 DEF LoopInv, Limits
    <3>2. CASE loop'.at = "tick"
      BY <1>1, <1>2, <1>4, <1>50, <3>2 DEF LoopInv, Limits
    <3> QED
      BY <1>3, <3>1, <3>2
  <2>2. Dates'
    BY <1>0, <1>2, <1>3, <1>4 DEF LoopInv, Dates, Busy
  <2> QED
    BY <2>1, <2>2
<1>9. Accounts'
  BY <1>0, <1>2, <1>3, <1>4, <1>50 DEF LoopInv, Accounts, Busy, Counted
<1>10. Costs'
  BY <1>0, <1>2, <1>3, <1>4, <1>50 DEF LoopInv, Costs, HasSwarm, Counted, Over
<1> QED
  BY <1>5, <1>6, <1>7, <1>8, <1>9, <1>10 DEF LoopInv

LEMMA StopKeeps == ASSUME LoopInv, Stop PROVE LoopInv'
<1>0. /\ auto \in AutoStates /\ loop \in LoopStates /\ log \in Logs /\ day \in Days
      /\ day' = day /\ swarms' = swarms /\ loop' = loop
  BY DEF LoopInv, LoopTypeOK, Stop, swarmVars
<1>1. /\ auto' \in AutoStates /\ auto'.budget = auto.budget /\ auto'.cap = auto.cap
      /\ auto'.spent = auto.spent /\ auto'.begun = auto.begun
      /\ auto'.last = auto.last /\ auto'.queue = auto.queue
  BY <1>0 DEF Stop, AutoStates
<1>2. /\ log' \in Logs /\ log'.replaced = log.replaced /\ log'.afterStop = 0
      /\ log'.budget = log.budget /\ log'.cap = log.cap
      /\ log'.begun = log.begun /\ log'.spent = log.spent
      /\ log'.overslept = log.overslept /\ log'.midnight = log.midnight
  <2> DEFINE k == log.commands + 1
  <2>1. k \in Nat
    BY <1>0 DEF Logs
  <2>2. log' = [log EXCEPT !.commands = k, !.afterStop = 0]
    BY DEF Stop
  <2> HIDE DEF k
  <2> QED
    BY <1>0, <2>1, <2>2 DEF Logs
<1>3. LoopTypeOK' /\ StopOK'
  BY <1>0, <1>1, <1>2 DEF LoopTypeOK, StopOK
<1>4. Current' /\ Alone' /\ QueueOK'
  BY <1>0, <1>1, <1>2 DEF LoopInv, Current, HasSwarm, Alone, UnderWay, Exists, Over, QueueOK
<1>5. Limits' /\ Dates'
  BY <1>0, <1>1, <1>2 DEF LoopInv, Limits, Dates, Busy
<1>6. Accounts' /\ Costs'
  BY <1>0, <1>1, <1>2 DEF LoopInv, Accounts, Costs, Busy, HasSwarm, Counted, Over
<1> QED
  BY <1>3, <1>4, <1>5, <1>6 DEF LoopInv

LEMMA SetQueueKeeps ==
  ASSUME LoopInv, NEW config \in Configs, SetQueue(config.queue)
  PROVE  LoopInv'
<1> DEFINE q == NonBlank(config.queue)
<1>0. /\ auto \in AutoStates /\ loop \in LoopStates /\ log \in Logs /\ day \in Days
      /\ day' = day /\ swarms' = swarms /\ loop' = loop
  BY DEF LoopInv, LoopTypeOK, SetQueue, swarmVars
<1>1. q \in Seq(Goals) /\ auto' = [auto EXCEPT !.queue = q]
  BY AutonomousAssumption DEF SetQueue
<1> HIDE DEF q
<1>2. q \in Seq(Goals \cup {Blank})
  BY <1>1
<1>3. /\ auto' \in AutoStates /\ auto'.budget = auto.budget /\ auto'.cap = auto.cap
      /\ auto'.spent = auto.spent /\ auto'.begun = auto.begun
      /\ auto'.last = auto.last /\ auto'.enabled = auto.enabled
  BY <1>0, <1>1, <1>2 DEF AutoStates
<1>4. /\ log' \in Logs /\ log'.replaced /\ log'.afterStop = log.afterStop
      /\ log'.budget = log.budget /\ log'.cap = log.cap
      /\ log'.begun = log.begun /\ log'.spent = log.spent
      /\ log'.overslept = log.overslept /\ log'.midnight = log.midnight
  <2> DEFINE k == log.commands + 1
  <2>1. k \in Nat
    BY <1>0 DEF Logs
  <2>2. log' = [log EXCEPT !.commands = k, !.replaced = TRUE]
    BY DEF SetQueue
  <2> HIDE DEF k
  <2> QED
    BY <1>0, <2>1, <2>2 DEF Logs
<1>5. LoopTypeOK' /\ QueueOK'
  BY <1>0, <1>3, <1>4 DEF LoopTypeOK, QueueOK
<1>6. Current' /\ Alone' /\ StopOK'
  BY <1>0, <1>3, <1>4
  DEF LoopInv, Current, HasSwarm, Alone, UnderWay, Exists, Over, StopOK, Armed
<1>7. Limits' /\ Dates'
  BY <1>0, <1>3, <1>4 DEF LoopInv, Limits, Dates, Busy
<1>8. Accounts' /\ Costs'
  BY <1>0, <1>3, <1>4 DEF LoopInv, Accounts, Costs, Busy, HasSwarm, Counted, Over
<1> QED
  BY <1>5, <1>6, <1>7, <1>8 DEF LoopInv

-----------------------------------------------------------------------------
(* The loop                                                                  *)

LEMMA SnapshotKeeps == ASSUME LoopInv, Snapshot PROVE LoopInv'
<1>0. /\ auto \in AutoStates /\ loop \in LoopStates /\ log \in Logs /\ day \in Days
      /\ day' = day /\ swarms' = swarms /\ auto' = auto /\ loop.at = "tick"
  BY DEF LoopInv, LoopTypeOK, Snapshot, swarmVars, Leaves
<1>1. /\ loop' \in LoopStates /\ loop'.at = "decide" /\ loop'.enabled = auto.enabled
      /\ loop'.spent = auto.spent /\ loop'.budget = auto.budget /\ loop'.begun = auto.begun
      /\ loop'.cap = auto.cap /\ loop'.first = First(auto.queue) /\ loop'.last = auto.last
  <2> DEFINE g == First(auto.queue)
  <2>1. g \in Goals \cup {Blank, NoGoal}
    BY <1>0, FirstOK DEF AutoStates
  <2>2. loop' = [Ticking EXCEPT !.at = "decide", !.enabled = auto.enabled,
                   !.spent = auto.spent, !.budget = auto.budget, !.begun = auto.begun,
                   !.cap = auto.cap, !.first = g,
                   !.invent = auto.invent, !.last = auto.last, !.swarm = auto.current]
    BY DEF Snapshot, Leaves
  <2> HIDE DEF g
  <2>3. /\ loop' \in LoopStates /\ loop'.at = "decide" /\ loop'.enabled = auto.enabled
        /\ loop'.spent = auto.spent /\ loop'.budget = auto.budget /\ loop'.begun = auto.begun
        /\ loop'.cap = auto.cap /\ loop'.first = g /\ loop'.last = auto.last
    BY <1>0, <2>1, <2>2, TickingOK DEF LoopStates, AutoStates, Places
  <2> QED
    BY <2>3 DEF g
<1>2. /\ log' \in Logs /\ ~log'.replaced /\ log'.afterStop = log.afterStop
      /\ log'.budget = log.budget /\ log'.cap = log.cap
      /\ log'.begun = log.begun /\ log'.spent = log.spent
      /\ log'.overslept = log.overslept /\ log'.midnight = log.midnight
  BY <1>0 DEF Snapshot, Logs
<1>3. LoopTypeOK'
  BY <1>0, <1>1, <1>2 DEF LoopTypeOK
<1>4. Current' /\ Alone'
  BY <1>0, <1>1, <1>2 DEF LoopInv, Current, HasSwarm, Alone, UnderWay, Exists, Over
<1>5. StopOK' /\ QueueOK'
  BY <1>0, <1>1, <1>2 DEF LoopInv, StopOK, Armed, QueueOK
<1>6. Limits' /\ Dates'
  BY <1>0, <1>1, <1>2 DEF LoopInv, Limits, Dates, Busy
<1>7. Accounts' /\ Costs'
  BY <1>0, <1>1, <1>2 DEF LoopInv, Accounts, Costs, Busy, HasSwarm, Counted, Over
<1> QED
  BY <1>3, <1>4, <1>5, <1>6, <1>7 DEF LoopInv

\* A tick that comes to nothing.
LEMMA TickOverKeeps ==
  ASSUME LoopInv, loop.at \in {"decide", "meta", "start"}, loop' = Ticking,
         UNCHANGED <<swarms, auto, day, log>>
  PROVE  LoopInv'
<1>1. loop' \in LoopStates /\ loop'.at = "tick"
  BY TickingOK
<1>2. LoopTypeOK' /\ Current' /\ Alone'
  BY <1>1 DEF LoopInv, LoopTypeOK, Current, HasSwarm, Alone, UnderWay, Exists, Over
<1>3. StopOK' /\ QueueOK' /\ Limits' /\ Dates'
  BY <1>1 DEF LoopInv, StopOK, Armed, QueueOK, Limits, Dates, Busy
<1>4. Accounts' /\ Costs'
  BY <1>1 DEF LoopInv, Accounts, Costs, Busy, HasSwarm, Counted, Over
<1> QED
  BY <1>2, <1>3, <1>4 DEF LoopInv

LEMMA ResetDayKeeps == ASSUME LoopInv, ResetDay PROVE LoopInv'
<1>0. /\ auto \in AutoStates /\ loop \in LoopStates /\ log \in Logs /\ day \in Days
      /\ UNCHANGED <<swarms, day, log>> /\ loop.at = "decide" /\ loop.enabled
      /\ loop.last # 0 /\ loop.last # day /\ loop' = Ticking
  BY DEF LoopInv, LoopTypeOK, ResetDay, swarmVars, Leaves, Awake, NewDay
<1>1. loop' \in LoopStates /\ loop'.at = "tick"
  BY <1>0, TickingOK
<1>2. /\ auto' \in AutoStates /\ auto'.enabled = auto.enabled /\ auto'.queue = auto.queue
      /\ auto'.budget = auto.budget /\ auto'.cap = auto.cap
      /\ auto'.begun = 0 /\ auto'.spent = 0 /\ auto'.last = day
  BY <1>0 DEF ResetDay, AutoStates
<1>3. LoopTypeOK' /\ Current' /\ Alone'
  BY <1>0, <1>1, <1>2
  DEF LoopInv, LoopTypeOK, Current, HasSwarm, Alone, UnderWay, Exists, Over
<1>4. StopOK' /\ QueueOK' /\ Limits'
  BY <1>0, <1>1, <1>2 DEF LoopInv, StopOK, Armed, QueueOK, Limits
<1>5. Dates'
  BY <1>0, <1>1, <1>2, Numbers DEF LoopInv, Dates, Busy
<1>6. auto.last # 0 /\ auto.last # day
  BY <1>0 DEF LoopInv, Dates
<1>7. Accounts' /\ Costs'
  BY <1>0, <1>1, <1>2, <1>6 DEF LoopInv, Accounts, Costs, Busy, HasSwarm, Counted, Over
<1> QED
  BY <1>3, <1>4, <1>5, <1>7 DEF LoopInv

LEMMA PauseKeeps == ASSUME LoopInv, PauseForBudget PROVE LoopInv'
<1>0. /\ auto \in AutoStates /\ loop \in LoopStates /\ log \in Logs /\ day \in Days
      /\ UNCHANGED <<swarms, day>> /\ loop.at = "decide" /\ loop' = Ticking
  BY DEF LoopInv, LoopTypeOK, PauseForBudget, swarmVars, Leaves, Awake
<1>1. loop' \in LoopStates /\ loop'.at = "tick"
  BY <1>0, TickingOK
<1>2. /\ auto' \in AutoStates /\ auto'.queue = auto.queue
      /\ auto'.budget = auto.budget /\ auto'.cap = auto.cap
      /\ auto'.begun = auto.begun /\ auto'.spent = auto.spent /\ auto'.last = auto.last
  BY <1>0 DEF PauseForBudget, AutoStates
<1>3. /\ log' \in Logs /\ log'.replaced = log.replaced /\ log'.afterStop = 0
      /\ log'.budget = log.budget /\ log'.cap = log.cap
      /\ log'.begun = log.begun /\ log'.spent = log.spent
      /\ log'.overslept = log.overslept /\ log'.midnight = log.midnight
  BY <1>0 DEF PauseForBudget, Logs
<1>4. LoopTypeOK' /\ Current' /\ Alone'
  BY <1>0, <1>1, <1>2, <1>3
  DEF LoopInv, LoopTypeOK, Current, HasSwarm, Alone, UnderWay, Exists, Over
<1>5. StopOK' /\ QueueOK' /\ Limits' /\ Dates'
  BY <1>0, <1>1, <1>2, <1>3
  DEF LoopInv, StopOK, Armed, QueueOK, Limits, Dates, Busy
<1>6. Accounts' /\ Costs'
  BY <1>0, <1>1, <1>2, <1>3
  DEF LoopInv, Accounts, Costs, Busy, HasSwarm, Counted, Over
<1> QED
  BY <1>4, <1>5, <1>6 DEF LoopInv

\* The decision to begin: what the snapshot said of the counters still holds.
LEMMA ChooseKeeps == ASSUME LoopInv, Choose PROVE LoopInv'
<1>0. /\ auto \in AutoStates /\ loop \in LoopStates /\ log \in Logs /\ day \in Days
      /\ UNCHANGED <<swarms, auto, day, log>> /\ loop.at = "decide" /\ loop.enabled
      /\ loop.last \in {0, day} /\ loop.spent < loop.budget /\ loop.begun < loop.cap
  BY DEF LoopInv, LoopTypeOK, Choose, MayBegin, swarmVars, Leaves, Awake, NewDay
<1>1. /\ loop' \in LoopStates /\ loop'.at \in {"pop", "meta"} /\ loop'.today = day
      /\ loop'.at = "pop" => loop'.goal = loop.first /\ loop.first # NoGoal
  <2>1. CASE loop' = [Ticking EXCEPT !.at = "pop", !.goal = loop.first, !.today = day]
             /\ loop.first # NoGoal
    BY <1>0, <2>1, TickingOK DEF LoopStates, Places
  <2>2. CASE loop' = [Ticking EXCEPT !.at = "meta", !.today = day]
    BY <1>0, <2>2, TickingOK DEF LoopStates, Places
  <2> QED
    BY <2>1, <2>2 DEF Choose, Leaves
<1>2. LoopTypeOK' /\ Current' /\ Alone'
  BY <1>0, <1>1 DEF LoopInv, LoopTypeOK, Current, HasSwarm, Alone, UnderWay, Exists, Over
<1>3. StopOK'
  BY <1>0, <1>1 DEF LoopInv, StopOK, Armed
<1>4. QueueOK'
  BY <1>0, <1>1, FirstOK DEF LoopInv, QueueOK, AutoStates
<1>5. Limits' /\ Dates'
  BY <1>0, <1>1, Numbers DEF LoopInv, Limits, Dates, Busy
<1>6. /\ auto.last = loop.last /\ auto.spent = loop.spent /\ auto.begun = loop.begun
      /\ loop.budget <= log.budget /\ loop.cap <= log.cap
      /\ auto.last = 0 => auto.begun = 0 /\ auto.spent = 0
  BY <1>0 DEF LoopInv, Dates, Limits
<1>7. Counted(auto.begun) < log.cap /\ Counted(auto.spent) < log.budget
  BY <1>0, <1>6, Numbers DEF LoopInv, Counted
<1>8. Accounts'
  BY <1>0, <1>1, <1>6, <1>7, Numbers DEF LoopInv, Accounts, Busy, Counted
<1>9. Costs'
  BY <1>0, <1>1, <1>7, Numbers DEF LoopInv, Costs, HasSwarm, Counted, Over
<1> QED
  BY <1>2, <1>3, <1>4, <1>5, <1>8, <1>9 DEF LoopInv

\* The goal is known.
LEMMA ReadyKeeps ==
  ASSUME LoopInv, loop.at \in {"meta", "pop"}, loop' \in LoopStates,
         loop'.at = "start", loop'.today = loop.today,
         auto' \in AutoStates, auto'.enabled = auto.enabled,
         auto'.budget = auto.budget, auto'.cap = auto.cap,
         auto'.begun = auto.begun, auto'.spent = auto.spent, auto'.last = auto.last,
         UNCHANGED <<swarms, day, log>>
  PROVE  LoopInv'
<1>1. LoopTypeOK' /\ Current' /\ Alone'
  BY DEF LoopInv, LoopTypeOK, Current, HasSwarm, Alone, UnderWay, Exists, Over
<1>2. StopOK' /\ QueueOK' /\ Limits' /\ Dates'
  BY DEF LoopInv, StopOK, Armed, QueueOK, Limits, Dates, Busy
<1>3. Accounts' /\ Costs'
  BY DEF LoopInv, Accounts, Costs, Busy, HasSwarm, Counted, Over
<1> QED
  BY <1>1, <1>2, <1>3 DEF LoopInv

LEMMA AskMetaAgentKeeps == ASSUME LoopInv, AskMetaAgent PROVE LoopInv'
<1>0. /\ auto \in AutoStates /\ loop \in LoopStates /\ loop.at = "meta"
      /\ UNCHANGED <<swarms, auto, day, log>>
  BY DEF LoopInv, LoopTypeOK, AskMetaAgent, swarmVars, Leaves
<1>1. ASSUME NEW g \in Goals, loop' = [loop EXCEPT !.at = "start", !.goal = g]
      PROVE  LoopInv'
  <2>1. loop' \in LoopStates /\ loop'.at = "start" /\ loop'.today = loop.today
    BY <1>0, <1>1 DEF LoopStates, Places
  <2> QED
    BY <1>0, <2>1, ReadyKeeps
<1>2. CASE loop' = Ticking
  BY <1>0, <1>2, TickOverKeeps
<1> QED
  BY <1>1, <1>2 DEF AskMetaAgent, Leaves

LEMMA PopKeeps == ASSUME LoopInv, Pop PROVE LoopInv'
<1>0. /\ auto \in AutoStates /\ loop \in LoopStates /\ loop.at = "pop"
      /\ UNCHANGED <<swarms, day, log>>
  BY DEF LoopInv, LoopTypeOK, Pop, swarmVars, Leaves
<1>1. loop' \in LoopStates /\ loop'.at = "start" /\ loop'.today = loop.today
  BY <1>0 DEF Pop, Leaves, LoopStates, Places
<1> DEFINE q == IF auto.queue = <<>> THEN auto.queue ELSE Tail(auto.queue)
<1>2. q \in Seq(Goals \cup {Blank})
  BY <1>0, FirstOK DEF AutoStates
<1>3. auto' = [auto EXCEPT !.queue = q]
  BY <1>0 DEF Pop, AutoStates
<1> HIDE DEF q
<1>4. /\ auto' \in AutoStates /\ auto'.enabled = auto.enabled
      /\ auto'.budget = auto.budget /\ auto'.cap = auto.cap
      /\ auto'.begun = auto.begun /\ auto'.spent = auto.spent /\ auto'.last = auto.last
  BY <1>0, <1>2, <1>3 DEF AutoStates
<1> QED
  BY <1>0, <1>1, <1>4, ReadyKeeps

LEMMA BeginKeeps ==
  ASSUME EntriesOK, TreeOK, LoopInv, NEW s \in Swarms, Begin(s)
  PROVE  LoopInv'
<1>0. /\ loop \in LoopStates /\ log \in Logs /\ day \in Days /\ auto \in AutoStates
      /\ UNCHANGED <<auto, day>> /\ StartSwarm(s, TRUE) /\ loop.at = "start"
  BY DEF LoopInv, LoopTypeOK, Begin, Leaves
<1>1. /\ ~Exists(s) /\ swarms'[s].at = "capture" /\ swarms'[s].auto
      /\ swarms'[s].cost = 0
      /\ \A t \in Swarms : t # s => swarms'[t] = swarms[t]
  BY <1>0, StartOK
<1>2. /\ loop' \in LoopStates /\ loop'.at = "record" /\ loop'.swarm = s
      /\ loop'.today = loop.today
  <2>1. loop' = [Ticking EXCEPT !.at = "record", !.swarm = s, !.today = loop.today]
    BY DEF Begin, Leaves
  <2> QED
    BY <1>0, <2>1, TickingOK DEF LoopStates, Places
<1>3. /\ log' \in Logs /\ log'.afterStop = log.afterStop + 1
      /\ log'.budget = log.budget /\ log'.cap = log.cap /\ log'.spent = log.spent
      /\ log'.begun[day] = log.begun[day] + 1
      /\ \A d \in Days : d # day => log'.begun[d] = log.begun[d]
      /\ log'.overslept = log.overslept /\ log'.midnight = log.midnight
  <2> DEFINE n == log.begun[day] + 1
             k == log.afterStop + 1
             b == [log.begun EXCEPT ![day] = n]
  <2>1. n \in Nat /\ k \in Nat
    BY <1>0, Numbers DEF LoopInv
  <2>2. log' = [log EXCEPT !.begun = b, !.afterStop = k]
    BY <1>0 DEF Begin, Logs
  <2>3. /\ b \in [Days -> Nat] /\ b[day] = n
        /\ \A d \in Days : d # day => b[d] = log.begun[d]
    <3> HIDE DEF n
    <3> QED
      BY <1>0, <2>1 DEF Logs
  <2> HIDE DEF n, k, b
  <2>4. /\ log' \in Logs /\ log'.afterStop = k /\ log'.begun = b
        /\ log'.budget = log.budget /\ log'.cap = log.cap /\ log'.spent = log.spent
        /\ log'.overslept = log.overslept /\ log'.midnight = log.midnight
    BY <1>0, <2>1, <2>2, <2>3 DEF Logs
  <2> QED
    BY <2>3, <2>4 DEF n, k
<1>4. LoopTypeOK' /\ Current'
  BY <1>0, <1>1, <1>2, <1>3 DEF LoopTypeOK, Current, HasSwarm, Exists
<1>5. Alone'
  BY <1>0, <1>1, <1>2, <1>3 DEF LoopInv, Alone, UnderWay, Exists, Over
<1>6. StopOK' /\ QueueOK'
  BY <1>0, <1>2, <1>3 DEF LoopInv, StopOK, Armed, QueueOK
<1>7. Limits' /\ Dates'
  <2>1. \A d \in Days : d > day => d # day
    BY <1>0, Numbers DEF LoopInv
  <2> QED
    BY <1>0, <1>2, <1>3, <2>1 DEF LoopInv, Limits, Dates, Busy
<1>8. Accounts'
  <2>1. log.begun[day] \in Nat /\ auto.begun \in Nat
    BY <1>0, Numbers DEF LoopInv
  <2> QED
    BY <1>0, <1>2, <1>3, <2>1 DEF LoopInv, Accounts, Busy, Counted
<1>9. Costs'
  <2>1. auto.spent \in Nat
    BY Numbers DEF LoopInv
  <2> QED
    BY <1>0, <1>1, <1>2, <1>3, <2>1 DEF LoopInv, Costs, HasSwarm, Counted
<1> QED
  BY <1>4, <1>5, <1>6, <1>7, <1>8, <1>9 DEF LoopInv

LEMMA RecordKeeps == ASSUME LoopInv, Record PROVE LoopInv'
<1>0. /\ loop \in LoopStates /\ log \in Logs /\ day \in Days /\ auto \in AutoStates
      /\ UNCHANGED <<swarms, day, log>> /\ loop.at = "record"
  BY DEF LoopInv, LoopTypeOK, Record, Leaves, swarmVars
<1>1. /\ loop' \in LoopStates /\ loop'.at = "wait" /\ loop'.swarm = loop.swarm
      /\ loop'.today = loop.today
  BY <1>0 DEF Record, Leaves, LoopStates, Places
<1>2. /\ auto' \in AutoStates /\ auto'.begun = auto.begun + 1 /\ auto'.last = loop.today
      /\ auto'.enabled = auto.enabled /\ auto'.queue = auto.queue
      /\ auto'.budget = auto.budget /\ auto'.cap = auto.cap /\ auto'.spent = auto.spent
  <2> DEFINE n == auto.begun + 1
  <2>1. n \in Nat
    BY Numbers DEF LoopInv
  <2>2. auto' = [auto EXCEPT !.current = loop.swarm, !.last = loop.today, !.begun = n]
    BY <1>0 DEF Record, AutoStates
  <2>3. loop.swarm \in Swarms \cup {NoSwarm} /\ loop.today \in Days \cup {0}
    BY <1>0 DEF LoopStates
  <2> HIDE DEF n
  <2>4. /\ auto' \in AutoStates /\ auto'.begun = n /\ auto'.last = loop.today
        /\ auto'.enabled = auto.enabled /\ auto'.queue = auto.queue
        /\ auto'.budget = auto.budget /\ auto'.cap = auto.cap /\ auto'.spent = auto.spent
    BY <1>0, <2>1, <2>2, <2>3 DEF AutoStates
  <2> QED
    BY <2>4 DEF n
<1>3. LoopTypeOK' /\ Current' /\ Alone'
  BY <1>0, <1>1, <1>2
  DEF LoopInv, LoopTypeOK, Current, HasSwarm, Alone, UnderWay, Exists, Over
<1>4. StopOK' /\ QueueOK' /\ Limits'
  BY <1>0, <1>1, <1>2 DEF LoopInv, StopOK, Armed, QueueOK, Limits
<1>5. Dates'
  BY <1>0, <1>1, <1>2, Numbers DEF LoopInv, Dates, Busy
<1>6. Accounts'
  BY <1>0, <1>1, <1>2, Numbers DEF LoopInv, Accounts, Dates, Busy, Counted
<1>7. Costs'
  BY <1>0, <1>1, <1>2, Numbers
  DEF LoopInv, Costs, Accounts, Dates, Busy, HasSwarm, Counted, Over
<1> QED
  BY <1>3, <1>4, <1>5, <1>6, <1>7 DEF LoopInv

LEMMA WaitKeeps == ASSUME EntriesOK, LoopInv, WaitForSwarm PROVE LoopInv'
<1> DEFINE own == loop.swarm
<1>0. /\ loop \in LoopStates /\ log \in Logs /\ day \in Days /\ auto \in AutoStates
      /\ UNCHANGED <<swarms, auto, day>> /\ loop.at = "wait"
      /\ own \in Swarms
  BY DEF LoopInv, LoopTypeOK, Current, HasSwarm, WaitForSwarm, Leaves, swarmVars
<1>1. /\ loop' \in LoopStates /\ loop'.at = "account" /\ loop'.swarm = own
      /\ loop'.today = loop.today /\ loop'.cost = swarms[own].cost
  <2>1. swarms[own].cost \in Nat
    BY <1>0 DEF EntriesOK, SwarmTypeOK, Entries
  <2> QED
    BY <1>0, <2>1 DEF WaitForSwarm, Leaves, LoopStates, Places
<1>2. /\ log' \in Logs /\ log'.replaced = log.replaced /\ log'.afterStop = log.afterStop
      /\ log'.budget = log.budget /\ log'.cap = log.cap
      /\ log'.begun = log.begun /\ log'.spent = log.spent /\ log'.midnight = log.midnight
      /\ log.overslept \subseteq log'.overslept
      /\ ~Over(own) => own \in log'.overslept
  <2>1. CASE Over(own)
    BY <1>0, <2>1 DEF WaitForSwarm
  <2>2. CASE ~Over(own)
    BY <1>0, <2>2 DEF WaitForSwarm, Logs
  <2> QED
    BY <2>1, <2>2
<1>3. LoopTypeOK' /\ Current'
  BY <1>0, <1>1, <1>2 DEF LoopInv, LoopTypeOK, Current, HasSwarm, Exists
<1>4. Alone'
  BY <1>0, <1>1, <1>2 DEF LoopInv, Alone, UnderWay, Exists, Over
<1>5. StopOK' /\ QueueOK' /\ Limits' /\ Dates'
  BY <1>0, <1>1, <1>2 DEF LoopInv, StopOK, Armed, QueueOK, Limits, Dates, Busy
<1>6. Accounts'
  BY <1>0, <1>1, <1>2 DEF LoopInv, Accounts, Busy, Counted
<1>7. Costs'
  <2> SUFFICES ASSUME log'.overslept = {} PROVE Costs'
    BY DEF Costs
  <2>1. log.overslept = {} /\ Over(own)
    BY <1>2
  <2> QED
    BY <1>0, <1>1, <1>2, <2>1 DEF LoopInv, Costs, HasSwarm, Counted, Over
<1> QED
  BY <1>3, <1>4, <1>5, <1>6, <1>7 DEF LoopInv

LEMMA AccountKeeps == ASSUME LoopInv, Account PROVE LoopInv'
<1>0. /\ loop \in LoopStates /\ log \in Logs /\ day \in Days /\ auto \in AutoStates
      /\ UNCHANGED <<swarms, day, log>> /\ loop.at = "account" /\ loop' = Ticking
  BY DEF LoopInv, LoopTypeOK, Account, Leaves, swarmVars
<1>1. loop' \in LoopStates /\ loop'.at = "tick"
  BY <1>0, TickingOK
<1>2. /\ auto' \in AutoStates /\ auto'.spent = auto.spent + loop.cost
      /\ auto'.enabled = auto.enabled /\ auto'.queue = auto.queue
      /\ auto'.budget = auto.budget /\ auto'.cap = auto.cap
      /\ auto'.begun = auto.begun /\ auto'.last = auto.last
  <2> DEFINE n == auto.spent + loop.cost
  <2>1. n \in Nat
    BY Numbers DEF LoopInv
  <2>2. auto' = [auto EXCEPT !.spent = n, !.current = NoSwarm]
    BY <1>0 DEF Account, AutoStates
  <2> HIDE DEF n
  <2>3. /\ auto' \in AutoStates /\ auto'.spent = n
        /\ auto'.enabled = auto.enabled /\ auto'.queue = auto.queue
        /\ auto'.budget = auto.budget /\ auto'.cap = auto.cap
        /\ auto'.begun = auto.begun /\ auto'.last = auto.last
    BY <1>0, <2>1, <2>2 DEF AutoStates
  <2> QED
    BY <2>3 DEF n
<1>3. LoopTypeOK' /\ Current' /\ Alone'
  BY <1>0, <1>1, <1>2
  DEF LoopInv, LoopTypeOK, Current, HasSwarm, Alone, UnderWay, Exists, Over
<1>4. StopOK' /\ QueueOK' /\ Limits' /\ Dates'
  BY <1>0, <1>1, <1>2 DEF LoopInv, StopOK, Armed, QueueOK, Limits, Dates, Busy
<1>5. Accounts'
  BY <1>0, <1>1, <1>2 DEF LoopInv, Accounts, Busy, Counted
<1>6. Costs'
  <2> SUFFICES ASSUME ~log.midnight, log.overslept = {} PROVE Costs'
    BY <1>0 DEF Costs
  <2>1. auto.last = day
    BY <1>0 DEF LoopInv, Accounts
  <2>2. log.spent[day] = auto.spent + loop.cost
    BY <1>0, <2>1 DEF LoopInv, Costs, HasSwarm, Counted
  <2> QED
    BY <1>0, <1>1, <1>2, <2>1, <2>2, Numbers DEF LoopInv, Costs, HasSwarm, Counted
<1> QED
  BY <1>3, <1>4, <1>5, <1>6 DEF LoopInv

-----------------------------------------------------------------------------
(* Swarms and time go on                                                     *)

LEMMA SwarmStepKeeps ==
  ASSUME EntriesOK, TreeOK, LoopInv, NEW s \in Swarms, SwarmStep(s)
  PROVE  LoopInv'
<1>0. /\ loop \in LoopStates /\ log \in Logs /\ day \in Days /\ auto \in AutoStates
      /\ UNCHANGED <<auto, loop, day>> /\ Orchestrate(s)
      /\ swarms \in [Swarms -> Entries]
  BY DEF LoopInv, LoopTypeOK, SwarmStep, EntriesOK, SwarmTypeOK
<1>1. PICK e : swarms' = [swarms EXCEPT ![s] = e] /\ Moves(s, e)
  BY <1>0, OrchestrateOK
<1>2. /\ swarms'[s] = e /\ \A t \in Swarms : t # s => swarms'[t] = swarms[t]
  BY <1>0, <1>1
<1>3. /\ e.at # "none" /\ e.auto = swarms[s].auto /\ Exists(s) /\ ~Over(s)
      /\ e.cost \in Nat /\ swarms[s].cost \in Nat /\ e.cost >= swarms[s].cost
  BY <1>0, <1>1 DEF Moves, EntriesOK, EntryOK, Exists, Over, Entries
<1> DEFINE n == Spend(s)
<1>4. /\ n \in Nat /\ (~swarms[s].auto => n = 0)
      /\ swarms[s].auto => n = e.cost - swarms[s].cost
  BY <1>2, <1>3 DEF Spend
<1>5. /\ log' \in Logs /\ log'.replaced = log.replaced /\ log'.afterStop = log.afterStop
      /\ log'.budget = log.budget /\ log'.cap = log.cap /\ log'.begun = log.begun
      /\ log'.spent[day] = log.spent[day] + n
      /\ \A d \in Days : d # day => log'.spent[d] = log.spent[d]
      /\ log'.overslept = log.overslept /\ log'.midnight = log.midnight
  <2> DEFINE m == log.spent[day] + n
             p == [log.spent EXCEPT ![day] = m]
  <2>1. log' = [log EXCEPT !.spent = p]
    BY <1>0 DEF SwarmStep, Logs
  <2> HIDE DEF n
  <2>2. m \in Nat
    BY <1>0, <1>4, Numbers DEF LoopInv
  <2> HIDE DEF m
  <2>3. /\ p \in [Days -> Nat] /\ p[day] = m
        /\ \A d \in Days : d # day => p[d] = log.spent[d]
    BY <1>0, <2>2 DEF Logs
  <2> HIDE DEF p
  <2>4. /\ log' \in Logs /\ log'.replaced = log.replaced /\ log'.afterStop = log.afterStop
        /\ log'.budget = log.budget /\ log'.cap = log.cap /\ log'.begun = log.begun
        /\ log'.spent = p
        /\ log'.overslept = log.overslept /\ log'.midnight = log.midnight
    BY <1>0, <2>1, <2>3 DEF Logs
  <2> QED
    BY <2>3, <2>4 DEF m
<1> HIDE DEF n
<1>6. LoopTypeOK' /\ Current'
  BY <1>0, <1>2, <1>3, <1>5 DEF LoopInv, LoopTypeOK, Current, HasSwarm, Exists
<1>7. Alone'
  BY <1>0, <1>2, <1>3, <1>5 DEF LoopInv, Alone, UnderWay, Exists, Over
<1>8. StopOK' /\ QueueOK' /\ Limits'
  BY <1>0, <1>5 DEF LoopInv, StopOK, Armed, QueueOK, Limits
<1>9. Dates'
  <2>1. \A d \in Days : d > day => d # day
    BY <1>0, Numbers DEF LoopInv
  <2> QED
    BY <1>0, <1>5, <2>1 DEF LoopInv, Dates, Busy
<1>10. Accounts'
  BY <1>0, <1>5 DEF LoopInv, Accounts, Busy, Counted
<1>11. Costs'
  <2> SUFFICES ASSUME ~log.midnight, log.overslept = {} PROVE Costs'
    BY <1>5 DEF Costs
  <2>1. log.spent[day] \in Nat /\ auto.spent \in Nat /\ Counted(auto.spent) \in Nat
    BY <1>0, Numbers DEF LoopInv, Counted
  <2>2. Counted(auto.spent)' = Counted(auto.spent) /\ HasSwarm' = HasSwarm
    BY <1>0 DEF Counted, HasSwarm
  <2>3. CASE swarms[s].auto
    <3>1. s = loop.swarm /\ loop.at \in {"record", "wait"}
      BY <1>3, <2>3 DEF LoopInv, Alone, UnderWay
    <3>2. /\ log.spent[day] = Counted(auto.spent) + swarms[s].cost
          /\ log'.spent[day] = log.spent[day] + (e.cost - swarms[s].cost)
      BY <1>4, <1>5, <2>3, <3>1 DEF LoopInv, Costs, HasSwarm
    <3>3. log'.spent[day] = Counted(auto.spent) + e.cost
      BY <1>3, <2>1, <3>2
    <3> QED
      BY <1>0, <1>2, <2>2, <3>1, <3>3 DEF Costs, HasSwarm
  <2>4. CASE ~swarms[s].auto
    <3>1. HasSwarm => loop.swarm \in Swarms /\ loop.swarm # s
      BY <2>4 DEF LoopInv, Current
    <3>2. log'.spent[day] = log.spent[day]
      BY <1>4, <1>5, <2>1, <2>4
    <3> QED
      BY <1>0, <1>2, <1>5, <2>2, <3>1, <3>2 DEF LoopInv, Costs, HasSwarm, Over
  <2> QED
    BY <2>3, <2>4
<1> QED
  BY <1>6, <1>7, <1>8, <1>9, <1>10, <1>11 DEF LoopInv

LEMMA SwarmsGoOnKeeps ==
  ASSUME EntriesOK, TreeOK, LoopInv, SwarmsGoOn
  PROVE  LoopInv'
<1>1. /\ UNCHANGED <<auto, loop, day, log>>
      /\ \A t \in Swarms : Same(t) \/ (~Exists(t) /\ ~swarms'[t].auto)
  BY GoesOnOK DEF autoVars
<1>2. HasSwarm => loop.swarm \in Swarms /\ Same(loop.swarm)
  BY <1>1 DEF LoopInv, Current
<1>3. LoopTypeOK' /\ Current'
  BY <1>1, <1>2 DEF LoopInv, LoopTypeOK, Current, HasSwarm, Exists, Same
<1>4. Alone'
  BY <1>1 DEF LoopInv, Alone, UnderWay, Exists, Over, Same
<1>5. StopOK' /\ QueueOK' /\ Limits' /\ Dates'
  BY <1>1 DEF LoopInv, StopOK, Armed, QueueOK, Limits, Dates, Busy
<1>6. Accounts' /\ Costs'
  BY <1>1, <1>2 DEF LoopInv, Accounts, Costs, Busy, HasSwarm, Counted, Over, Same
<1> QED
  BY <1>3, <1>4, <1>5, <1>6 DEF LoopInv

LEMMA MidnightKeeps == ASSUME LoopInv, Midnight PROVE LoopInv'
<1>0. /\ loop \in LoopStates /\ log \in Logs /\ day \in Days /\ auto \in AutoStates
      /\ UNCHANGED <<swarms, auto, loop>> /\ day' = day + 1
  BY DEF LoopInv, LoopTypeOK, Midnight, swarmVars
<1>1. day' \in Days /\ day \in Nat /\ day' > day /\ \A d \in Days : d \in Nat
  BY <1>0, AutonomousAssumption DEF Midnight, Days
<1>2. /\ log' \in Logs /\ log'.replaced = log.replaced /\ log'.afterStop = log.afterStop
      /\ log'.budget = log.budget /\ log'.cap = log.cap
      /\ log'.begun = log.begun /\ log'.spent = log.spent /\ log'.overslept = log.overslept
      /\ ~log'.midnight => ~log.midnight /\ loop.at \in {"off", "tick"}
  BY <1>0 DEF Midnight, Logs
<1>3. LoopTypeOK' /\ Current' /\ Alone'
  BY <1>0, <1>1, <1>2
  DEF LoopInv, LoopTypeOK, Current, HasSwarm, Alone, UnderWay, Exists, Over
<1>4. StopOK' /\ QueueOK' /\ Limits'
  BY <1>0, <1>2 DEF LoopInv, StopOK, Armed, QueueOK, Limits
<1>5. Dates'
  <2>1. auto.last \in Nat /\ loop.today \in Nat
    BY <1>1, Numbers DEF LoopInv
  <2>2. \A d \in Days : d > day' => d > day
    BY <1>1
  <2> QED
    BY <1>0, <1>1, <1>2, <2>1, <2>2 DEF LoopInv, Dates, Busy
<1>6. /\ auto.last # day' /\ log.begun[day'] = 0 /\ log.spent[day'] = 0
  BY <1>0, <1>1, Numbers DEF LoopInv, Dates
<1>7. Accounts' /\ Costs'
  <2> SUFFICES ASSUME ~log.midnight, loop.at \in {"off", "tick"} PROVE Accounts' /\ Costs'
    BY <1>2 DEF Accounts, Costs
  <2> QED
    BY <1>0, <1>2, <1>6 DEF Accounts, Costs, Busy, HasSwarm, Counted
<1> QED
  BY <1>3, <1>4, <1>5, <1>7 DEF LoopInv

-----------------------------------------------------------------------------
(* The invariant                                                             *)

LEMMA TickKeeps == ASSUME AutoInv, Tick PROVE AutoInv'
<1>1. CASE \E s \in Swarms : Begin(s)
  <2>1. PICK s \in Swarms : Begin(s)
    BY <1>1
  <2>2. EntriesOK' /\ TreeOK'
    BY <2>1, StartOK DEF AutoInv, Begin
  <2> QED
    BY <2>1, <2>2, BeginKeeps DEF AutoInv
<1>2. CASE ~ \E s \in Swarms : Begin(s)
  <2>1. UNCHANGED <<swarms, work, tree, review, past>>
    BY <1>2 DEF Tick, Snapshot, SkipTick, ResetDay, PauseForBudget, Rest, Choose,
                AskMetaAgent, Pop, RefuseBlank, Record, WaitForSwarm, Account, swarmVars
  <2>2. EntriesOK' /\ TreeOK'
    BY <2>1 DEF AutoInv, EntriesOK, SwarmTypeOK, EntryOK, TreeOK, Piping, Strayed
  <2>3. CASE SkipTick \/ Rest \/ RefuseBlank
    <3>1. /\ loop.at \in {"decide", "meta", "start"} /\ loop' = Ticking
          /\ UNCHANGED <<swarms, auto, day, log>>
      BY <2>3 DEF SkipTick, Rest, RefuseBlank, Leaves, swarmVars
    <3> QED
      BY <2>2, <3>1, TickOverKeeps DEF AutoInv
  <2>4. CASE ~(SkipTick \/ Rest \/ RefuseBlank)
    BY <1>2, <2>2, <2>4, SnapshotKeeps, ResetDayKeeps, PauseKeeps, ChooseKeeps,
       AskMetaAgentKeeps, PopKeeps, RecordKeeps, WaitKeeps, AccountKeeps
    DEF AutoInv, Tick
  <2> QED
    BY <2>3, <2>4
<1> QED
  BY <1>1, <1>2

LEMMA AutoInvStep == AutoInv /\ [AutoNext]_vars => AutoInv'
<1> SUFFICES ASSUME AutoInv, [AutoNext]_vars PROVE AutoInv'
  OBVIOUS
<1>1. ASSUME UNCHANGED swarmVars PROVE EntriesOK' /\ TreeOK'
  BY <1>1 DEF AutoInv, EntriesOK, SwarmTypeOK, EntryOK, TreeOK, Piping, Strayed,
         swarmVars
<1>2. ASSUME NEW config \in Configs, Start(config) PROVE AutoInv'
  BY <1>1, <1>2, StartKeeps DEF AutoInv, Start
<1>3. ASSUME NEW config \in Configs, SetQueue(config.queue) PROVE AutoInv'
  BY <1>1, <1>3, SetQueueKeeps DEF AutoInv, SetQueue
<1>4. CASE Stop
  BY <1>1, <1>4, StopKeeps DEF AutoInv, Stop
<1>5. CASE Tick
  BY <1>5, TickKeeps
<1>6. ASSUME NEW s \in Swarms, SwarmStep(s) PROVE AutoInv'
  BY <1>6, OrchestrateOK, SwarmStepKeeps DEF AutoInv, SwarmStep
<1>7. CASE SwarmsGoOn
  BY <1>7, GoesOnOK, SwarmsGoOnKeeps DEF AutoInv
<1>8. CASE Midnight
  BY <1>1, <1>8, MidnightKeeps DEF AutoInv, Midnight
<1>9. CASE UNCHANGED vars
  <2>1. UNCHANGED swarmVars /\ UNCHANGED <<swarms, auto, loop, day, log>>
    BY <1>9 DEF vars, swarmVars, autoVars
  <2>2. LoopTypeOK' /\ Current' /\ Alone' /\ StopOK' /\ QueueOK' /\ Limits' /\ Dates'
    BY <2>1 DEF AutoInv, LoopInv, LoopTypeOK, Current, HasSwarm, Alone, UnderWay, Exists,
                Over, StopOK, Armed, QueueOK, Limits, Dates, Busy
  <2>3. Accounts' /\ Costs'
    BY <2>1 DEF AutoInv, LoopInv, Accounts, Costs, Busy, HasSwarm, Counted, Over
  <2> QED
    BY <1>1, <2>1, <2>2, <2>3 DEF AutoInv, LoopInv
<1> QED
  BY <1>2, <1>3, <1>4, <1>5, <1>6, <1>7, <1>8, <1>9 DEF AutoNext

(* The entries, the working copy and the accounts are in order in every
   reachable state (swarm.rs, git_ops.rs, autonomous.rs:317-520).            *)
THEOREM AutoInvariant == AutoSpec => []AutoInv
<1>1. AutoInit => AutoInv
  BY EntriesInit, TreeInit, LoopInit DEF AutoInit, AutoInv
<1> QED
  BY <1>1, AutoInvStep, PTL DEF AutoSpec

-----------------------------------------------------------------------------
(* What follows                                                              *)

(* Every variable keeps its type.                                            *)
THEOREM AutoTyped == AutoSpec => []AutoTypeOK
<1>1. AutoInv => AutoTypeOK
  <2> SUFFICES ASSUME AutoInv PROVE AutoTypeOK
    OBVIOUS
  <2>1. SwarmTypeOK
    BY DEF AutoInv, EntriesOK
  <2>2. auto \in AutoStates /\ loop \in LoopStates /\ day \in Days
    BY DEF AutoInv, LoopInv, LoopTypeOK
  <2>3. loop.at \in {"record", "wait", "account"} => loop.swarm # NoSwarm
    BY DEF AutoInv, LoopInv, Current, HasSwarm, Swarms, NoSwarm
  <2> QED
    BY <2>1, <2>2, <2>3 DEF AutoTypeOK, AutoStates, LoopStates
<1> QED
  BY <1>1, AutoInvariant, PTL

(* Swarms of the scheduler are under way one at a time, until one outlives the
   wait (autonomous.rs:300-304).                                             *)
THEOREM OneSwarmAtATime == AutoSpec => []OneAtATime
<1>1. AutoInv => OneAtATime
  BY DEF AutoInv, LoopInv, Alone, UnderWay, OneAtATime
<1> QED
  BY <1>1, AutoInvariant, PTL

(* At most one swarm begins after a stop (autonomous.rs:17-18).              *)
THEOREM AtMostOneMore == AutoSpec => []OneMoreAfterStop
<1>1. AutoInv => OneMoreAfterStop
  BY DEF AutoInv, LoopInv, StopOK, OneMoreAfterStop
<1> QED
  BY <1>1, AutoInvariant, PTL

(* Without overlapping pipelines the user's branch gets only what he asked for,
   whoever is lost; and unless a swarm strays or git refuses, every pipeline
   leads back to where he was (swarm.rs:553-560, 630-640).                   *)
THEOREM UserKeepsBranch == AutoSpec => []UserBranchKept
<1>1. AutoInv => UserBranchKept
  BY DEF AutoInv, TreeOK, UserBranchKept
<1> QED
  BY <1>1, AutoInvariant, PTL

(* A swarm of the scheduler begins in a Begin of the loop, nowhere else.     *)
LEMMA BeginsByLoop ==
  ASSUME AutoInv, [AutoNext]_vars, NEW s \in Swarms, Begins(s)
  PROVE  loop.at = "start"
<1>1. \A t \in Swarms : ~Exists(t) => ~swarms[t].auto
  BY DEF AutoInv, EntriesOK, EntryOK, Exists
<1>2. CASE UNCHANGED swarms
  BY <1>1, <1>2 DEF Begins
<1>3. ASSUME NEW t \in Swarms, SwarmStep(t) PROVE FALSE
  <2>1. PICK e : swarms' = [swarms EXCEPT ![t] = e] /\ Moves(t, e)
    BY <1>3, OrchestrateOK DEF AutoInv, SwarmStep
  <2>2. swarms \in [Swarms -> Entries]
    BY DEF AutoInv, EntriesOK, SwarmTypeOK
  <2> QED
    BY <1>1, <2>1, <2>2 DEF Begins, Moves, Exists
<1>4. CASE SwarmsGoOn
  BY <1>1, <1>4, GoesOnOK DEF AutoInv, Same, Begins
<1>5. CASE \E t \in Swarms : Begin(t)
  BY <1>5 DEF Begin, Leaves
<1>6. CASE Tick /\ ~(\E t \in Swarms : Begin(t))
  BY <1>2, <1>6 DEF Tick, Snapshot, SkipTick, ResetDay, PauseForBudget, Rest, Choose,
              AskMetaAgent, Pop, RefuseBlank, Record, WaitForSwarm, Account, swarmVars
<1>7. CASE UNCHANGED vars \/ Midnight \/ Stop
           \/ \E config \in Configs : Start(config) \/ SetQueue(config.queue)
  BY <1>2, <1>7 DEF vars, Midnight, Stop, Start, SetQueue, swarmVars
<1> QED
  BY <1>3, <1>4, <1>5, <1>6, <1>7 DEF AutoNext

(* The hard caps of autonomous.rs:6-9, under the two conditions they need.   *)
THEOREM CapsHold == AutoSpec => HardCaps
<1>1. AutoInv /\ [AutoNext]_vars =>
        [\A s \in Swarms : Begins(s) /\ ~log.midnight =>
            /\ log.overslept = {} => log.spent[day] < log.budget
            /\ log.begun[day] < log.cap]_vars
  BY BeginsByLoop DEF AutoInv, LoopInv, Accounts, Costs
<1> QED
  BY <1>1, AutoInvariant, AutoInvStep, PTL DEF AutoSpec, HardCaps

(* What leaves the queue is what will run (autonomous.rs:391-396).           *)
THEOREM PopsTheGoal == AutoSpec => PopsWhatItRuns
<1>1. AutoInv /\ [AutoNext]_vars =>
        [loop.at = "pop" /\ loop'.at = "start" /\ ~log.replaced
            => auto.queue = <<loop.goal>> \o auto'.queue]_vars
  <2> SUFFICES ASSUME AutoInv, [AutoNext]_vars, loop.at = "pop", loop'.at = "start",
                      ~log.replaced
               PROVE  auto.queue = <<loop.goal>> \o auto'.queue
    OBVIOUS
  <2>1. auto \in AutoStates /\ loop.goal = First(auto.queue) /\ auto.queue # <<>>
    BY DEF AutoInv, LoopInv, LoopTypeOK, QueueOK
  <2>2. Pop
    BY DEF AutoNext, Tick, vars, autoVars, Start, SetQueue, Stop, Snapshot, SkipTick,
           ResetDay, PauseForBudget, Rest, Choose, AskMetaAgent, Begin, RefuseBlank,
           Record, WaitForSwarm, Account, SwarmStep, SwarmsGoOn, Midnight, Leaves, Awake,
           MayBegin
  <2>3. auto' = [auto EXCEPT !.queue = Tail(auto.queue)]
    BY <2>1, <2>2 DEF Pop
  <2> QED
    BY <2>1, <2>3, FirstOK DEF AutoStates
<1> QED
  BY <1>1, AutoInvariant, PTL DEF AutoSpec, PopsWhatItRuns

(* A swarm that is over has cost what it will ever have cost
   (autonomous.rs:483-488).                                                  *)
THEOREM CostsAreFinal == AutoSpec => EndedIsFinal
<1>1. AutoInv /\ [AutoNext]_vars =>
        [\A s \in Swarms : Over(s) => /\ swarms'[s].cost = swarms[s].cost
                                      /\ swarms'[s].status = swarms[s].status]_swarmVars
  <2> SUFFICES ASSUME AutoInv, [AutoNext]_vars, NEW s \in Swarms, Over(s)
               PROVE  /\ swarms'[s].cost = swarms[s].cost
                      /\ swarms'[s].status = swarms[s].status
    OBVIOUS
  <2>0. swarms \in [Swarms -> Entries] /\ Exists(s) /\ swarms[s].at = "over"
    BY DEF AutoInv, EntriesOK, SwarmTypeOK, EntryOK, Over, Exists
  <2>1. CASE UNCHANGED swarms
    BY <2>1
  <2>2. ASSUME NEW t \in Swarms, SwarmStep(t)
        PROVE  swarms'[s] = swarms[s]
    <3>1. PICK e : swarms' = [swarms EXCEPT ![t] = e] /\ Moves(t, e)
      BY <2>2, OrchestrateOK DEF AutoInv, SwarmStep
    <3>2. t # s
      BY <2>0, <3>1 DEF Moves
    <3> QED
      BY <2>0, <3>1, <3>2
  <2>3. CASE SwarmsGoOn
    BY <2>0, <2>3, GoesOnOK DEF AutoInv, Same
  <2>4. CASE \E t \in Swarms : Begin(t)
    <3>1. PICK t \in Swarms : Begin(t)
      BY <2>4
    <3> QED
      BY <2>0, <3>1, StartOK DEF AutoInv, Begin
  <2>5. CASE Tick /\ ~(\E t \in Swarms : Begin(t))
    BY <2>1, <2>5 DEF Tick, Snapshot, SkipTick, ResetDay, PauseForBudget, Rest, Choose,
                AskMetaAgent, Pop, RefuseBlank, Record, WaitForSwarm, Account, swarmVars
  <2>6. CASE UNCHANGED vars \/ Midnight \/ Stop
             \/ \E config \in Configs : Start(config) \/ SetQueue(config.queue)
    BY <2>1, <2>6 DEF vars, Midnight, Stop, Start, SetQueue, swarmVars
  <2> QED
    BY <2>2, <2>3, <2>4, <2>5, <2>6 DEF AutoNext
<1> QED
  BY <1>1, AutoInvariant, PTL DEF AutoSpec, EndedIsFinal
=============================================================================
