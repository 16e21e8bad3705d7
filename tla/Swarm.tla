------------------------------- MODULE Swarm -------------------------------
(* The swarm orchestrator (src/qo/qo-server/src/routes/swarm.rs), the git
   pipeline that ends a swarm of the autonomous scheduler (git_ops.rs), and the
   review of what pipelines have committed (routes/git.rs).

   Every swarm has a task of its own: at most MaxRounds rounds of planning,
   dispatch and evaluation, then the pipeline.  Its entry in the map of swarms
   is locked for a moment at a time and never during an await, so that stops,
   subtasks and other swarms run between any two steps.  The agents of the
   subtasks are processes that edit one working copy, which the pipelines of
   all swarms and the user share; a subtask that has timed out leaves its
   process running.

   An orchestrator may also be lost on its way: slices of answers and of build
   output at a byte that is not the start of a character panic, and git and the
   local models are awaited without a timeout.  Of what subtasks answer only
   this is modelled: otherwise prompts alone read it.                        *)
EXTENDS Naturals, FiniteSets

CONSTANTS MaxSwarms,   \* bound: swarms ever started
          MaxRounds, MaxTokens,
          Subtasks,    \* names of the subtasks of a round
          Files        \* files of the repository

ASSUME SwarmAssumption ==
    MaxSwarms \in Nat /\ MaxRounds \in Nat \ {0} /\ MaxTokens \in Nat

VARIABLES swarms,  \* the map: the entry and the orchestrator of each swarm
          work,    \* agents at work; "awaited": the subtask still waits
          tree,    \* the working copy and the branches
          review,  \* the branch a review is about to merge
          past     \* history: what the properties speak of

swarmVars == <<swarms, work, tree, review, past>>

Swarms == 1..MaxSwarms
User == 0                  \* the branch the user works on
NoReview == 0
Detached == MaxSwarms + 1  \* no branch: HEAD is the commit that User is at
Branches == Swarms \cup {User, Detached}

Steps == {"none", "capture", "check", "plan", "join", "eval", "look", "branch",
          "commit", "test", "finalize", "over", "lost", "stranded"}
Ended == {"done", "stopped"}
Entries == [at : Steps, round : 0..MaxRounds,
            status : {"none", "planning", "dispatching", "evaluating"} \cup Ended,
            tokens : 0..(MaxTokens + 1), cost : 0..(2 * MaxRounds),
            stop : BOOLEAN, auto : BOOLEAN,
            before : SUBSET Files, home : Branches]
NoEntry == [at |-> "none", round |-> 0, status |-> "none", tokens |-> 0, cost |-> 0,
            stop |-> FALSE, auto |-> FALSE, before |-> {}, home |-> User]

SwarmInit ==
    /\ swarms = [s \in Swarms |-> NoEntry]
    /\ work = {}
    /\ \E b \in {User, Detached} :
          tree = [branch |-> b, dirty |-> {}, made |-> {},
                  tip |-> [c \in Branches |-> {}], commits |-> [s \in Swarms |-> {}]]
    /\ review = NoReview
    /\ past = [edited |-> {}, merged |-> {}, reviews |-> 0, overlap |-> FALSE,
               refused |-> FALSE]

Exists(s) == swarms[s].at # "none"
Over(s) == swarms[s].status \in Ended

\* The orchestrator of s goes from one step to another and changes its entry.
Go(s, from, entry) ==
    /\ swarms[s].at = from
    /\ swarms' = [swarms EXCEPT ![s] = entry]

\* Its task has panicked or waits for ever, and its entry stays as it is.  In
\* the pipeline it has left the user's branch and not come back.
Lose(s, from, entry) ==
    Go(s, from, [entry EXCEPT !.at = IF from \in {"commit", "test"} THEN "stranded"
                                                                   ELSE "lost"])
Gone(s) == swarms[s].at \in {"lost", "stranded"}

-----------------------------------------------------------------------------
(* Requests                                                                  *)

StartSwarm(s, auto) ==
    /\ ~Exists(s) /\ \A r \in Swarms : r < s => Exists(r)
    /\ swarms' = [swarms EXCEPT ![s] =
          [NoEntry EXCEPT !.at = "capture", !.status = "planning", !.auto = auto]]
    /\ UNCHANGED <<work, tree, review, past>>

StopSwarm(s) ==
    /\ Exists(s)
    /\ swarms' = [swarms EXCEPT ![s].stop = TRUE]
    /\ UNCHANGED <<work, tree, review, past>>

-----------------------------------------------------------------------------
(* Rounds                                                                    *)

\* git takes the HEAD of "status --porcelain HEAD" for a path: nothing is
\* listed, whatever has changed.
CaptureStatus == {}

Capture(s) ==
    /\ \/ Go(s, "capture", [swarms[s] EXCEPT !.at = "check", !.round = 1,
                                             !.before = CaptureStatus])
       \/ Lose(s, "capture", swarms[s])
    /\ UNCHANGED <<work, tree, review, past>>

\* The flag and the token cap, looked at before planning and evaluation.
Precheck(s) == ~swarms[s].stop /\ swarms[s].tokens <= MaxTokens

Check(s) ==
    /\ Go(s, "check", IF Precheck(s)
                      THEN [swarms[s] EXCEPT !.at = "plan", !.status = "planning"]
                      ELSE [swarms[s] EXCEPT !.at = "look"])
    /\ UNCHANGED <<work, tree, review, past>>

\* Not told apart once the cap is exceeded.
Plus(n, k) == IF n + k > MaxTokens THEN MaxTokens + 1 ELSE n + k

\* llm_call charges after the reply, and nothing when there is none.
Charged(entry) == [entry EXCEPT !.tokens = Plus(@, 1), !.cost = @ + 1]

\* Not the code: one round too many.
NextRound_Late(entry) ==
    IF entry.round <= MaxRounds
    THEN [entry EXCEPT !.at = "check", !.round = @ + 1]
    ELSE [entry EXCEPT !.at = "look"]

NextRound(entry) ==
    IF entry.round < MaxRounds
    THEN [entry EXCEPT !.at = "check", !.round = @ + 1]
    ELSE [entry EXCEPT !.at = "look"]

\* The strategist plans some subtasks; a failed call or a reply without
\* subtasks ends the round (push_error_round, continue).  Lost before the reply
\* to a slice of an earlier answer or a silent model, after it to a slice of a
\* reply without subtasks.
Plan(s) ==
    \/ /\ \E entry \in {swarms[s], Charged(swarms[s])} :
              Go(s, "plan", NextRound(entry)) \/ Lose(s, "plan", entry)
       /\ UNCHANGED <<work, tree, review, past>>
    \/ \E T \in SUBSET Subtasks \ {{}} :
        /\ Go(s, "plan", [Charged(swarms[s]) EXCEPT !.at = "join",
                                                    !.status = "dispatching"])
        /\ work' = work \cup [swarm : {s}, round : {swarms[s].round},
                              task : T, awaited : {TRUE}]
        /\ UNCHANGED <<tree, review, past>>

\* All subtasks of the round have answered, or a minute has passed: the
\* handles are dropped and the tasks go on.  Then the second check.
Join(s) ==
    /\ Go(s, "join", IF Precheck(s)
                     THEN [swarms[s] EXCEPT !.at = "eval", !.status = "evaluating"]
                     ELSE [swarms[s] EXCEPT !.at = "look"])
    /\ UNCHANGED <<work, tree, review, past>>

\* A failed call counts as "not converged".  Lost to a slice of an answer of
\* this round or a silent model.
Eval(s) ==
    /\ \/ \E entry \in {swarms[s], Charged(swarms[s])} :
              Go(s, "eval", NextRound(entry))
       \/ Go(s, "eval", [Charged(swarms[s]) EXCEPT !.at = "look"])
       \/ Lose(s, "eval", swarms[s])
    /\ UNCHANGED <<work, tree, review, past>>

-----------------------------------------------------------------------------
(* Subtasks: an agent edits files until its process ends.                    *)

Dirty(f, byAgent) ==
    /\ tree' = [tree EXCEPT !.dirty = @ \cup {f}]
    /\ past' = IF byAgent THEN [past EXCEPT !.edited = @ \cup {f}] ELSE past

AgentEdit(w, f) ==
    /\ Dirty(f, TRUE)
    /\ UNCHANGED <<swarms, work, review>>

UserEdit(f) ==
    /\ Dirty(f, FALSE)
    /\ UNCHANGED <<swarms, work, review>>

\* Not the code: what the session has cost is charged as well.
SubtaskEnds_Charges(w) ==
    /\ work' = work \ {w}
    /\ \E n \in IF w.awaited THEN {0, 1} ELSE {0} :
           swarms' = [swarms EXCEPT
               ![w.swarm] = IF n = 1 THEN Charged(@) ELSE @]
    /\ UNCHANGED <<tree, review, past>>

\* The session answers, and an estimate of its tokens is charged, or it fails
\* (IDE agents are not charged).  No cost: the session has a budget of its own.
SubtaskEnds(w) ==
    /\ work' = work \ {w}
    /\ \E n \in IF w.awaited THEN {0, 1} ELSE {0} :
           swarms' = [swarms EXCEPT ![w.swarm].tokens = Plus(@, n)]
    /\ UNCHANGED <<tree, review, past>>

\* After three minutes the subtask fails, but nothing kills its process.
SubtaskTimesOut(w) ==
    /\ w.awaited
    /\ work' = (work \ {w}) \cup {[w EXCEPT !.awaited = FALSE]}
    /\ UNCHANGED <<swarms, tree, review, past>>

-----------------------------------------------------------------------------
(* The pipeline of an autonomous swarm: branch, commit, build, return.       *)

\* Swarms that have been told what the user's branch is and not yet returned.
Piping == {s \in Swarms : swarms[s].at \in {"branch", "commit", "test"}}

\* No pipeline, nothing has changed, git fails, or what is checked out is home:
\* without a branch, git calls it HEAD.
Look(s) ==
    \/ /\ Go(s, "look", [swarms[s] EXCEPT !.at = "finalize"])
       /\ UNCHANGED past
    \/ /\ swarms[s].auto /\ Lose(s, "look", swarms[s])
       /\ UNCHANGED past
    \/ /\ swarms[s].auto /\ tree.dirty # {}
       /\ Go(s, "look", [swarms[s] EXCEPT !.at = "branch", !.home = tree.branch])
       /\ past' = [past EXCEPT !.overlap = @ \/ Piping # {} \/ review # NoReview]

LookOnly(s) == Look(s) /\ UNCHANGED <<work, tree, review>>

\* What two branches differ in.
Between(a, b) ==
    LET only == (tree.tip[a] \ tree.tip[b]) \cup (tree.tip[b] \ tree.tip[a])
    IN UNION {tree.commits[s] : s \in only}

\* git refuses when a file with changes differs between the branches, or the
\* branch is no more.
MayCheckout(b) ==
    \/ b \in {tree.branch, Detached}
    \/ b \in tree.made \cup {User} /\ tree.dirty \cap Between(tree.branch, b) = {}

\* The result is logged and otherwise ignored.  HEAD is wherever one is by now.
Checkout(b) ==
    IF MayCheckout(b)
    THEN tree' = [tree EXCEPT !.branch = IF b = Detached THEN @ ELSE b] /\ UNCHANGED past
    ELSE past' = [past EXCEPT !.refused = TRUE] /\ UNCHANGED tree

\* git checkout -b
CreateBranch(s) ==
    tree' = [tree EXCEPT !.branch = s, !.made = @ \cup {s},
                         !.tip[s] = tree.tip[tree.branch]]

Branch(s) ==
    /\ \/ CreateBranch(s) /\ Go(s, "branch", [swarms[s] EXCEPT !.at = "commit"])
       \/ UNCHANGED tree /\ Go(s, "branch", [swarms[s] EXCEPT !.at = "finalize"])
       \/ UNCHANGED tree /\ Lose(s, "branch", swarms[s])
    /\ UNCHANGED <<work, review, past>>

DiffStatus(before, after) == after \ before

\* commit_all: git add of the files, and of everything when there are none.
Staged(files) == IF files = {} THEN tree.dirty ELSE files

\* On the branch that is checked out by now.
CommitAll(s, files) ==
    tree' = [tree EXCEPT !.commits[s] = Staged(files),
                         !.tip[tree.branch] = @ \cup {s},
                         !.dirty = @ \ Staged(files)]

\* The way home is checked out; git may be done and still not end (a hook).
Home(s, from) ==
    /\ Checkout(swarms[s].home)
    /\ \E place \in {"finalize", "lost"} : Go(s, from, [swarms[s] EXCEPT !.at = place])

\* Not the code: a failed commit leaves the branch checked out.
Commit_Stays(s) ==
    LET files == DiffStatus(swarms[s].before, CaptureStatus) IN
    /\ \/ /\ Staged(files) # {} /\ CommitAll(s, files)
          /\ Go(s, "commit", [swarms[s] EXCEPT !.at = "test"])
          /\ UNCHANGED past
       \/ /\ UNCHANGED <<tree, past>>
          /\ \/ Go(s, "commit", [swarms[s] EXCEPT !.at = "finalize"])
             \/ Lose(s, "commit", swarms[s])
    /\ UNCHANGED <<work, review>>

\* Fails when there is nothing to commit, and may fail in any case.
Commit(s) ==
    LET files == DiffStatus(swarms[s].before, CaptureStatus) IN
    /\ \/ /\ Staged(files) # {} /\ CommitAll(s, files)
          /\ Go(s, "commit", [swarms[s] EXCEPT !.at = "test"])
          /\ UNCHANGED past
       \/ Home(s, "commit")
       \/ Lose(s, "commit", swarms[s]) /\ UNCHANGED <<tree, past>>
    /\ UNCHANGED <<work, review>>

\* The build is over: its result is recorded and home checked out.  Lost to a
\* slice of the build's output, or to git before the build or after it.
Return(s) ==
    /\ \/ Home(s, "test")
       \/ Lose(s, "test", swarms[s]) /\ UNCHANGED <<tree, past>>
    /\ UNCHANGED <<work, review>>

\* Not the code: a stop is only looked at between rounds.
Finalize_Done(s) ==
    /\ Go(s, "finalize", [swarms[s] EXCEPT !.at = "over", !.status = "done"])
    /\ UNCHANGED <<work, tree, review, past>>

\* A stop wins, even one that came after the last check.
Finalize(s) ==
    /\ Go(s, "finalize", [swarms[s] EXCEPT !.at = "over",
              !.status = IF swarms[s].stop THEN "stopped" ELSE "done"])
    /\ UNCHANGED <<work, tree, review, past>>

-----------------------------------------------------------------------------
(* The review: the user has a branch merged into his own, or deleted.  A merge
   is two commands, and the pipelines do not know of it.                     *)

ReviewCheckout(s) ==
    /\ review = NoReview /\ s \in tree.made /\ MayCheckout(User)
    /\ tree' = [tree EXCEPT !.branch = User]
    /\ review' = s
    /\ past' = [past EXCEPT !.reviews = @ + 1, !.merged = @ \cup tree.tip[s],
                            !.overlap = @ \/ Piping # {}]
    /\ UNCHANGED <<swarms, work>>

\* git merge --no-ff, into the branch that is checked out by now.
Merge(s) == tree' = [tree EXCEPT !.tip[tree.branch] = @ \cup tree.tip[s]]

\* It fails if the branch is no more or a file with changes is in the way; a
\* conflict leaves its files to whoever resolves it.
ReviewMerge ==
    /\ review # NoReview
    /\ \/ /\ review \in tree.made
          /\ tree.dirty \cap Between(tree.branch, review) = {}
          /\ Merge(review)
       \/ UNCHANGED tree
       \/ tree' = [tree EXCEPT !.dirty = @ \cup Between(tree.branch, review)]
    /\ review' = NoReview
    /\ UNCHANGED <<swarms, work, past>>

\* git branch -D refuses the branch that is checked out.
Discard(s) ==
    /\ s \in tree.made \ {tree.branch}
    /\ tree' = [tree EXCEPT !.made = @ \ {s}, !.tip[s] = {}]
    /\ past' = [past EXCEPT !.reviews = @ + 1]
    /\ UNCHANGED <<swarms, work, review>>

Review == ReviewMerge \/ \E s \in Swarms : ReviewCheckout(s) \/ Discard(s)

-----------------------------------------------------------------------------
Orchestrate(s) ==
    \/ Capture(s) \/ Check(s) \/ Plan(s) \/ Join(s) \/ Eval(s)
    \/ LookOnly(s) \/ Branch(s) \/ Commit(s) \/ Return(s) \/ Finalize(s)

SwarmNext ==
    \/ \E s \in Swarms : \/ Orchestrate(s) \/ StopSwarm(s) \/ StartSwarm(s, FALSE)
    \/ \E w \in work : \/ SubtaskEnds(w) \/ SubtaskTimesOut(w)
                       \/ \E f \in Files : AgentEdit(w, f)
    \/ \E f \in Files : UserEdit(f)
    \/ Review

\* What may never end is a step to "lost": models of the cloud, the wait for
\* agents and the build time out, and locks are held for a moment.
SwarmFairness == \A s \in Swarms : WF_swarmVars(Orchestrate(s))

-----------------------------------------------------------------------------
(* Every variable keeps its type.                                            *)
SwarmTypeOK ==
    /\ swarms \in [Swarms -> Entries]
    /\ work \subseteq [swarm : Swarms, round : 1..MaxRounds, task : Subtasks,
                       awaited : BOOLEAN]
    /\ tree \in [branch : Branches, dirty : SUBSET Files, made : SUBSET Swarms,
                 tip : [Branches -> SUBSET Swarms], commits : [Swarms -> SUBSET Files]]
    /\ review \in Swarms \cup {NoReview}
    /\ past \in [edited : SUBSET Files, merged : SUBSET Swarms, reviews : Nat,
                 overlap : BOOLEAN, refused : BOOLEAN]

(* What a swarm has cost when it is over is all it will ever cost, although
   agents it has dispatched may go on: the scheduler reads the cost once,
   when it finds the swarm done or stopped (autonomous.rs:483-488).          *)
EndedIsFinal ==
    [][\A s \in Swarms : Over(s) => /\ swarms'[s].cost = swarms[s].cost
                                    /\ swarms'[s].status = swarms[s].status]_swarmVars

(* A swarm that is asked to stop before it is over ends as stopped, whatever
   it is doing and however its agents dawdle, unless its orchestrator is lost:
   then it stays as it is for ever (swarm.rs:275-286).                       *)
StopEnds ==
    \A s \in Swarms : (Exists(s) /\ swarms[s].stop /\ ~Over(s))
                         ~> (swarms[s].status = "stopped" \/ Gone(s))

\* Swarms that have no way home: lost before it, or begun without a branch.
Strayed == {s \in Swarms : swarms[s].at = "stranded" \/ swarms[s].home = Detached}

(* As long as neither two pipelines nor a pipeline and a review ever ran at
   once, the user's branch has only the commits he has asked to be merged,
   wherever orchestrators are lost.  And after every pipeline, the failed ones
   too, the user is where he was, unless git refused because somebody edited a
   committed file during the build, or a swarm has strayed: one that was lost
   between its branch and the way home, or that began without a branch and
   took HEAD for home (swarm.rs:553-560, 630-640, git.rs:113-130).           *)
UserBranchKept ==
    ~past.overlap =>
        /\ tree.tip[User] \subseteq past.merged
        /\ Piping = {} /\ Strayed = {} /\ ~past.refused
               => tree.branch \in {User, Detached}

(* Not so: "commit only those" files that the agents have changed
   (swarm.rs:327-330).                                                       *)
CommitsOnlyAgentEdits == \A s \in Swarms : tree.commits[s] \subseteq past.edited
=============================================================================
