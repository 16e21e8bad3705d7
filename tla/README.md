# OrbitQO: models of the knowledge graph and of what works on it

TLA+ modules, TLC configurations and TLAPS proofs about this repository: a Rust
workspace (`src/qo/`, `src/crates/`, `src/src/`) with a web frontend. The program is a
local server at which people and LLM agents work on code together. What they claim about
the code goes into a knowledge graph that is meant to be an audit trail: claims are
proposed, held against evidence, verified, refuted, doubted and healed, and nothing is
ever overwritten. Around it the server runs agents, swarms and a scheduler, passes
messages between agents and IDEs, and a supervisor starts agents for queued tasks.

The project began with the knowledge graph, because every other part writes its results
there and its promises are the strictest and the most explicit, and went on to the parts
with protocols of their own: the supervisor, the swarms with the autonomous scheduler,
and the mesh of agents and IDEs.

## 1. Inventory

| component | state | operations | interacts by |
|---|---|---|---|
| knowledge store (`qo-knowledge/store.rs`, `model.rs`) | redb tables: claims by (id, revision), three id indexes, entities, seen deltas | add_claim, verify_claim, refute_claim, mark_stale, refresh_observed, attach_relation, restore_revision, record_delta, put_entity, queries | called by every handler; one store in `AppState`, no lock |
| delta merger (`merge.rs`, `delta.rs`) | none of its own; the seen-delta table | merge_delta, merge_signed_delta | calls the store, operation by operation |
| source checks (`sourcecheck.rs`) and indexer (`repository_indexer.rs`) | none; read workspace files | verify_claim_against_source, verify_all_proposals, refresh_sources, heal_stale, index_file | call the store; files are edited by others |
| archive (`archive.rs`) | none; a JSON value or a backup file | export, import, restore | walks and replays the store |
| trust, OrbitQL, proposals, context, receipts, health | a key list loaded at start | verify_delta, parsers, renderers | in front of the merger, or read-only |
| message bus (`qlang-agent/bus.rs`) | mailboxes by agent name, conversations, listeners | register, unregister, send, send_and_wait | bounded channels, timeouts |
| agent loops, direct messages, broadcast (`qo-server/lib.rs`, `routes/`) | one task per agent | receive, call a model, reply | bus |
| presence (`routes/presence.rs`, `editors/vscode`) | entries with an expiry, one mutex | register, heartbeat, eligibility, deregister, sweep | registers a mailbox on the bus; the extension beats and re-registers |
| swarm (`routes/swarm.rs`, `git_ops.rs`, `routes/git.rs`) | a map of swarms; the working copy and its branches | start, stop, rounds, subtasks, git pipeline, review | agent processes edit the working copy; IDEs over the bus |
| autonomous scheduler (`routes/autonomous.rs`) | enabled flag, queue, counters of the day | start, stop, set_queue, tick | starts swarms, waits for them and reads their cost |
| consensus, multi-agent runs, goals | a map of runs, an agent registry | fan out, rounds, retries | the bus, models |
| supervisor (`src/supervisor.rs`, `routes/supervisor.rs`) | one JSON file of tasks and sessions | tick, poll, cycle, task actions | CLI and server rewrite the same file |
| QLANG crates | graphs, VM, task pool, replay guard | pure computations; a thread pool | libraries |
| CLI, frontend, editors, memory, LLM router, auth | - | - | clients and services |

What is hard here is concurrency without locks, or with locks held for a moment only.
Axum handlers run in parallel on one store; each store call is a read transaction
followed by a write transaction, and each merge, sweep, export and import is a long
series of such calls; processes die between them; files change while a sweep reads them.
The supervisor's file is rewritten whole by several processes. The scheduler reads,
awaits for minutes and writes back; swarms, agents that nobody waits for any more and
the user share one working copy. Mailboxes are bounded and nothing blocks on them; IDEs
reload, crash and come back. Reads may fail, tasks may panic, and a command that is
awaited without a timeout may never end. `PROJECT.json` lists the hazards at their
lines.

What makes each component correct: *store* - trails without gaps, no status without its
evidence, covering (alone: exact) indexes, one live revision, content never rewritten.
*Merger* - the merge rules hold for a delta although each operation reads twice; settled
decisions are not flipped; repeating a delta changes nothing; every merge ends. *Sweeps*
- a sweep does all its work and decides only what was open to it; staleness means the
source changed. *Archive* - everything goes out, comes back as it was, and harms nothing
already there. *Bus and presence* - a task is with one agent at a time and its result
goes to whoever started it; an answer that comes in time is taken; the registry follows
the client and keeps the operator's flag. *Swarm and scheduler* - caps and stops hold,
the goal that leaves the queue is the one that runs, every stopped swarm ends, the user
keeps his branch. *Supervisor* - a task runs once, after what it depends on; no agent is
forgotten; every exit is noticed; and what an init at the wrong moment costs of these.

## 2. Modules

| module | models | built on |
|---|---|---|
| `KnowledgeTables` | the redb tables and the transaction `write_revision` | |
| `KnowledgeStore` | the store calls by concurrent callers | `KnowledgeTables` |
| `ClaimLedger` | abstract: an append-only ledger per claim | |
| `DeltaMerge` | the merge rules as functions of the graph | |
| `GraphMerge` | merges of signed and local deltas by concurrent handlers | `KnowledgeStore`, `DeltaMerge` |
| `SourceCheck` | the four sweeps, decisions by hand, edits of files | `KnowledgeStore` |
| `KnowledgeArchive` | export of a live store, import into another | `KnowledgeStore`, a second `KnowledgeTables` |
| `TaskBoard` | abstract: tasks that wait for tasks and run once | |
| `Supervisor` | the state file, its writers, the daemon, agent processes | refines `TaskBoard` |
| `Swarm` | rounds, subtasks, the git pipeline and the review | |
| `Autonomous` | the scheduler's loop and its caps | `Swarm` |
| `MessageBus` | mailboxes, the two halves of a send | |
| `Presence` | the registry of IDEs and the extension's client | `MessageBus` |
| `Mesh` | agent loops, exchanges with IDEs, restarts | `Presence` |
| `..._proofs` | theorems about the module they are named after (`KnowledgeSerial_proofs`: about `SerialSpec` of the store) | |
| `MC...` | the constants and bounds of the runs | |

Operators whose comment begins with "Not the code", or whose name has a suffix after an
underscore, are deliberate mistakes. No specification uses them; putting one in place of
the operator it is named after must break the property it is paired with in
`PROJECT.json`, which shows that the property can fail.

### The store

`claims[c][r]` is the row of key (c, r), `Absent` when there is none. A row keeps what
the properties tell apart: subject (with it the statement), `object`, status, the list
of evidence, the provenance, and `superseded`, 0 for `None`. `object` stands for the two
fields relation and object: an entity for a relation with that object, `Dangling` for a
relation without an object, `[alone |-> e]` for an object without a relation.
`Claim::relating` sets both, but a claim that comes in a delta is stored as it is, and
nothing checks it (delta.rs:93-103); `Halves` says which of the two kinds a run admits.
The code's read transaction is the action that fills `call[w]` with the arguments of
`write_revision`; `Commit(w)` is the write transaction, one atomic step because redb has
one writer and commits atomically. `Crash` loses the pending calls and keeps the tables.
`write_revision` puts back the *copy* of the previous revision the caller read, and so
does the model. put_entity is left out: one insert by key that nothing else reads.

`SerialSpec` is the same with calls on one claim not overlapping, what a lock per claim
id would give. It separates the promises that need such a lock from those that hold
without it, and `ClaimLedger` is what it implements: `ledger` is `history()` without the
links, each step one ledger step or a stutter.

### The merger

`job[w]` is the loop of merge_delta: the delta, the next operation and how far it got.
An operation is `Guard` (apply_op's own read and decision), `Apply` (the store call's
read) and `CommitOp` (its write). `Abort` is the `?` on a failing store call. An added
claim has a subject, an object, evidence and a time of its own, whatever the delta says
of its time. apply_op looks for a relation *with* an object and attach_relation for a
relation, so that a relation given to a claim that has `Dangling` passes the first and
fails in the second ("fails"). Signed deltas are recorded in `seen` when submitted,
before anything is applied, as in the code; local ones may be merged again and again.
`DeltaMerge` has the rules as functions of the graph: `AfterOps(graph, delta)[n]` is the
graph after n operations, and `MergeDelta` what a merge makes of it when nothing comes
between.

### The sweeps

A sweep is a record of its kind, the claims listed and not yet looked at, and the claim
in hand with the calls to make on it. `StartSweep` is the listing, `Look` the reading
and judging of one claim, `Act` and `SweepCommit` the store call. The order of a list is
left open (the code sorts or follows the index). The listing is one step;
refresh_sources makes two queries for it (sourcecheck.rs:495-496), and a claim that
moves between them is missed or examined twice. That is somebody else's commit on it:
had it fallen between the listing and `Look`, the sweep would be disturbed in the same
way. A file is a set of lines; a line and a statement are sets of terms, which is all
`assess` sees. Abstracted: the file of a claim is its subject (line hints and locators
of different pieces of evidence are dropped); a fingerprint is the whole content; which
of several best lines becomes the excerpt is left open (the comment says the earliest;
`max_by_key` yields the last). People propose and decide by hand beside the sweeps:
`orbit_graph_verify_claim` has no guard on the status, and the model has none.

### The archive

`export` records the statuses still to walk, the ids found, and what was written out;
`ReadIndex`, `ReadLatest` and `ReadHistory` are its read transactions, and
`Serve`/`ServeCommit` the handlers that go on meanwhile. Any of the reads may fail: in
the index of a status or at one of its claims, `unwrap_or_default()` makes of it that
the status has no claims (`ReadFails`), and the walk goes on; in a history it ends the
export with an error (`HistoryFails`). `import` replays an archive on the tables of a
target that is empty or holds proposals under the same ids. It may be killed anywhere
and repeated with the same archive or a newer one. Entities, JSON and backup files are
left out (component status *partly*), and so are other writers in the target during an
import; what they could do to each other is what `store_concurrent` shows of any two
calls. Calls on one claim do not overlap here (`NoOverlap`): an export can only be as
good as the trail it reads.

### The supervisor

Every operation on the state file is three steps of a worker: load the file and compute
the new content, spawning a process where the code does (`Compute`); open the file for
writing, which truncates it (`OpenForWriting`); write (`Write`). A shorter content
written over a longer one that came in between leaves a file that does not parse
(`torn`). Workers are handlers (server handlers, waiters of live sessions, CLI commands)
and daemons, whose cycle is poll and tick. The actions are the commands: `AddAgent`,
`Enqueue`, `DispatchQueued`, `DispatchLive`, `Tick`, `RunAgent`, `ServerPoll`,
`CliPoll`, `Settle` (complete, fail), `FinishLive`, `Reinit`, `Touch` for the operations
that change nothing here, and kills of commands, daemons and the server at any step.
`Reinit` is "supervisor init", which writes an empty state over whatever is there, at
any time, without a look at the file or at who works on it. Tasks and sessions are
numbered from 1 again after it, so a history variable, the *era*, tells the tasks,
agents and takeovers of before from those of after: `procs[p].era`, `file.era`.

As in the code: only the CLI's poll parks a session (`waiting`) when the probe of a
process fails, and no poll looks at it again; a poll never learns an exit code; stopping
the daemon kills the agents it has spawned (`taskkill /T`), and the next poll takes
their tasks for done; a live dispatch starts its process before the task is saved, and a
waiter that finds the file torn loses the result. A failed spawn of a live dispatch
returns without saving and is no step. Left out: Unix (the probe there takes a zombie
for running), pids that are given out again, the server's own record of the daemon it
has started. The daemon's third load, for a summary, is folded into the next poll. A
probe error in a poll of the server or the daemon is logged and leaves the session as it
is, which is the process ending after that poll; that probes of a process do not fail
for ever is an assumption of `ExitIsNoticed`. run-agent names a task that exists.

### Swarms and the scheduler

`swarms[s]` is the entry in the map together with where its orchestrator stands (`at`);
each step between two awaits is an action. `work` holds the agents at work: one whose
subtask has timed out is still there and still edits files, since nothing kills its
process. `tree` is the working copy: the branch checked out, the dirty files, the
branches that exist and what each contains. git's refusals are modelled where the code
meets them: checkout with a dirty file that differs, delete of the branch checked out, a
conflict on a merge. A review is two git commands (`git.rs:127-130`), and so two steps.
`CaptureStatus` is empty because `git status --porcelain HEAD` takes HEAD for a path,
and so commit_all, given no files, adds everything.

An orchestrator is a task of its own, and two things end it without a word: a slice of a
text at a byte inside a character, which panics (of an earlier answer when the next
round is planned, swarm.rs:990; of an answer of this round, 1105; of a reply of the
strategist without subtasks, 1233; of the build's output, git_ops.rs:296), and something
that is awaited without a timeout and never ends: git (git_ops.rs:42-62) or a model that
is not in the cloud. Either is a step to the place `"lost"`, or `"stranded"` if it comes
between the creation of a branch and the way home; the entry then stays as it is for
ever. A working copy without a branch (`Detached`) makes `"HEAD"` the home of a swarm
that begins there, and `git checkout HEAD` changes nothing.

`Autonomous` adds the loop: `Snapshot`, the branches of the decision, `Pop`, `Begin`,
`Record`, `WaitForSwarm`, `Account`, each under its own lock. One unit of cost is a call
of the strategist. Left out: the history list, next_swarm_at, what subtasks answer
(beside the panics only prompts read it), and the cooldown, which is a free choice
(`Rest`). The "error" status is never set by the code and swarms are never removed;
everything is in memory, so a restart is a new behaviour, in which `User` is whatever is
checked out by then, an auto branch that a crash in a pipeline has left there included.

### The mesh

A send has two halves: `Emit` gives the message to the streams of the IDEs, `Route` puts
it into the target's mailbox or drops it. Between the two everybody goes on, so an IDE
can answer a request before it is in any mailbox. An agent's loop is `Receive` and
`Answer`; a message to a full or closed mailbox is dropped and its status ignored. A
requester registers a name of its own, sends, polls its mailbox before the clock
(`MayTimeOut`) and forgets the name. `Presence` is the registry with the three separate
steps of register, and the client in the editor: it beats, registers again once when a
beat fails, and gives up when that fails, until the window reloads; on a reload the
request of the former window to be taken off the list is still on its way. `Double` and
`Echo` are what JavaScript makes of an id near 1.16e17, where doubles are 16 apart: the
nearest double, and the shortest decimal that is read as that double. About one id in
sixteen survives.

Left out: broadcast, the log of conversations, the counters; requesters' names are
unique as in the code; an IDE whose identity equals an agent's name would replace its
mailbox, and is excluded (`BusAssumption`). A stream may miss any message; a dead
listener is only one that misses all.

## 3. Runs

| run | bounds | shows |
|---|---|---|
| `store_concurrent` | 1 claim, 2 entities, 2 callers, 3 revisions, both kinds of evidence | types; the newest revision is live; trails without gaps; status backed by evidence; entity indexes cover; trails only grow - under any overlap and crash |
| `store_serial` | 2 claims about one entity, or 1 with half a relation and 2 entities; 2 callers, 3 revisions | one live revision, exact indexes, append-only content, refinement of `ClaimLedger` |
| `store_overwrites` (violation) | 2 callers, 1 claim, 2 revisions | content *is* overwritten without a lock |
| `merge_concurrent` | 2 handlers, 5 deltas that disagree (two bring claims with half a relation), 2 claims, 2 entities, 4 revisions | a merge whose claims nobody else had in hand follows the rules; a reversal only past a guard that read something else; merges end |
| `source_sweeps` | 2 handlers, 1 claim shared with the indexer, 3 file contents, 4 revisions | an undisturbed sweep is complete and keeps decisions |
| `archive` | 2 claims, 1 worker, 3 revisions of a claim alone, 2 of each when both are there, one failed read | a quiet export lacks only what could not be read; archived trails are whole; imports are exact and additive |
| `archive_misses` (violation) | 1 claim, 4 revisions | an export, every read of which succeeded, without a claim that was there all along |
| `supervisor` | 2 tasks, sessions and pids, 1 handler, 1 daemon, 1 agent, 1 mishap or takeover, 1 further init | dependencies are waited for; until a mishap: one run per task and era, no orphan, the board implemented, every exit noticed |
| `autonomous` | 2 swarms of 2 rounds, 1 subtask, 1 file, 2 days, 2 commands, 1 interference | caps, exclusion, queue, stops, the user's branch, with orchestrators that are lost |
| `swarm_commits` (violation) | 1 swarm | the user's edits are committed as the agents' |
| `mesh` | 2 agents, 1 IDE, 2 requesters, mailboxes of 1, 2 events | one result per task, answers taken, rest, presence, the flag |
| `mesh_replies` (violation) | 1 requester, an id that does not survive | an answer in time is thrown away |

Why the bounds are enough. A race in the store is between two calls on one claim, and a
call reads one revision and writes the next; three revisions leave room for a stale copy
that is two behind. Two entities as subjects and as objects let two calls add a claim
about different subjects, or attach different objects to it, and make the object come and
go as stale copies are written. Effects across claims are confined to the indexes, which
`store_serial` covers with two claims. A merge has two operations in these deltas, and two handlers are what
one guard can be raced by; the delta that may be repeated is about the second claim, so
that merges of different claims overlap too. A sweep treats every claim by itself, so
one claim suffices for its verdicts, and sharing that claim with the indexer makes all
four kinds meet; four revisions admit verify, stale, heal and one decision by hand.
`source_sweeps` takes calls on one claim not to overlap, since the races inside the
store are the subject of the store's own runs; the sweeps still overlap one another
between calls. In the archive, whole trails need more revisions and more statuses of one
claim, skipping and grouping need two claims; `OneOrShort` allows each in its turn.
`OneLost`: one status of the first export is lost to failed reads. A claim with half a
relation needs a second entity, for the object it is given later, and no second claim,
since it is indexed like any other (`HalvesAreAlone`). `MaxRevision` is the only bound
of these modules that is not in the code (a `u32` there): the guard of `Replace` refuses
to go past it. An archive is replaced only between imports (import works on its own copy
in memory).

The supervisor's two tasks give a chain of one dependency and two tasks for one daemon
to confuse; a mishap (an overlap of two operations, a worker dying inside one) or a
takeover (run-agent, complete, fail, live dispatch) is bounded by `MaxTrouble` and most
properties speak of behaviours before the first mishap; one further init comes at any
moment after an agent has been started, and in the middle of any operation
(`InitMatters`: between operations before that it would only begin all over). Requests
leave an identifier for every session a tick may need, and nothing is queued after a mishap, so no step is
disabled only because identifiers have run out. Two swarms of two rounds are the least
in which one outlives its wait while the next runs and a round has a predecessor; what
disturbs the loop and the orchestrators (a second request, midnight, a stop, a lost
orchestrator, a swarm of somebody else, an edit or a review, an overslept swarm, a
working copy without a branch, an agent that outlives its subtask) is counted together
in `Interferences`, one in each behaviour, because each property is about one
disturbance at a time. Only an edit of an agent comes with each of the others: without
one there is no pipeline, and a stopped or lost swarm, a review or a missing branch is
to meet one. A swarm may be stopped and lost, and one that is lost is overslept by the
scheduler; each counts once. In the mesh a mailbox of one message is full after one;
chains visit an agent twice; two events are a task and an exchange, two of either, or
one and a mishap of presence or a restart.

Deadlock is checked in every run whose system always has something to do. The scheduler,
the swarms and the mesh come to rest once the bounds are used up (`CHECK_DEADLOCK FALSE`
in their four runs); that they do not stop *early* is what `StopEnds`, `ComesToRest` and
`PresenceFollows` say.

Fairness. `MergesEnd`: weak fairness of each handler's own steps, as merge_delta is a
synchronous loop that waits for nothing but the single writer of redb. Supervisor: weak
fairness of a worker's saving steps (two system calls), and strong fairness of the
daemon's cycle, a loop around a sleep that nothing disables in the code; it is strong
because the bound on mishaps disables its steps while another operation is open.
`ExitIsNoticed` also has as premises that there is no mishap and a daemon stays alive.
Swarms: weak fairness of each orchestrator. What it awaits has a timeout (models in the
cloud 60 s and 120 s, the build 300 s and 120 s, dispatch 60 s) or, where it has none
(git, other models), may be the step to "lost" instead of an answer; so fairness only
says that an orchestrator goes on or is lost. `StopEnds` excepts the lost ones. Nothing
is assumed of the scheduler's tick (its meta-agent may never answer) or of subtasks.
Mesh: weak fairness of the agents' loops, routing, the server's steps, heartbeats and
time; none of the deregistration of a former window, which need not arrive, and none of
answers of IDEs. Nothing makes people, workers or clients do anything, or anything
crash.

History variables. `before`, `read` (merger), `alone` (sweeps), `known`, `quiet`,
`lost` (export), `mishaps`, `forced`, `inits` and the eras
(supervisor), `past` (swarms), `log` (scheduler, mesh), `raced` and `met` serve the
properties and the bounds only; no guard of a code action depends on them otherwise.

## 4. Findings

1. **Overlapping calls overwrite a revision** (`store_overwrites`). store.rs says
   "Nothing is overwritten"; two calls that read the same newest revision write the same
   key, and the first one's decision and evidence vanish.
2. **Export can miss a claim** (`archive_misses`). Statuses are walked one by one, each
   in its own transactions; a claim can move behind the walk.
3. **A swarm commits the user's edits** (`swarm_commits`). The snapshots that should
   tell the agents' files from the user's are always empty, and no files means all.
4. **Answers of IDEs are thrown away** (`mesh_replies`). The id of a request is larger
   than a JavaScript number holds, so the answer names another one.

What the models also do, beside what the repository promises in so many words, or where
its promise is too vague to be a property:

* *Store.* The status index has no promise under overlap: a stale call leaves the claim
  under a status it no longer has, or takes it out of the index of its current one, and
  it is then in no query by status. A claim that came with an object and no relation
  stays indexed under that object after attach_relation has given it another one
  (`ObjectIndexExact` names the case).
* *Merging.* The guard of an operation and the write it guards are separate
  transactions: a verification and a refutation merged together may both report success.
  AddRelation has no time guard and lowers the claim's time, so a decision that came too
  late for its claim is let through when the delta is repeated; a claim that comes with
  a time after its delta's makes that delta's own decision of it "stale"; and a relation
  for a claim that has a relation without an object ends the merge with an error.
  `RetriesAreSafe` says of which deltas (each adds, relates and decides a claim in that
  order, and no operation fails) a repetition changes nothing. Which of two
  contradicting deltas wins depends on their order.
* *Sweeps.* A refresh compares the excerpt of the first evidence and the heal appends
  its own at the end, so a healed claim alternates between stale and verified. A sweep
  that read a proposal promotes it after it was refuted by hand, and a claim that was
  refuted after a refresh had listed it is made stale and verified by the next heal. A
  refresh marks every indexed file stale, because a fingerprint is never found in the
  file.
* *Archive.* An import killed inside a claim leaves a truncated history whose newest
  revision is marked superseded, and a retry skips it. A read that fails during export
  loses the claims of a status, and no others (`QuietExportLosesOnlyUnread`), and the
  export reports success.
* *Supervisor.* After an overlap a task can be started twice or an agent forgotten. An
  agent killed with the daemon counts as done. A session parked by the CLI is never
  looked at again, and neither is one that complete or fail has closed while its agent
  runs on. A torn file stops every daemon. An init over a file in use forgets the agents
  that run and everything queued; the waiter of a live session from before it then marks
  the *new* session and task with its numbers as ended, which lets tasks start that wait
  for that task (`StartedAfterDependencies`) and hides the new session's agent from the
  polls (`Shadowed`). No other writer needs to overlap with it or die.
* *Scheduler.* The header of autonomous.rs says the caps are never bypassed: the cost of
  a swarm after the wait of five minutes, and what is spent after midnight by a swarm
  begun before, is in no account; calls of the meta-agent never count. `HardCaps`
  excludes the first two by its premises. A set_queue between the choice of a goal and
  the pop makes another goal leave the queue (`PopsWhatItRuns` excludes it).
* *Swarms.* "We never panic the swarm" (swarm.rs:538): four slices can (§2). A swarm
  whose orchestrator is lost stays in planning, dispatch, evaluation or its pipeline for
  ever, a stop of it is never answered, and the scheduler goes on after five minutes as
  if it had outlived the wait. Lost in the commit or the build it leaves the user on the
  auto branch, and so does a pipeline that began on a detached HEAD, although it
  succeeds. `UserBranchKept` names these cases (`Strayed`) and promises the user's
  branch in all others; that nothing is *put* on his branch holds in these, too. Two
  pipelines at once, or a pipeline and a review, can leave the user on an auto branch or
  put a commit on his own: `UserBranchKept` has `~past.overlap` as premise. The agent a
  strategist names is not checked against eligibility (`swarm.rs:998-1001`).
* *Mesh.* The operator's flag does not survive a reload of an IDE, because the extension
  takes the entry away when it is deactivated (presence.rs:176-180 says otherwise of a
  re-register, and that the toggle survives a reload). A failed re-registration silences the client for good. Messages to an
  unknown name, chains through an IDE, and the mail of a mailbox that is replaced end
  without a word.

## 5. Proofs

All theorems hold for every value of the constants, under the assumptions the modules
name: `MaxRevision` is a positive natural, `Dangling` and `[alone |-> e]` are no
entities (`HalvesAssumption`), `e.supports` is a Boolean, `Absent`, `Idle`, `None` and
`NoEntity` are not values of the sets they are added to (`Absent` no entry of the graph
either, for the merger); for the sweeps also that excerpts make evidence and that each
indexed file has a claim id of its own ("index:file:<path>"); for the merger that times
are naturals and deltas are sequences of operations; for the supervisor that handlers
are no daemons; for the scheduler that configurations have the types of the code and
that `NonBlank` of a queue is a sequence of goals. (The last is a fact about
`SelectSeq`, which is recursive, so it is assumed and TLC evaluates it.) For the mesh:
agents, IDEs and requesters have different names, none of them "no one", and identifiers
are larger than 16.

* `KnowledgeStore_proofs`, of `Spec` (any overlap): `TypeCorrect`, `LatestLive`,
  `TrailIsUnbroken`, `EvidenceStands`, `IndexesCover`, `TrailGrows`. None of the
  invariants is inductive alone: a commit writes what was decided in an earlier state.
  `StoreInv` adds that the keys of a claim are an interval from 1, that links point one
  ahead, and above all what a *pending* write guarantees whatever commits first: its
  revision is one above its base, its base and every lower key are stored for good, its
  copy agrees with the stored revision in what the indexes and the links need, and its
  body is backed by its own evidence. The proof is one lemma per call (what the read
  half puts into `call`), and a commit lemma per conjunct.
* `KnowledgeSerial_proofs`, of `SerialSpec`: `OneIsLive`, `StatusIndexIsExact`,
  `ObjectIndexIsExact`, `NothingOverwritten` and `StoreImplementsLedger`. `SerialInv`
  strengthens `StoreInv`, also by where a claim may be indexed for what it named once
  (`EverIndexed`) and that a relation is kept (`ObjectsKept`): with no overlap the base
  of a pending write *is* the newest revision and the copy *is* its row, so a commit
  appends one entry and moves one id. The refinement maps Init to Init and each commit
  to one of Open, Decide, Doubt, Relate. Three promises no run checks:
  `SubjectIndexIsExact`; `HistoryIsAnAccount`, by which each revision of a history
  follows from the one before it by one such step; and from that, by counting up from
  the earlier revision, `EvidenceAccumulates`: whatever was decided since, a later
  revision has the subject, the relation and, in its place, every piece of evidence of
  an earlier one.
* `GraphMerge_proofs`, of `MergeSpec`: every step of a merge is a step of the store or
  leaves it alone (`MergesUseStore`), so the store's theorems hold of merges
  (`EvidenceStandsUnderMerges`). `MergeInv` adds to `StoreInv` and the types what is
  true of a job past its guard (`GoodJob`): what the guard read let the operation
  through, and the pending write is the one the operation intends. With it
  `DecisionsAreSettled` proves the action property `SettledUnlessRaced`: a commit that
  reverses a settled claim went by something else than the row it reverses.
  `AloneMergesAreSerial` is the invariant `AloneIsSerial` of the run. `AloneInv` says of
  a merge whose claims no other has in hand (`before` is the graph it began on) that the
  others stay apart from it and that, up to the operation in hand, the graph agrees on
  its claims with `AfterOps`: what the guard read is still there when the call reads it,
  and what the call read is still there when it is written (`ByRules`). From the same
  invariant, `AloneReversesNothing`: such a merge reverses no settled decision, so what
  `SettledUnlessRaced` leaves open takes two merges of one claim.
  `MergesImplementLedger` carries the ledger over to merges whose store calls do not
  overlap on a claim. Of the rules themselves, for every graph and every delta:
  `RulesForgetNothing`, `RetriesAreSafe` (merge.rs:9-11) and `ApartDeltasCommute`, each
  an induction over the operations.
* `SourceCheck_proofs`, of `SweepSpec`: `SweepInvariant`, `SweepsUseStore` (`SweepSpec
  => Spec`), and through it `EvidenceStandsUnderSweeps` and
  `TrailIsUnbrokenUnderSweeps`. The invariant says that what a sweep has in hand is a
  call the store offers, with evidence the store would accept. Of `SerialSweepSpec`:
  `SweepsAreComplete` and `SweepsKeepDecisions`, both properties of the run. `CourseInv`
  joins that invariant with `SerialInv` and says of a sweep that nothing disturbed
  (`OnCourse`) that whatever a list made now would hold is still to come, in hand, or
  has nothing left to do, and that the pending call is the next one for the claim in
  hand. A commit takes its claim off that list, or makes the file known, and touches no
  other. `SweepsImplementLedger` carries the serial store and the ledger over to sweeps.
* `KnowledgeArchive_proofs`, of `ArchiveSpec`: `ArchiveUsesStore` (`ArchiveSpec =>
  SerialSpec`), `TrailsAreWhole`, `QuietExports`, `ImportsExactly` and `ImportsAdd`: all
  four properties of the run; and `ArchiveKeepsLedger`. `ArchiveInv` joins `SerialInv`
  of the source, the tables' invariant of the target, and three facts: what an export
  has written out is a whole beginning of the trails and, while it is quiet, has every
  claim it has passed under a status that could be read (`GoodExport`); an archive is
  grouped by claim (`GoodArchive`); and up to the next entry an import has rebuilt what
  it did not skip (`GoodImport`). `RoundTrip` joins the two ends: an import, at its end,
  of an archive that has all the store has makes every claim it did not skip the same in
  the target, links and all three indexes included. An export that nothing disturbed and
  that no failed read has cut short yields such an archive (`QuietExports`).
* `Supervisor_proofs`, of `SupSpec`: `SupervisorTypes`, `AgentsStartAfterDependencies`,
  `TasksRunOnce`, `NoAgentIsForgotten` and `SupervisorImplementsBoard`. `SupInv` says of
  the file *and of every draft* that a task marked done really has ended or was declared
  done (`Believable`): a stale or torn write can only put back a content that was
  believable when it was computed, and the past does not change; an init writes a
  content in which nothing is done. The other three hold until two writers overlap or
  one dies, and rest on `CleanInv`: at most one worker has a content in hand; what it
  has, or the file when nobody has one, is `Good` (identifiers not yet given out in its
  era are empty, a process of the scheduler in that era has moved its task out of the
  queue, a live process of it is where its session says or in one of the three cases
  `NoOrphan` names), so a second start of a task contradicts its status; and what it has
  is one move of the board, an init's reset included, away from the file (`Moves`). The
  refinement then follows because only `Write` changes the file, every other step takes
  over one task at most, and an overlap is never taken back. `DependenciesAreDone` is a
  use of it: proved of the board in one lemma (a task that was let start keeps its
  dependencies, and what is done stays done), it holds of the file because the file
  implements the board.
* `Autonomous_proofs`, of `AutoSpec`: `AutoTyped`, `CapsHold`, `OneSwarmAtATime`,
  `AtMostOneMore`, `PopsTheGoal`, `CostsAreFinal`, `UserKeepsBranch`. `AutoInv` is
  `EntriesOK` (each step of an orchestrator with the round, cost and status it can have,
  lost ones included), `TreeOK` (while there is no overlap, who pipes owns the working
  copy, and its branch is the user's, unless a swarm has strayed) and `LoopInv`, which
  relates the loop's locals, the shared state and the history: the counters of the day
  against what was really begun and spent, place by place.

* `Mesh_proofs`, of `MeshSpec`: `MeshTypes`, `TasksHaveOneResult`, `AnswersAreNotMissed`
  and `FlagsSurvive`: every safety property of the run. `MeshInv` has four parts.
  `Placed` says of each task that it is in exactly one of five places (on its way, with
  an agent, in a mailbox, finished, lost) and there once, from which the sum in
  `OneResult` follows because a set with one element has cardinality one. `Letters` says
  of every message, wherever it is, whom it can be from and what it asks (`Straight`):
  requesters send their one question, what comes to them names that question as the IDE
  has read it, and a task carries the name of who started it. `Answered` says that an
  answer which has met an open exchange is still in its mailbox; since all mail of a
  requester with a surviving id is its answer, none is ever skipped. `FlagKept` says
  that the flag a registration is about to insert is the one that is set, unless the
  operator has raced it. That `Echo` gives a number at all (its CHOOSE has a candidate)
  takes arithmetic on the doubles around an id (`EchoIsNumber`).

Induction. The library's induction theorems take an operator as a parameter, which none
of the installed provers can instantiate. What is counted here (operations of a delta,
revisions of a history) is finite, so `CountingUp` (`KnowledgeStore_proofs`) states it
of a *set* of numbers: one that has 0 and, with a number below n, also the next, has all
of 0..n. It follows from `SmallestExists`, that is, from the well-foundedness of the
naturals. `MergeDelta` is therefore a recursive function and no fold: `AfterOps` is
defined on 0..Len(delta.ops), and the lemma `AfterOpsRuns` unfolds it one operation at a
time.

Only model-checked: liveness (`MergesEnd`, `ExitIsNoticed`, `StopEnds`, `ComesToRest`,
`PresenceFollows`), which is out of the prover's reach. Every invariant and every action
property of the passing runs, and both refinements, are theorems.

## 6. Not modelled

See the components of `PROJECT.json` with their reasons: parsers, renderers, compilers
and codecs keep no state; user interfaces and clients only call routes; trust checks are
pure; the goals' registry, multi-agent runs and the meta-agents are sequences of model
calls over a record of their own. `TaskPool` (a lost wake-up on shutdown) and
`ReplayGuard` (a bounded memory of nonces) are libraries that no part of the server
starts. The QLANG machines (interpreter and bytecode) and the ONNX reader are most of
the code by lines and are sequential computations over data: a model of them would be a
second implementation. Observed there while reading: `and`/`or` compile to a conditional
jump that pops its operand and a further `Pop` (`bytecode.rs`), so that the value below
is lost.

## 7. Plan

1. Done: store, ledger; merge rules and merger; sweeps, indexer; archive; supervisor and
   board; swarms and scheduler; bus, presence and mesh; proofs of the safety properties
   of each.
2. Next: entities in the archive; locators per piece of evidence in `SourceCheck`.
3. `TaskPool` (shutdown against a worker about to wait) and `ReplayGuard` (eviction
   against the time window), when a part of the server comes to use them; goals with
   their retries.
