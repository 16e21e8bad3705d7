------------------------------- MODULE Mesh -------------------------------
(* Agents of the server, IDEs and requesters on one bus: the mailbox loops of
   src/qo/qo-server/src/lib.rs, the exchange with an IDE of swarm.rs and
   consensus.rs (ide_dispatch, dispatch_to_ide) over send_and_wait of bus.rs,
   the answers of the IDEs (src/editors/vscode/src/inbox.ts), and the registry
   of module Presence.

   A task is an Execute message, possibly with a chain of further agents, each
   of which passes its answer on to the next; the last one answers whoever
   started it.  What is asked and answered is left out.                      *)
EXTENDS Presence

CONSTANTS Chains,     \* chains of further agents
          MaxTasks,   \* bound: tasks ever started
          FirstId,    \* the next number of next_msg_id, modulo a multiple of 800
          MaxRestarts \* bound: restarts of the server

ASSUME MeshAssumption ==
    /\ Chains \subseteq Seq(Agents) /\ MaxTasks \in Nat
    /\ FirstId \in Nat \ (0..16) /\ MaxRestarts \in Nat
    /\ "no one" \notin Agents \cup Ides \cup Requesters

VARIABLES serving,  \* the task each agent works on
          asking,   \* the exchanges of the requesters
          counter,  \* of next_msg_id
          log       \* history: what the properties speak of

meshVars == <<serving, asking, counter, log>>
vars == <<busVars, presenceVars, meshVars>>

Tasks == 1..MaxTasks
Grain == 16
NoTask == 0
NoOne == "no one"
Message == [from : Names, to : Names, intent : {"Execute", "Result"},
            chain : Seq(Agents), origin : Names \cup {NoOne}, id : Nat, re : Nat,
            task : Tasks \cup {NoTask}]
Nothing == [from |-> NoOne, to |-> NoOne, intent |-> "none", chain |-> <<>>,
            origin |-> NoOne, id |-> 0, re |-> 0, task |-> NoTask]

\* got: how the exchange has ended; met: an answer came while it was open.
NoAsking == [at |-> "idle", ide |-> NoOne, id |-> 0, got |-> "none", met |-> FALSE]

MeshInit ==
    /\ BusInit /\ PresenceInit
    /\ serving = [a \in Agents |-> Nothing]
    /\ asking = [r \in Requesters |-> NoAsking]
    /\ counter = FirstId
    /\ log = [started |-> 0, by |-> [t \in Tasks |-> NoOne], lost |-> [t \in Tasks |-> 0],
              results |-> [t \in Tasks |-> <<>>], restarts |-> 0]

-----------------------------------------------------------------------------
(* The agents of the server                                                  *)

\* An IDE, or an agent when a goal begins, starts a task.
StartTask(n, a, chain) ==
    /\ log.started < MaxTasks
    /\ LET t == log.started + 1 IN
         /\ Emit([Nothing EXCEPT !.from = n, !.to = a, !.intent = "Execute",
                                 !.chain = chain, !.task = t])
         /\ log' = [log EXCEPT !.started = t, !.by[t] = n]
    /\ UNCHANGED <<mailbox, presenceVars, serving, asking, counter>>

\* Not the code: results are answered, too.
Work_Any(m) == TRUE

\* "so we don't reply to our own replies"
Work(m) == m.intent # "Result"

Receive(a) ==
    /\ serving[a] = Nothing /\ ~Sending(a) /\ mailbox[a].queue # <<>>
    /\ LET m == Head(mailbox[a].queue) IN
           serving' = IF Work(m) THEN [serving EXCEPT ![a] = m] ELSE serving
    /\ Recv(a)
    /\ UNCHANGED <<passing, heard, presenceVars, asking, counter, log>>

Origin(m) == IF m.origin = NoOne THEN m.from ELSE m.origin

Forward(a, m) ==
    [Nothing EXCEPT !.from = a, !.to = Head(m.chain), !.intent = "Execute",
                    !.chain = Tail(m.chain), !.origin = Origin(m), !.task = m.task]

\* Not the code: the agent before this one gets the result.
Reply_Back(a, m) ==
    [Nothing EXCEPT !.from = a, !.to = m.from, !.intent = "Result", !.task = m.task]

Reply(a, m) ==
    [Nothing EXCEPT !.from = a, !.to = Origin(m), !.intent = "Result", !.task = m.task]

\* The model's answer, or a note that there is none, goes to the next agent of
\* the chain or to whoever has started the task.
Answer(a) ==
    /\ serving[a] # Nothing
    /\ LET m == serving[a]
           reply == IF m.chain = <<>> THEN Reply(a, m) ELSE Forward(a, m) IN
         /\ Emit(reply)
         /\ log' = IF m.intent = "Execute" /\ reply.intent = "Result"
                   THEN [log EXCEPT !.results[m.task] = Append(@, reply.to)]
                   ELSE log
    /\ serving' = [serving EXCEPT ![a] = Nothing]
    /\ UNCHANGED <<mailbox, presenceVars, asking, counter>>

-----------------------------------------------------------------------------
(* Requesters                                                                *)

\* A name of its own is registered before the message is sent.
Ask(r, i) ==
    /\ asking[r].at = "idle"
    /\ Register(r)
    /\ Emit([Nothing EXCEPT !.from = r, !.to = i, !.intent = "Execute", !.id = counter])
    /\ asking' = [asking EXCEPT ![r] = [NoAsking EXCEPT !.at = "sending", !.ide = i,
                                                        !.id = counter]]
    /\ counter' = counter + 1
    /\ UNCHANGED <<presenceVars, serving, log>>

\* The exchange is over, and the name is forgotten.
Over(r, got) == [asking EXCEPT ![r].at = "over", ![r].got = got]

IsReply(m, r) == m.re = asking[r].id

Accept(r) ==
    /\ asking[r].at = "waiting" /\ mailbox[r].queue # <<>>
    /\ IF IsReply(Head(mailbox[r].queue), r)
       THEN asking' = Over(r, "answer") /\ Unregister(r)
       ELSE Recv(r) /\ UNCHANGED asking
    /\ UNCHANGED <<passing, heard, presenceVars, serving, counter, log>>

\* Not the code: the clock is looked at before the mailbox.
MayTimeOut_Eager(r) == asking[r].at = "waiting"

\* The mailbox is polled before the clock.
MayTimeOut(r) ==
    /\ asking[r].at = "waiting"
    /\ \A k \in DOMAIN mailbox[r].queue : ~IsReply(mailbox[r].queue[k], r)

TimeOut(r) ==
    /\ MayTimeOut(r)
    /\ asking' = Over(r, "timeout") /\ Unregister(r)
    /\ UNCHANGED <<passing, heard, presenceVars, serving, counter, log>>

-----------------------------------------------------------------------------
(* IDEs                                                                      *)

\* An id is a number between 2^56 and 2^57, where the doubles are Grain apart:
\* JSON.parse takes the nearest one, ties to even.
Double(id) ==
    LET steps == id \div Grain
        rest == id % Grain
    IN IF 2 * rest < Grain \/ (2 * rest = Grain /\ steps % 2 = 0)
       THEN steps * Grain ELSE (steps + 1) * Grain

\* JSON.stringify writes the shortest decimal that is read as that double, of
\* those the nearest to it; 17 of the 18 digits always are enough.
Echo(id) ==
    LET read == {n \in (id - Grain)..(id + 2 * Grain) : Double(n) = Double(id)}
        ending(power) == {n \in read : n % power = 0}
        short == IF ending(100) # {} THEN ending(100) ELSE ending(10)
        apart(n) == IF n < Double(id) THEN Double(id) - n ELSE n - Double(id)
    IN CHOOSE n \in short : \A k \in short : apart(n) <= apart(k)

\* "in_reply_to" is the id of the request as the IDE writes it.
Reacts(i, m) ==
    [Nothing EXCEPT !.from = i, !.to = m.from, !.intent = "Result", !.re = Echo(m.id)]

\* It answers a request, once; results are only shown.
IdeAnswers(i, m) ==
    /\ m.intent = "Execute"
    /\ passing' = passing \cup {Reacts(i, m)}
    /\ heard' = [heard EXCEPT ![i] = @ \ {m}]
    /\ UNCHANGED <<mailbox, presenceVars, meshVars>>

\* It is not set to respond, or its model fails, or the message is a result.
IdeIgnores(i, m) ==
    /\ heard' = [heard EXCEPT ![i] = @ \ {m}]
    /\ UNCHANGED <<mailbox, passing, presenceVars, meshVars>>

-----------------------------------------------------------------------------
(* The second half of every send                                             *)

\* Of the exchange the message belongs to, if any.
Routed(m, delivered) ==
    [r \in Requesters |->
        IF m.from = r /\ asking[r].at = "sending"
        THEN IF delivered THEN [asking[r] EXCEPT !.at = "waiting"]
                          ELSE [asking[r] EXCEPT !.at = "over", !.got = "refused"]
        ELSE IF m.to = r /\ asking[r].at \in {"sending", "waiting"}
        THEN [asking[r] EXCEPT !.met = @ \/ m.from = asking[r].ide]
        ELSE asking[r]]

Route(m) ==
    /\ passing' = passing \ {m}
    /\ asking' = Routed(m, Room(m.to))
    /\ IF Room(m.to) THEN Deliver(m) /\ UNCHANGED log
       ELSE /\ mailbox' = IF m.from \in Requesters
                          THEN [mailbox EXCEPT ![m.from] = Closed] ELSE mailbox
            /\ log' = IF m.task # NoTask /\ m.intent = "Execute"
                      THEN [log EXCEPT !.lost[m.task] = @ + 1] ELSE log
    /\ UNCHANGED <<heard, presenceVars, serving, counter>>

-----------------------------------------------------------------------------
\* Messages of a task that some agent has still to work on.
Copies(t) ==
    LET open(m) == m.task = t /\ m.intent = "Execute" IN
    Cardinality({m \in passing : open(m)})
    + Cardinality({a \in Agents : open(serving[a])})
    + Cardinality({s \in Agents \X (1..Capacity) :
          s[2] \in DOMAIN mailbox[s[1]].queue /\ open(mailbox[s[1]].queue[s[2]])})

\* Everything is in memory; the IDEs and what they have heard go on.
Restart ==
    /\ log.restarts < MaxRestarts
    /\ mailbox' = [n \in Names |-> IF n \in Agents THEN Empty ELSE Closed]
    /\ passing' = {}
    /\ entry' = [i \in Ides |-> NoEntry]
    /\ handler' = [i \in Ides |-> NoHandler]
    /\ serving' = [a \in Agents |-> Nothing]
    /\ asking' = [r \in Requesters |-> IF asking[r].at \in {"sending", "waiting"}
                     THEN [asking[r] EXCEPT !.at = "over", !.got = "restart"] ELSE asking[r]]
    /\ log' = [log EXCEPT !.restarts = @ + 1,
                          !.lost = [t \in Tasks |-> log.lost[t] + Copies(t)]]
    /\ UNCHANGED <<heard, client, counter>>

AgentSteps(a) == Receive(a) \/ Answer(a)

MeshNext ==
    \/ \E a \in Agents :
          \/ AgentSteps(a)
          \/ \E n \in Ides \cup Agents, chain \in Chains : StartTask(n, a, chain)
    \/ \E r \in Requesters : Accept(r) \/ TimeOut(r) \/ \E i \in Ides : Ask(r, i)
    \/ \E i \in Ides : \E m \in heard[i] : IdeAnswers(i, m) \/ IdeIgnores(i, m)
    \/ \E m \in passing : Route(m)
    \/ PresenceNext /\ UNCHANGED meshVars
    \/ Restart

\* Tasks of the server run; timers fire; clients beat.
MeshFairness ==
    /\ \A a \in Agents : WF_vars(AgentSteps(a))
    /\ WF_vars(\E m \in passing : Route(m))
    /\ \A i \in Ides :
          /\ WF_vars(ServerSteps(i) /\ UNCHANGED meshVars)
          /\ WF_vars(Heartbeat(i) /\ UNCHANGED meshVars)
    /\ WF_vars(TimePasses /\ UNCHANGED meshVars)

MeshSpec == MeshInit /\ [][MeshNext]_vars /\ MeshFairness

-----------------------------------------------------------------------------
(* Every variable keeps its type.                                            *)
MeshTypeOK ==
    /\ PresenceTypeOK
    /\ \A n \in Names : /\ mailbox[n].open \in BOOLEAN
                        /\ mailbox[n].queue \in Seq(Message)
                        /\ Len(mailbox[n].queue) <= Capacity
    /\ passing \subseteq Message
    /\ \A i \in Ides : heard[i] \subseteq Message
    /\ \A a \in Agents : serving[a] \in Message \cup {Nothing}
    /\ \A r \in Requesters :
          /\ asking[r].at \in {"idle", "sending", "waiting", "over"}
          /\ asking[r].got \in {"none", "answer", "timeout", "refused", "restart"}
          /\ mailbox[r].open <=> asking[r].at \in {"sending", "waiting"}

(* A task is with one agent at a time and one result is sent, to whoever has
   started it, however long its chain and whichever agents it visits; or it is
   lost in a full mailbox or a restart, and then nobody has it
   (lib.rs:755-758).                                                         *)
OneResult ==
    \A t \in 1..log.started :
        /\ Len(log.results[t]) + Copies(t) + log.lost[t] = 1
        /\ \A k \in DOMAIN log.results[t] : log.results[t][k] = log.by[t]

(* When nobody starts anything any more the agents come to rest: no message
   goes round among them, and no full mailbox keeps a loop waiting
   (lib.rs:511-514).                                                         *)
ComesToRest ==
    <>[](\A a \in Agents : serving[a] = Nothing /\ mailbox[a].queue = <<>>)

(* A requester whose id survives the IDE runs out of time only when no answer
   has come in time, although the IDE may hear the request and answer before it
   is in any mailbox, and late answers and restarts interfere (bus.rs:225-249). *)
AnswersAreTaken ==
    \A r \in Requesters :
        asking[r].got = "timeout" /\ Echo(asking[r].id) = asking[r].id => ~asking[r].met

(* Not so: an answer that comes in time is the reply, "correlated by
   in_reply_to" (swarm.rs:849-851).                                          *)
EveryAnswerIsTaken ==
    \A r \in Requesters : asking[r].got = "timeout" => ~asking[r].met
=============================================================================
