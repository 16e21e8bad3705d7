----------------------------- MODULE Presence -----------------------------
(* The presence registry (src/qo/qo-server/src/routes/presence.rs) and the
   client that keeps an IDE in it (src/editors/vscode/src/extension.ts).

   register reads the old entry under one lock, inserts the new one under
   another and then gets a mailbox; everything else takes the lock once.  A
   client registers, sends heartbeats, registers again when one fails, and
   gives up when that fails too.  On a reload the old window takes the entry
   away while the new one registers.  Time passes in units in which a client
   beats once; no unit ends within a handler.                                *)
EXTENDS MessageBus, Integers

CONSTANT TTL   \* units of time an entry lives without a heartbeat

ASSUME PresenceAssumption == TTL \in Nat \ {0}

VARIABLES entry,   \* the registry
          client,  \* the clients of the IDEs
          handler  \* the registration under way for each IDE

presenceVars == <<entry, client, handler>>

NoEntry == [listed |-> FALSE, left |-> 0, eligible |-> FALSE]
NoHandler == [at |-> "none", eligible |-> FALSE, raced |-> FALSE]

PresenceInit ==
    /\ entry = [i \in Ides |-> NoEntry]
    /\ client = [i \in Ides |-> [at |-> "off", leaving |-> FALSE]]
    /\ handler = [i \in Ides |-> NoHandler]

Listed(i) == entry[i].listed
Becomes(i, state) == client' = [client EXCEPT ![i].at = state]

-----------------------------------------------------------------------------
(* The server                                                                *)

\* Not the code: the flag starts anew.
PriorEligible_Forgets(i) == TRUE

PriorEligible(i) == Listed(i) => entry[i].eligible

ReadPrior(i) ==
    handler' = [handler EXCEPT ![i] =
        [at |-> "insert", eligible |-> PriorEligible(i), raced |-> FALSE]]

InsertEntry(i) ==
    /\ handler[i].at = "insert"
    /\ entry' = [entry EXCEPT ![i] =
           [listed |-> TRUE, left |-> TTL, eligible |-> handler[i].eligible]]
    /\ handler' = [handler EXCEPT ![i].at = "mailbox"]
    /\ UNCHANGED <<client, busVars>>

RegisterMailbox(i) ==
    /\ handler[i].at = "mailbox"
    /\ Register(i)
    /\ handler' = [handler EXCEPT ![i] = NoHandler]
    /\ UNCHANGED <<entry, client, passing, heard>>

\* The mailbox is only there to be drained: an IDE listens to its stream.
Drain(i) ==
    /\ mailbox[i].queue # <<>>
    /\ Recv(i)
    /\ UNCHANGED <<passing, heard, presenceVars>>

SetEligibility(i) ==
    /\ Listed(i)
    /\ \E flag \in BOOLEAN : entry' = [entry EXCEPT ![i].eligible = flag]
    /\ handler' = [handler EXCEPT ![i].raced = @ \/ handler[i].at = "insert"]
    /\ UNCHANGED <<client, busVars>>

Sweep(i) ==
    /\ Listed(i) /\ entry[i].left < 0
    /\ entry' = [entry EXCEPT ![i] = NoEntry]
    /\ UNCHANGED <<client, handler, busVars>>

-----------------------------------------------------------------------------
(* The clients                                                               *)

Activate(i) ==
    /\ client[i].at = "off" /\ handler[i].at = "none"
    /\ \/ Becomes(i, "live") /\ ReadPrior(i)
       \/ Becomes(i, "silent") /\ UNCHANGED handler
    /\ UNCHANGED <<entry, busVars>>

\* Not the code: an unknown identity is told that all is well.
HeartbeatOf_Ok(i) ==
    /\ entry' = IF Listed(i) THEN [entry EXCEPT ![i].left = TTL] ELSE entry
    /\ UNCHANGED <<client, handler>>

\* The entry lives on; or the identity is unknown, or the server out of reach,
\* and the client registers again, once.
HeartbeatOf(i) ==
    \/ /\ Listed(i)
       /\ entry' = [entry EXCEPT ![i].left = TTL]
       /\ UNCHANGED <<client, handler>>
    \/ ~Listed(i) /\ ReadPrior(i) /\ UNCHANGED <<entry, client>>

Heartbeat(i) ==
    /\ client[i].at = "live" /\ handler[i].at = "none"
    /\ HeartbeatOf(i)
    /\ UNCHANGED busVars

\* A heartbeat does not arrive; the client registers again or gives up.
HeartbeatFails(i) ==
    /\ client[i].at = "live" /\ handler[i].at = "none"
    /\ \/ ReadPrior(i) /\ UNCHANGED client
       \/ Becomes(i, "silent") /\ UNCHANGED handler
    /\ UNCHANGED <<entry, busVars>>

\* The window is closed; its request to be taken off the list is on its way, and
\* need not arrive.
Deactivate(i) ==
    /\ client[i].at = "live" /\ ~client[i].leaving
    /\ client' = [client EXCEPT ![i] = [at |-> "off", leaving |-> TRUE]]
    /\ UNCHANGED <<entry, handler, busVars>>

Deregister(i) ==
    /\ client[i].leaving
    /\ entry' = [entry EXCEPT ![i] = NoEntry]
    /\ client' = [client EXCEPT ![i].leaving = FALSE]
    /\ UNCHANGED <<handler, busVars>>

\* The process is gone, and nothing is on its way; nor is it when a window is
\* closed whose client has given up.
Crash(i) ==
    /\ client[i].at # "off"
    /\ Becomes(i, "off")
    /\ UNCHANGED <<entry, handler, busVars>>

TimePasses ==
    /\ \A i \in Ides : handler[i].at = "none"
    /\ entry' = [i \in Ides |-> IF Listed(i) /\ entry[i].left >= 0
                                THEN [entry[i] EXCEPT !.left = @ - 1] ELSE entry[i]]
    /\ UNCHANGED <<client, handler, busVars>>

ServerSteps(i) == InsertEntry(i) \/ RegisterMailbox(i) \/ Drain(i) \/ Sweep(i)

PresenceNext ==
    \/ \E i \in Ides :
          \/ ServerSteps(i) \/ SetEligibility(i)
          \/ Activate(i) \/ Heartbeat(i) \/ HeartbeatFails(i)
          \/ Deactivate(i) \/ Deregister(i) \/ Crash(i)
    \/ TimePasses

-----------------------------------------------------------------------------
(* Every variable keeps its type, and an IDE that is listed has a mailbox as
   soon as its registration is over.                                         *)
PresenceTypeOK ==
    /\ entry \in [Ides -> [listed : BOOLEAN, left : -1..TTL, eligible : BOOLEAN]]
    /\ client \in [Ides -> [at : {"off", "live", "silent"}, leaving : BOOLEAN]]
    /\ handler \in [Ides -> [at : {"none", "insert", "mailbox"}, eligible : BOOLEAN,
                             raced : BOOLEAN]]
    /\ \A i \in Ides : Listed(i) /\ handler[i].at = "none" => mailbox[i].open

(* An IDE whose client goes on is listed again and again, whatever has taken
   it off the list: the sweeper after late heartbeats, the request of a former
   window or a restart of the server.  One whose client is gone for good leaves
   the list for good (presence.rs:262-263, 365).                             *)
PresenceFollows ==
    \A i \in Ides :
        /\ <>[](client[i].at = "live") => []<>Listed(i)
        /\ <>[](client[i].at = "off") => <>[]~Listed(i)

(* As long as an IDE is listed its flag is what the operator has set, also when
   it registers again, unless the operator sets it in the moment between the
   two locks of a registration (presence.rs:173-175, 188-193).               *)
FlagSurvives ==
    [][\A i \in Ides :
          /\ Listed(i) /\ Listed(i)'
          /\ entry[i].eligible # entry'[i].eligible
          => SetEligibility(i) \/ handler[i].raced]_<<presenceVars, busVars>>
=============================================================================
