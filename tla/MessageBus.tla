---------------------------- MODULE MessageBus ----------------------------
(* The message bus (src/crates/qlang-agent/src/bus.rs).

   Names have mailboxes of bounded capacity.  To send is to give the message to
   the listeners, the streams of the IDEs, and later, in another step, to put
   it into the mailbox of its target, if there is room.  Nothing blocks.  The
   log of conversations and the counters are left out: they are only shown.  *)
EXTENDS Naturals, Sequences, FiniteSets

CONSTANTS Agents,      \* the agents of the server
          Ides,        \* identities of IDEs
          Requesters,  \* names made up for one exchange each
          Capacity     \* of a mailbox

ASSUME BusAssumption ==
    /\ Agents \cap Ides = {} /\ Agents \cap Requesters = {} /\ Ides \cap Requesters = {}
    /\ Capacity \in Nat \ {0}

VARIABLES mailbox,  \* of every name
          passing,  \* messages between the listeners and the mailbox
          heard     \* by each IDE on its stream and not yet answered

busVars == <<mailbox, passing, heard>>

Names == Agents \cup Ides \cup Requesters
Closed == [open |-> FALSE, queue |-> <<>>]
Empty == [open |-> TRUE, queue |-> <<>>]

BusInit ==
    /\ mailbox = [n \in Names |-> IF n \in Agents THEN Empty ELSE Closed]
    /\ passing = {}
    /\ heard = [i \in Ides |-> {}]

\* The entry of the name, if there is one, is replaced.
Register(n) == mailbox' = [mailbox EXCEPT ![n] = Empty]
Unregister(n) == mailbox' = [mailbox EXCEPT ![n] = Closed]

Sending(n) == \E m \in passing : m.from = n

\* A stream that is slow or just reconnecting misses the message.
Emit(m) ==
    /\ passing' = passing \cup {m}
    /\ \E hears \in SUBSET (Ides \cap {m.to}) :
          heard' = [i \in Ides |-> IF i \in hears THEN heard[i] \cup {m} ELSE heard[i]]

\* Not the code: one more than there is room for.
Room_Late(n) == mailbox[n].open /\ Len(mailbox[n].queue) <= Capacity

Room(n) == mailbox[n].open /\ Len(mailbox[n].queue) < Capacity

Deliver(m) == mailbox' = [mailbox EXCEPT ![m.to].queue = Append(@, m)]

Recv(n) == mailbox' = [mailbox EXCEPT ![n].queue = Tail(@)]
=============================================================================
