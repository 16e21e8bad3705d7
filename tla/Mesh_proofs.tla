---------------------------- MODULE Mesh_proofs ----------------------------
(* What holds of the mesh for every number of agents, IDEs, requesters, tasks
   and restarts.                                                             *)
EXTENDS Mesh, FiniteSetTheorems, WellFoundedInduction, TLAPS

-----------------------------------------------------------------------------
(* Numbers that come back from an IDE                                        *)

LEMMA DoubleIsNear ==
    ASSUME NEW id \in Nat, 16 < id
    PROVE  \E q \in Nat \ {0} : /\ Double(id) = 16 * q
                                /\ 16 * q - 8 <= id /\ id <= 16 * q + 8
<1>. DEFINE steps == id \div 16
            rest == id % 16
<1>1. steps \in Nat /\ rest \in 0..15 /\ id = 16 * steps + rest /\ steps >= 1
  OBVIOUS
<1>2. Double(id) = IF 2 * rest < 16 \/ (2 * rest = 16 /\ steps % 2 = 0)
                   THEN steps * 16 ELSE (steps + 1) * 16
  BY DEF Double, Grain
<1>. HIDE DEF steps, rest
<1>3. CASE 2 * rest < 16 \/ (2 * rest = 16 /\ steps % 2 = 0)
  BY <1>1, <1>2, <1>3
<1>4. CASE ~(2 * rest < 16 \/ (2 * rest = 16 /\ steps % 2 = 0))
  <2>1. 2 * rest >= 16
    BY <1>1, <1>4
  <2>2. Double(id) = 16 * (steps + 1)
    BY <1>1, <1>2, <1>4
  <2>3. /\ steps + 1 \in Nat \ {0}
        /\ 16 * (steps + 1) - 8 <= id /\ id <= 16 * (steps + 1) + 8
    BY <1>1, <2>1
  <2>. QED BY <2>2, <2>3
<1>. QED BY <1>3, <1>4

LEMMA DoublesAround ==
    ASSUME NEW q \in Nat \ {0}, NEW n \in Nat, 16 * q - 8 < n, n < 16 * q + 8
    PROVE  Double(n) = 16 * q
<1>1. CASE n >= 16 * q
  <2>1. n \div 16 = q /\ n % 16 = n - 16 * q
    BY <1>1
  <2>. QED BY <2>1 DEF Double, Grain
<1>2. CASE n < 16 * q
  <2>1. n \div 16 = q - 1 /\ n % 16 = n - 16 * (q - 1)
    BY <1>2
  <2>. QED BY <2>1 DEF Double, Grain
<1>. QED BY <1>1, <1>2

\* Numbers have a nearest among any that there are.
LEMMA NearestExists ==
    ASSUME NEW T \in SUBSET Nat, T # {}, NEW d \in Nat
    PROVE  \E n \in T : \A k \in T :
               (IF n < d THEN d - n ELSE n - d) <= (IF k < d THEN d - k ELSE k - d)
<1>. DEFINE Apart(n) == IF n < d THEN d - n ELSE n - d
            A == {Apart(n) : n \in T}
<1>0. \A n \in Nat : Apart(n) \in Nat
  OBVIOUS
<1>. HIDE DEF Apart
<1>1. A \subseteq Nat /\ A # {}
  BY <1>0
<1>. HIDE DEF A
<1>2. PICK x \in A : \A y \in A : <<y, x>> \notin OpToRel(<, Nat)
  BY <1>1, WFMin, NatLessThanWellFounded, Zenon
<1>3. \A y \in A : ~(y < x)
  BY <1>1, <1>2, Zenon DEF OpToRel
<1>4. \A y \in A : x <= y
  BY <1>1, <1>3
<1>5. PICK n \in T : x = Apart(n)
  BY DEF A
<1>6. \A k \in T : Apart(n) <= Apart(k)
  BY <1>4, <1>5 DEF A
<1>. QED BY <1>6 DEF Apart

LEMMA EchoIsNumber ==
    ASSUME NEW id \in Nat, 16 < id
    PROVE  Echo(id) \in Nat
<1>. DEFINE read == {n \in (id - Grain)..(id + 2 * Grain) : Double(n) = Double(id)}
            Ending(power) == {n \in read : n % power = 0}
            short == IF Ending(100) # {} THEN Ending(100) ELSE Ending(10)
            Near(n, k) == (IF n < Double(id) THEN Double(id) - n ELSE n - Double(id))
                       <= (IF k < Double(id) THEN Double(id) - k ELSE k - Double(id))
<1>1. PICK q \in Nat \ {0} : /\ Double(id) = 16 * q
                            /\ 16 * q - 8 <= id /\ id <= 16 * q + 8
  BY DoubleIsNear
<1>2. read \subseteq Nat
  BY DEF Grain
<1>3. Ending(10) # {}
  <2>. DEFINE n == 10 * ((16 * q + 7) \div 10)
  <2>1. n \in Nat /\ n <= 16 * q + 7 /\ 16 * q - 3 < n
    OBVIOUS
  <2>2. n % 10 = 0
    OBVIOUS
  <2>. HIDE DEF n
  <2>3. Double(n) = Double(id)
    BY <1>1, <2>1, DoublesAround
  <2>4. n \in read
    BY <1>1, <2>1, <2>3 DEF Grain
  <2>. QED BY <2>2, <2>4
<1>4. short \subseteq Nat /\ short # {}
  BY <1>2, <1>3
<1>5. Echo(id) = CHOOSE n \in short : \A k \in short : Near(n, k)
  BY DEF Echo
<1>6. \E n \in short : \A k \in short : Near(n, k)
  <2>1. Double(id) \in Nat
    BY <1>1
  <2>. HIDE DEF short
  <2>. QED BY <1>4, <2>1, NearestExists
<1>. HIDE DEF short, Near
<1>. QED BY <1>4, <1>5, <1>6
-----------------------------------------------------------------------------
(* The invariant                                                             *)

Box == [open : BOOLEAN, queue : Seq(Message)]
Askings == [at : {"idle", "sending", "waiting", "over"}, ide : Ides \cup {NoOne},
            id : Nat, got : {"none", "answer", "timeout", "refused", "restart"},
            met : BOOLEAN]
Logs == [started : Nat, by : [Tasks -> Names \cup {NoOne}], lost : [Tasks -> Nat],
         results : [Tasks -> Seq(Names)], restarts : Nat]

Typed ==
    /\ mailbox \in [Names -> Box] /\ \A n \in Names : Len(mailbox[n].queue) <= Capacity
    /\ passing \subseteq Message /\ heard \in [Ides -> SUBSET Message]
    /\ serving \in [Agents -> Message \cup {Nothing}]
    /\ asking \in [Requesters -> Askings]
    /\ counter \in Nat /\ FirstId <= counter
    /\ log \in Logs /\ log.started <= MaxTasks

\* Agents always have a mailbox, requesters while their exchange is open.
Open(r) == asking[r].at \in {"sending", "waiting"}
Boxes ==
    /\ \A a \in Agents : mailbox[a].open
    /\ \A r \in Requesters : mailbox[r].open <=> Open(r)

\* A flag that was read and is about to be inserted is the one that is set.
FlagKept ==
    \A i \in Ides : handler[i].at = "insert" /\ Listed(i) /\ ~handler[i].raced
                        => entry[i].eligible = handler[i].eligible

\* The one message a requester sends.
Question(r) == [Nothing EXCEPT !.from = r, !.to = asking[r].ide,
                               !.intent = "Execute", !.id = asking[r].id]

\* Requesters get answers to their question, agents get tasks that go back to
\* who has started them, IDEs are asked by requesters only.
Straight(m) ==
    /\ m.to \in Requesters => /\ asking[m.to].at # "idle"
                              /\ m.re = Echo(asking[m.to].id) /\ m.intent = "Result"
    /\ m.from \in Requesters => asking[m.from].at # "idle" /\ m = Question(m.from)
    /\ m.to \in Agents /\ m.intent = "Execute" =>
           /\ m.task \in 1..log.started
           /\ Origin(m) = log.by[m.task] /\ Origin(m) \in Agents \cup Ides
    /\ m.to \in Ides /\ m.intent = "Execute" => m.from \in Requesters

Letters ==
    /\ \A m \in passing : /\ Straight(m)
                          /\ m.from \in Requesters => asking[m.from].at = "sending"
    /\ \A i \in Ides : \A m \in heard[i] : Straight(m) /\ m.to = i
    /\ \A n \in Names : \A k \in DOMAIN mailbox[n].queue :
           Straight(mailbox[n].queue[k]) /\ mailbox[n].queue[k].to = n
    /\ \A a \in Agents : serving[a] # Nothing =>
           Straight(serving[a]) /\ serving[a].to = a /\ serving[a].intent = "Execute"

\* An answer that has met its exchange is still in the mailbox.
Answered ==
    \A r \in Requesters :
        /\ asking[r].at # "idle" => asking[r].ide \in Ides /\ FirstId <= asking[r].id
        /\ asking[r].at # "over" => asking[r].got = "none"
        /\ Open(r) /\ asking[r].met /\ Echo(asking[r].id) = asking[r].id
               => mailbox[r].queue # <<>>
        /\ asking[r].got = "timeout" /\ Echo(asking[r].id) = asking[r].id => ~asking[r].met

\* Where the task t is.
Carries(m, t) == m.task = t /\ m.intent = "Execute"
OnItsWay(t) == \E m \in passing : Carries(m, t)
WithAgent(t) == \E a \in Agents : Carries(serving[a], t)
InMailbox(t) == \E a \in Agents : \E k \in DOMAIN mailbox[a].queue :
                                      Carries(mailbox[a].queue[k], t)
Finished(t) == log.results[t] # <<>>
Lost(t) == log.lost[t] # 0

\* In one place, once.
OnePlace(t) ==
    /\ OnItsWay(t) => ~WithAgent(t) /\ ~InMailbox(t)
    /\ WithAgent(t) => ~InMailbox(t)
    /\ Finished(t) \/ Lost(t) => ~OnItsWay(t) /\ ~WithAgent(t) /\ ~InMailbox(t)
    /\ ~(Finished(t) /\ Lost(t))
    /\ t <= log.started <=>
           OnItsWay(t) \/ WithAgent(t) \/ InMailbox(t) \/ Finished(t) \/ Lost(t)
OneCopy(t) ==
    /\ \A m, n \in passing : Carries(m, t) /\ Carries(n, t) => m = n
    /\ \A a, b \in Agents : Carries(serving[a], t) /\ Carries(serving[b], t) => a = b
    /\ \A a, b \in Agents :
           \A k \in DOMAIN mailbox[a].queue, l \in DOMAIN mailbox[b].queue :
               Carries(mailbox[a].queue[k], t) /\ Carries(mailbox[b].queue[l], t)
                   => a = b /\ k = l
OneEnd(t) ==
    /\ log.lost[t] <= 1 /\ Len(log.results[t]) <= 1
    /\ \A k \in DOMAIN log.results[t] : log.results[t][k] = log.by[t]
Placed(t) == OnePlace(t) /\ OneCopy(t) /\ OneEnd(t)

MeshInv == Typed /\ PresenceTypeOK /\ Boxes /\ FlagKept /\ Letters /\ Answered
           /\ \A t \in Tasks : Placed(t)

-----------------------------------------------------------------------------
(* Sequences and messages                                                    *)

LEMMA TailFacts ==
    ASSUME NEW S, NEW q \in Seq(S), q # <<>>
    PROVE  /\ Tail(q) \in Seq(S) /\ Head(q) \in S /\ Head(q) = q[1] /\ 1 \in DOMAIN q
           /\ Len(Tail(q)) = Len(q) - 1
           /\ \A k \in DOMAIN Tail(q) : k \in Nat /\ k + 1 \in DOMAIN q /\ Tail(q)[k] = q[k + 1]
           /\ \A k \in DOMAIN q : k # 1 => k \in Nat /\ k - 1 \in DOMAIN Tail(q)
                                       /\ Tail(q)[k - 1] = q[k]
OBVIOUS

LEMMA AppendFacts ==
    ASSUME NEW S, NEW q \in Seq(S), NEW x \in S
    PROVE  /\ Append(q, x) \in Seq(S) /\ Len(Append(q, x)) = Len(q) + 1
           /\ Append(q, x) # <<>>
           /\ \A k \in DOMAIN Append(q, x) : \/ k \in DOMAIN q /\ Append(q, x)[k] = q[k]
                                             \/ k = Len(q) + 1 /\ Append(q, x)[k] = x
           /\ \A k \in DOMAIN q : k \in DOMAIN Append(q, x) /\ Append(q, x)[k] = q[k]
           /\ Len(q) + 1 \in DOMAIN Append(q, x) /\ Append(q, x)[Len(q) + 1] = x
OBVIOUS

LEMMA BoxQueue == ASSUME Typed, NEW n \in Names PROVE mailbox[n].queue \in Seq(Message)
BY DEF Typed, Box

LEMMA Numbers ==
    /\ MaxTasks \in Nat /\ FirstId \in Nat \ (0..16) /\ MaxRestarts \in Nat
    /\ Capacity \in Nat \ {0} /\ TTL \in Nat \ {0}
BY MeshAssumption, BusAssumption, PresenceAssumption, Zenon

LEMMA MessageIsSomething ==
    /\ Nothing \notin Message
    /\ NoOne \notin Names /\ NoTask \notin Tasks
    /\ Agents \subseteq Names /\ Ides \subseteq Names /\ Requesters \subseteq Names
<1>1. Nothing \notin Message
  <2>1. \A m \in Message : m.intent # "none"
    BY DEF Message
  <2>2. Nothing.intent = "none"
    BY DEF Nothing
  <2>. QED BY <2>1, <2>2
<1>2. NoOne \notin Names
  BY MeshAssumption DEF NoOne, Names
<1>3. NoTask \notin Tasks
  <2>1. \A t \in 1..MaxTasks : t # 0
    BY Numbers
  <2>. QED BY <2>1 DEF NoTask, Tasks
<1>. QED BY <1>1, <1>2, <1>3 DEF Names

\* Messages and what is not one.
Letter == [from : Names \cup {NoOne}, to : Names \cup {NoOne},
           intent : {"none", "Execute", "Result"}, chain : Seq(Agents),
           origin : Names \cup {NoOne}, id : Nat, re : Nat, task : Tasks \cup {NoTask}]

LEMMA NothingIsALetter ==
    /\ Nothing \in Letter
    /\ Nothing.chain = <<>> /\ Nothing.origin = NoOne /\ Nothing.id = 0
    /\ Nothing.re = 0 /\ Nothing.task = NoTask /\ Nothing.intent = "none"
BY DEF Nothing, Letter

LEMMA LettersAreMessages ==
    ASSUME NEW m \in Letter, m.from \in Names, m.to \in Names, m.intent # "none"
    PROVE  m \in Message
BY DEF Letter, Message

\* What was recorded of exchanges and tasks stands.
Steady ==
    /\ \A r \in Requesters : asking[r].at # "idle" =>
           /\ asking'[r].at # "idle"
           /\ asking'[r].id = asking[r].id /\ asking'[r].ide = asking[r].ide
    /\ log'.started \in Nat /\ log.started <= log'.started
    /\ \A t \in 1..log.started : log'.by[t] = log.by[t]

LEMMA StraightStays ==
    ASSUME Typed, Steady, NEW m \in Message, Straight(m)
    PROVE  Straight(m)'
<1>1. log.started \in Nat
  BY DEF Typed, Logs
<1>2. m.from \in Requesters => asking'[m.from].at # "idle" /\ m = Question(m.from)'
  BY DEF Straight, Steady, Question
<1>3. m.to \in Agents /\ m.intent = "Execute" =>
          m.task \in 1..log'.started /\ Origin(m) = log'.by[m.task]
  BY <1>1 DEF Straight, Steady
<1>4. m.to \in Requesters => asking'[m.to].at # "idle" /\ m.re = Echo(asking'[m.to].id)
  BY DEF Straight, Steady
<1>. QED BY <1>2, <1>3, <1>4 DEF Straight, Origin

LEMMA LettersStay ==
    ASSUME Typed, Letters, Steady, passing' \subseteq Message,
           \A m \in passing' : m \in passing \/ Straight(m)',
           \A m \in passing' : m.from \in Requesters => asking'[m.from].at = "sending",
           \A i \in Ides : \A m \in heard'[i] :
               m \in heard[i] \/ (m \in passing' /\ m.to = i),
           \A n \in Names : \A k \in DOMAIN mailbox'[n].queue :
               \/ \E j \in DOMAIN mailbox[n].queue :
                      mailbox'[n].queue[k] = mailbox[n].queue[j]
               \/ mailbox'[n].queue[k] \in passing /\ mailbox'[n].queue[k].to = n,
           \A a \in Agents : serving'[a] # Nothing =>
               \/ serving'[a] = serving[a]
               \/ /\ serving'[a].intent = "Execute"
                  /\ \E k \in DOMAIN mailbox[a].queue : serving'[a] = mailbox[a].queue[k]
    PROVE  Letters'
<1>1. \A m \in passing' : Straight(m)'
  BY StraightStays DEF Letters
<1>2. ASSUME NEW i \in Ides, NEW m \in heard'[i] PROVE Straight(m)' /\ m.to = i
  <2>1. CASE m \in heard[i]
    BY <2>1, StraightStays DEF Letters, Typed
  <2>2. CASE m \in passing' /\ m.to = i
    BY <1>1, <2>2
  <2>. QED BY <2>1, <2>2
<1>4. ASSUME NEW n \in Names, NEW j \in DOMAIN mailbox[n].queue,
             NEW m \in Message, m = mailbox[n].queue[j]
      PROVE  Straight(m)' /\ m.to = n
  <2>1. Straight(m) /\ m.to = n
    BY <1>4 DEF Letters
  <2>. QED BY <2>1, StraightStays
<1>5. ASSUME NEW n \in Names, NEW k \in DOMAIN mailbox'[n].queue,
             NEW m, m = mailbox'[n].queue[k]
      PROVE  Straight(m)' /\ m.to = n
  <2>1. CASE \E j \in DOMAIN mailbox[n].queue : m = mailbox[n].queue[j]
    <3>1. PICK j \in DOMAIN mailbox[n].queue : m = mailbox[n].queue[j]
      BY <2>1
    <3>2. m \in Message
      BY <3>1, BoxQueue
    <3>. QED BY <1>4, <3>1, <3>2
  <2>2. CASE m \in passing /\ m.to = n
    <3>1. m \in Message /\ Straight(m)
      BY <2>2 DEF Typed, Letters
    <3>. QED BY <2>2, <3>1, StraightStays
  <2>. QED BY <1>5, <2>1, <2>2
<1>6. ASSUME NEW a \in Agents, serving'[a] # Nothing, NEW m, m = serving'[a]
      PROVE  Straight(m)' /\ m.to = a /\ m.intent = "Execute"
  <2>1. CASE m = serving[a]
    <3>1. m \in Message /\ Straight(m) /\ m.to = a /\ m.intent = "Execute"
      BY <1>6, <2>1 DEF Typed, Letters
    <3>. QED BY <3>1, StraightStays
  <2>2. CASE m.intent = "Execute" /\ \E k \in DOMAIN mailbox[a].queue : m = mailbox[a].queue[k]
    <3>1. PICK k \in DOMAIN mailbox[a].queue : m = mailbox[a].queue[k]
      BY <2>2
    <3>2. a \in Names
      BY MessageIsSomething
    <3>3. m \in Message
      BY <3>1, <3>2, BoxQueue
    <3>. QED BY <1>4, <2>2, <3>1, <3>2, <3>3
  <2>. QED BY <1>6, <2>1, <2>2
<1>7. \A n \in Names : \A k \in DOMAIN mailbox'[n].queue :
          Straight(mailbox[n].queue[k])' /\ mailbox'[n].queue[k].to = n
  BY <1>5 DEF Straight
<1>8. \A a \in Agents : serving'[a] # Nothing =>
          Straight(serving[a])' /\ serving'[a].to = a /\ serving'[a].intent = "Execute"
  BY <1>6 DEF Straight
<1>. QED BY <1>1, <1>2, <1>7, <1>8 DEF Letters
-----------------------------------------------------------------------------
(* Where a task is                                                           *)

LEMMA CopiesCount ==
    ASSUME Typed, NEW t \in Tasks, OnePlace(t), OneCopy(t)
    PROVE  Copies(t) = IF OnItsWay(t) \/ WithAgent(t) \/ InMailbox(t) THEN 1 ELSE 0
<1>. DEFINE P == {m \in passing : Carries(m, t)}
            S == {a \in Agents : Carries(serving[a], t)}
            B == {s \in Agents \X (1..Capacity) :
                     s[2] \in DOMAIN mailbox[s[1]].queue /\ Carries(mailbox[s[1]].queue[s[2]], t)}
<1>1. Copies(t) = Cardinality(P) + Cardinality(S) + Cardinality(B)
  BY DEF Copies, Carries
<1>2. Cardinality(P) = IF OnItsWay(t) THEN 1 ELSE 0
  <2>1. CASE OnItsWay(t)
    <3>1. PICK m \in passing : Carries(m, t)
      BY <2>1 DEF OnItsWay
    <3>2. P = {m}
      BY <3>1 DEF OneCopy
    <3>. QED BY <2>1, <3>2, FS_Singleton
  <2>2. CASE ~OnItsWay(t)
    <3>1. P = {}
      BY <2>2 DEF OnItsWay
    <3>. QED BY <2>2, <3>1, FS_EmptySet
  <2>. QED BY <2>1, <2>2
<1>3. Cardinality(S) = IF WithAgent(t) THEN 1 ELSE 0
  <2>1. CASE WithAgent(t)
    <3>1. PICK a \in Agents : Carries(serving[a], t)
      BY <2>1 DEF WithAgent
    <3>2. S = {a}
      BY <3>1 DEF OneCopy
    <3>. QED BY <2>1, <3>2, FS_Singleton
  <2>2. CASE ~WithAgent(t)
    <3>1. S = {}
      BY <2>2 DEF WithAgent
    <3>. QED BY <2>2, <3>1, FS_EmptySet
  <2>. QED BY <2>1, <2>2
<1>4. Cardinality(B) = IF InMailbox(t) THEN 1 ELSE 0
  <2>1. CASE InMailbox(t)
    <3>1. PICK a \in Agents : \E k \in DOMAIN mailbox[a].queue : Carries(mailbox[a].queue[k], t)
      BY <2>1 DEF InMailbox
    <3>2. PICK k \in DOMAIN mailbox[a].queue : Carries(mailbox[a].queue[k], t)
      BY <3>1
    <3>3. k \in 1..Capacity
      <4>1. /\ mailbox[a].queue \in Seq(Message) /\ Len(mailbox[a].queue) <= Capacity
            /\ Capacity \in Nat
        BY Numbers, MessageIsSomething, BoxQueue DEF Typed
      <4>. QED BY <3>2, <4>1
    <3>4. \A s \in B : s[1] = a /\ s[2] = k
      BY <3>2 DEF OneCopy
    <3>5. <<a, k>> \in B
      BY <3>2, <3>3
    <3>6. B = {<<a, k>>}
      BY <3>4, <3>5
    <3>. QED BY <2>1, <3>6, FS_Singleton
  <2>2. CASE ~InMailbox(t)
    <3>1. B = {}
      BY <2>2 DEF InMailbox
    <3>. QED BY <2>2, <3>1, FS_EmptySet
  <2>. QED BY <2>1, <2>2
<1>. HIDE DEF P, S, B
<1>. QED BY <1>1, <1>2, <1>3, <1>4 DEF OnePlace

\* A step that does not touch the task t.
LEMMA PlacedStays ==
    ASSUME NEW t \in Tasks, Placed(t),
           \A m \in passing' : Carries(m, t) => m \in passing,
           \A m \in passing : Carries(m, t) => m \in passing',
           \A a \in Agents : Carries(serving'[a], t) <=> Carries(serving[a], t),
           \A a \in Agents : mailbox'[a].queue = mailbox[a].queue,
           log'.lost[t] = log.lost[t], log'.results[t] = log.results[t],
           t <= log.started => log'.by[t] = log.by[t],
           t <= log'.started <=> t <= log.started
    PROVE  Placed(t)'
<1>1. OnItsWay(t)' <=> OnItsWay(t)
  BY DEF OnItsWay, Carries
<1>2. WithAgent(t)' <=> WithAgent(t)
  BY DEF WithAgent, Carries
<1>3. InMailbox(t)' <=> InMailbox(t)
  BY DEF InMailbox, Carries
<1>4. (Finished(t)' <=> Finished(t)) /\ (Lost(t)' <=> Lost(t))
  BY DEF Finished, Lost
<1>5. OnePlace(t)'
  BY <1>1, <1>2, <1>3, <1>4 DEF Placed, OnePlace
<1>6. OneCopy(t)'
  BY DEF Placed, OneCopy, Carries
<1>7. OneEnd(t)'
  <2>1. log.results[t] # <<>> => t <= log.started
    BY DEF Placed, OnePlace, Finished
  <2>2. log.results[t] = <<>> => DOMAIN log.results[t] = {}
    OBVIOUS
  <2>. QED BY <2>1, <2>2 DEF Placed, OneEnd
<1>. QED BY <1>5, <1>6, <1>7 DEF Placed

-----------------------------------------------------------------------------
(* Initially                                                                 *)

LEMMA MeshStart == MeshInit => MeshInv
<1>. SUFFICES ASSUME MeshInit PROVE MeshInv
  OBVIOUS
<1>. USE DEF MeshInit, BusInit, PresenceInit
<1>0. \A n \in Names : mailbox[n].queue = <<>>
  BY DEF Empty, Closed
<1>1. Typed
  <2>1. mailbox \in [Names -> Box] /\ \A n \in Names : Len(mailbox[n].queue) <= Capacity
    BY <1>0, Numbers DEF Box, Empty, Closed
  <2>2. asking \in [Requesters -> Askings]
    BY DEF Askings, NoAsking
  <2>3. log \in Logs /\ log.started <= MaxTasks
    BY Numbers DEF Logs
  <2>. QED BY <2>1, <2>2, <2>3, Numbers DEF Typed
<1>2. PresenceTypeOK
  BY Numbers DEF PresenceTypeOK, NoEntry, NoHandler, Listed
<1>3. Boxes
  BY MessageIsSomething, BusAssumption DEF Boxes, Open, NoAsking, Empty, Closed
<1>4. FlagKept
  BY DEF FlagKept, NoHandler
<1>5. Letters
  BY <1>0 DEF Letters
<1>6. Answered
  BY DEF Answered, NoAsking, Open
<1>7. ASSUME NEW t \in Tasks PROVE Placed(t)
  <2>1. log.started = 0 /\ t \in Nat /\ t > 0
    BY Numbers DEF Tasks
  <2>2. log.results[t] = <<>> /\ log.lost[t] = 0
    OBVIOUS
  <2>3. ~OnItsWay(t) /\ ~WithAgent(t) /\ ~InMailbox(t)
    BY <1>0, MessageIsSomething DEF OnItsWay, WithAgent, InMailbox, Carries, Nothing
  <2>4. OnePlace(t)
    BY <2>1, <2>2, <2>3 DEF OnePlace, Finished, Lost
  <2>5. OneCopy(t)
    BY <1>0, <2>3 DEF OneCopy, OnItsWay, WithAgent, InMailbox
  <2>6. OneEnd(t)
    BY <2>2 DEF OneEnd
  <2>. QED BY <2>4, <2>5, <2>6 DEF Placed
<1>. QED BY <1>1, <1>2, <1>3, <1>4, <1>5, <1>6, <1>7 DEF MeshInv
-----------------------------------------------------------------------------
(* The agents                                                                *)

LEMMA Emitted ==
    ASSUME Typed, NEW m \in Message, Emit(m)
    PROVE  /\ passing' = passing \cup {m} /\ passing' \subseteq Message
           /\ heard' \in [Ides -> SUBSET Message]
           /\ \A i \in Ides : \A x \in heard'[i] :
                  x \in heard[i] \/ (x \in passing' /\ x.to = i)
<1>1. PICK hears \in SUBSET (Ides \cap {m.to}) :
          heard' = [i \in Ides |-> IF i \in hears THEN heard[i] \cup {m} ELSE heard[i]]
  BY DEF Emit
<1>2. passing' = passing \cup {m}
  BY DEF Emit
<1>3. \A i \in Ides : heard'[i] = heard[i] \/ (heard'[i] = heard[i] \cup {m} /\ m.to = i)
  BY <1>1
<1>4. heard' \in [Ides -> SUBSET Message]
  BY <1>1 DEF Typed
<1>. QED BY <1>2, <1>3, <1>4 DEF Typed

\* A mailbox that stays as it is keeps what is said of it.
LEMMA BoxesStay ==
    ASSUME Boxes, PresenceTypeOK, FlagKept, UNCHANGED <<mailbox, presenceVars>>,
           \A r \in Requesters : asking'[r].at = asking[r].at
    PROVE  Boxes' /\ PresenceTypeOK' /\ FlagKept'
BY DEF Boxes, PresenceTypeOK, FlagKept, presenceVars, Open, Listed

LEMMA StartStep ==
    ASSUME MeshInv, NEW n \in Ides \cup Agents, NEW a \in Agents, NEW chain \in Chains,
           StartTask(n, a, chain)
    PROVE  MeshInv'
<1>0. /\ Typed /\ PresenceTypeOK /\ Boxes /\ FlagKept /\ Letters /\ Answered
      /\ \A u \in Tasks : Placed(u)
  BY DEF MeshInv
<1>a. log.started < MaxTasks
  BY DEF StartTask
<1>b. log.started \in Nat /\ log \in Logs
  BY <1>0 DEF Typed, Logs
<1>1. PICK t \in Tasks : t = log.started + 1
  BY <1>a, <1>b, Numbers DEF Tasks
<1>2. PICK m : m = [Nothing EXCEPT !.from = n, !.to = a, !.intent = "Execute",
                                   !.chain = chain, !.task = t]
  OBVIOUS
<1>c. /\ m \in Message
      /\ m.from = n /\ m.to = a /\ m.intent = "Execute" /\ m.origin = NoOne
      /\ m.task = t
  <2>1. chain \in Seq(Agents) /\ n \in Names /\ a \in Names
    BY MeshAssumption, MessageIsSomething
  <2>2. /\ m \in Letter /\ m.from = n /\ m.to = a /\ m.intent = "Execute"
        /\ m.origin = NoOne /\ m.task = t
    BY <1>1, <1>2, <2>1, NothingIsALetter DEF Letter
  <2>. QED BY <2>1, <2>2, LettersAreMessages
<1>3. Emit(m)
  BY <1>1, <1>2 DEF StartTask
<1>4. /\ log' = [log EXCEPT !.started = t, !.by[t] = n]
      /\ UNCHANGED <<mailbox, presenceVars, serving, asking, counter>>
  BY <1>1 DEF StartTask
<1>5. /\ log'.started = t /\ log'.by = [log.by EXCEPT ![t] = n]
      /\ log'.lost = log.lost /\ log'.results = log.results /\ log' \in Logs
  <2>1. n \in Names /\ t \in Nat
    BY <1>b, <1>1, MessageIsSomething
  <2>2. [log.by EXCEPT ![t] = n] \in [Tasks -> Names \cup {NoOne}]
    BY <1>b, <2>1 DEF Logs
  <2>3. log' = [[log EXCEPT !.started = t] EXCEPT !.by = [log.by EXCEPT ![t] = n]]
    BY <1>b, <1>4 DEF Logs
  <2>. QED BY <1>b, <2>1, <2>2, <2>3 DEF Logs
<1>6. /\ passing' = passing \cup {m} /\ passing' \subseteq Message
      /\ heard' \in [Ides -> SUBSET Message]
      /\ \A i \in Ides : \A x \in heard'[i] :
             x \in heard[i] \/ (x \in passing' /\ x.to = i)
  BY <1>0, <1>c, <1>3, Emitted
<1>7. Typed'
  <2>1. t <= MaxTasks
    BY Numbers DEF Tasks
  <2>. QED BY <1>0, <1>4, <1>5, <1>6, <2>1 DEF Typed
<1>8. Boxes' /\ PresenceTypeOK' /\ FlagKept'
  BY <1>0, <1>4, BoxesStay
<1>9. Steady
  BY <1>b, <1>1, <1>4, <1>5 DEF Steady, Logs
<1>10. Straight(m)' /\ m.from \notin Requesters
  <2>1. n \notin Requesters /\ a \notin Requesters /\ a \notin Ides
    BY BusAssumption
  <2>2. Origin(m) = n
    BY <1>c DEF Origin
  <2>3. log'.by[t] = n /\ t \in 1..log'.started
    BY <1>b, <1>1, <1>5 DEF Logs
  <2>. QED BY <1>c, <2>1, <2>2, <2>3 DEF Straight, Origin
<1>11. Letters'
  <2>1. \A x \in passing' : x \in passing \/ Straight(x)'
    BY <1>6, <1>10
  <2>2. \A x \in passing' : x.from \in Requesters => asking'[x.from].at = "sending"
    BY <1>0, <1>4, <1>6, <1>10 DEF Letters
  <2>. QED BY <1>0, <1>4, <1>6, <1>9, <2>1, <2>2, LettersStay
<1>12. Answered'
  BY <1>0, <1>4 DEF Answered, Open
<1>13. ASSUME NEW u \in Tasks PROVE Placed(u)'
  <2>0. u \in Nat
    BY Numbers DEF Tasks
  <2>1. CASE u # t
    <3>1. ~Carries(m, u)
      BY <1>c, <2>1 DEF Carries
    <3>2. /\ log'.lost[u] = log.lost[u] /\ log'.results[u] = log.results[u]
          /\ log'.by[u] = log.by[u]
      BY <1>b, <1>5, <2>1 DEF Logs
    <3>3. u <= log'.started <=> u <= log.started
      BY <1>b, <1>1, <1>5, <2>0, <2>1
    <3>. QED BY <1>0, <1>4, <1>6, <3>1, <3>2, <3>3, PlacedStays
  <2>2. CASE u = t
    <3>1. ~OnItsWay(u) /\ ~WithAgent(u) /\ ~InMailbox(u) /\ ~Finished(u) /\ ~Lost(u)
      BY <1>0, <1>b, <1>1, <2>2 DEF Placed, OnePlace
    <3>2. OnItsWay(u)' /\ \A x \in passing' : Carries(x, u) => x = m
      BY <1>c, <1>6, <2>2, <3>1 DEF OnItsWay, Carries
    <3>3. ~WithAgent(u)' /\ ~InMailbox(u)' /\ ~Finished(u)' /\ ~Lost(u)'
      BY <1>4, <1>5, <3>1 DEF WithAgent, InMailbox, Finished, Lost, Carries
    <3>4. u <= log'.started
      BY <1>b, <1>1, <1>5, <2>2
    <3>5. OnePlace(u)'
      BY <3>2, <3>3, <3>4 DEF OnePlace
    <3>6. OneCopy(u)'
      BY <3>2, <3>3 DEF OneCopy, WithAgent, InMailbox, Carries
    <3>7. OneEnd(u)'
      <4>1. log'.lost[u] = 0 /\ log'.results[u] = <<>>
        BY <3>3 DEF Finished, Lost
      <4>. QED BY <4>1 DEF OneEnd
    <3>. QED BY <3>5, <3>6, <3>7 DEF Placed
  <2>. QED BY <2>1, <2>2
<1>. QED BY <1>7, <1>8, <1>11, <1>12, <1>13 DEF MeshInv

LEMMA ReceiveStep ==
    ASSUME MeshInv, NEW a \in Agents, Receive(a)
    PROVE  MeshInv'
<1>0. /\ Typed /\ PresenceTypeOK /\ Boxes /\ FlagKept /\ Letters /\ Answered
      /\ \A u \in Tasks : Placed(u)
  BY DEF MeshInv
<1>1. /\ UNCHANGED <<passing, heard, presenceVars, asking, counter, log>>
      /\ serving[a] = Nothing /\ mailbox[a].queue # <<>>
      /\ mailbox' = [mailbox EXCEPT ![a].queue = Tail(@)]
  BY DEF Receive, Recv
<1>2. PICK q \in Seq(Message) : q = mailbox[a].queue
  BY BoxQueue, <1>0, MessageIsSomething
<1>3. PICK m \in Message : m = Head(q) /\ m = q[1]
  BY <1>1, <1>2, TailFacts
<1>4. serving' = IF Work(m) THEN [serving EXCEPT ![a] = m] ELSE serving
  BY <1>2, <1>3 DEF Receive
<1>5. /\ Tail(q) \in Seq(Message) /\ 1 \in DOMAIN q /\ Len(Tail(q)) = Len(q) - 1
      /\ \A k \in DOMAIN Tail(q) : k \in Nat /\ k + 1 \in DOMAIN q /\ Tail(q)[k] = q[k + 1]
      /\ \A k \in DOMAIN q : k # 1 => k \in Nat /\ k - 1 \in DOMAIN Tail(q)
                                  /\ Tail(q)[k - 1] = q[k]
  BY <1>1, <1>2, TailFacts
<1>6. /\ \A n \in Names : n # a => mailbox'[n] = mailbox[n]
      /\ mailbox'[a].queue = Tail(q) /\ mailbox'[a].open = mailbox[a].open
      /\ mailbox' \in [Names -> Box]
  <2>1. a \in Names /\ mailbox[a] \in Box /\ mailbox \in [Names -> Box]
    BY <1>0, MessageIsSomething DEF Typed
  <2>2. PICK b : b = [mailbox[a] EXCEPT !.queue = Tail(q)]
    OBVIOUS
  <2>3. b \in Box /\ b.queue = Tail(q) /\ b.open = mailbox[a].open
    BY <1>5, <2>1, <2>2 DEF Box
  <2>4. mailbox' = [mailbox EXCEPT ![a] = b]
    BY <1>1, <1>2, <2>2
  <2>. QED BY <2>1, <2>3, <2>4
<1>7. Typed'
  <2>1. \A n \in Names : Len(mailbox'[n].queue) <= Capacity
    <3>1. Len(Tail(q)) <= Capacity
      <4>1. Len(q) \in Nat /\ Len(q) <= Capacity /\ Capacity \in Nat
        BY <1>0, <1>2, Numbers, MessageIsSomething DEF Typed
      <4>. QED BY <1>5, <4>1
    <3>. QED BY <1>0, <1>6, <3>1 DEF Typed
  <2>2. serving' \in [Agents -> Message \cup {Nothing}]
    BY <1>0, <1>4 DEF Typed
  <2>. QED BY <1>0, <1>1, <1>6, <2>1, <2>2 DEF Typed
<1>8. Boxes' /\ PresenceTypeOK' /\ FlagKept'
  <2>1. \A n \in Names : mailbox'[n].open = mailbox[n].open
    BY <1>6
  <2>. QED BY <1>0, <1>1, <2>1, MessageIsSomething
       DEF Boxes, PresenceTypeOK, FlagKept, presenceVars, Open, Listed
<1>9. Steady
  BY <1>0, <1>1 DEF Steady, Typed, Logs
<1>10. Letters'
  <2>1. ASSUME NEW n \in Names, NEW k \in DOMAIN mailbox'[n].queue
        PROVE  \E j \in DOMAIN mailbox[n].queue : mailbox'[n].queue[k] = mailbox[n].queue[j]
    <3>1. CASE n = a
      <4>1. k + 1 \in DOMAIN mailbox[n].queue
            /\ mailbox'[n].queue[k] = mailbox[n].queue[k + 1]
        BY <1>2, <1>5, <1>6, <3>1
      <4>. QED BY <4>1
    <3>2. CASE n # a
      BY <1>6, <3>2
    <3>. QED BY <3>1, <3>2
  <2>2. ASSUME NEW b \in Agents, serving'[b] # Nothing
        PROVE  \/ serving'[b] = serving[b]
               \/ /\ serving'[b].intent = "Execute"
                  /\ \E k \in DOMAIN mailbox[b].queue : serving'[b] = mailbox[b].queue[k]
    <3>1. m.intent # "Result" => m.intent = "Execute"
      BY DEF Message
    <3>. QED BY <1>0, <1>2, <1>3, <1>4, <1>5, <2>2, <3>1 DEF Typed, Work
  <2>. QED BY <1>0, <1>1, <1>9, <2>1, <2>2, LettersStay DEF Letters, Typed
<1>11. Answered'
  <2>1. a \notin Requesters
    BY BusAssumption
  <2>. QED BY <1>0, <1>1, <1>6, <2>1, MessageIsSomething DEF Answered, Open
<1>12. ASSUME NEW t \in Tasks PROVE Placed(t)'
  <2>0. Placed(t)
    BY <1>0
  <2>1. (OnItsWay(t)' <=> OnItsWay(t)) /\ (Finished(t)' <=> Finished(t)) /\ (Lost(t)' <=> Lost(t))
    BY <1>1 DEF OnItsWay, Finished, Lost, Carries
  <2>2. ~Carries(serving[a], t)
    BY <1>1, NothingIsALetter DEF Carries
  <2>3. OneEnd(t)'
    BY <1>1, <2>0 DEF Placed, OneEnd
  <2>4. \A x, y \in passing' : Carries(x, t)' /\ Carries(y, t)' => x = y
    BY <1>1, <2>0 DEF Placed, OneCopy, Carries
  \* What a mailbox holds it has held, one place further back for a.
  <2>5. ASSUME NEW b \in Agents, NEW k \in DOMAIN mailbox'[b].queue
        PROVE  /\ b = a => /\ k \in Nat /\ k + 1 \in DOMAIN mailbox[a].queue
                           /\ mailbox'[a].queue[k] = mailbox[a].queue[k + 1]
               /\ b # a => /\ k \in DOMAIN mailbox[b].queue
                           /\ mailbox'[b].queue[k] = mailbox[b].queue[k]
    BY <1>2, <1>5, <1>6, MessageIsSomething
  <2>6. ASSUME NEW b \in Agents, NEW c \in Agents,
               NEW k \in DOMAIN mailbox'[b].queue, NEW l \in DOMAIN mailbox'[c].queue,
               Carries(mailbox'[b].queue[k], t), Carries(mailbox'[c].queue[l], t)
        PROVE  b = c /\ k = l
    <3>. DEFINE j == IF b = a THEN k + 1 ELSE k
                i == IF c = a THEN l + 1 ELSE l
    <3>1. /\ j \in DOMAIN mailbox[b].queue /\ Carries(mailbox[b].queue[j], t)
          /\ i \in DOMAIN mailbox[c].queue /\ Carries(mailbox[c].queue[i], t)
      BY <2>5, <2>6
    <3>2. b = c /\ j = i
      <4>. HIDE DEF i, j
      <4>. QED BY <2>0, <3>1 DEF Placed, OneCopy
    <3>. QED BY <2>5, <3>2
  <2>7. InMailbox(t)' => InMailbox(t)
    <3>1. ASSUME NEW b \in Agents, NEW k \in DOMAIN mailbox'[b].queue,
                 Carries(mailbox'[b].queue[k], t)
          PROVE  InMailbox(t)
      BY <2>5, <3>1 DEF InMailbox
    <3>. QED BY <3>1 DEF InMailbox, Carries
  <2>8. CASE Carries(m, t)
    <3>1. InMailbox(t)
      BY <1>2, <1>3, <1>5, <2>8 DEF InMailbox
    <3>2. ~InMailbox(t)'
      <4>1. ASSUME NEW b \in Agents, NEW k \in DOMAIN mailbox'[b].queue,
                   Carries(mailbox'[b].queue[k], t)
            PROVE  FALSE
        <5>1. CASE b = a
          <6>1. k + 1 \in DOMAIN mailbox[a].queue /\ k \in Nat
                /\ Carries(mailbox[a].queue[k + 1], t)
            BY <2>5, <4>1, <5>1
          <6>2. k + 1 = 1
            BY <1>2, <1>3, <1>5, <2>0, <2>8, <6>1 DEF Placed, OneCopy
          <6>3. k = 0
            BY <6>1, <6>2
          <6>. QED BY <1>6, <1>5, <5>1, <6>3
        <5>2. CASE b # a
          BY <1>2, <1>3, <1>5, <2>0, <2>5, <2>8, <4>1, <5>2 DEF Placed, OneCopy
        <5>. QED BY <5>1, <5>2
      <4>. QED BY <4>1 DEF InMailbox, Carries
    <3>3. serving' = [serving EXCEPT ![a] = m]
      BY <1>4, <2>8 DEF Carries, Work
    <3>4. ~WithAgent(t)
      BY <2>0, <3>1 DEF Placed, OnePlace
    <3>5. WithAgent(t)' /\ \A b \in Agents : Carries(serving'[b], t) => b = a
      BY <1>0, <2>8, <3>3, <3>4 DEF Typed, WithAgent, Carries
    <3>6. OnePlace(t)'
      BY <1>1, <2>0, <2>1, <3>1, <3>2, <3>5 DEF Placed, OnePlace
    <3>7. OneCopy(t)'
      BY <2>4, <2>6, <3>5 DEF OneCopy, Carries
    <3>. QED BY <2>3, <3>6, <3>7 DEF Placed
  <2>9. CASE ~Carries(m, t)
    <3>1. \A b \in Agents : Carries(serving'[b], t) <=> Carries(serving[b], t)
      BY <1>0, <1>4, <2>2, <2>9 DEF Typed
    <3>2. WithAgent(t)' <=> WithAgent(t)
      BY <3>1 DEF WithAgent, Carries
    <3>3. InMailbox(t) => InMailbox(t)'
      <4>1. ASSUME NEW b \in Agents, NEW k \in DOMAIN mailbox[b].queue,
                   Carries(mailbox[b].queue[k], t)
            PROVE  \E l \in DOMAIN mailbox'[b].queue : Carries(mailbox'[b].queue[l], t)
        <5>1. CASE b = a
          <6>1. k # 1
            BY <1>2, <1>3, <2>9, <4>1, <5>1
          <6>2. k - 1 \in DOMAIN mailbox'[b].queue
                /\ mailbox'[b].queue[k - 1] = mailbox[b].queue[k]
            BY <1>2, <1>5, <1>6, <5>1, <6>1
          <6>. QED BY <4>1, <6>2
        <5>2. CASE b # a
          <6>1. mailbox'[b] = mailbox[b]
            BY <1>6, <5>2, MessageIsSomething
          <6>. QED BY <4>1, <6>1
        <5>. QED BY <5>1, <5>2
      <4>. QED BY <4>1 DEF InMailbox, Carries
    <3>4. OnePlace(t)'
      BY <1>1, <2>0, <2>1, <2>7, <3>2, <3>3 DEF Placed, OnePlace
    <3>5. OneCopy(t)'
      BY <2>0, <2>4, <2>6, <3>1 DEF Placed, OneCopy, Carries
    <3>. QED BY <2>3, <3>4, <3>5 DEF Placed
  <2>. QED BY <2>8, <2>9
<1>. QED BY <1>7, <1>8, <1>10, <1>11, <1>12 DEF MeshInv

\* What an agent sends when it has worked on a task.
LEMMA ReplyFacts ==
    ASSUME MeshInv, NEW a \in Agents, NEW m \in Message, serving[a] = m,
           NEW x, x = IF m.chain = <<>> THEN Reply(a, m) ELSE Forward(a, m)
    PROVE  /\ x \in Message /\ x.from = a /\ x.task = m.task /\ x.task \in 1..log.started
           /\ m.intent = "Execute" /\ Straight(x)
           /\ x.intent = "Result" => x.to = log.by[m.task]
<1>1. /\ Straight(m) /\ m.to = a /\ m.intent = "Execute"
  BY MessageIsSomething DEF MeshInv, Letters
<1>2. /\ m.task \in 1..log.started /\ Origin(m) = log.by[m.task]
      /\ Origin(m) \in Agents \cup Ides
  BY <1>1 DEF Straight
<1>3. /\ a \in Names /\ a \notin Requesters /\ a # NoOne
      /\ \A n \in Agents \cup Ides : n \in Names /\ n \notin Requesters /\ n # NoOne
  BY BusAssumption, MessageIsSomething
<1>4. log.started <= MaxTasks /\ log.started \in Nat /\ m.task \in Tasks
  <2>1. log.started <= MaxTasks /\ log.started \in Nat
    BY DEF MeshInv, Typed, Logs
  <2>. QED BY <1>2, <2>1, Numbers DEF Tasks
<1>5. CASE m.chain = <<>>
  <2>1. x = [Nothing EXCEPT !.from = a, !.to = Origin(m), !.intent = "Result",
                            !.task = m.task]
    BY <1>5 DEF Reply
  <2>2. /\ x \in Letter /\ x.from = a /\ x.to = Origin(m) /\ x.intent = "Result"
        /\ x.task = m.task
    BY <1>2, <1>3, <1>4, <2>1, NothingIsALetter DEF Letter
  <2>3. x \in Message
    BY <1>2, <1>3, <2>2, LettersAreMessages
  <2>4. Straight(x)
    BY <1>2, <1>3, <2>2 DEF Straight
  <2>. QED BY <1>1, <1>2, <2>2, <2>3, <2>4
<1>6. CASE m.chain # <<>>
  <2>0. m.chain \in Seq(Agents)
    BY DEF Message
  <2>1. PICK h \in Agents, c \in Seq(Agents) : h = Head(m.chain) /\ c = Tail(m.chain)
    BY <1>6, <2>0, TailFacts
  <2>2. PICK o \in Agents \cup Ides : o = Origin(m)
    BY <1>2
  <2>3. x = [Nothing EXCEPT !.from = a, !.to = h, !.intent = "Execute",
                            !.chain = c, !.origin = o, !.task = m.task]
    BY <1>6, <2>1, <2>2 DEF Forward
  <2>4. /\ x \in Letter /\ x.from = a /\ x.to = h /\ x.intent = "Execute"
        /\ x.origin = o /\ x.task = m.task
    BY <1>3, <1>4, <2>3, NothingIsALetter DEF Letter
  <2>5. x \in Message
    BY <1>3, <2>4, LettersAreMessages
  <2>6. Origin(x) = o
    BY <1>3, <2>4 DEF Origin
  <2>7. h \notin Requesters /\ h \notin Ides
    BY BusAssumption
  <2>8. Straight(x)
    BY <1>2, <1>3, <2>2, <2>4, <2>6, <2>7 DEF Straight
  <2>. QED BY <1>1, <1>2, <2>4, <2>5, <2>8
<1>. QED BY <1>5, <1>6

LEMMA AnswerStep ==
    ASSUME MeshInv, NEW a \in Agents, Answer(a)
    PROVE  MeshInv'
<1>0. /\ Typed /\ PresenceTypeOK /\ Boxes /\ FlagKept /\ Letters /\ Answered
      /\ \A u \in Tasks : Placed(u)
  BY DEF MeshInv
<1>1. PICK m \in Message : m = serving[a]
  BY <1>0 DEF Typed, Answer
<1>2. PICK x : x = IF m.chain = <<>> THEN Reply(a, m) ELSE Forward(a, m)
  OBVIOUS
<1>3. /\ x \in Message /\ x.from = a /\ x.task = m.task /\ x.task \in 1..log.started
      /\ m.intent = "Execute" /\ Straight(x)
      /\ x.intent = "Result" => x.to = log.by[m.task]
  BY <1>1, <1>2, ReplyFacts
<1>4. /\ Emit(x)
      /\ log' = IF m.intent = "Execute" /\ x.intent = "Result"
                THEN [log EXCEPT !.results[m.task] = Append(@, x.to)] ELSE log
      /\ serving' = [serving EXCEPT ![a] = Nothing]
      /\ UNCHANGED <<mailbox, presenceVars, asking, counter>>
  BY <1>1, <1>2 DEF Answer
<1>5. PICK t \in Tasks : t = m.task /\ t \in 1..log.started
  <2>1. log.started <= MaxTasks /\ log.started \in Nat
    BY <1>0 DEF Typed, Logs
  <2>. QED BY <1>3, <2>1, Numbers DEF Tasks
<1>6. PICK n \in Names : n = x.to
  BY <1>3 DEF Message
<1>7. /\ log'.started = log.started /\ log'.by = log.by /\ log'.lost = log.lost
      /\ log' \in Logs
      /\ log'.results = IF x.intent = "Result"
                        THEN [log.results EXCEPT ![t] = Append(@, n)] ELSE log.results
  <2>1. log \in Logs
    BY <1>0 DEF Typed
  <2>2. CASE x.intent = "Result"
    <3>1. PICK rs : rs = [log.results EXCEPT ![t] = Append(@, n)]
      OBVIOUS
    <3>2. rs \in [Tasks -> Seq(Names)]
      BY <2>1, <3>1 DEF Logs
    <3>3. log' = [log EXCEPT !.results = rs]
      BY <1>3, <1>4, <1>5, <1>6, <2>2, <3>1
    <3>. QED BY <2>1, <2>2, <3>1, <3>2, <3>3 DEF Logs
  <2>3. CASE x.intent # "Result"
    BY <1>4, <2>1, <2>3
  <2>. QED BY <2>2, <2>3
<1>8. /\ passing' = passing \cup {x} /\ passing' \subseteq Message
      /\ heard' \in [Ides -> SUBSET Message]
      /\ \A i \in Ides : \A y \in heard'[i] :
             y \in heard[i] \/ (y \in passing' /\ y.to = i)
  BY <1>0, <1>3, <1>4, Emitted
<1>9. Typed'
  BY <1>0, <1>4, <1>7, <1>8 DEF Typed
<1>10. Boxes' /\ PresenceTypeOK' /\ FlagKept'
  BY <1>0, <1>4, BoxesStay
<1>11. Steady
  <2>1. log.started \in Nat
    BY <1>0 DEF Typed, Logs
  <2>. QED BY <1>4, <1>7, <2>1 DEF Steady
<1>12. Letters'
  <2>1. Straight(x)' /\ x.from \notin Requesters
    BY <1>0, <1>3, <1>11, StraightStays, BusAssumption
  <2>2. \A y \in passing' : y \in passing \/ Straight(y)'
    BY <1>8, <2>1
  <2>3. \A y \in passing' : y.from \in Requesters => asking'[y.from].at = "sending"
    BY <1>0, <1>4, <1>8, <2>1 DEF Letters
  <2>4. \A b \in Agents : serving'[b] # Nothing => serving'[b] = serving[b]
    BY <1>0, <1>4 DEF Typed
  <2>. QED BY <1>0, <1>4, <1>8, <1>11, <2>2, <2>3, <2>4, LettersStay
<1>13. Answered'
  BY <1>0, <1>4 DEF Answered, Open
<1>14. ASSUME NEW u \in Tasks PROVE Placed(u)'
  <2>0. Placed(u) /\ u \in Nat
    BY <1>0, Numbers DEF Tasks
  <2>1. serving'[a] = Nothing /\ \A b \in Agents : b # a => serving'[b] = serving[b]
    BY <1>0, <1>4 DEF Typed
  <2>2. ~Carries(Nothing, u)
    BY NothingIsALetter DEF Carries
  <2>3. CASE u # t
    <3>1. ~Carries(m, u) /\ ~Carries(x, u)
      BY <1>3, <1>5, <2>3 DEF Carries
    <3>2. \A b \in Agents : Carries(serving'[b], u) <=> Carries(serving[b], u)
      BY <1>1, <2>1, <2>2, <3>1
    <3>3. log'.results[u] = log.results[u]
      BY <1>0, <1>7, <2>3 DEF Typed, Logs
    <3>. QED BY <1>4, <1>7, <1>8, <2>0, <3>1, <3>2, <3>3, PlacedStays
  <2>4. CASE u = t
    <3>1. Carries(serving[a], u)
      BY <1>1, <1>3, <1>5, <2>4 DEF Carries
    <3>2. WithAgent(u) /\ \A b \in Agents : Carries(serving[b], u) => b = a
      BY <2>0, <3>1 DEF WithAgent, Placed, OneCopy
    <3>3. ~OnItsWay(u) /\ ~InMailbox(u) /\ ~Finished(u) /\ ~Lost(u)
      BY <2>0, <3>2 DEF Placed, OnePlace
    <3>4. ~WithAgent(u)'
      BY <2>1, <2>2, <3>2 DEF WithAgent, Carries
    <3>5. ~InMailbox(u)'
      BY <1>4, <3>3 DEF InMailbox, Carries
    <3>6. ~Lost(u)' /\ log'.lost[u] = 0 /\ u <= log'.started
      BY <1>5, <1>7, <2>4, <3>3 DEF Lost
    <3>7. log.results[u] = <<>>
      BY <3>3 DEF Finished
    <3>8. CASE x.intent = "Execute"
      <4>1. log'.results[u] = <<>>
        BY <1>7, <3>7, <3>8
      <4>2. OnItsWay(u)' /\ \A y \in passing' : Carries(y, u) => y = x
        BY <1>3, <1>5, <1>8, <2>4, <3>3, <3>8 DEF OnItsWay, Carries
      <4>3. OnePlace(u)'
        BY <3>4, <3>5, <3>6, <4>1, <4>2 DEF OnePlace, Finished
      <4>4. OneCopy(u)'
        BY <3>4, <3>5, <4>2 DEF OneCopy, WithAgent, InMailbox, Carries
      <4>5. OneEnd(u)'
        BY <3>6, <4>1 DEF OneEnd
      <4>. QED BY <4>3, <4>4, <4>5 DEF Placed
    <3>9. CASE x.intent = "Result"
      <4>1. log'.results[u] = Append(<<>>, n)
        BY <1>0, <1>7, <2>4, <3>7, <3>9 DEF Typed, Logs
      <4>2. log'.results[u] = <<n>> /\ n = log'.by[u]
        BY <1>3, <1>5, <1>6, <1>7, <2>4, <3>9, <4>1
      <4>3. ~OnItsWay(u)'
        BY <1>8, <3>3, <3>9 DEF OnItsWay, Carries
      <4>4. Finished(u)'
        BY <4>2 DEF Finished
      <4>5. OnePlace(u)'
        BY <3>4, <3>5, <3>6, <4>3, <4>4 DEF OnePlace
      <4>6. OneCopy(u)'
        BY <3>4, <3>5, <4>3 DEF OneCopy, OnItsWay, WithAgent, InMailbox, Carries
      <4>7. OneEnd(u)'
        BY <3>6, <4>2 DEF OneEnd
      <4>. QED BY <4>5, <4>6, <4>7 DEF Placed
    <3>10. x.intent \in {"Execute", "Result"}
      BY <1>3 DEF Message
    <3>. QED BY <3>8, <3>9, <3>10
  <2>. QED BY <2>3, <2>4
<1>. QED BY <1>9, <1>10, <1>12, <1>13, <1>14 DEF MeshInv

-----------------------------------------------------------------------------
(* The requesters                                                            *)

LEMMA AskStep ==
    ASSUME MeshInv, NEW r \in Requesters, NEW i \in Ides, Ask(r, i)
    PROVE  MeshInv'
<1>0. /\ Typed /\ PresenceTypeOK /\ Boxes /\ FlagKept /\ Letters /\ Answered
      /\ \A u \in Tasks : Placed(u)
  BY DEF MeshInv
<1>1. PICK m : m = [Nothing EXCEPT !.from = r, !.to = i, !.intent = "Execute",
                                   !.id = counter]
  OBVIOUS
<1>2. /\ Emit(m) /\ asking[r].at = "idle"
      /\ mailbox' = [mailbox EXCEPT ![r] = Empty]
      /\ asking' = [asking EXCEPT ![r] = [NoAsking EXCEPT !.at = "sending", !.ide = i,
                                                          !.id = counter]]
      /\ counter' = counter + 1
      /\ UNCHANGED <<presenceVars, serving, log>>
  BY <1>1 DEF Ask, Register
<1>3. PICK x : x = [NoAsking EXCEPT !.at = "sending", !.ide = i, !.id = counter]
  OBVIOUS
<1>4. counter \in Nat /\ FirstId <= counter
  BY <1>0 DEF Typed
<1>5. /\ x \in Askings /\ x.at = "sending" /\ x.ide = i /\ x.id = counter
      /\ x.got = "none" /\ x.met = FALSE
  BY <1>3, <1>4 DEF Askings, NoAsking
<1>6. asking'[r] = x /\ \A s \in Requesters : s # r => asking'[s] = asking[s]
  BY <1>0, <1>2, <1>3 DEF Typed
<1>7. /\ r \in Names /\ r \notin Agents /\ r \notin Ides /\ i \in Names
      /\ i \notin Agents /\ i \notin Requesters
  BY BusAssumption, MessageIsSomething
<1>8. /\ m \in Message /\ m.from = r /\ m.to = i /\ m.intent = "Execute"
      /\ m.task = NoTask
  <2>1. /\ m \in Letter /\ m.from = r /\ m.to = i /\ m.intent = "Execute"
        /\ m.task = NoTask
    BY <1>1, <1>4, <1>7, NothingIsALetter DEF Letter
  <2>. QED BY <1>7, <2>1, LettersAreMessages
<1>9. m = Question(r)'
  BY <1>1, <1>5, <1>6 DEF Question
<1>10. /\ passing' = passing \cup {m} /\ passing' \subseteq Message
       /\ heard' \in [Ides -> SUBSET Message]
       /\ \A j \in Ides : \A y \in heard'[j] :
              y \in heard[j] \/ (y \in passing' /\ y.to = j)
  BY <1>0, <1>2, <1>8, Emitted
<1>11. /\ mailbox'[r].queue = <<>> /\ mailbox'[r].open
       /\ \A n \in Names : n # r => mailbox'[n] = mailbox[n]
       /\ mailbox' \in [Names -> Box]
       /\ \A n \in Names : Len(mailbox'[n].queue) <= Capacity
  <2>1. Empty \in Box /\ Empty.queue = <<>> /\ Empty.open
    BY DEF Empty, Box
  <2>2. mailbox'[r] = Empty /\ \A n \in Names : n # r => mailbox'[n] = mailbox[n]
    BY <1>0, <1>2, <1>7 DEF Typed
  <2>3. Len(mailbox'[r].queue) <= Capacity
    BY <2>1, <2>2, Numbers
  <2>. QED BY <1>0, <1>2, <2>1, <2>2, <2>3 DEF Typed
<1>12. Typed'
  <2>1. counter' \in Nat /\ FirstId <= counter'
    BY <1>2, <1>4, Numbers
  <2>2. asking' \in [Requesters -> Askings]
    BY <1>0, <1>2, <1>3, <1>5 DEF Typed
  <2>. QED BY <1>0, <1>2, <1>10, <1>11, <2>1, <2>2 DEF Typed
<1>13. Boxes' /\ PresenceTypeOK' /\ FlagKept'
  <2>1. Boxes'
    BY <1>0, <1>5, <1>6, <1>7, <1>11, MessageIsSomething DEF Boxes, Open
  <2>2. PresenceTypeOK' /\ FlagKept'
    <3>1. \A j \in Ides : mailbox'[j] = mailbox[j]
      BY <1>7, <1>11, MessageIsSomething
    <3>. QED BY <1>0, <1>2, <3>1 DEF PresenceTypeOK, FlagKept, presenceVars, Listed
  <2>. QED BY <2>1, <2>2
<1>14. Steady
  <2>1. log.started \in Nat
    BY <1>0 DEF Typed, Logs
  <2>. QED BY <1>2, <1>6, <2>1 DEF Steady
<1>15. Letters'
  <2>1. Straight(m)'
    BY <1>5, <1>6, <1>7, <1>8, <1>9 DEF Straight
  <2>2. \A y \in passing' : y \in passing \/ Straight(y)'
    BY <1>10, <2>1
  <2>3. \A y \in passing' : y.from \in Requesters => asking'[y.from].at = "sending"
    BY <1>0, <1>2, <1>5, <1>6, <1>8, <1>10 DEF Letters
  <2>4. \A n \in Names : \A k \in DOMAIN mailbox'[n].queue :
            \E j \in DOMAIN mailbox[n].queue : mailbox'[n].queue[k] = mailbox[n].queue[j]
    BY <1>11
  <2>. QED BY <1>0, <1>2, <1>10, <1>14, <2>2, <2>3, <2>4, LettersStay
<1>16. Answered'
  <2>1. \A s \in Requesters : s # r => mailbox'[s] = mailbox[s]
    BY <1>11, MessageIsSomething
  <2>. QED BY <1>0, <1>4, <1>5, <1>6, <2>1 DEF Answered, Open
<1>17. ASSUME NEW u \in Tasks PROVE Placed(u)'
  <2>1. ~Carries(m, u)
    BY <1>8, MessageIsSomething DEF Carries
  <2>2. \A b \in Agents : mailbox'[b].queue = mailbox[b].queue
    BY <1>7, <1>11, MessageIsSomething
  <2>. QED BY <1>0, <1>2, <1>10, <2>1, <2>2, PlacedStays
<1>. QED BY <1>12, <1>13, <1>15, <1>16, <1>17 DEF MeshInv

\* A requester takes something out of its mailbox or gives it up.
LEMMA ExchangeStep ==
    ASSUME MeshInv, NEW r \in Requesters, asking[r].at = "waiting",
           NEW b \in Box, Len(b.queue) <= Capacity, mailbox' = [mailbox EXCEPT ![r] = b],
           \A k \in DOMAIN b.queue : \E j \in DOMAIN mailbox[r].queue :
               b.queue[k] = mailbox[r].queue[j],
           NEW x \in Askings, asking' = [asking EXCEPT ![r] = x],
           x.at # "idle", x.id = asking[r].id, x.ide = asking[r].ide,
           b.open <=> x.at \in {"sending", "waiting"}, x.at # "over" => x.got = "none",
           /\ x.at \in {"sending", "waiting"} /\ x.met /\ Echo(x.id) = x.id
           => b.queue # <<>>,
           x.got = "timeout" /\ Echo(x.id) = x.id => ~x.met,
           UNCHANGED <<passing, heard, presenceVars, serving, counter, log>>
    PROVE  MeshInv'
<1>0. /\ Typed /\ PresenceTypeOK /\ Boxes /\ FlagKept /\ Letters /\ Answered
      /\ \A u \in Tasks : Placed(u)
  BY DEF MeshInv
<1>1. r \in Names /\ r \notin Agents /\ r \notin Ides
  BY BusAssumption, MessageIsSomething
<1>2. asking'[r] = x /\ \A s \in Requesters : s # r => asking'[s] = asking[s]
  BY <1>0 DEF Typed
<1>3. mailbox'[r] = b /\ \A n \in Names : n # r => mailbox'[n] = mailbox[n]
  BY <1>0, <1>1 DEF Typed
<1>4. Typed'
  BY <1>0, <1>3 DEF Typed
<1>5. Boxes'
  BY <1>0, <1>1, <1>2, <1>3, MessageIsSomething DEF Boxes, Open
<1>6. PresenceTypeOK' /\ FlagKept'
  <2>1. \A j \in Ides : mailbox'[j] = mailbox[j]
    BY <1>1, <1>3, MessageIsSomething
  <2>. QED BY <1>0, <2>1 DEF PresenceTypeOK, FlagKept, presenceVars, Listed
<1>7. Steady
  <2>1. log.started \in Nat
    BY <1>0 DEF Typed, Logs
  <2>. QED BY <1>2, <2>1 DEF Steady
<1>8. Letters'
  <2>1. \A y \in passing' : y.from \in Requesters => asking'[y.from].at = "sending"
    BY <1>0, <1>2 DEF Letters
  <2>2. \A n \in Names : \A k \in DOMAIN mailbox'[n].queue :
            \E j \in DOMAIN mailbox[n].queue : mailbox'[n].queue[k] = mailbox[n].queue[j]
    BY <1>3
  <2>3. passing' \subseteq Message
    BY <1>4 DEF Typed
  <2>. QED BY <1>0, <1>7, <2>1, <2>2, <2>3, LettersStay
<1>9. Answered'
  <2>1. \A s \in Requesters : s # r => mailbox'[s] = mailbox[s]
    BY <1>3, MessageIsSomething
  <2>. QED BY <1>0, <1>2, <1>3, <2>1 DEF Answered, Open
<1>10. ASSUME NEW u \in Tasks PROVE Placed(u)'
  <2>1. \A a \in Agents : mailbox'[a].queue = mailbox[a].queue
    BY <1>1, <1>3, MessageIsSomething
  <2>. QED BY <1>0, <2>1, PlacedStays
<1>. QED BY <1>4, <1>5, <1>6, <1>8, <1>9, <1>10 DEF MeshInv

\* What is in the mailbox of a requester is the answer it waits for, if the IDE
\* has its id.
LEMMA AnswersWait ==
    ASSUME MeshInv, NEW r \in Requesters, Echo(asking[r].id) = asking[r].id,
           NEW k \in DOMAIN mailbox[r].queue
    PROVE  IsReply(mailbox[r].queue[k], r)
<1>1. Straight(mailbox[r].queue[k]) /\ mailbox[r].queue[k].to = r
  BY MessageIsSomething DEF MeshInv, Letters
<1>. QED BY <1>1 DEF Straight, IsReply

\* An exchange that is over.
LEMMA OverFacts ==
    ASSUME Typed, NEW r \in Requesters, NEW got \in {"answer", "timeout"}
    PROVE  \E x \in Askings : /\ Over(r, got) = [asking EXCEPT ![r] = x]
                              /\ x.at = "over" /\ x.got = got /\ x.id = asking[r].id
                              /\ x.ide = asking[r].ide /\ x.met = asking[r].met
<1>1. PICK x : x = [asking[r] EXCEPT !.at = "over", !.got = got]
  OBVIOUS
<1>2. asking[r] \in Askings
  BY DEF Typed
<1>3. /\ x \in Askings /\ x.at = "over" /\ x.got = got /\ x.id = asking[r].id
      /\ x.ide = asking[r].ide /\ x.met = asking[r].met
  BY <1>1, <1>2 DEF Askings
<1>4. Over(r, got) = [asking EXCEPT ![r] = x]
  BY <1>1 DEF Over
<1>. QED BY <1>3, <1>4

LEMMA ClosedFacts == /\ Closed \in Box /\ Closed.queue = <<>> /\ Closed.open = FALSE
                     /\ Empty \in Box /\ Empty.queue = <<>> /\ Empty.open = TRUE
                     /\ Len(<<>>) <= Capacity
<1>1. Len(<<>>) <= Capacity
  BY Numbers
<1>. QED BY <1>1 DEF Closed, Empty, Box

LEMMA AcceptStep ==
    ASSUME MeshInv, NEW r \in Requesters, Accept(r)
    PROVE  MeshInv'
<1>0. Typed
  BY DEF MeshInv
<1>1. /\ asking[r].at = "waiting" /\ mailbox[r].queue # <<>>
      /\ UNCHANGED <<passing, heard, presenceVars, serving, counter, log>>
  BY DEF Accept
<1>2. CASE IsReply(Head(mailbox[r].queue), r)
  <2>1. PICK x \in Askings : /\ Over(r, "answer") = [asking EXCEPT ![r] = x]
                             /\ x.at = "over" /\ x.got = "answer" /\ x.id = asking[r].id
                             /\ x.ide = asking[r].ide
    BY <1>0, OverFacts
  <2>2. asking' = [asking EXCEPT ![r] = x] /\ mailbox' = [mailbox EXCEPT ![r] = Closed]
    BY <1>2, <2>1 DEF Accept, Unregister
  <2>3. PICK b \in Box : b = Closed /\ b.queue = <<>> /\ b.open = FALSE
    BY ClosedFacts
  <2>4. /\ Len(b.queue) <= Capacity /\ DOMAIN b.queue = {}
        /\ mailbox' = [mailbox EXCEPT ![r] = b]
        /\ x.at # "idle" /\ ~(x.at \in {"sending", "waiting"}) /\ x.got # "timeout"
    BY <2>1, <2>2, <2>3, ClosedFacts
  <2>. QED BY <1>1, <2>1, <2>2, <2>3, <2>4, ExchangeStep
<1>3. CASE ~IsReply(Head(mailbox[r].queue), r)
  <2>1. PICK q \in Seq(Message) : q = mailbox[r].queue /\ q # <<>>
    BY <1>0, <1>1, BoxQueue, MessageIsSomething
  <2>2. /\ Tail(q) \in Seq(Message) /\ 1 \in DOMAIN q /\ Head(q) = q[1]
        /\ Len(Tail(q)) = Len(q) - 1
        /\ \A k \in DOMAIN Tail(q) : k + 1 \in DOMAIN q /\ Tail(q)[k] = q[k + 1]
    BY <2>1, TailFacts
  <2>3. PICK b : b = [mailbox[r] EXCEPT !.queue = Tail(q)]
    OBVIOUS
  <2>4. /\ mailbox' = [mailbox EXCEPT ![r] = b] /\ asking' = asking
    BY <1>3, <2>1, <2>3 DEF Accept, Recv
  <2>5. b \in Box /\ b.queue = Tail(q) /\ b.open = mailbox[r].open
    <3>1. mailbox[r] \in Box
      BY <1>0, MessageIsSomething DEF Typed
    <3>. QED BY <2>2, <2>3, <3>1 DEF Box
  <2>6. Len(b.queue) <= Capacity
    <3>1. Len(q) \in Nat /\ Len(q) <= Capacity /\ Capacity \in Nat
      BY <1>0, <2>1, Numbers, MessageIsSomething DEF Typed
    <3>. QED BY <2>2, <2>5, <3>1
  <2>7. PICK x \in Askings : x = asking[r]
    BY <1>0 DEF Typed
  <2>8. asking' = [asking EXCEPT ![r] = x]
    BY <1>0, <2>4, <2>7 DEF Typed
  <2>9. ~(Echo(x.id) = x.id)
    BY <1>3, <2>1, <2>2, <2>7, AnswersWait
  <2>10. b.open <=> x.at \in {"sending", "waiting"}
    BY <2>5, <2>7 DEF MeshInv, Boxes, Open
  <2>11. x.got = "none" /\ x.at = "waiting"
    BY <1>1, <2>7 DEF MeshInv, Answered
  <2>12. \A k \in DOMAIN b.queue : \E j \in DOMAIN mailbox[r].queue :
             b.queue[k] = mailbox[r].queue[j]
    BY <2>1, <2>2, <2>5
  <2>. QED BY <1>1, <2>4, <2>5, <2>6, <2>7, <2>8, <2>9, <2>10, <2>11, <2>12, ExchangeStep
<1>. QED BY <1>2, <1>3

LEMMA TimeOutStep ==
    ASSUME MeshInv, NEW r \in Requesters, TimeOut(r)
    PROVE  MeshInv'
<1>0. Typed
  BY DEF MeshInv
<1>1. /\ asking[r].at = "waiting"
      /\ \A k \in DOMAIN mailbox[r].queue : ~IsReply(mailbox[r].queue[k], r)
      /\ UNCHANGED <<passing, heard, presenceVars, serving, counter, log>>
  BY DEF TimeOut, MayTimeOut
<1>2. PICK x \in Askings : /\ Over(r, "timeout") = [asking EXCEPT ![r] = x]
                           /\ x.at = "over" /\ x.got = "timeout" /\ x.id = asking[r].id
                           /\ x.ide = asking[r].ide /\ x.met = asking[r].met
  BY <1>0, OverFacts
<1>3. asking' = [asking EXCEPT ![r] = x] /\ mailbox' = [mailbox EXCEPT ![r] = Closed]
  BY <1>2 DEF TimeOut, Unregister
<1>4. PICK b \in Box : b = Closed /\ b.queue = <<>> /\ b.open = FALSE
  BY ClosedFacts
<1>5. Echo(x.id) = x.id => ~x.met
  <2>1. SUFFICES ASSUME Echo(x.id) = x.id, x.met PROVE FALSE
    OBVIOUS
  <2>2. mailbox[r].queue # <<>>
    BY <1>1, <1>2, <2>1 DEF MeshInv, Answered, Open
  <2>3. 1 \in DOMAIN mailbox[r].queue
    BY <1>0, <2>2, BoxQueue, TailFacts, MessageIsSomething
  <2>. QED BY <1>1, <1>2, <2>1, <2>3, AnswersWait
<1>6. /\ Len(b.queue) <= Capacity /\ DOMAIN b.queue = {}
      /\ mailbox' = [mailbox EXCEPT ![r] = b]
      /\ x.at # "idle" /\ ~(x.at \in {"sending", "waiting"})
  BY <1>2, <1>3, <1>4, ClosedFacts
<1>. QED BY <1>1, <1>2, <1>3, <1>4, <1>5, <1>6, ExchangeStep

-----------------------------------------------------------------------------
(* The IDEs and the way into the mailboxes                                   *)

\* What an IDE answers.
LEMMA ReactsFacts ==
    ASSUME MeshInv, NEW i \in Ides, NEW m \in heard[i], m.intent = "Execute",
           NEW x, x = Reacts(i, m)
    PROVE  /\ x \in Message /\ x.from = i /\ x.task = NoTask /\ Straight(x)
<1>1. m \in Message /\ Straight(m) /\ m.to = i
  BY DEF MeshInv, Typed, Letters
<1>2. PICK r \in Requesters : r = m.from
  BY <1>1 DEF Straight
<1>3. asking[r].at # "idle" /\ m = Question(r)
  BY <1>1, <1>2 DEF Straight
<1>4. m.id = asking[r].id
  BY <1>3, NothingIsALetter DEF Question, Letter
<1>5. asking[r].id \in Nat /\ 16 < asking[r].id
  <2>1. asking[r].id \in Nat /\ FirstId <= asking[r].id
    BY <1>3 DEF MeshInv, Typed, Askings, Answered
  <2>. QED BY <2>1, Numbers
<1>6. PICK e \in Nat : e = Echo(m.id) /\ e = Echo(asking[r].id)
  BY <1>4, <1>5, EchoIsNumber
<1>7. x = [Nothing EXCEPT !.from = i, !.to = r, !.intent = "Result", !.re = e]
  BY <1>2, <1>6 DEF Reacts
<1>8. /\ i \in Names /\ r \in Names /\ i \notin Agents /\ i \notin Requesters
      /\ r \notin Agents /\ r \notin Ides
  BY BusAssumption, MessageIsSomething
<1>9. /\ x \in Letter /\ x.from = i /\ x.to = r /\ x.intent = "Result" /\ x.re = e
      /\ x.task = NoTask
  BY <1>7, <1>8, NothingIsALetter DEF Letter
<1>10. x \in Message
  BY <1>8, <1>9, LettersAreMessages
<1>11. Straight(x)
  BY <1>3, <1>6, <1>8, <1>9 DEF Straight
<1>. QED BY <1>9, <1>10, <1>11

LEMMA IdeStep ==
    ASSUME MeshInv, NEW i \in Ides, NEW m \in heard[i], IdeAnswers(i, m) \/ IdeIgnores(i, m)
    PROVE  MeshInv'
<1>0. /\ Typed /\ PresenceTypeOK /\ Boxes /\ FlagKept /\ Letters /\ Answered
      /\ \A u \in Tasks : Placed(u)
  BY DEF MeshInv
<1>1. /\ heard' = [heard EXCEPT ![i] = @ \ {m}]
      /\ UNCHANGED <<mailbox, presenceVars, serving, asking, counter, log>>
  BY DEF IdeAnswers, IdeIgnores, meshVars
<1>2. /\ \A x \in passing' : x \in passing \/ (/\ x \in Message /\ x.from = i
                                                 /\ x.task = NoTask /\ Straight(x))
      /\ passing \subseteq passing'
  <2>1. CASE IdeAnswers(i, m)
    BY <2>1, ReactsFacts DEF IdeAnswers
  <2>2. CASE IdeIgnores(i, m)
    BY <2>2 DEF IdeIgnores
  <2>. QED BY <2>1, <2>2
<1>3. /\ heard' \in [Ides -> SUBSET Message]
      /\ \A j \in Ides : heard'[j] \subseteq heard[j]
  BY <1>0, <1>1 DEF Typed
<1>4. passing' \subseteq Message
  BY <1>0, <1>2 DEF Typed
<1>5. Typed'
  BY <1>0, <1>1, <1>3, <1>4 DEF Typed
<1>6. Boxes' /\ PresenceTypeOK' /\ FlagKept'
  BY <1>0, <1>1, BoxesStay
<1>7. Steady
  <2>1. log.started \in Nat
    BY <1>0 DEF Typed, Logs
  <2>. QED BY <1>1, <2>1 DEF Steady
<1>8. Letters'
  <2>1. \A x \in passing' : x \in passing \/ Straight(x)'
    BY <1>0, <1>2, <1>7, StraightStays
  <2>2. \A x \in passing' : x.from \in Requesters => asking'[x.from].at = "sending"
    BY <1>0, <1>1, <1>2, BusAssumption DEF Letters
  <2>. QED BY <1>0, <1>1, <1>3, <1>4, <1>7, <2>1, <2>2, LettersStay
<1>9. Answered'
  BY <1>0, <1>1 DEF Answered, Open
<1>10. ASSUME NEW u \in Tasks PROVE Placed(u)'
  <2>1. \A x \in passing' : Carries(x, u) => x \in passing
    BY <1>2, MessageIsSomething DEF Carries
  <2>. QED BY <1>0, <1>1, <1>2, <2>1, PlacedStays
<1>. QED BY <1>5, <1>6, <1>8, <1>9, <1>10 DEF MeshInv

\* What the second half of a send does to the exchanges.
LEMMA RoutedFacts ==
    ASSUME MeshInv, NEW m \in passing, NEW d \in BOOLEAN, asking' = Routed(m, d)
    PROVE  /\ asking' \in [Requesters -> Askings]
           /\ \A r \in Requesters :
                 /\ asking'[r].id = asking[r].id /\ asking'[r].ide = asking[r].ide
                 /\ m.from = r =>
                       /\ asking[r].at = "sending" /\ m = Question(r) /\ m.to \in Ides
                       /\ asking'[r].met = asking[r].met
                       /\ asking'[r].at = (IF d THEN "waiting" ELSE "over")
                       /\ asking'[r].got = (IF d THEN "none" ELSE "refused")
                 /\ m.from # r =>
                       /\ asking'[r].at = asking[r].at /\ asking'[r].got = asking[r].got
                       /\ m.to # r \/ ~Open(r) => asking'[r].met = asking[r].met
<1>0. /\ asking \in [Requesters -> Askings] /\ Straight(m)
      /\ m.from \in Requesters => asking[m.from].at = "sending"
      /\ Answered
  BY DEF MeshInv, Typed, Letters
<1>. SUFFICES ASSUME NEW r \in Requesters, NEW x, x = asking[r], NEW y, y = asking'[r]
              PROVE  /\ y \in Askings /\ y.id = x.id /\ y.ide = x.ide
                     /\ m.from = r =>
                           /\ x.at = "sending" /\ m = Question(r) /\ m.to \in Ides
                           /\ y.met = x.met
                           /\ y.at = (IF d THEN "waiting" ELSE "over")
                           /\ y.got = (IF d THEN "none" ELSE "refused")
                     /\ m.from # r =>
                           /\ y.at = x.at /\ y.got = x.got
                           /\ m.to # r \/ ~Open(r) => y.met = x.met
  <2>1. asking' = [r \in Requesters |-> asking'[r]]
    BY DEF Routed
  <2>. QED BY <2>1
<1>1. y = IF m.from = r /\ x.at = "sending"
          THEN IF d THEN [x EXCEPT !.at = "waiting"]
                    ELSE [x EXCEPT !.at = "over", !.got = "refused"]
          ELSE IF m.to = r /\ x.at \in {"sending", "waiting"}
          THEN [x EXCEPT !.met = @ \/ m.from = x.ide] ELSE x
  BY DEF Routed
<1>2. x \in Askings
  BY <1>0
<1>3. CASE m.from = r
  <2>1. x.at = "sending" /\ m = Question(r)
    BY <1>0, <1>3 DEF Straight
  <2>2. m.to = x.ide
    BY <2>1, NothingIsALetter DEF Question, Letter
  <2>3. x.ide \in Ides /\ x.got = "none"
    BY <1>0, <2>1 DEF Answered
  <2>4. CASE d
    <3>1. y = [x EXCEPT !.at = "waiting"]
      BY <1>1, <1>3, <2>1, <2>4
    <3>. QED BY <1>2, <1>3, <2>1, <2>2, <2>3, <2>4, <3>1 DEF Askings
  <2>5. CASE ~d
    <3>1. y = [x EXCEPT !.at = "over", !.got = "refused"]
      BY <1>1, <1>3, <2>1, <2>5
    <3>. QED BY <1>2, <1>3, <2>1, <2>2, <2>3, <2>5, <3>1 DEF Askings
  <2>. QED BY <2>4, <2>5
<1>4. CASE m.from # r /\ m.to = r /\ x.at \in {"sending", "waiting"}
  <2>1. PICK b \in BOOLEAN : b = (x.met \/ m.from = x.ide)
    OBVIOUS
  <2>2. y = [x EXCEPT !.met = b]
    BY <1>1, <1>4, <2>1
  <2>3. Open(r)
    BY <1>4 DEF Open
  <2>. QED BY <1>2, <1>4, <2>2, <2>3 DEF Askings
<1>5. CASE m.from # r /\ ~(m.to = r /\ x.at \in {"sending", "waiting"})
  <2>1. y = x
    BY <1>1, <1>5
  <2>. QED BY <1>2, <1>5, <2>1
<1>. QED BY <1>3, <1>4, <1>5

\* What it does to the mailboxes: the message is added to its target's, or the
\* mailbox of the requester that has sent it is given up.
RoutedBoxes(m, d) ==
    /\ mailbox' \in [Names -> Box]
    /\ \A n \in Names :
          /\ Len(mailbox'[n].queue) <= Capacity
          /\ n \notin Requesters \/ n # m.from \/ d => mailbox'[n].open = mailbox[n].open
          /\ \A k \in DOMAIN mailbox'[n].queue :
                \/ /\ k \in DOMAIN mailbox[n].queue
                   /\ mailbox'[n].queue[k] = mailbox[n].queue[k]
                \/ /\ d /\ n = m.to /\ k = Len(mailbox[n].queue) + 1
                   /\ mailbox'[n].queue[k] = m
          /\ n \notin Requesters \/ n # m.from \/ d =>
                /\ mailbox[n].queue # <<>> => mailbox'[n].queue # <<>>
                /\ n = m.to /\ mailbox[n].open => mailbox'[n].queue # <<>>
                /\ \A k \in DOMAIN mailbox[n].queue :
                      /\ k \in DOMAIN mailbox'[n].queue
                      /\ mailbox'[n].queue[k] = mailbox[n].queue[k]
    /\ d => /\ Len(mailbox[m.to].queue) + 1 \in DOMAIN mailbox'[m.to].queue
            /\ mailbox'[m.to].queue[Len(mailbox[m.to].queue) + 1] = m
    /\ \A r \in Requesters : r = m.from /\ ~d => ~mailbox'[r].open

LEMMA DeliveredBoxes ==
    ASSUME Typed, NEW m \in Message, Room(m.to), Deliver(m)
    PROVE  RoutedBoxes(m, TRUE)
<1>1. PICK n \in Names : n = m.to
  BY DEF Message
<1>2. PICK q \in Seq(Message) : q = mailbox[n].queue
  BY BoxQueue
<1>3. /\ Append(q, m) \in Seq(Message) /\ Len(Append(q, m)) = Len(q) + 1
      /\ Append(q, m) # <<>>
      /\ \A k \in DOMAIN Append(q, m) : \/ k \in DOMAIN q /\ Append(q, m)[k] = q[k]
                                        \/ k = Len(q) + 1 /\ Append(q, m)[k] = m
      /\ \A k \in DOMAIN q : k \in DOMAIN Append(q, m) /\ Append(q, m)[k] = q[k]
      /\ Len(q) + 1 \in DOMAIN Append(q, m) /\ Append(q, m)[Len(q) + 1] = m
  BY AppendFacts
<1>4. PICK b : b = [mailbox[n] EXCEPT !.queue = Append(q, m)]
  OBVIOUS
<1>5. b \in Box /\ b.queue = Append(q, m) /\ b.open = mailbox[n].open
  <2>1. mailbox[n] \in Box
    BY DEF Typed
  <2>. QED BY <1>3, <1>4, <2>1 DEF Box
<1>6. mailbox' = [mailbox EXCEPT ![n] = b]
  BY <1>1, <1>2, <1>4 DEF Deliver
<1>7. /\ mailbox' \in [Names -> Box] /\ mailbox'[n] = b
      /\ \A k \in Names : k # n => mailbox'[k] = mailbox[k]
  BY <1>5, <1>6 DEF Typed
<1>8. Len(b.queue) <= Capacity
  <2>1. Len(q) < Capacity /\ Len(q) \in Nat /\ Capacity \in Nat
    BY <1>1, <1>2, Numbers DEF Room
  <2>. QED BY <1>3, <1>5, <2>1
<1>9. \A k \in Names : Len(mailbox'[k].queue) <= Capacity
  BY <1>7, <1>8 DEF Typed
<1>10. ASSUME NEW k \in Names
       PROVE  /\ mailbox'[k].open = mailbox[k].open
              /\ \A j \in DOMAIN mailbox'[k].queue :
                    \/ /\ j \in DOMAIN mailbox[k].queue
                       /\ mailbox'[k].queue[j] = mailbox[k].queue[j]
                    \/ /\ k = m.to /\ j = Len(mailbox[k].queue) + 1
                       /\ mailbox'[k].queue[j] = m
              /\ mailbox[k].queue # <<>> => mailbox'[k].queue # <<>>
              /\ k = m.to => mailbox'[k].queue # <<>>
              /\ \A j \in DOMAIN mailbox[k].queue :
                    /\ j \in DOMAIN mailbox'[k].queue
                    /\ mailbox'[k].queue[j] = mailbox[k].queue[j]
  <2>1. CASE k = n
    BY <1>1, <1>2, <1>3, <1>5, <1>7, <2>1
  <2>2. CASE k # n
    BY <1>1, <1>7, <2>2
  <2>. QED BY <2>1, <2>2
<1>11. /\ Len(mailbox[m.to].queue) + 1 \in DOMAIN mailbox'[m.to].queue
       /\ mailbox'[m.to].queue[Len(mailbox[m.to].queue) + 1] = m
  BY <1>1, <1>2, <1>3, <1>5, <1>7
<1>. QED BY <1>7, <1>9, <1>10, <1>11 DEF RoutedBoxes

LEMMA DroppedBoxes ==
    ASSUME Typed, NEW m \in Message, ~Room(m.to),
           mailbox' = IF m.from \in Requesters
                      THEN [mailbox EXCEPT ![m.from] = Closed] ELSE mailbox
    PROVE  RoutedBoxes(m, FALSE)
<1>1. /\ mailbox' \in [Names -> Box]
      /\ \A n \in Names : n \notin Requesters \/ n # m.from => mailbox'[n] = mailbox[n]
      /\ \A r \in Requesters : r = m.from => mailbox'[r] = Closed
  BY ClosedFacts, MessageIsSomething DEF Typed
<1>2. ASSUME NEW n \in Names, n = m.to, mailbox[n].open PROVE mailbox[n].queue # <<>>
  <2>1. ~(Len(mailbox[n].queue) < Capacity)
    BY <1>2 DEF Room
  <2>. QED BY <2>1, Numbers
<1>3. ASSUME NEW n \in Names
      PROVE  /\ Len(mailbox'[n].queue) <= Capacity
             /\ n \notin Requesters \/ n # m.from => mailbox'[n].open = mailbox[n].open
             /\ \A k \in DOMAIN mailbox'[n].queue :
                   /\ k \in DOMAIN mailbox[n].queue
                   /\ mailbox'[n].queue[k] = mailbox[n].queue[k]
             /\ n \notin Requesters \/ n # m.from =>
                   /\ mailbox[n].queue # <<>> => mailbox'[n].queue # <<>>
                   /\ n = m.to /\ mailbox[n].open => mailbox'[n].queue # <<>>
                   /\ \A k \in DOMAIN mailbox[n].queue :
                         /\ k \in DOMAIN mailbox'[n].queue
                         /\ mailbox'[n].queue[k] = mailbox[n].queue[k]
  <2>1. CASE n \in Requesters /\ n = m.from
    <3>1. mailbox'[n].queue = <<>>
      BY <1>1, <2>1, ClosedFacts
    <3>2. Len(mailbox'[n].queue) <= Capacity /\ DOMAIN mailbox'[n].queue = {}
      BY <3>1, ClosedFacts
    <3>. QED BY <2>1, <3>2
  <2>2. CASE n \notin Requesters \/ n # m.from
    <3>1. mailbox'[n] = mailbox[n]
      BY <1>1, <2>2
    <3>2. Len(mailbox'[n].queue) <= Capacity
      BY <3>1 DEF Typed
    <3>. QED BY <1>2, <3>1, <3>2
  <2>. QED BY <2>1, <2>2
<1>4. \A r \in Requesters : r = m.from => ~mailbox'[r].open
  BY <1>1, ClosedFacts
<1>. QED BY <1>1, <1>3, <1>4 DEF RoutedBoxes

\* Where a task is afterwards.
LEMMA RoutedTask ==
    ASSUME MeshInv, NEW m \in passing, NEW d \in BOOLEAN, RoutedBoxes(m, d),
           passing' = passing \ {m}, UNCHANGED serving,
           log'.started = log.started, log'.by = log.by, log'.results = log.results,
           NEW t \in Tasks,
           log'.lost[t] = IF ~d /\ Carries(m, t) THEN log.lost[t] + 1 ELSE log.lost[t]
    PROVE  Placed(t)'
<1>0. Typed /\ Letters /\ Placed(t) /\ m \in Message
  BY DEF MeshInv, Typed
<1>1. \A b \in Agents : b \in Names /\ b \notin Requesters
  BY BusAssumption, MessageIsSomething
<1>2. ASSUME NEW b \in Agents
      PROVE  /\ \A k \in DOMAIN mailbox'[b].queue :
                   \/ /\ k \in DOMAIN mailbox[b].queue
                      /\ mailbox'[b].queue[k] = mailbox[b].queue[k]
                   \/ /\ d /\ b = m.to /\ k = Len(mailbox[b].queue) + 1
                      /\ mailbox'[b].queue[k] = m
             /\ \A k \in DOMAIN mailbox[b].queue :
                   /\ k \in DOMAIN mailbox'[b].queue
                   /\ mailbox'[b].queue[k] = mailbox[b].queue[k]
  BY <1>1 DEF RoutedBoxes
<1>3. /\ WithAgent(t)' <=> WithAgent(t)
      /\ Finished(t)' <=> Finished(t)
      /\ \A b, c \in Agents : Carries(serving'[b], t) /\ Carries(serving'[c], t) => b = c
      /\ \A x, y \in passing' : Carries(x, t) /\ Carries(y, t) => x = y
  BY <1>0 DEF WithAgent, Finished, Carries, Placed, OneCopy
<1>4. CASE ~Carries(m, t)
  <2>1. OnItsWay(t)' <=> OnItsWay(t)
    BY <1>4 DEF OnItsWay, Carries
  <2>2. ASSUME NEW b \in Agents, NEW k \in DOMAIN mailbox'[b].queue,
               Carries(mailbox'[b].queue[k], t)
        PROVE  k \in DOMAIN mailbox[b].queue /\ Carries(mailbox[b].queue[k], t)
    BY <1>2, <1>4, <2>2
  <2>3. InMailbox(t)' <=> InMailbox(t)
    <3>1. InMailbox(t)' => InMailbox(t)
      BY <2>2 DEF InMailbox, Carries
    <3>2. InMailbox(t) => InMailbox(t)'
      BY <1>2 DEF InMailbox, Carries
    <3>. QED BY <3>1, <3>2
  <2>4. log'.lost[t] = log.lost[t] /\ (Lost(t)' <=> Lost(t))
    BY <1>4 DEF Lost
  <2>5. OnePlace(t)'
    BY <1>0, <1>3, <2>1, <2>3, <2>4 DEF Placed, OnePlace
  <2>6. OneCopy(t)'
    <3>1. \A b, c \in Agents :
              \A k \in DOMAIN mailbox'[b].queue, l \in DOMAIN mailbox'[c].queue :
                  Carries(mailbox'[b].queue[k], t) /\ Carries(mailbox'[c].queue[l], t)
                      => b = c /\ k = l
      BY <1>0, <2>2 DEF Placed, OneCopy
    <3>. QED BY <1>3, <3>1 DEF OneCopy, Carries
  <2>7. OneEnd(t)'
    BY <1>0, <2>4 DEF Placed, OneEnd
  <2>. QED BY <2>5, <2>6, <2>7 DEF Placed
<1>5. CASE Carries(m, t)
  <2>1. OnItsWay(t)
    BY <1>5 DEF OnItsWay
  <2>2. ~WithAgent(t) /\ ~InMailbox(t) /\ ~Finished(t) /\ ~Lost(t) /\ t <= log'.started
    BY <1>0, <2>1 DEF Placed, OnePlace
  <2>3. ~OnItsWay(t)'
    BY <1>0, <1>5 DEF OnItsWay, Placed, OneCopy, Carries
  <2>4. ~WithAgent(t)' /\ ~Finished(t)' /\ log.lost[t] = 0 /\ log'.results[t] = <<>>
    BY <1>3, <2>2 DEF Lost, Finished
  <2>5. \A b \in Agents : \A k \in DOMAIN mailbox[b].queue : ~Carries(mailbox[b].queue[k], t)
    BY <2>2 DEF InMailbox
  <2>6. CASE d
    <3>1. m.to \in Agents
      <4>1. Straight(m) /\ m.intent = "Execute" /\ m.task # NoTask
        BY <1>0, <1>5, MessageIsSomething DEF Letters, Carries
      <4>2. m.from \notin Requesters
        BY <4>1, NothingIsALetter DEF Straight, Question, Letter
      <4>3. m.to \in Agents \cup Ides \cup Requesters
        BY <1>0 DEF Message, Names
      <4>. QED BY <4>1, <4>2, <4>3 DEF Straight
    <3>2. InMailbox(t)'
      <4>1. /\ Len(mailbox[m.to].queue) + 1 \in DOMAIN mailbox'[m.to].queue
            /\ mailbox'[m.to].queue[Len(mailbox[m.to].queue) + 1] = m
        BY <2>6 DEF RoutedBoxes
      <4>. QED BY <1>5, <3>1, <4>1 DEF InMailbox, Carries
    <3>3. log'.lost[t] = 0 /\ ~Lost(t)'
      BY <2>4, <2>6 DEF Lost
    <3>4. ASSUME NEW b \in Agents, NEW k \in DOMAIN mailbox'[b].queue,
                 Carries(mailbox'[b].queue[k], t)
          PROVE  b = m.to /\ k = Len(mailbox[b].queue) + 1
      BY <1>2, <2>5, <3>4
    <3>5. OnePlace(t)'
      BY <2>2, <2>3, <2>4, <3>2, <3>3 DEF OnePlace
    <3>6. OneCopy(t)'
      BY <1>3, <3>4 DEF OneCopy, Carries
    <3>7. OneEnd(t)'
      BY <2>4, <3>3 DEF OneEnd
    <3>. QED BY <3>5, <3>6, <3>7 DEF Placed
  <2>7. CASE ~d
    <3>1. log'.lost[t] = 1 /\ Lost(t)'
      BY <1>5, <2>4, <2>7 DEF Lost
    <3>2. ASSUME NEW b \in Agents, NEW k \in DOMAIN mailbox'[b].queue
          PROVE  ~Carries(mailbox'[b].queue[k], t)
      BY <1>2, <2>5, <2>7
    <3>3. ~InMailbox(t)'
      BY <3>2 DEF InMailbox, Carries
    <3>4. OnePlace(t)'
      BY <2>2, <2>3, <2>4, <3>1, <3>3 DEF OnePlace
    <3>5. OneCopy(t)'
      BY <1>3, <3>2 DEF OneCopy, Carries
    <3>6. OneEnd(t)'
      BY <2>4, <3>1 DEF OneEnd
    <3>. QED BY <3>4, <3>5, <3>6 DEF Placed
  <2>. QED BY <2>6, <2>7
<1>. QED BY <1>4, <1>5

LEMMA RouteStep ==
    ASSUME MeshInv, NEW m \in passing, Route(m)
    PROVE  MeshInv'
<1>0. /\ Typed /\ PresenceTypeOK /\ Boxes /\ FlagKept /\ Letters /\ Answered
      /\ m \in Message
  BY DEF MeshInv, Typed
<1>1. PICK d \in BOOLEAN : d = Room(m.to)
  BY DEF Room
<1>2. /\ passing' = passing \ {m} /\ asking' = Routed(m, d)
      /\ UNCHANGED <<heard, presenceVars, serving, counter>>
  BY <1>1 DEF Route
<1>3. RoutedBoxes(m, d)
  <2>1. CASE d
    BY <1>0, <1>1, <2>1, DeliveredBoxes DEF Route
  <2>2. CASE ~d
    BY <1>0, <1>1, <2>2, DroppedBoxes DEF Route
  <2>. QED BY <2>1, <2>2
<1>4. /\ asking' \in [Requesters -> Askings]
      /\ \A r \in Requesters :
            /\ asking'[r].id = asking[r].id /\ asking'[r].ide = asking[r].ide
            /\ m.from = r =>
                  /\ asking[r].at = "sending" /\ m = Question(r) /\ m.to \in Ides
                  /\ asking'[r].met = asking[r].met
                  /\ asking'[r].at = (IF d THEN "waiting" ELSE "over")
                  /\ asking'[r].got = (IF d THEN "none" ELSE "refused")
            /\ m.from # r =>
                  /\ asking'[r].at = asking[r].at /\ asking'[r].got = asking[r].got
                  /\ m.to # r \/ ~Open(r) => asking'[r].met = asking[r].met
  BY <1>2, RoutedFacts
<1>5. /\ log' \in Logs /\ log'.started = log.started /\ log'.by = log.by
      /\ log'.results = log.results
      /\ \A t \in Tasks : log'.lost[t] = IF ~d /\ Carries(m, t) THEN log.lost[t] + 1
                                                                 ELSE log.lost[t]
  <2>1. log \in Logs
    BY <1>0 DEF Typed
  <2>2. CASE ~d /\ m.task # NoTask /\ m.intent = "Execute"
    <3>1. m.task \in Tasks
      BY <1>0, <2>2 DEF Message
    <3>2. PICK f : f = [log.lost EXCEPT ![m.task] = @ + 1]
      OBVIOUS
    <3>3. f \in [Tasks -> Nat]
      BY <2>1, <3>1, <3>2 DEF Logs
    <3>4. log' = [log EXCEPT !.lost = f]
      BY <1>1, <2>2, <3>2 DEF Route
    <3>5. \A t \in Tasks : f[t] = IF Carries(m, t) THEN log.lost[t] + 1 ELSE log.lost[t]
      BY <2>1, <2>2, <3>1, <3>2 DEF Logs, Carries
    <3>. QED BY <2>1, <2>2, <3>3, <3>4, <3>5 DEF Logs
  <2>3. CASE ~(~d /\ m.task # NoTask /\ m.intent = "Execute")
    <3>1. log' = log
      BY <1>1, <2>3 DEF Route
    <3>2. \A t \in Tasks : ~(~d /\ Carries(m, t))
      BY <2>3, MessageIsSomething DEF Carries
    <3>. QED BY <2>1, <3>1, <3>2
  <2>. QED BY <2>2, <2>3
<1>6. Typed'
  <2>1. mailbox' \in [Names -> Box] /\ \A n \in Names : Len(mailbox'[n].queue) <= Capacity
    BY <1>3 DEF RoutedBoxes
  <2>. QED BY <1>0, <1>2, <1>4, <1>5, <2>1 DEF Typed
<1>7. /\ \A b \in Agents \cup Ides : b \in Names /\ b \notin Requesters
      /\ \A b \in Agents \cup Ides : mailbox'[b].open = mailbox[b].open
  <2>1. \A b \in Agents \cup Ides : b \in Names /\ b \notin Requesters
    BY BusAssumption, MessageIsSomething
  <2>. QED BY <1>3, <2>1 DEF RoutedBoxes
<1>8. Boxes'
  <2>1. ASSUME NEW r \in Requesters PROVE mailbox'[r].open <=> Open(r)'
    <3>1. mailbox[r].open <=> Open(r)
      BY <1>0 DEF Boxes
    <3>2. r # m.from \/ d => mailbox'[r].open = mailbox[r].open
      BY <1>3, MessageIsSomething DEF RoutedBoxes
    <3>3. r = m.from /\ ~d => ~mailbox'[r].open
      BY <1>3 DEF RoutedBoxes
    <3>. QED BY <1>4, <3>1, <3>2, <3>3 DEF Open
  <2>. QED BY <1>0, <1>7, <2>1 DEF Boxes
<1>9. PresenceTypeOK' /\ FlagKept'
  BY <1>0, <1>2, <1>7 DEF PresenceTypeOK, FlagKept, presenceVars, Listed
<1>10. Steady
  <2>1. log.started \in Nat
    BY <1>0 DEF Typed, Logs
  <2>2. \A r \in Requesters : asking[r].at # "idle" => asking'[r].at # "idle"
    BY <1>4
  <2>. QED BY <1>4, <1>5, <2>1, <2>2 DEF Steady
<1>11. Letters'
  <2>1. ASSUME NEW x \in passing', x.from \in Requesters
        PROVE  asking'[x.from].at = "sending"
    <3>1. asking[x.from].at = "sending" /\ x = Question(x.from) /\ x # m
      BY <1>0, <1>2, <2>1 DEF Letters, Straight
    <3>2. m.from # x.from
      BY <1>4, <2>1, <3>1
    <3>. QED BY <1>4, <2>1, <3>1, <3>2
  <2>2. \A n \in Names : \A k \in DOMAIN mailbox'[n].queue :
            \/ \E j \in DOMAIN mailbox[n].queue :
                   mailbox'[n].queue[k] = mailbox[n].queue[j]
            \/ mailbox'[n].queue[k] \in passing /\ mailbox'[n].queue[k].to = n
    BY <1>3 DEF RoutedBoxes
  <2>3. passing' \subseteq Message
    BY <1>6 DEF Typed
  <2>. QED BY <1>0, <1>2, <1>10, <2>1, <2>2, <2>3, LettersStay
<1>12. Answered'
  <2>1. ASSUME NEW r \in Requesters
        PROVE  /\ asking'[r].at # "idle" => asking'[r].ide \in Ides /\ FirstId <= asking'[r].id
               /\ asking'[r].at # "over" => asking'[r].got = "none"
               /\ asking'[r].got = "timeout" /\ Echo(asking'[r].id) = asking'[r].id
                      => ~asking'[r].met
    <3>1. /\ asking[r].at # "idle" => asking[r].ide \in Ides /\ FirstId <= asking[r].id
          /\ asking[r].at # "over" => asking[r].got = "none"
          /\ asking[r].got = "timeout" /\ Echo(asking[r].id) = asking[r].id
                 => ~asking[r].met
      BY <1>0 DEF Answered
    <3>2. asking[r].got = "timeout" => ~Open(r)
      BY <3>1 DEF Open
    <3>3. CASE m.from = r
      BY <1>4, <3>1, <3>3
    <3>4. CASE m.from # r
      BY <1>4, <3>1, <3>2, <3>4
    <3>. QED BY <3>3, <3>4
  <2>2. ASSUME NEW r \in Requesters, Open(r)', asking'[r].met,
               Echo(asking'[r].id) = asking'[r].id
        PROVE  mailbox'[r].queue # <<>>
    <3>1. r \in Names /\ r \notin Ides
      BY BusAssumption, MessageIsSomething
    <3>2. /\ Open(r) /\ asking[r].met /\ Echo(asking[r].id) = asking[r].id
             => mailbox[r].queue # <<>>
          /\ mailbox[r].open <=> Open(r)
      BY <1>0 DEF Answered, Boxes
    <3>3. CASE m.from = r
      <4>1. d /\ Open(r) /\ asking[r].met /\ m.to # r
        BY <1>4, <2>2, <3>1, <3>3 DEF Open
      <4>2. mailbox[r].queue # <<>> => mailbox'[r].queue # <<>>
        BY <1>3, <3>1, <4>1 DEF RoutedBoxes
      <4>. QED BY <1>4, <2>2, <3>2, <4>1, <4>2
    <3>4. CASE m.from # r
      <4>1. /\ mailbox[r].queue # <<>> => mailbox'[r].queue # <<>>
            /\ r = m.to /\ mailbox[r].open => mailbox'[r].queue # <<>>
        BY <1>3, <3>1, <3>4 DEF RoutedBoxes
      <4>2. Open(r)
        BY <1>4, <2>2, <3>4 DEF Open
      <4>. QED BY <1>4, <2>2, <3>2, <3>4, <4>1, <4>2
    <3>. QED BY <3>3, <3>4
  <2>. QED BY <2>1, <2>2 DEF Answered, Open
<1>13. \A u \in Tasks : Placed(u)'
  BY <1>2, <1>3, <1>5, RoutedTask
<1>. QED BY <1>6, <1>8, <1>9, <1>11, <1>12, <1>13 DEF MeshInv

-----------------------------------------------------------------------------
(* The registry of the IDEs                                                  *)

Entries == [listed : BOOLEAN, left : -1..TTL, eligible : BOOLEAN]
Clients == [at : {"off", "live", "silent"}, leaving : BOOLEAN]
Handlers == [at : {"none", "insert", "mailbox"}, eligible : BOOLEAN, raced : BOOLEAN]

\* What a step of one IDE's client or handler may do.
LEMMA IdeChanges ==
    ASSUME PresenceTypeOK, FlagKept, NEW i \in Ides, NEW e \in Entries, NEW h \in Handlers,
           client' \in [Ides -> Clients],
           entry' = [entry EXCEPT ![i] = e], handler' = [handler EXCEPT ![i] = h],
           \A j \in Ides : j # i => mailbox'[j].open = mailbox[j].open,
           e.listed /\ h.at = "none" => mailbox'[i].open,
           h.at = "insert" /\ e.listed /\ ~h.raced => e.eligible = h.eligible
    PROVE  PresenceTypeOK' /\ FlagKept'
<1>1. /\ entry \in [Ides -> Entries] /\ handler \in [Ides -> Handlers]
  BY DEF PresenceTypeOK, Entries, Handlers
<1>2. /\ entry' \in [Ides -> Entries] /\ handler' \in [Ides -> Handlers]
      /\ entry'[i] = e /\ handler'[i] = h
      /\ \A j \in Ides : j # i => entry'[j] = entry[j] /\ handler'[j] = handler[j]
  BY <1>1
<1>3. PresenceTypeOK'
  BY <1>2 DEF PresenceTypeOK, Listed, Entries, Handlers, Clients
<1>4. FlagKept'
  BY <1>2 DEF FlagKept, Listed
<1>. QED BY <1>3, <1>4

\* A client's state does not matter.
LEMMA ClientChanges ==
    ASSUME PresenceTypeOK, FlagKept, client' \in [Ides -> Clients],
           UNCHANGED <<entry, handler>>,
           \A j \in Ides : mailbox'[j].open = mailbox[j].open
    PROVE  PresenceTypeOK' /\ FlagKept'
BY DEF PresenceTypeOK, FlagKept, Listed, Clients

LEMMA BecomesTyped ==
    ASSUME PresenceTypeOK, NEW i \in Ides, NEW s \in {"off", "live", "silent"}, Becomes(i, s)
    PROVE  client' \in [Ides -> Clients]
<1>1. PICK c : c = [client[i] EXCEPT !.at = s]
  OBVIOUS
<1>2. client \in [Ides -> Clients] /\ c \in Clients
  BY <1>1 DEF PresenceTypeOK, Clients
<1>. QED BY <1>1, <1>2 DEF Becomes

\* A handler that has read the old entry.
LEMMA ReadPriorKeeps ==
    ASSUME PresenceTypeOK, FlagKept, NEW i \in Ides, ReadPrior(i), UNCHANGED <<entry, mailbox>>,
           client' \in [Ides -> Clients]
    PROVE  PresenceTypeOK' /\ FlagKept'
<1>1. entry \in [Ides -> Entries]
  BY DEF PresenceTypeOK, Entries
<1>2. PICK e \in Entries : e = entry[i]
  BY <1>1
<1>3. PICK f \in BOOLEAN : f = PriorEligible(i)
  BY DEF PriorEligible
<1>4. PICK h : h = [at |-> "insert", eligible |-> f, raced |-> FALSE]
  OBVIOUS
<1>5. h \in Handlers /\ h.at = "insert" /\ h.eligible = f
  BY <1>4 DEF Handlers
<1>6. handler' = [handler EXCEPT ![i] = h] /\ entry' = [entry EXCEPT ![i] = e]
  BY <1>1, <1>2, <1>3, <1>4 DEF ReadPrior
<1>7. e.listed => e.eligible = f
  BY <1>2, <1>3 DEF PriorEligible, Listed, Entries
<1>. QED BY <1>5, <1>6, <1>7, IdeChanges

LEMMA ServerKeeps ==
    ASSUME PresenceTypeOK, FlagKept, Typed, NEW i \in Ides,
           ServerSteps(i) \/ SetEligibility(i)
    PROVE  PresenceTypeOK' /\ FlagKept'
<1>0. /\ entry \in [Ides -> Entries] /\ handler \in [Ides -> Handlers]
      /\ client \in [Ides -> Clients]
  BY DEF PresenceTypeOK, Entries, Handlers, Clients
<1>1. PICK e \in Entries, h \in Handlers : e = entry[i] /\ h = handler[i]
  BY <1>0
<1>2. CASE InsertEntry(i)
  <2>1. PICK n : n = [listed |-> TRUE, left |-> TTL, eligible |-> h.eligible]
    OBVIOUS
  <2>2. n \in Entries
    BY <2>1, Numbers DEF Entries, Handlers
  <2>3. PICK g : g = [h EXCEPT !.at = "mailbox"]
    OBVIOUS
  <2>4. g \in Handlers /\ g.at = "mailbox"
    BY <2>3 DEF Handlers
  <2>5. /\ entry' = [entry EXCEPT ![i] = n] /\ handler' = [handler EXCEPT ![i] = g]
        /\ UNCHANGED <<client, mailbox>>
    BY <1>1, <1>2, <2>1, <2>3 DEF InsertEntry, busVars
  <2>. QED BY <1>0, <2>2, <2>4, <2>5, IdeChanges
<1>3. CASE RegisterMailbox(i)
  <2>1. PICK g : g = NoHandler
    OBVIOUS
  <2>2. g \in Handlers /\ g.at = "none"
    BY <2>1 DEF Handlers, NoHandler
  <2>3. /\ entry' = [entry EXCEPT ![i] = e] /\ handler' = [handler EXCEPT ![i] = g]
        /\ client' = client /\ mailbox' = [mailbox EXCEPT ![i] = Empty]
    BY <1>0, <1>1, <1>3, <2>1 DEF RegisterMailbox, Register
  <2>4. mailbox'[i].open /\ \A j \in Ides : j # i => mailbox'[j] = mailbox[j]
    BY <2>3, ClosedFacts, MessageIsSomething DEF Typed
  <2>. QED BY <1>0, <2>2, <2>3, <2>4, IdeChanges
<1>4. CASE Drain(i)
  <2>1. \A j \in Ides : mailbox'[j].open = mailbox[j].open
    <3>1. mailbox' = [mailbox EXCEPT ![i].queue = Tail(@)]
      BY <1>4 DEF Drain, Recv
    <3>2. PICK q : q = Tail(mailbox[i].queue)
      OBVIOUS
    <3>3. PICK b : b = [mailbox[i] EXCEPT !.queue = q]
      OBVIOUS
    <3>4. b.open = mailbox[i].open
      BY <3>3, MessageIsSomething DEF Typed, Box
    <3>5. mailbox' = [mailbox EXCEPT ![i] = b]
      BY <3>1, <3>2, <3>3
    <3>. QED BY <3>4, <3>5, MessageIsSomething DEF Typed
  <2>. QED BY <1>0, <1>4, <2>1, ClientChanges DEF Drain, presenceVars
<1>5. CASE Sweep(i)
  <2>1. PICK n : n = NoEntry
    OBVIOUS
  <2>2. n \in Entries /\ ~n.listed
    BY <2>1, Numbers DEF NoEntry, Entries
  <2>3. /\ entry' = [entry EXCEPT ![i] = n] /\ handler' = [handler EXCEPT ![i] = h]
        /\ UNCHANGED <<client, mailbox>>
    BY <1>0, <1>1, <1>5, <2>1 DEF Sweep, busVars
  <2>. QED BY <1>0, <2>2, <2>3, IdeChanges
<1>6. CASE SetEligibility(i)
  <2>0. PICK flag \in BOOLEAN : entry' = [entry EXCEPT ![i].eligible = flag]
    BY <1>6 DEF SetEligibility
  <2>1. PICK n : n = [e EXCEPT !.eligible = flag]
    OBVIOUS
  <2>2. n \in Entries /\ n.listed = e.listed
    BY <2>1 DEF Entries
  <2>3. PICK x \in BOOLEAN : x = (h.raced \/ h.at = "insert")
    OBVIOUS
  <2>4. PICK g : g = [h EXCEPT !.raced = x]
    OBVIOUS
  <2>5. g \in Handlers /\ g.at = h.at /\ g.raced = x
    BY <2>4 DEF Handlers
  <2>6. /\ entry' = [entry EXCEPT ![i] = n] /\ handler' = [handler EXCEPT ![i] = g]
        /\ UNCHANGED <<client, mailbox>>
    BY <1>1, <1>6, <2>0, <2>1, <2>3, <2>4 DEF SetEligibility, busVars
  <2>7. e.listed /\ h.at = "none" => mailbox'[i].open
    BY <1>1, <2>6 DEF PresenceTypeOK, Listed
  <2>. QED BY <1>0, <2>2, <2>3, <2>5, <2>6, <2>7, IdeChanges
<1>. QED BY <1>2, <1>3, <1>4, <1>5, <1>6 DEF ServerSteps

LEMMA ClientKeeps ==
    ASSUME PresenceTypeOK, FlagKept, NEW i \in Ides,
           \/ Activate(i) \/ Heartbeat(i) \/ HeartbeatFails(i)
           \/ Deactivate(i) \/ Deregister(i) \/ Crash(i)
    PROVE  PresenceTypeOK' /\ FlagKept'
<1>0. /\ entry \in [Ides -> Entries] /\ handler \in [Ides -> Handlers]
      /\ client \in [Ides -> Clients]
  BY DEF PresenceTypeOK, Entries, Handlers, Clients
<1>1. PICK e \in Entries, h \in Handlers, c \in Clients :
          e = entry[i] /\ h = handler[i] /\ c = client[i]
  BY <1>0
<1>a. mailbox' = mailbox
  BY DEF Activate, Heartbeat, HeartbeatFails, Deactivate, Deregister, Crash, busVars
<1>2. CASE Activate(i)
  <2>1. client' \in [Ides -> Clients]
    BY <1>2, BecomesTyped DEF Activate
  <2>. QED BY <1>2, <1>a, <2>1, ReadPriorKeeps, ClientChanges DEF Activate
<1>3. CASE Heartbeat(i)
  <2>1. CASE ~Listed(i) /\ ReadPrior(i) /\ UNCHANGED <<entry, client>>
    BY <1>0, <1>a, <2>1, ReadPriorKeeps
  <2>2. CASE /\ Listed(i) /\ entry' = [entry EXCEPT ![i].left = TTL]
             /\ UNCHANGED <<client, handler>>
    <3>1. PICK n : n = [e EXCEPT !.left = TTL]
      OBVIOUS
    <3>2. n \in Entries /\ n.listed = e.listed /\ n.eligible = e.eligible
      BY <3>1, Numbers DEF Entries
    <3>3. entry' = [entry EXCEPT ![i] = n] /\ handler' = [handler EXCEPT ![i] = h]
      BY <1>0, <1>1, <2>2, <3>1
    <3>4. /\ e.listed /\ h.at = "none" => mailbox'[i].open
          /\ h.at = "insert" /\ e.listed /\ ~h.raced => e.eligible = h.eligible
      BY <1>1, <1>a DEF PresenceTypeOK, FlagKept, Listed
    <3>5. /\ client' \in [Ides -> Clients]
          /\ n.listed /\ h.at = "none" => mailbox'[i].open
          /\ h.at = "insert" /\ n.listed /\ ~h.raced => n.eligible = h.eligible
      BY <1>0, <2>2, <3>2, <3>4
    <3>. QED BY <1>a, <3>2, <3>3, <3>5, IdeChanges
  <2>. QED BY <1>3, <2>1, <2>2 DEF Heartbeat, HeartbeatOf
<1>4. CASE HeartbeatFails(i)
  <2>1. client' \in [Ides -> Clients]
    BY <1>0, <1>4, BecomesTyped DEF HeartbeatFails
  <2>. QED BY <1>4, <1>a, <2>1, ReadPriorKeeps, ClientChanges DEF HeartbeatFails
<1>5. CASE Deactivate(i)
  <2>1. client' \in [Ides -> Clients]
    BY <1>0, <1>5 DEF Deactivate, Clients
  <2>. QED BY <1>5, <1>a, <2>1, ClientChanges DEF Deactivate
<1>6. CASE Deregister(i)
  <2>1. PICK n : n = NoEntry
    OBVIOUS
  <2>2. n \in Entries /\ ~n.listed
    BY <2>1, Numbers DEF NoEntry, Entries
  <2>3. PICK d : d = [c EXCEPT !.leaving = FALSE]
    OBVIOUS
  <2>4. d \in Clients
    BY <2>3 DEF Clients
  <2>5. client' = [client EXCEPT ![i] = d]
    BY <1>1, <1>6, <2>3 DEF Deregister
  <2>6. entry' = [entry EXCEPT ![i] = n] /\ handler' = [handler EXCEPT ![i] = h]
    BY <1>0, <1>1, <1>6, <2>1 DEF Deregister
  <2>7. client' \in [Ides -> Clients]
    BY <1>0, <2>4, <2>5
  <2>. QED BY <1>a, <2>2, <2>6, <2>7, IdeChanges
<1>7. CASE Crash(i)
  <2>1. client' \in [Ides -> Clients]
    BY <1>7, BecomesTyped DEF Crash
  <2>. QED BY <1>7, <1>a, <2>1, ClientChanges DEF Crash
<1>. QED BY <1>2, <1>3, <1>4, <1>5, <1>6, <1>7

LEMMA TimeKeeps ==
    ASSUME PresenceTypeOK, FlagKept, TimePasses
    PROVE  PresenceTypeOK' /\ FlagKept'
<1>1. UNCHANGED <<client, handler, mailbox>>
  BY DEF TimePasses, busVars
<1>2. ASSUME NEW i \in Ides
      PROVE  /\ entry'[i] \in Entries /\ entry'[i].listed = entry[i].listed
             /\ entry'[i].eligible = entry[i].eligible
  <2>1. PICK e \in Entries : e = entry[i]
    BY DEF PresenceTypeOK, Entries
  <2>2. PICK n : n = [e EXCEPT !.left = @ - 1]
    OBVIOUS
  <2>3. n.listed = e.listed /\ n.eligible = e.eligible /\ (e.left >= 0 => n \in Entries)
    BY <2>2, Numbers DEF Entries
  <2>4. entry'[i] = IF Listed(i) /\ e.left >= 0 THEN n ELSE e
    BY <2>1, <2>2 DEF TimePasses
  <2>. QED BY <2>1, <2>3, <2>4
<1>3. entry' \in [Ides -> Entries]
  BY <1>2 DEF TimePasses
<1>. QED BY <1>1, <1>2, <1>3 DEF PresenceTypeOK, FlagKept, Listed, Entries

\* What the registry does to the bus: an IDE's mailbox is emptied, and no more.
LEMMA PresenceBus ==
    ASSUME Typed, PresenceNext
    PROVE  /\ UNCHANGED <<passing, heard>> /\ mailbox' \in [Names -> Box]
           /\ \A n \in Names : n \notin Ides => mailbox'[n] = mailbox[n]
           /\ \A n \in Names : /\ Len(mailbox'[n].queue) <= Capacity
                               /\ \A k \in DOMAIN mailbox'[n].queue :
                                     \E j \in DOMAIN mailbox[n].queue :
                                        mailbox'[n].queue[k] = mailbox[n].queue[j]
<1>1. CASE UNCHANGED busVars
  BY <1>1 DEF Typed, busVars
<1>2. CASE \E i \in Ides : RegisterMailbox(i)
  <2>1. PICK i \in Ides : RegisterMailbox(i)
    BY <1>2
  <2>2. UNCHANGED <<passing, heard>> /\ mailbox' = [mailbox EXCEPT ![i] = Empty]
    BY <2>1 DEF RegisterMailbox, Register
  <2>3. /\ mailbox' \in [Names -> Box] /\ mailbox'[i].queue = <<>>
        /\ \A n \in Names : n # i => mailbox'[n] = mailbox[n]
    BY <2>2, ClosedFacts, MessageIsSomething DEF Typed
  <2>4. Len(mailbox'[i].queue) <= Capacity /\ DOMAIN mailbox'[i].queue = {}
    BY <2>3, ClosedFacts
  <2>. QED BY <2>2, <2>3, <2>4 DEF Typed
<1>3. CASE \E i \in Ides : Drain(i)
  <2>1. PICK i \in Ides : Drain(i)
    BY <1>3
  <2>2. PICK q \in Seq(Message) : q = mailbox[i].queue
    BY BoxQueue, MessageIsSomething
  <2>3. /\ UNCHANGED <<passing, heard>> /\ q # <<>>
        /\ mailbox' = [mailbox EXCEPT ![i].queue = Tail(q)]
    BY <2>1, <2>2 DEF Drain, Recv
  <2>4. /\ Tail(q) \in Seq(Message) /\ Len(Tail(q)) = Len(q) - 1
        /\ \A k \in DOMAIN Tail(q) : k + 1 \in DOMAIN q /\ Tail(q)[k] = q[k + 1]
    BY <2>2, <2>3, TailFacts
  <2>5. PICK b : b = [mailbox[i] EXCEPT !.queue = Tail(q)]
    OBVIOUS
  <2>6. b \in Box /\ b.queue = Tail(q)
    <3>1. mailbox[i] \in Box
      BY MessageIsSomething DEF Typed
    <3>. QED BY <2>4, <2>5, <3>1 DEF Box
  <2>7. mailbox' = [mailbox EXCEPT ![i] = b]
    BY <2>3, <2>5
  <2>8. /\ mailbox' \in [Names -> Box] /\ mailbox'[i] = b
        /\ \A n \in Names : n # i => mailbox'[n] = mailbox[n]
    BY <2>6, <2>7, MessageIsSomething DEF Typed
  <2>9. Len(b.queue) <= Capacity
    <3>1. Len(q) \in Nat /\ Len(q) <= Capacity /\ Capacity \in Nat
      BY <2>2, Numbers, MessageIsSomething DEF Typed
    <3>. QED BY <2>4, <2>6, <3>1
  <2>10. \A k \in DOMAIN b.queue : \E j \in DOMAIN mailbox[i].queue :
             b.queue[k] = mailbox[i].queue[j]
    BY <2>2, <2>4, <2>6
  <2>11. ASSUME NEW n \in Names
         PROVE  /\ Len(mailbox'[n].queue) <= Capacity
                /\ \A k \in DOMAIN mailbox'[n].queue :
                      \E j \in DOMAIN mailbox[n].queue :
                         mailbox'[n].queue[k] = mailbox[n].queue[j]
    <3>1. CASE n = i
      BY <2>8, <2>9, <2>10, <3>1
    <3>2. CASE n # i
      BY <2>8, <3>2 DEF Typed
    <3>. QED BY <3>1, <3>2
  <2>. QED BY <2>3, <2>8, <2>11
<1>4. \/ UNCHANGED busVars \/ \E i \in Ides : RegisterMailbox(i) \/ Drain(i)
  BY DEF PresenceNext, ServerSteps, InsertEntry, SetEligibility, Sweep, Activate, Heartbeat,
         HeartbeatFails, Deactivate, Deregister, Crash, TimePasses
<1>. QED BY <1>1, <1>2, <1>3, <1>4

LEMMA PresenceStep ==
    ASSUME MeshInv, PresenceNext, UNCHANGED meshVars
    PROVE  MeshInv'
<1>0. /\ Typed /\ PresenceTypeOK /\ Boxes /\ FlagKept /\ Letters /\ Answered
      /\ \A u \in Tasks : Placed(u)
  BY DEF MeshInv
<1>1. UNCHANGED <<serving, asking, counter, log>>
  BY DEF meshVars
<1>2. /\ UNCHANGED <<passing, heard>> /\ mailbox' \in [Names -> Box]
      /\ \A n \in Names : n \notin Ides => mailbox'[n] = mailbox[n]
      /\ \A n \in Names : /\ Len(mailbox'[n].queue) <= Capacity
                          /\ \A k \in DOMAIN mailbox'[n].queue :
                                \E j \in DOMAIN mailbox[n].queue :
                                   mailbox'[n].queue[k] = mailbox[n].queue[j]
  BY <1>0, PresenceBus
<1>3. /\ \A a \in Agents : mailbox'[a] = mailbox[a]
      /\ \A r \in Requesters : mailbox'[r] = mailbox[r]
  BY <1>2, BusAssumption, MessageIsSomething
<1>4. Typed'
  BY <1>0, <1>1, <1>2 DEF Typed
<1>5. Boxes'
  BY <1>0, <1>1, <1>3 DEF Boxes, Open
<1>6. PresenceTypeOK' /\ FlagKept'
  BY <1>0, ServerKeeps, ClientKeeps, TimeKeeps DEF PresenceNext
<1>7. Steady
  <2>1. log.started \in Nat
    BY <1>0 DEF Typed, Logs
  <2>. QED BY <1>1, <2>1 DEF Steady
<1>8. Letters'
  <2>1. /\ passing' \subseteq Message
        /\ \A x \in passing' : x.from \in Requesters => asking'[x.from].at = "sending"
    BY <1>0, <1>1, <1>2 DEF Typed, Letters
  <2>. QED BY <1>0, <1>1, <1>2, <1>7, <2>1, LettersStay
<1>9. Answered'
  BY <1>0, <1>1, <1>3 DEF Answered, Open
<1>10. \A u \in Tasks : Placed(u)'
  BY <1>0, <1>1, <1>2, <1>3, PlacedStays
<1>. QED BY <1>4, <1>5, <1>6, <1>8, <1>9, <1>10 DEF MeshInv

-----------------------------------------------------------------------------
(* A restart of the server                                                   *)

LEMMA RestartStep ==
    ASSUME MeshInv, Restart
    PROVE  MeshInv'
<1>0. /\ Typed /\ PresenceTypeOK /\ Boxes /\ FlagKept /\ Letters /\ Answered
      /\ \A u \in Tasks : Placed(u)
  BY DEF MeshInv
<1>1. /\ mailbox' = [n \in Names |-> IF n \in Agents THEN Empty ELSE Closed]
      /\ passing' = {} /\ UNCHANGED <<heard, client, counter>>
      /\ entry' = [i \in Ides |-> NoEntry] /\ handler' = [i \in Ides |-> NoHandler]
      /\ serving' = [a \in Agents |-> Nothing]
  BY DEF Restart
<1>2. /\ mailbox' \in [Names -> Box]
      /\ \A n \in Names : /\ mailbox'[n].queue = <<>> /\ DOMAIN mailbox'[n].queue = {}
                          /\ Len(mailbox'[n].queue) <= Capacity
                          /\ mailbox'[n].open <=> n \in Agents
  <2>1. \A n \in Names : mailbox'[n] \in Box /\ mailbox'[n].queue = <<>>
                         /\ (mailbox'[n].open <=> n \in Agents)
    BY <1>1, ClosedFacts
  <2>2. Len(<<>>) <= Capacity /\ DOMAIN <<>> = {}
    BY ClosedFacts
  <2>. QED BY <1>1, <2>1, <2>2
<1>3. PICK lost : lost = [t \in Tasks |-> log.lost[t] + Copies(t)]
  OBVIOUS
<1>4. ASSUME NEW t \in Tasks
      PROVE  /\ lost[t] = log.lost[t] + (IF OnItsWay(t) \/ WithAgent(t) \/ InMailbox(t)
                                         THEN 1 ELSE 0)
             /\ lost[t] \in Nat
  <2>1. Copies(t) = IF OnItsWay(t) \/ WithAgent(t) \/ InMailbox(t) THEN 1 ELSE 0
    BY <1>0, CopiesCount DEF Placed
  <2>2. log.lost[t] \in Nat
    BY <1>0 DEF Typed, Logs
  <2>. QED BY <1>3, <2>1, <2>2
<1>5. /\ log' \in Logs /\ log'.started = log.started /\ log'.by = log.by
      /\ log'.results = log.results /\ log'.lost = lost
  <2>1. log \in Logs
    BY <1>0 DEF Typed
  <2>2. PICK n \in Nat : n = log.restarts + 1
    BY <2>1 DEF Logs
  <2>3. log' = [log EXCEPT !.restarts = n, !.lost = lost]
    BY <1>3, <2>2 DEF Restart
  <2>4. lost \in [Tasks -> Nat]
    BY <1>3, <1>4
  <2>. QED BY <2>1, <2>3, <2>4 DEF Logs
<1>6. ASSUME NEW r \in Requesters
      PROVE  /\ asking'[r] \in Askings
             /\ asking'[r].id = asking[r].id /\ asking'[r].ide = asking[r].ide
             /\ asking'[r].met = asking[r].met /\ ~Open(r)'
             /\ asking'[r].at = "idle" <=> asking[r].at = "idle"
             /\ Open(r) => asking'[r].at = "over" /\ asking'[r].got = "restart"
             /\ ~Open(r) => asking'[r] = asking[r]
  <2>1. PICK x \in Askings : x = asking[r]
    BY <1>0 DEF Typed
  <2>2. PICK y : y = [x EXCEPT !.at = "over", !.got = "restart"]
    OBVIOUS
  <2>3. /\ y \in Askings /\ y.id = x.id /\ y.ide = x.ide /\ y.met = x.met
        /\ y.at = "over" /\ y.got = "restart"
    BY <2>2 DEF Askings
  <2>4. asking'[r] = IF Open(r) THEN y ELSE x
    BY <2>1, <2>2 DEF Restart, Open
  <2>. QED BY <2>1, <2>3, <2>4 DEF Open
<1>7. Typed'
  <2>1. asking' \in [Requesters -> Askings]
    BY <1>6 DEF Restart
  <2>. QED BY <1>0, <1>1, <1>2, <1>5, <2>1 DEF Typed
<1>8. Boxes'
  BY <1>2, <1>6, BusAssumption, MessageIsSomething DEF Boxes
<1>9. PresenceTypeOK' /\ FlagKept'
  <2>1. NoEntry \in Entries /\ ~NoEntry.listed /\ NoHandler \in Handlers
    BY Numbers DEF NoEntry, Entries, NoHandler, Handlers
  <2>2. /\ entry' \in [Ides -> Entries] /\ handler' \in [Ides -> Handlers]
        /\ \A i \in Ides : ~entry'[i].listed
    BY <1>1, <2>1
  <2>. QED BY <1>0, <1>1, <2>2
       DEF PresenceTypeOK, FlagKept, Listed, Entries, Handlers
<1>10. Steady
  <2>1. log.started \in Nat
    BY <1>0 DEF Typed, Logs
  <2>. QED BY <1>5, <1>6, <2>1 DEF Steady
<1>11. Letters'
  <2>1. \A a \in Agents : serving'[a] = Nothing
    BY <1>1
  <2>. QED BY <1>0, <1>1, <1>2, <1>10, <2>1, LettersStay
<1>12. Answered'
  BY <1>0, <1>6 DEF Answered
<1>13. ASSUME NEW u \in Tasks PROVE Placed(u)'
  <2>0. Placed(u) /\ log.lost[u] \in Nat
    BY <1>0 DEF Typed, Logs
  <2>1. ~OnItsWay(u)' /\ ~WithAgent(u)' /\ ~InMailbox(u)'
    <3>1. ~Carries(Nothing, u)
      BY NothingIsALetter DEF Carries
    <3>. QED BY <1>1, <1>2, <3>1, MessageIsSomething
         DEF OnItsWay, WithAgent, InMailbox, Carries
  <2>2. Finished(u)' <=> Finished(u)
    BY <1>5 DEF Finished
  <2>3. Lost(u)' <=> Lost(u) \/ OnItsWay(u) \/ WithAgent(u) \/ InMailbox(u)
    BY <1>4, <1>5, <2>0 DEF Lost
  <2>4. OnePlace(u)'
    <3>1. OnePlace(u)
      BY <2>0 DEF Placed
    <3>. QED BY <1>5, <2>1, <2>2, <2>3, <3>1 DEF OnePlace
  <2>5. OneCopy(u)'
    BY <2>1 DEF OneCopy, OnItsWay, WithAgent, InMailbox, Carries
  <2>6. OneEnd(u)'
    <3>1. log'.lost[u] <= 1
      <4>1. OnItsWay(u) \/ WithAgent(u) \/ InMailbox(u) => log.lost[u] = 0
        BY <2>0 DEF Placed, OnePlace, Lost
      <4>2. log.lost[u] <= 1
        BY <2>0 DEF Placed, OneEnd
      <4>. QED BY <1>4, <1>5, <2>0, <4>1, <4>2
    <3>. QED BY <1>5, <2>0, <3>1 DEF Placed, OneEnd
  <2>. QED BY <2>4, <2>5, <2>6 DEF Placed
<1>. QED BY <1>7, <1>8, <1>9, <1>11, <1>12, <1>13 DEF MeshInv

-----------------------------------------------------------------------------
(* The theorems                                                              *)

LEMMA MeshSteps == MeshInv /\ [MeshNext]_vars => MeshInv'
<1>. SUFFICES ASSUME MeshInv, [MeshNext]_vars PROVE MeshInv'
  OBVIOUS
<1>1. CASE \E a \in Agents : AgentSteps(a)
  BY <1>1, ReceiveStep, AnswerStep DEF AgentSteps
<1>2. CASE \E a \in Agents : \E n \in Ides \cup Agents, chain \in Chains :
              StartTask(n, a, chain)
  BY <1>2, StartStep
<1>3. CASE \E r \in Requesters : Accept(r) \/ TimeOut(r)
  BY <1>3, AcceptStep, TimeOutStep
<1>4. CASE \E r \in Requesters : \E i \in Ides : Ask(r, i)
  BY <1>4, AskStep
<1>5. CASE \E i \in Ides : \E m \in heard[i] : IdeAnswers(i, m) \/ IdeIgnores(i, m)
  BY <1>5, IdeStep
<1>6. CASE \E m \in passing : Route(m)
  BY <1>6, RouteStep
<1>7. CASE PresenceNext /\ UNCHANGED meshVars
  BY <1>7, PresenceStep
<1>8. CASE Restart
  BY <1>8, RestartStep
<1>9. CASE UNCHANGED vars
  <2>1. UNCHANGED <<mailbox, passing, heard, entry, client, handler, serving, asking,
                    counter, log>>
    BY <1>9 DEF vars, busVars, presenceVars, meshVars
  <2>. USE <2>1 DEF MeshInv
  <2>2. Typed' /\ Answered'
    BY DEF Typed, Answered, Open
  <2>3. Boxes' /\ PresenceTypeOK' /\ FlagKept'
    BY BoxesStay DEF presenceVars
  <2>4. Letters'
    <3>1. Steady
      BY DEF Steady, Typed, Logs
    <3>2. /\ passing' \subseteq Message
          /\ \A m \in passing' : m.from \in Requesters => asking'[m.from].at = "sending"
      BY DEF Typed, Letters
    <3>. QED BY <3>1, <3>2, LettersStay
  <2>5. \A u \in Tasks : Placed(u)'
    BY PlacedStays
  <2>. QED BY <2>2, <2>3, <2>4, <2>5
<1>. QED BY <1>1, <1>2, <1>3, <1>4, <1>5, <1>6, <1>7, <1>8, <1>9 DEF MeshNext

\* The whole of it holds in every state.
THEOREM MeshHolds == MeshSpec => []MeshInv
BY MeshStart, MeshSteps, PTL DEF MeshSpec

\* Every variable keeps its type, mailboxes never hold more than they may,
\* requesters have one exactly while their exchange is open, and listed IDEs
\* have one when no registration is under way (bus.rs, presence.rs, swarm.rs).
THEOREM MeshTypes == MeshSpec => []MeshTypeOK
<1>1. MeshInv => MeshTypeOK
  <2>. SUFFICES ASSUME MeshInv PROVE MeshTypeOK
    OBVIOUS
  <2>. USE DEF MeshInv
  <2>1. \A n \in Names : /\ mailbox[n].open \in BOOLEAN
                         /\ mailbox[n].queue \in Seq(Message)
                         /\ Len(mailbox[n].queue) <= Capacity
    BY DEF Typed, Box
  <2>2. \A r \in Requesters :
           /\ asking[r].at \in {"idle", "sending", "waiting", "over"}
           /\ asking[r].got \in {"none", "answer", "timeout", "refused", "restart"}
           /\ mailbox[r].open <=> asking[r].at \in {"sending", "waiting"}
    BY DEF Typed, Askings, Boxes, Open
  <2>. QED BY <2>1, <2>2 DEF Typed, MeshTypeOK
<1>. QED BY <1>1, MeshHolds, PTL

\* A task that was started is with one agent, on its way to one, done with one
\* result that went to whoever started it, or lost, and only one of these,
\* whatever chain of agents it takes (lib.rs:755-758, 786-803).
THEOREM TasksHaveOneResult == MeshSpec => []OneResult
<1>1. MeshInv => OneResult
  <2>. SUFFICES ASSUME MeshInv, NEW t \in 1..log.started
                PROVE  /\ Len(log.results[t]) + Copies(t) + log.lost[t] = 1
                       /\ \A k \in DOMAIN log.results[t] : log.results[t][k] = log.by[t]
    BY DEF OneResult
  <2>1. Typed /\ log \in Logs /\ log.started \in Nat /\ log.started <= MaxTasks
    BY DEF MeshInv, Typed, Logs
  <2>2. t \in Tasks /\ t <= log.started
    BY <2>1, Numbers DEF Tasks
  <2>3. OnePlace(t) /\ OneCopy(t) /\ OneEnd(t)
    BY <2>2 DEF MeshInv, Placed
  <2>4. Copies(t) = IF OnItsWay(t) \/ WithAgent(t) \/ InMailbox(t) THEN 1 ELSE 0
    BY <2>1, <2>2, <2>3, CopiesCount
  <2>5. log.lost[t] \in Nat /\ log.results[t] \in Seq(Names)
    BY <2>1, <2>2 DEF Logs
  <2>6. Len(log.results[t]) \in Nat /\ (Finished(t) <=> Len(log.results[t]) # 0)
    BY <2>5 DEF Finished
  <2>7. Len(log.results[t]) + Copies(t) + log.lost[t] = 1
    <3>1. log.lost[t] <= 1 /\ Len(log.results[t]) <= 1
      BY <2>3 DEF OneEnd
    <3>2. Lost(t) <=> log.lost[t] # 0
      BY DEF Lost
    <3>3. /\ ~(Finished(t) /\ Lost(t))
          /\ Finished(t) \/ Lost(t) => ~OnItsWay(t) /\ ~WithAgent(t) /\ ~InMailbox(t)
          /\ OnItsWay(t) \/ WithAgent(t) \/ InMailbox(t) \/ Finished(t) \/ Lost(t)
      BY <2>2, <2>3 DEF OnePlace
    <3>4. PICK l \in Nat, c \in Nat, n \in Nat :
              l = Len(log.results[t]) /\ c = Copies(t) /\ n = log.lost[t]
      BY <2>4, <2>5, <2>6
    <3>5. /\ l = IF Finished(t) THEN 1 ELSE 0
          /\ n = IF Lost(t) THEN 1 ELSE 0
      BY <2>6, <3>1, <3>2, <3>4
    <3>6. /\ l \in {0, 1} /\ c \in {0, 1} /\ n \in {0, 1}
          /\ l = 1 => c = 0 /\ n = 0
          /\ n = 1 => c = 0
          /\ l = 1 \/ c = 1 \/ n = 1
      BY <2>4, <3>3, <3>4, <3>5
    <3>7. l + c + n = 1
      BY <3>6
    <3>. QED BY <3>4, <3>7
  <2>. QED BY <2>3, <2>7 DEF OneEnd
<1>. QED BY <1>1, MeshHolds, PTL

\* No answer of an IDE that came in time is passed over, if its id survives the
\* IDE's arithmetic (bus.rs:225-249).
THEOREM AnswersAreNotMissed == MeshSpec => []AnswersAreTaken
<1>1. MeshInv => AnswersAreTaken
  BY DEF MeshInv, Answered, AnswersAreTaken
<1>. QED BY <1>1, MeshHolds, PTL

\* The operator's choice survives registrations, heartbeats, sweeps and
\* everything the bus does, but for the moment between the two locks
\* (presence.rs:173-175, 188-193).
THEOREM FlagsSurvive == MeshSpec => FlagSurvives
<1>. DEFINE Kept(i) == Listed(i) /\ Listed(i)' /\ entry[i].eligible # entry'[i].eligible
                       => SetEligibility(i) \/ handler[i].raced
<1>1. ASSUME MeshInv, [MeshNext]_vars, NEW i \in Ides PROVE Kept(i)
  <2>1. PresenceTypeOK /\ FlagKept
    BY <1>1 DEF MeshInv
  <2>2. CASE UNCHANGED entry
    BY <2>2
  <2>3. CASE \E j \in Ides : InsertEntry(j)
    <3>1. PICK j \in Ides : InsertEntry(j)
      BY <2>3
    <3>2. CASE j = i
      <4>1. entry'[i].eligible = handler[i].eligible /\ handler[i].at = "insert"
        BY <2>1, <3>1, <3>2 DEF InsertEntry, PresenceTypeOK
      <4>. QED BY <2>1, <4>1 DEF FlagKept
    <3>3. CASE j # i
      BY <2>1, <3>1, <3>3 DEF InsertEntry, PresenceTypeOK
    <3>. QED BY <3>2, <3>3
  <2>4. CASE \E j \in Ides : SetEligibility(j)
    <3>1. PICK j \in Ides : SetEligibility(j)
      BY <2>4
    <3>2. CASE j # i
      BY <2>1, <3>1, <3>2 DEF SetEligibility, PresenceTypeOK
    <3>. QED BY <3>1, <3>2
  <2>5. CASE \E j \in Ides : Sweep(j) \/ Deregister(j)
    <3>1. PICK j \in Ides : entry' = [entry EXCEPT ![j] = NoEntry]
      BY <2>5 DEF Sweep, Deregister
    <3>. QED BY <2>1, <3>1 DEF PresenceTypeOK, Listed, NoEntry
  <2>6. CASE \E j \in Ides : entry' = [entry EXCEPT ![j].left = TTL]
    BY <2>1, <2>6 DEF PresenceTypeOK
  <2>7. CASE TimePasses
    <3>1. PICK n : n = [entry[i] EXCEPT !.left = @ - 1]
      OBVIOUS
    <3>2. n.eligible = entry[i].eligible
      BY <2>1, <3>1 DEF PresenceTypeOK
    <3>3. entry'[i] = n \/ entry'[i] = entry[i]
      BY <2>7, <3>1 DEF TimePasses
    <3>. QED BY <3>2, <3>3
  <2>8. CASE Restart
    BY <2>8 DEF Restart, Listed, NoEntry
  <2>9. CASE PresenceNext
    BY <2>2, <2>3, <2>4, <2>5, <2>6, <2>7, <2>9
    DEF PresenceNext, ServerSteps, RegisterMailbox, Drain, Activate, Heartbeat, HeartbeatOf,
        HeartbeatFails, Deactivate, Crash, presenceVars
  <2>10. CASE ~PresenceNext /\ ~Restart
    BY <1>1, <2>2, <2>10
    DEF MeshNext, AgentSteps, Receive, Answer, StartTask, Ask, Accept, TimeOut, IdeAnswers,
        IdeIgnores, Route, vars, presenceVars
  <2>. QED BY <2>8, <2>9, <2>10
<1>2. MeshInv /\ [MeshNext]_vars =>
          [\A i \in Ides :
              /\ Listed(i) /\ Listed(i)'
              /\ entry[i].eligible # entry'[i].eligible
              => SetEligibility(i) \/ handler[i].raced]_<<presenceVars, busVars>>
  BY <1>1
<1>. QED BY <1>2, MeshHolds, PTL DEF MeshSpec, FlagSurvives
=============================================================================
