------------------------- MODULE SourceCheck_proofs -------------------------
(***************************************************************************)
(* Proofs about SourceCheck.  Whatever sweeps, decisions and edits do to   *)
(* each other, every step is a step of KnowledgeStore or changes nothing   *)
(* of it: SweepsUseStore.  So all that KnowledgeStore_proofs shows of Spec *)
(* holds of the store under its sweeps; EvidenceStandsUnderSweeps is the   *)
(* part a reader of sourcecheck.rs relies on.  With one call at a time on  *)
(* each claim, a sweep that nothing disturbed stays on course (CourseInv): *)
(* what a new list would hold is still to come, in hand, or has nothing    *)
(* left to do.                                                             *)
(***************************************************************************)
EXTENDS SourceCheck, KnowledgeSerial_proofs

(* The calls a sweep may have in hand are those Next offers. *)
Offered(item, k) ==
  \/ /\ k.new /\ k.status = "Observed"
     /\ \E e \in Evidence : k.evidence = <<e>>
  \/ /\ ~k.new /\ k.status \in {"Verified", "Observed"}
     /\ \E e \in Evidence : e.supports /\ k.evidence = <<e>>
  \/ ~k.new /\ k.status = "Stale" /\ k.evidence = <<>>

Sound(item, calls) ==
  /\ calls \in Seq(StoreCall)
  /\ \A i \in DOMAIN calls : Offered(item, calls[i])

GoodItem(item) == item.claim \in Claims /\ item.file \in Entities

GoodSweep(s) ==
  /\ s = [kind |-> s.kind, todo |-> s.todo, doing |-> s.doing, alone |-> s.alone]
  /\ s.kind \in Kinds
  /\ \A item \in s.todo : GoodItem(item)
  /\ s.doing # None =>
       /\ s.doing = [item |-> s.doing.item, calls |-> s.doing.calls]
       /\ GoodItem(s.doing.item)
       /\ s.doing.calls # <<>>
       /\ Sound(s.doing.item, s.doing.calls)

SweepInv ==
  /\ StoreInv
  /\ source \in [Entities -> Contents \cup {Missing}]
  /\ DOMAIN sweep = Workers
  /\ \A w \in Workers : sweep[w] # None =>
       /\ GoodSweep(sweep[w])
       /\ call[w] # Idle => sweep[w].doing # None

-----------------------------------------------------------------------------

LEMMA ExcerptIsEvidence ==
  ASSUME NEW x \in Contents \cup UNION Contents
  PROVE  [supports |-> TRUE, excerpt |-> x] \in Evidence
BY ExcerptAssumption

LEMMA OneIsSound ==
  ASSUME NEW item, NEW k \in StoreCall, Offered(item, k)
  PROVE  Sound(item, <<k>>)
BY DEF Sound

LEMMA TwoAreSound ==
  ASSUME NEW item, NEW k \in StoreCall, NEW l \in StoreCall,
         Offered(item, k), Offered(item, l)
  PROVE  Sound(item, <<k, l>>)
BY DEF Sound

LEMMA SubstantiateIsSound ==
  ASSUME SweepInv, NEW item, GoodItem(item), NEW c, NEW f \in Entities,
         NEW calls \in Substantiate(c, f)
  PROVE  Sound(item, calls)
<1>1. CASE calls = <<>>
  BY <1>1 DEF Sound
<1>2. CASE calls # <<>>
  <2>1. Readable(f) /\ \E line \in BestLines(c, source[f]) : calls = Promotion(line)
    BY <1>2 DEF Substantiate
  <2>2. source[f] \in Contents
    BY <2>1 DEF Readable, SweepInv
  <2>3. PICK line \in source[f] : calls = Promotion(line)
    BY <2>1 DEF BestLines
  <2> DEFINE e == [supports |-> TRUE, excerpt |-> line]
  <2>4. e \in Evidence /\ e.supports
    BY <2>2, <2>3, ExcerptIsEvidence
  <2> DEFINE k == [new |-> FALSE, status |-> "Verified", evidence |-> <<e>>]
  <2>5. calls = <<k>>
    BY <2>3 DEF Promotion
  <2>6. k.evidence = <<e>> /\ k.status = "Verified" /\ ~k.new
    OBVIOUS
  <2>7. k \in StoreCall
    BY <2>4 DEF StoreCall, Statuses
  <2>8. Offered(item, k)
    BY <2>4, <2>6 DEF Offered
  <2> HIDE DEF k
  <2> QED
    BY <2>5, <2>7, <2>8 DEF Sound
<1> QED
  BY <1>1, <1>2

LEMMA StaleIsSound ==
  ASSUME NEW item
  PROVE  MarkedStale \in StoreCall /\ Offered(item, MarkedStale)
BY DEF MarkedStale, StoreCall, Statuses, Offered

LEMMA ObservationIsSound ==
  ASSUME SweepInv, NEW item, NEW f \in Entities, Readable(f), NEW new \in BOOLEAN
  PROVE  Observation(f, new) \in StoreCall /\ Offered(item, Observation(f, new))
<1> DEFINE e == Fingerprint(f)
<1>1. source[f] \in Contents
  BY DEF Readable, SweepInv
<1>2. e \in Evidence /\ e.supports
  BY <1>1, ExcerptIsEvidence DEF Fingerprint
<1> HIDE DEF e
<1> DEFINE k == [new |-> new, status |-> "Observed", evidence |-> <<e>>]
<1>3. k = Observation(f, new)
  BY DEF Observation, e
<1>4. k.new = new /\ k.status = "Observed" /\ k.evidence = <<e>>
  OBVIOUS
<1>5. k \in StoreCall
  BY <1>2 DEF StoreCall, Statuses
<1>6. Offered(item, k)
  BY <1>2, <1>4 DEF Offered
<1> QED
  BY <1>3, <1>5, <1>6

LEMMA CallsAreSound ==
  ASSUME SweepInv, NEW kind \in Kinds, NEW item, GoodItem(item),
         NEW calls \in Calls(kind, item)
  PROVE  Sound(item, calls)
<1>0. item.claim \in Claims /\ item.file \in Entities
  BY DEF GoodItem
<1>1. CASE kind = "verify"
  <2>1. calls \in VerifyCalls(item.claim)
    BY <1>1 DEF Calls
  <2>2. CASE calls = <<>>
    BY <2>2 DEF Sound
  <2>3. CASE calls # <<>>
    <3>1. Exists(item.claim) /\ calls \in Substantiate(item.claim, Latest(item.claim).subject)
      BY <2>1, <2>3 DEF VerifyCalls
    <3>2. Latest(item.claim).subject \in Entities
      BY <1>0, <3>1, LatestIsStored DEF SweepInv, Revision
    <3> QED
      BY <3>1, <3>2, SubstantiateIsSound
  <2> QED
    BY <2>2, <2>3
<1>2. CASE kind = "refresh"
  <2>1. calls = <<>> \/ calls = <<MarkedStale>>
    BY <1>2 DEF Calls, RefreshCalls
  <2> QED
    <3>1. CASE calls = <<>>
      BY <3>1 DEF Sound
    <3>2. CASE calls = <<MarkedStale>>
      BY <3>2, StaleIsSound, OneIsSound
    <3> QED
      BY <2>1, <3>1, <3>2
<1>3. CASE kind = "heal"
  <2>1. calls \in Substantiate(item.claim, item.file)
    BY <1>3 DEF Calls
  <2> QED
    BY <1>0, <2>1, SubstantiateIsSound
<1>4. CASE kind = "index"
  <2>1. calls \in IndexCalls(item.claim, item.file)
    BY <1>4 DEF Calls
  <2>2. \/ calls = <<>>
        \/ Readable(item.file) /\ calls = <<Observation(item.file, TRUE)>>
        \/ Readable(item.file) /\ calls = <<MarkedStale, Observation(item.file, FALSE)>>
    BY <2>1 DEF IndexCalls
  <2>3. CASE calls = <<>>
    BY <2>3 DEF Sound
  <2>4. CASE Readable(item.file) /\ calls = <<Observation(item.file, TRUE)>>
    <3>1. /\ Observation(item.file, TRUE) \in StoreCall
          /\ Offered(item, Observation(item.file, TRUE))
      BY <1>0, <2>4, ObservationIsSound
    <3> QED
      BY <2>4, <3>1, OneIsSound
  <2>5. CASE Readable(item.file) /\ calls = <<MarkedStale, Observation(item.file, FALSE)>>
    <3>1. /\ Observation(item.file, FALSE) \in StoreCall
          /\ Offered(item, Observation(item.file, FALSE))
      BY <1>0, <2>5, ObservationIsSound
    <3>2. MarkedStale \in StoreCall /\ Offered(item, MarkedStale)
      BY StaleIsSound
    <3> QED
      BY <2>5, <3>1, <3>2, TwoAreSound
  <2> QED
    BY <2>2, <2>3, <2>4, <2>5
<1> QED
  BY <1>1, <1>2, <1>3, <1>4 DEF Kinds

-----------------------------------------------------------------------------
(* Every step is one of the store, or leaves the store alone. *)

LEMMA ActIsCall ==
  ASSUME SweepInv, NEW w \in Workers, Act(w)
  PROVE  \E c \in Claims : Call(w, c)
<1> DEFINE item == sweep[w].doing.item
           k == NextCall(w)
<1>1. /\ GoodItem(item)
      /\ sweep[w].doing.calls # <<>>
      /\ Sound(item, sweep[w].doing.calls)
  BY DEF Act, InHand, SweepInv, GoodSweep
<1>2. Offered(item, k)
  <2>1. 1 \in DOMAIN sweep[w].doing.calls
    BY <1>1 DEF Sound
  <2>2. k = sweep[w].doing.calls[1]
    BY <1>1, <2>1 DEF Sound, NextCall
  <2> QED
    BY <1>1, <2>1, <2>2 DEF Sound
<1>3. PICK by \in Provenances :
        IF k.new
        THEN AddClaim(w, item.claim,
                      [subject |-> item.file, object |-> NoEntity, status |-> k.status,
                       evidence |-> k.evidence, by |-> by, superseded |-> 0])
        ELSE Advance(w, item.claim, k.status, k.evidence, by)
  BY DEF Act
<1> HIDE DEF item, k
<1>4. item.claim \in Claims /\ item.file \in Entities
  BY <1>1 DEF GoodItem
<1>5. CASE k.new
  <2>1. PICK e \in Evidence : k.status = "Observed" /\ k.evidence = <<e>>
    BY <1>2, <1>5 DEF Offered
  <2>2. AddClaim(w, item.claim,
                 [subject |-> item.file, object |-> NoEntity, status |-> "Observed",
                  evidence |-> <<e>>, by |-> by, superseded |-> 0])
    BY <1>3, <1>5, <2>1
  <2>3. AddObservation(w, item.claim)
    BY <1>4, <2>2 DEF AddObservation
  <2> QED
    BY <1>4, <2>3 DEF Call
<1>6. CASE ~k.new
  <2>1. Advance(w, item.claim, k.status, k.evidence, by)
    BY <1>3, <1>6
  <2>2. CASE k.status = "Verified"
    <3>1. PICK e \in Evidence : e.supports /\ k.evidence = <<e>>
      BY <1>2, <1>6, <2>2 DEF Offered
    <3>2. VerifyClaim(w, item.claim)
      BY <2>1, <2>2, <3>1 DEF VerifyClaim
    <3> QED
      BY <1>4, <3>2 DEF Call
  <2>3. CASE k.status = "Observed"
    <3>1. PICK e \in Evidence : e.supports /\ k.evidence = <<e>>
      BY <1>2, <1>6, <2>3 DEF Offered
    <3>2. RefreshObserved(w, item.claim)
      BY <2>1, <2>3, <3>1 DEF RefreshObserved
    <3> QED
      BY <1>4, <3>2 DEF Call
  <2>4. CASE k.status = "Stale" /\ k.evidence = <<>>
    <3>1. MarkStale(w, item.claim)
      BY <2>1, <2>4 DEF MarkStale
    <3> QED
      BY <1>4, <3>1 DEF Call
  <2> QED
    BY <1>2, <1>6, <2>2, <2>3, <2>4 DEF Offered
<1> QED
  BY <1>5, <1>6

LEMMA ByHandIsCall ==
  ASSUME NEW w \in Workers, NEW c \in Claims, Propose(w, c) \/ Decide(w, c)
  PROVE  Call(w, c)
<1>1. CASE Propose(w, c)
  <2>1. PICK f \in Entities, by \in Provenances :
          AddClaim(w, c, [subject |-> f, object |-> NoEntity, status |-> "Proposed",
                          evidence |-> <<>>, by |-> by, superseded |-> 0])
    BY <1>1 DEF Propose
  <2>2. AddProposal(w, c)
    BY <2>1, ObjectFacts DEF AddProposal
  <2> QED
    BY <2>2 DEF Call
<1>2. CASE Decide(w, c)
  <2>1. PICK e \in Evidence, by \in Provenances :
          Advance(w, c, IF e.supports THEN "Verified" ELSE "Refuted", <<e>>, by)
    BY <1>2 DEF Decide
  <2>2. CASE e.supports
    BY <2>1, <2>2 DEF VerifyClaim, Call
  <2>3. CASE ~e.supports
    BY <2>1, <2>3 DEF RefuteClaim, Call
  <2> QED
    BY <2>2, <2>3
<1> QED
  BY <1>1, <1>2

LEMMA StepUsesStore ==
  ASSUME SweepInv, [SweepNext]_sweepVars
  PROVE  [Next]_vars
<1>1. ASSUME NEW w \in Workers, NEW kind \in Kinds, StartSweep(w, kind)
      PROVE  UNCHANGED vars
  BY <1>1 DEF StartSweep, tables, vars
<1>2. ASSUME NEW w \in Workers, Look(w) \/ CallFails(w) \/ EndSweep(w)
      PROVE  UNCHANGED vars
  BY <1>2 DEF Look, CallFails, EndSweep, tables, vars
<1>3. ASSUME NEW w \in Workers, Act(w) PROVE Next
  BY <1>3, ActIsCall DEF Next
<1>4. ASSUME NEW w \in Workers, SweepCommit(w) PROVE Next
  BY <1>4 DEF SweepCommit, Next
<1>5. ASSUME NEW w \in Workers, NEW c \in Claims, Propose(w, c) \/ Decide(w, c)
      PROVE  Next
  BY <1>5, ByHandIsCall DEF Next
<1>6. ASSUME NEW f \in Entities, Edit(f) PROVE UNCHANGED vars
  BY <1>6 DEF Edit, tables, vars
<1>7. ASSUME SweepCrash PROVE Next
  BY <1>7 DEF SweepCrash, Next
<1>8. CASE UNCHANGED sweepVars
  BY <1>8 DEF sweepVars, vars
<1> QED
  BY <1>1, <1>2, <1>3, <1>4, <1>5, <1>6, <1>7, <1>8 DEF SweepNext, SweepStep

-----------------------------------------------------------------------------
(* SweepInv is inductive. *)

LEMMA ListIsGood ==
  ASSUME SweepInv, NEW kind \in Kinds, NEW item \in List(kind)
  PROVE  GoodItem(item)
<1>1. ASSUME NEW status \in Statuses, item \in Listed(status) PROVE GoodItem(item)
  <2>1. PICK c \in Claims : Exists(c) /\ item.claim = c /\ item.file = Latest(c).subject
    <3>1. idxStatus[status] \subseteq Claims
      BY DEF SweepInv, StoreInv, TypeOK, TablesTypeOK
    <3> QED
      BY <1>1, <3>1 DEF Listed
  <2> QED
    BY <2>1, LatestIsStored DEF SweepInv, Revision, GoodItem
<1>2. ASSUME item \in Files PROVE GoodItem(item)
  BY <1>2, IndexAssumption DEF Files, GoodItem
<1> QED
  BY <1>1, <1>2 DEF List, Kinds, Statuses

LEMMA SweepInitSound == SweepInit => SweepInv
BY InitSound DEF SweepInit, SweepInv, Init

LEMMA AfterCallIsGood ==
  ASSUME NEW s, GoodSweep(s), s.doing # None
  PROVE  GoodSweep(AfterCall(s))
<1> DEFINE calls == s.doing.calls
           rest == [item |-> s.doing.item, calls |-> Tail(calls)]
           left == IF Len(calls) = 1 THEN None ELSE rest
<1>1. calls \in Seq(StoreCall) /\ calls # <<>>
  BY DEF GoodSweep, Sound
<1>2. Len(calls) # 1 => /\ Tail(calls) \in Seq(StoreCall)
                        /\ Tail(calls) # <<>>
                        /\ \A i \in DOMAIN Tail(calls) :
                             i + 1 \in DOMAIN calls /\ Tail(calls)[i] = calls[i + 1]
  <2> HIDE DEF calls
  <2>1. Len(calls) \in Nat /\ Len(calls) # 0
    BY <1>1, EmptySeq
  <2>2. SUFFICES ASSUME Len(calls) # 1
                 PROVE  /\ Tail(calls) \in Seq(StoreCall)
                        /\ Tail(calls) # <<>>
                        /\ \A i \in DOMAIN Tail(calls) :
                             i + 1 \in DOMAIN calls /\ Tail(calls)[i] = calls[i + 1]
    OBVIOUS
  <2>3. /\ Tail(calls) \in Seq(StoreCall)
        /\ Len(Tail(calls)) = Len(calls) - 1
        /\ \A i \in 1..Len(Tail(calls)) : Tail(calls)[i] = calls[i + 1]
    BY <1>1, HeadTailProperties
  <2>4. Len(Tail(calls)) \in Nat /\ Len(Tail(calls)) # 0
    BY <2>1, <2>2, <2>3
  <2>5. Tail(calls) # <<>>
    BY <2>4, EmptySeq
  <2>6. DOMAIN Tail(calls) = 1..Len(Tail(calls)) /\ DOMAIN calls = 1..Len(calls)
    BY <1>1, <2>3, LenProperties
  <2>7. \A i \in 1..Len(Tail(calls)) : i + 1 \in 1..Len(calls)
    BY <2>1, <2>3
  <2> QED
    BY <2>3, <2>5, <2>6, <2>7
<1>3. Len(calls) # 1 => Sound(s.doing.item, Tail(calls))
  BY <1>2 DEF GoodSweep, Sound
<1>4. [s.doing EXCEPT !.calls = Tail(calls)] = rest
  <2>1. s.doing = [item |-> s.doing.item, calls |-> s.doing.calls]
    BY DEF GoodSweep
  <2>2. ASSUME NEW d, NEW x, d = [item |-> d.item, calls |-> d.calls]
        PROVE  [d EXCEPT !.calls = x] = [item |-> d.item, calls |-> x]
    BY <2>2
  <2> QED
    BY <2>1, <2>2
<1>5. AfterCall(s) = [s EXCEPT !.doing = left]
  BY <1>4 DEF AfterCall
<1>6. AfterCall(s) = [kind |-> s.kind, todo |-> s.todo, doing |-> left, alone |-> s.alone]
  <2>1. s = [kind |-> s.kind, todo |-> s.todo, doing |-> s.doing, alone |-> s.alone]
    BY DEF GoodSweep
  <2> HIDE DEF left
  <2> QED
    BY <1>5, <2>1
<1> QED
  BY <1>2, <1>3, <1>6 DEF GoodSweep

LEMMA DisturbedIsGood ==
  ASSUME NEW s, s # None => GoodSweep(s)
  PROVE  Disturbed(s) # None => GoodSweep(Disturbed(s))
<1> SUFFICES ASSUME s # None PROVE GoodSweep(Disturbed(s))
  BY DEF Disturbed
<1>1. Disturbed(s) = [kind |-> s.kind, todo |-> s.todo, doing |-> s.doing, alone |-> FALSE]
  BY DEF GoodSweep, Disturbed
<1> QED
  BY <1>1 DEF GoodSweep

LEMMA DisturbedHolds ==
  ASSUME NEW s, GoodSweep(s)
  PROVE  Disturbed(s).doing = s.doing \/ Disturbed(s) = None
BY DEF GoodSweep, Disturbed

LEMMA SweepNextSound == SweepInv /\ [SweepNext]_sweepVars => SweepInv'
<1> SUFFICES ASSUME SweepInv, [SweepNext]_sweepVars PROVE SweepInv'
  OBVIOUS
<1> USE DEF SweepInv
<1>1. StoreInv'
  BY StepUsesStore, NextSound
<1>2. ASSUME NEW w \in Workers, NEW kind \in Kinds, StartSweep(w, kind) PROVE SweepInv'
  <2> DEFINE s == [kind |-> kind, todo |-> List(kind), doing |-> None, alone |-> StatusIndexExact]
  <2>1. sweep' = [sweep EXCEPT ![w] = s] /\ source' = source
    BY <1>2 DEF StartSweep
  <2>2. \A item \in s.todo : GoodItem(item)
    BY ListIsGood
  <2>3. GoodSweep(s)
    BY <2>2 DEF GoodSweep
  <2>4. call' = call /\ call[w] = Idle
    BY <1>2 DEF StartSweep, Free
  <2> HIDE DEF s
  <2> QED
    BY <1>1, <2>1, <2>3, <2>4
<1>3. ASSUME NEW w \in Workers, Look(w) PROVE SweepInv'
  <2>0. PICK item \in sweep[w].todo :
          \E calls \in Calls(sweep[w].kind, item) : sweep' = Decided(w, item, calls)
    BY <1>3 DEF Look
  <2>1. PICK calls \in Calls(sweep[w].kind, item) : sweep' = Decided(w, item, calls)
    BY <2>0
  <2>2. GoodSweep(sweep[w]) /\ source' = source
    BY <1>3 DEF Look
  <2>3. GoodItem(item) /\ Sound(item, calls)
    BY <2>2, CallsAreSound DEF GoodSweep
  <2> DEFINE doing == IF calls = <<>> THEN None ELSE [item |-> item, calls |-> calls]
             s == [kind |-> sweep[w].kind, todo |-> sweep[w].todo \ {item},
                   doing |-> doing, alone |-> sweep[w].alone]
  <2>4. sweep' = [sweep EXCEPT ![w] = s]
    BY <2>1 DEF Decided
  <2>5. doing # None => /\ doing = [item |-> doing.item, calls |-> doing.calls]
                        /\ GoodItem(doing.item)
                        /\ doing.calls # <<>>
                        /\ Sound(doing.item, doing.calls)
    BY <2>3
  <2> HIDE DEF doing
  <2>6. GoodSweep(s)
    BY <2>2, <2>5 DEF GoodSweep
  <2>7. call' = call /\ call[w] = Idle
    BY <1>3 DEF Look
  <2> HIDE DEF s
  <2> QED
    BY <1>1, <2>2, <2>4, <2>6, <2>7
<1>4. ASSUME NEW w \in Workers, Act(w) PROVE SweepInv'
  <2>1. /\ call' = [call EXCEPT ![w] = call'[w]]
        /\ UNCHANGED <<source, sweep>>
        /\ sweep[w].doing # None
    <3>1. \E c \in Claims : Call(w, c)
      BY <1>4, ActIsCall
    <3>2. Reads(w)
      BY <3>1, CallReads
    <3> QED
      BY <1>4, <3>2 DEF Act, InHand, Reads, Begin, StoreInv, TypeOK
  <2> QED
    BY <1>1, <2>1 DEF StoreInv, TypeOK
<1>5. ASSUME NEW w \in Workers, SweepCommit(w) PROVE SweepInv'
  <2>1. sweep' = Written(w) /\ source' = source
    BY <1>5 DEF SweepCommit
  <2>2. ASSUME NEW v \in Workers, sweep'[v] # None PROVE GoodSweep(sweep'[v])
    <3>1. CASE v # w
      <4>1. sweep'[v] = Disturbed(sweep[v])
        BY <2>1, <3>1 DEF Written
      <4> QED
        BY <2>2, <4>1, DisturbedIsGood
    <3>2. CASE v = w
      <4>1. /\ sweep[w] # None /\ sweep[w].doing # None
            /\ sweep'[w] = AfterCall(sweep[w])
        BY <1>5, <2>1, <2>2, <3>2 DEF Written, SweepCommit, Commit
      <4> QED
        BY <3>2, <4>1, AfterCallIsGood
    <3> QED
      BY <3>1, <3>2
  <2>3. ASSUME NEW v \in Workers, sweep'[v] # None, call'[v] # Idle
        PROVE  sweep'[v].doing # None
    <3>1. v # w /\ call'[v] = call[v]
      BY <1>5, <2>3 DEF SweepCommit, Commit, StoreInv, TypeOK
    <3>2. sweep'[v] = Disturbed(sweep[v])
      BY <2>1, <3>1 DEF Written
    <3>3. sweep[v] # None
      BY <2>3, <3>2 DEF Disturbed
    <3>4. GoodSweep(sweep[v]) /\ sweep[v].doing # None
      BY <2>3, <3>1, <3>3
    <3> QED
      BY <2>3, <3>2, <3>4, DisturbedHolds
  <2> QED
    BY <1>1, <2>1, <2>2, <2>3 DEF Written
<1>6. ASSUME NEW w \in Workers, CallFails(w) PROVE SweepInv'
  <2>1. GoodSweep(sweep[w]) /\ sweep[w].doing # None /\ source' = source
    BY <1>6 DEF CallFails, InHand
  <2> DEFINE s == IF sweep[w].kind = "index" THEN Disturbed(AfterCall(sweep[w])) ELSE None
  <2>2. s # None => GoodSweep(s)
    BY <2>1, AfterCallIsGood, DisturbedIsGood
  <2>3. sweep' = [sweep EXCEPT ![w] = s] /\ call' = call /\ call[w] = Idle
    BY <1>6 DEF CallFails, InHand
  <2> HIDE DEF s
  <2> QED
    BY <1>1, <2>1, <2>2, <2>3
<1>7. ASSUME NEW w \in Workers, EndSweep(w) PROVE SweepInv'
  BY <1>1, <1>7 DEF EndSweep
<1>8. ASSUME NEW w \in Workers, NEW c \in Claims, Propose(w, c) \/ Decide(w, c)
      PROVE  SweepInv'
  <2>1. Call(w, c) /\ Free(w) /\ UNCHANGED <<source, sweep>>
    BY <1>8, ByHandIsCall DEF Propose, Decide
  <2>2. Reads(w)
    BY <2>1, CallReads
  <2>3. \A v \in Workers : v # w => call'[v] = call[v]
    BY <2>2 DEF Reads, Begin, StoreInv, TypeOK
  <2> QED
    BY <1>1, <2>1, <2>3 DEF Free
<1>9. ASSUME NEW f \in Entities, Edit(f) PROVE SweepInv'
  <2>1. source' \in [Entities -> Contents \cup {Missing}]
    BY <1>9 DEF Edit
  <2>2. sweep' = [w \in Workers |-> Disturbed(sweep[w])] /\ call' = call
    BY <1>9 DEF Edit
  <2>3. ASSUME NEW w \in Workers, sweep'[w] # None
        PROVE  GoodSweep(sweep'[w]) /\ (call'[w] # Idle => sweep'[w].doing # None)
    <3>1. sweep'[w] = Disturbed(sweep[w])
      BY <2>2
    <3>2. sweep[w] # None
      BY <2>3, <3>1 DEF Disturbed
    <3> QED
      BY <2>2, <2>3, <3>1, <3>2, DisturbedIsGood, DisturbedHolds
  <2> QED
    BY <1>1, <2>1, <2>2, <2>3
<1>10. ASSUME SweepCrash PROVE SweepInv'
  BY <1>1, <1>10 DEF SweepCrash
<1>11. CASE UNCHANGED sweepVars
  BY <1>1, <1>11 DEF sweepVars
<1> QED
  BY <1>2, <1>3, <1>4, <1>5, <1>6, <1>7, <1>8, <1>9, <1>10, <1>11 DEF SweepNext, SweepStep

(* The files stay files, every sweep holds claims that exist as ids, and   *)
(* has in hand only calls the store offers.                                *)
THEOREM SweepInvariant == SweepSpec => []SweepInv
BY SweepInitSound, SweepNextSound, PTL DEF SweepSpec

(* Whatever the sweeps do and whatever interferes with them, the store     *)
(* only sees calls it offers: every behaviour of the sweeps is one of      *)
(* KnowledgeStore.                                                         *)
THEOREM SweepsUseStore == SweepSpec => Spec
<1>1. SweepInit => Init
  BY DEF SweepInit
<1>2. SweepInv /\ [SweepNext]_sweepVars => [Next]_vars
  BY StepUsesStore
<1> QED
  BY <1>1, <1>2, SweepInvariant, PTL DEF SweepSpec, Spec

(* sourcecheck.rs: "an unverifiable proposal is left exactly as it was": a *)
(* sweep, even one that loses a race, never leaves a claim Verified,       *)
(* Observed or Refuted without evidence that fits.                         *)
THEOREM EvidenceStandsUnderSweeps == SweepSpec => []EvidenceBacksStatus
BY SweepsUseStore, EvidenceStands, PTL

(* Nor do sweeps break the trail that history() returns. *)
THEOREM TrailIsUnbrokenUnderSweeps == SweepSpec => []TrailUnbroken
BY SweepsUseStore, TrailIsUnbroken, PTL

-----------------------------------------------------------------------------
(* Sweeps over a store with one call at a time on each claim: one that     *)
(* nothing disturbed does all it is for, and takes only the steps it may.  *)

(* The statuses a sweep takes up, and the one it leads to. *)
Taken(kind) ==
  CASE kind = "verify" -> {"Proposed"}
    [] kind = "refresh" -> {"Verified", "Observed"}
    [] kind = "heal" -> {"Stale"}
    [] kind = "index" -> {}

Target(kind) == IF kind = "refresh" THEN "Stale" ELSE "Verified"

Wanted(kind, c) == Exists(c) /\ Latest(c).status \in Taken(kind)

(* What the list of a sweep says of a claim. *)
ItemOf(kind, c) ==
  [claim |-> c, file |-> Latest(c).subject,
   excerpt |-> IF kind = "refresh" THEN Recorded(Latest(c)) ELSE NoExcerpt]

(* The calls still to make on the claim in hand: those its look led to, or *)
(* the second of the two that index a changed file.                        *)
Remaining(kind, item, calls) ==
  \/ calls \in Calls(kind, item)
  \/ /\ kind = "index" /\ Readable(item.file)
     /\ calls = <<Observation(item.file, FALSE)>>

(* A call of a sweep under way is the next one to make on the claim in     *)
(* hand; its new evidence comes last.                                      *)
Carries(k, item, next) ==
  /\ k.claim = item.claim
  /\ k.body.status = next.status
  /\ next.evidence # <<>> =>
       /\ k.body.evidence # <<>>
       /\ k.body.evidence[Len(k.body.evidence)] = next.evidence[1]

(* An undisturbed sweep: whatever a new list would hold is still to come,  *)
(* in hand, or has nothing left to do.                                     *)
OnCourse(s, k) ==
  /\ s.todo \subseteq List(s.kind)
  /\ \A item \in List(s.kind) :
       \/ item \in s.todo
       \/ s.doing # None /\ s.doing.item = item
       \/ Calls(s.kind, item) = {<<>>}
  /\ s.doing # None =>
       /\ s.doing.item \in List(s.kind) \ s.todo
       /\ Remaining(s.kind, s.doing.item, s.doing.calls)
  /\ k # Idle => Carries(k, s.doing.item, Head(s.doing.calls))

AllOnCourse ==
  \A w \in Workers : sweep[w] # None /\ sweep[w].alone => OnCourse(sweep[w], call[w])

CourseInv == SweepInv /\ SerialInv /\ AllOnCourse

(* What is listed, when the status index is exact. *)
LEMMA ListIsExact ==
  ASSUME StatusIndexExact, idxStatus \in [Statuses -> SUBSET Claims],
         NEW kind \in Kinds \ {"index"}, NEW item
  PROVE  item \in List(kind) <=> \E c \in Claims : Wanted(kind, c) /\ item = ItemOf(kind, c)
<1>1. ASSUME NEW s \in Statuses
      PROVE  {d \in idxStatus[s] : Exists(d) /\ Latest(d).status = s}
               = {d \in Claims : Exists(d) /\ Latest(d).status = s}
  BY DEF StatusIndexExact
<1>2. CASE kind = "verify"
  BY <1>1, <1>2 DEF List, Listed, Taken, Wanted, ItemOf, Statuses
<1>3. CASE kind = "heal"
  BY <1>1, <1>3 DEF List, Listed, Taken, Wanted, ItemOf, Statuses
<1>4. CASE kind = "refresh"
  BY <1>1, <1>4 DEF List, Listed, Taken, Wanted, ItemOf, Statuses
<1> QED
  BY <1>2, <1>3, <1>4 DEF Kinds

(* The same after a step. *)
LEMMA ListIsExactAfter ==
  ASSUME StatusIndexExact', idxStatus' \in [Statuses -> SUBSET Claims],
         NEW kind \in Kinds \ {"index"}, NEW item
  PROVE  item \in List(kind)' <=> \E c \in Claims : Wanted(kind, c)' /\ item = ItemOf(kind, c)'
<1>1. ASSUME NEW s \in Statuses
      PROVE  {d \in idxStatus'[s] : Exists(d)' /\ Latest(d)'.status = s}
               = {d \in Claims : Exists(d)' /\ Latest(d)'.status = s}
  BY DEF StatusIndexExact
<1>2. CASE kind = "verify"
  BY <1>1, <1>2 DEF List, Listed, Taken, Wanted, ItemOf, Statuses
<1>3. CASE kind = "heal"
  BY <1>1, <1>3 DEF List, Listed, Taken, Wanted, ItemOf, Statuses
<1>4. CASE kind = "refresh"
  BY <1>1, <1>4 DEF List, Listed, Taken, Wanted, ItemOf, Statuses
<1> QED
  BY <1>2, <1>3, <1>4 DEF Kinds

LEMMA SubstantiateCalls ==
  ASSUME NEW c, NEW f, NEW calls \in Substantiate(c, f)
  PROVE  IF calls = <<>> THEN Substantiate(c, f) = {<<>>}
         ELSE Len(calls) = 1 /\ Head(calls).status = "Verified"
<1>1. \A line : Promotion(line) # <<>> /\ Len(Promotion(line)) = 1
                /\ Head(Promotion(line)).status = "Verified"
  BY DEF Promotion
<1> QED
  BY <1>1 DEF Substantiate

(* A look that finds nothing to do could not have found anything. *)
LEMMA NothingIsNothing ==
  ASSUME NEW kind \in Kinds, NEW item, <<>> \in Calls(kind, item)
  PROVE  Calls(kind, item) = {<<>>}
<1>1. CASE kind = "verify"
  BY <1>1, SubstantiateCalls DEF Calls, VerifyCalls
<1>2. CASE kind = "refresh"
  BY <1>2 DEF Calls, RefreshCalls
<1>3. CASE kind = "heal"
  BY <1>3, SubstantiateCalls DEF Calls
<1>4. CASE kind = "index"
  BY <1>4 DEF Calls, IndexCalls
<1> QED
  BY <1>1, <1>2, <1>3, <1>4 DEF Kinds

(* All sweeps but the indexer make one call on a claim. *)
LEMMA OneCallEach ==
  ASSUME NEW kind \in Kinds \ {"index"}, NEW item,
         NEW calls \in Calls(kind, item), calls # <<>>
  PROVE  Len(calls) = 1 /\ Head(calls).status = Target(kind)
<1>1. CASE kind = "verify"
  BY <1>1, SubstantiateCalls DEF Calls, VerifyCalls, Target
<1>2. CASE kind = "refresh"
  <2>1. calls = <<MarkedStale>>
    BY <1>2 DEF Calls, RefreshCalls
  <2>2. Head(calls) = MarkedStale /\ Len(calls) = 1
    BY <2>1
  <2> QED
    BY <1>2, <2>2 DEF MarkedStale, Target
<1>3. CASE kind = "heal"
  BY <1>3, SubstantiateCalls DEF Calls, Target
<1> QED
  BY <1>1, <1>2, <1>3 DEF Kinds

(* What a look at a claim leads to depends on the claim and the files. *)
LEMMA CallsDepend ==
  ASSUME NEW kind \in Kinds, NEW item, source' = source,
         Exists(item.claim)' = Exists(item.claim),
         Exists(item.claim) => Latest(item.claim)' = Latest(item.claim)
  PROVE  Calls(kind, item)' = Calls(kind, item)
<1>1. \A c, f : Substantiate(c, f)' = Substantiate(c, f)
  BY DEF Substantiate, Readable, Supports, BestLines
<1>2. CASE kind = "verify"
  BY <1>1, <1>2 DEF Calls, VerifyCalls
<1>3. CASE kind = "refresh"
  BY <1>3 DEF Calls, RefreshCalls, Contains, Readable
<1>4. CASE kind = "heal"
  BY <1>1, <1>4 DEF Calls
<1>5. CASE kind = "index"
  BY <1>5 DEF Calls, IndexCalls, Readable, Observation, Fingerprint, Known
<1> QED
  BY <1>2, <1>3, <1>4, <1>5 DEF Kinds

(* What is recorded is an excerpt of the evidence. *)
LEMMA RecordedIsExcerpt ==
  ASSUME NEW rev \in Revision
  PROVE  Recorded(rev) \in Excerpts
<1> DEFINE kept == WithExcerpt(rev)
           first == CHOOSE i \in kept : \A j \in kept : i =< j
<1>1. CASE kept = {}
  BY <1>1 DEF Recorded, Excerpts
<1>2. CASE kept # {}
  <2>1. rev.evidence \in Seq(Evidence)
    BY DEF Revision
  <2>2. kept \subseteq DOMAIN rev.evidence /\ DOMAIN rev.evidence = 1..Len(rev.evidence)
    BY <2>1, LenProperties DEF WithExcerpt
  <2>3. kept \in SUBSET Nat
    BY <2>1, <2>2, LenProperties
  <2>4. first \in kept
    <3>1. \E i \in kept : \A j \in kept : i =< j
      BY <1>2, <2>3, SmallestExists
    <3> HIDE DEF kept
    <3> QED
      BY <3>1
  <2>5. Recorded(rev) = rev.evidence[first].excerpt
    BY <1>2 DEF Recorded
  <2> HIDE DEF first
  <2>6. rev.evidence[first] \in Evidence
    BY <2>1, <2>2, <2>4, ElementOfSeq
  <2> QED
    BY <2>5, <2>6 DEF Excerpts
<1> QED
  BY <1>1, <1>2

LEMMA ListIsItems ==
  ASSUME SweepInv, NEW kind \in Kinds, NEW item \in List(kind)
  PROVE  item \in Item
<1>1. NoExcerpt \in Excerpts
  BY DEF Excerpts
<1>2. ASSUME NEW status \in Statuses, item \in Listed(status) PROVE item \in Item
  <2>1. PICK c \in Claims :
          /\ Exists(c)
          /\ item = [claim |-> c, file |-> Latest(c).subject,
                     excerpt |-> IF status \in {"Verified", "Observed"}
                                 THEN Recorded(Latest(c)) ELSE NoExcerpt]
    <3>1. idxStatus[status] \subseteq Claims
      BY DEF SweepInv, StoreInv, TypeOK, TablesTypeOK
    <3> QED
      BY <1>2, <3>1 DEF Listed
  <2>2. Latest(c) \in Revision
    BY <2>1, LatestIsStored DEF SweepInv
  <2>3. Latest(c).subject \in Entities /\ Recorded(Latest(c)) \in Excerpts
    BY <2>2, RecordedIsExcerpt DEF Revision
  <2> QED
    BY <1>1, <2>1, <2>3 DEF Item
<1>3. ASSUME item \in Files PROVE item \in Item
  BY <1>1, <1>3, IndexAssumption DEF Files, Item
<1> QED
  BY <1>2, <1>3 DEF List, Kinds, Statuses

(* A sweep that has calls to make has a claim in hand. *)
LEMMA InHandIsSome ==
  ASSUME NEW item \in Item, NEW calls \in Seq(StoreCall)
  PROVE  None # [item |-> item, calls |-> calls]
BY NoneAssumption

(* Steps that write nothing and edit nothing leave lists and verdicts, and *)
(* so an undisturbed sweep on course, as they are.                         *)
LEMMA SameCalls ==
  ASSUME UNCHANGED <<tables, source>>
  PROVE  /\ \A kind \in Kinds : List(kind)' = List(kind)
         /\ \A kind \in Kinds : \A item : Calls(kind, item)' = Calls(kind, item)
<1>1. \A c : LatestRev(c)' = LatestRev(c) /\ Latest(c)' = Latest(c) /\ Exists(c)' = Exists(c)
  BY DEF tables, LatestRev, Latest, Exists
<1>2. \A status : Listed(status)' = Listed(status)
  BY <1>1 DEF tables, Listed
<1>3. ASSUME NEW kind \in Kinds PROVE List(kind)' = List(kind)
  BY <1>2, <1>3 DEF List, Files
<1>4. ASSUME NEW kind \in Kinds, NEW item PROVE Calls(kind, item)' = Calls(kind, item)
  BY <1>1, CallsDepend
<1> QED
  BY <1>3, <1>4

LEMMA StaysOnCourse ==
  ASSUME UNCHANGED <<tables, source>>, NEW s, s.kind \in Kinds, NEW k, OnCourse(s, k)
  PROVE  OnCourse(s, k)' /\ OnCourse(s, Idle)'
<1>1. /\ List(s.kind)' = List(s.kind)
      /\ \A item : Calls(s.kind, item)' = Calls(s.kind, item)
  BY SameCalls
<1>2. \A item, calls : Remaining(s.kind, item, calls)' = Remaining(s.kind, item, calls)
  BY <1>1 DEF Remaining, Readable, Observation, Fingerprint
<1> QED
  BY <1>1, <1>2 DEF OnCourse, Carries

LEMMA NowOnCourse ==
  ASSUME NEW w \in Workers, NEW s, NEW k, sweep'[w] = s, call'[w] = k, OnCourse(s, k)'
  PROVE  OnCourse(sweep[w], call[w])'
BY DEF OnCourse

LEMMA LooksOnCourse ==
  ASSUME CourseInv, NEW w \in Workers, Look(w), sweep'[w].alone
  PROVE  OnCourse(sweep[w], call[w])'
<1>1. PICK item \in sweep[w].todo :
        \E calls \in Calls(sweep[w].kind, item) : sweep' = Decided(w, item, calls)
  BY DEF Look
<1>2. PICK calls \in Calls(sweep[w].kind, item) : sweep' = Decided(w, item, calls)
  BY <1>1
<1> DEFINE doing == IF calls = <<>> THEN None ELSE [item |-> item, calls |-> calls]
<1>3. PICK s : s = [kind |-> sweep[w].kind, todo |-> sweep[w].todo \ {item},
                    doing |-> doing, alone |-> sweep[w].alone]
  OBVIOUS
<1>4. sweep'[w] = s
  BY <1>2, <1>3 DEF Decided, CourseInv, SweepInv
<1>5. /\ s.kind = sweep[w].kind /\ s.todo = sweep[w].todo \ {item} /\ s.doing = doing
      /\ s.alone = sweep[w].alone
  BY <1>3
<1>6. /\ sweep[w] # None /\ sweep[w].alone /\ sweep[w].doing = None
      /\ sweep[w].kind \in Kinds
      /\ call[w] = Idle /\ call' = call
  BY <1>4, <1>5 DEF Look, CourseInv, SweepInv, GoodSweep
<1>7. OnCourse(sweep[w], call[w])
  BY <1>6 DEF CourseInv, AllOnCourse
<1>8. calls = <<>> => Calls(sweep[w].kind, item) = {<<>>}
  BY <1>2, <1>6, NothingIsNothing
<1>9. OnCourse(s, Idle)
  <2>1. doing # None => doing.item = item /\ doing.calls = calls
    OBVIOUS
  <2>2. item \in List(s.kind)
    BY <1>1, <1>5, <1>7 DEF OnCourse
  <2>3. calls # <<>> => doing # None
    <3>1. item \in Item
      BY <1>5, <1>6, <2>2, ListIsItems DEF CourseInv
    <3>2. calls \in Seq(StoreCall)
      BY <1>1, <1>2, <1>6, CallsAreSound DEF CourseInv, SweepInv, GoodSweep, Sound
    <3> QED
      BY <3>1, <3>2, InHandIsSome
  <2> HIDE DEF doing
  <2> QED
    BY <1>1, <1>2, <1>5, <1>6, <1>7, <1>8, <2>1, <2>2, <2>3 DEF OnCourse, Remaining
<1>10. OnCourse(s, Idle)'
  BY <1>5, <1>6, <1>9, StaysOnCourse DEF Look
<1> QED
  BY <1>4, <1>6, <1>10, NowOnCourse

LEMMA StartsOnCourse ==
  ASSUME CourseInv, NEW w \in Workers, NEW kind \in Kinds, StartSweep(w, kind)
  PROVE  OnCourse(sweep[w], call[w])'
<1>1. PICK s : s = [kind |-> kind, todo |-> List(kind), doing |-> None, alone |-> StatusIndexExact]
  OBVIOUS
<1>2. sweep'[w] = s /\ call'[w] = Idle
  BY <1>1 DEF StartSweep, Free, CourseInv, SweepInv
<1>3. s.kind = kind /\ s.todo = List(kind) /\ s.doing = None
  BY <1>1
<1>4. OnCourse(s, Idle)
  BY <1>3 DEF OnCourse
<1>5. OnCourse(s, Idle)'
  BY <1>3, <1>4, StaysOnCourse DEF StartSweep
<1> QED
  BY <1>2, <1>5, NowOnCourse

LEMMA ActsOnCourse ==
  ASSUME CourseInv, NEW w \in Workers, Act(w), sweep[w].alone
  PROVE  OnCourse(sweep[w], call[w])'
<1>1. PICK s : s = sweep[w]
  OBVIOUS
<1> DEFINE item == s.doing.item
           next == Head(s.doing.calls)
<1>2. /\ s # None /\ s.doing # None /\ call[w] = Idle
      /\ GoodSweep(s)
      /\ UNCHANGED <<source, sweep>>
  BY <1>1 DEF Act, InHand, CourseInv, SweepInv
<1>3. OnCourse(s, call[w])
  BY <1>1, <1>2 DEF CourseInv, AllOnCourse
<1>4. next \in StoreCall
  BY <1>2, HeadTailProperties DEF GoodSweep, Sound
<1>5. PICK by \in Provenances :
        IF next.new
        THEN AddClaim(w, item.claim,
                      [subject |-> item.file, object |-> NoEntity, status |-> next.status,
                       evidence |-> next.evidence, by |-> by, superseded |-> 0])
        ELSE Advance(w, item.claim, next.status, next.evidence, by)
  BY <1>1 DEF Act, NextCall
<1> HIDE DEF next
<1>6. next.evidence = <<>> \/ \E e \in Evidence : next.evidence = <<e>>
  <2>1. 1 \in DOMAIN s.doing.calls /\ next = s.doing.calls[1]
    BY <1>2, EmptySeq, HeadTailProperties, LenProperties DEF GoodSweep, Sound, next
  <2>2. Offered(item, next)
    BY <1>2, <2>1 DEF GoodSweep, Sound
  <2> QED
    BY <2>2 DEF Offered
<1>7. item.claim \in Claims
  BY <1>2 DEF GoodSweep, GoodItem
<1> HIDE DEF item
<1>8. PICK k : Begin(w, k) /\ Carries(k, item, next)
  <2>1. CASE next.new
    <3> DEFINE body == [subject |-> item.file, object |-> NoEntity, status |-> next.status,
                        evidence |-> next.evidence, by |-> by, superseded |-> 0]
               k == [claim |-> item.claim, revision |-> 1,
                     body |-> [body EXCEPT !.superseded = 0],
                     base |-> 0, previous |-> Absent]
    <3>1. Begin(w, k)
      BY <1>5, <2>1 DEF AddClaim
    <3>2. k.claim = item.claim /\ k.body.status = next.status /\ k.body.evidence = next.evidence
      OBVIOUS
    <3> HIDE DEF k
    <3>3. Carries(k, item, next)
      BY <1>6, <3>2 DEF Carries
    <3> QED
      BY <3>1, <3>3
  <2>2. CASE ~next.new
    <3>1. Advance(w, item.claim, next.status, next.evidence, by)
      BY <1>5, <2>2
    <3>2. Latest(item.claim) \in Revision
      BY <1>7, <3>1, LatestIsStored DEF Advance, Replace, CourseInv, SweepInv
    <3> DEFINE after == [Latest(item.claim) EXCEPT !.status = next.status,
                                                   !.evidence = @ \o next.evidence,
                                                   !.by = by]
               k == [claim |-> item.claim, revision |-> NextRevision(LatestRev(item.claim)),
                     body |-> [after EXCEPT !.superseded = 0],
                     base |-> LatestRev(item.claim), previous |-> Latest(item.claim)]
    <3>3. Begin(w, k)
      BY <3>1 DEF Advance, Replace
    <3>4. /\ k.claim = item.claim /\ k.body.status = next.status
          /\ k.body.evidence = Latest(item.claim).evidence \o next.evidence
      BY <3>2 DEF Revision
    <3>5. Latest(item.claim).evidence \in Seq(Evidence)
      BY <3>2 DEF Revision
    <3> HIDE DEF k
    <3>6. ASSUME NEW e \in Evidence, NEW old \in Seq(Evidence)
          PROVE  old \o <<e>> # <<>> /\ (old \o <<e>>)[Len(old \o <<e>>)] = e
      OBVIOUS
    <3>7. ASSUME NEW e \in Evidence, next.evidence = <<e>>
          PROVE  /\ k.body.evidence # <<>>
                 /\ k.body.evidence[Len(k.body.evidence)] = next.evidence[1]
      <4>1. next.evidence[1] = e /\ k.body.evidence = Latest(item.claim).evidence \o <<e>>
        BY <3>4, <3>7
      <4> QED
        BY <3>5, <3>6, <4>1
    <3>8. Carries(k, item, next)
      BY <1>6, <3>4, <3>7, Zenon DEF Carries
    <3> QED
      BY <3>3, <3>8
  <2> QED
    BY <2>1, <2>2
<1>9. call'[w] = k /\ UNCHANGED tables
  BY <1>8 DEF Begin, CourseInv, SweepInv, StoreInv, TypeOK
<1>10. OnCourse(s, k)
  BY <1>2, <1>3, <1>8 DEF OnCourse, item, next
<1>11. s.kind \in Kinds
  BY <1>2 DEF GoodSweep
<1>12. OnCourse(s, k)'
  BY <1>2, <1>9, <1>10, <1>11, StaysOnCourse
<1> QED
  BY <1>1, <1>2, <1>9, <1>12, NowOnCourse

(* What a commit leaves of the newest revisions. *)
LEMMA CommitLatest ==
  ASSUME SerialInv, NEW w \in Workers, Commit(w), NEW p, p = call[w]
  PROVE  /\ p.claim \in Claims
         /\ Exists(p.claim)' /\ Latest(p.claim)' = p.body
         /\ \A c \in Claims : c # p.claim =>
              /\ Exists(c)' = Exists(c)
              /\ Exists(c) => Latest(c)' = Latest(c)
<1>1. /\ p.claim \in Claims /\ p.revision \in Revisions
      /\ p.base \in 0..MaxRevision /\ p.revision = p.base + 1
      /\ LatestRev(p.claim)' = p.revision
      /\ claims'[p.claim][p.revision] = p.body
  <2>1. p.revision \in Revisions /\ p.revision = p.base + 1 /\ p.base \in 0..MaxRevision
    BY CommitExtends
  <2>2. p.revision # p.base
    BY <2>1, BoundAssumption
  <2> QED
    BY <2>1, <2>2, CommitExtends
<1>2. p.revision # 0
  BY <1>1, BoundAssumption DEF Revisions
<1>3. Exists(p.claim)' /\ Latest(p.claim)' = p.body
  BY <1>1, <1>2 DEF Exists, Latest
<1>4. ASSUME NEW c \in Claims, c # p.claim
      PROVE  /\ Exists(c)' = Exists(c)
             /\ Exists(c) => Latest(c)' = Latest(c)
  <2>1. LatestRev(c)' = LatestRev(c)
    BY <1>4, CommitExtends
  <2>2. Exists(c)' = Exists(c)
    BY <2>1 DEF Exists
  <2>3. Exists(c) => LatestRev(c) \in Revisions
    BY LatestIsStored DEF SerialInv
  <2>4. ASSUME NEW r \in Revisions PROVE claims'[c][r] = claims[c][r]
    <3>1. claims'[c][r] = IF c # p.claim THEN claims[c][r]
                          ELSE IF r = p.base THEN [claims[c][r] EXCEPT !.superseded = p.revision]
                          ELSE IF r = p.revision THEN p.body
                          ELSE claims[c][r]
      BY CommitExtends
    <3> QED
      BY <1>4, <3>1
  <2>5. Exists(c) => claims'[c][LatestRev(c)] = claims[c][LatestRev(c)]
    BY <2>3, <2>4
  <2> QED
    BY <2>1, <2>2, <2>5 DEF Latest
<1> QED
  BY <1>1, <1>3, <1>4

(* The one call on a claim takes it off the list, and no other claim. *)
LEMMA CommitsOnCourse ==
  ASSUME CourseInv, NEW w \in Workers, SweepCommit(w), StatusIndexExact',
         idxStatus' \in [Statuses -> SUBSET Claims],
         sweep[w] # None, sweep[w].alone, sweep[w].kind # "index"
  PROVE  OnCourse(sweep[w], call[w])'
<1>1. PICK s : s = sweep[w]
  OBVIOUS
<1>2. PICK p : p = call[w]
  OBVIOUS
<1>3. /\ s # None /\ s.doing # None /\ p # Idle /\ GoodSweep(s)
      /\ source' = source /\ sweep'[w] = AfterCall(s) /\ call'[w] = Idle
  BY <1>1, <1>2 DEF SweepCommit, Commit, Written, CourseInv, SweepInv, StoreInv, TypeOK
<1>4. OnCourse(s, p) /\ s.kind \in Kinds \ {"index"}
  BY <1>1, <1>2, <1>3 DEF CourseInv, AllOnCourse, GoodSweep
<1>5. PICK hand : hand = s.doing.item
  OBVIOUS
<1>6. /\ hand \in List(s.kind) /\ hand \notin s.todo
      /\ s.doing.calls \in Calls(s.kind, hand) /\ s.doing.calls # <<>>
      /\ p.claim = hand.claim /\ p.body.status = Head(s.doing.calls).status
  BY <1>3, <1>4, <1>5 DEF OnCourse, Remaining, Carries, GoodSweep
<1>7. Len(s.doing.calls) = 1 /\ p.body.status = Target(s.kind)
  BY <1>4, <1>6, OneCallEach
<1>8. /\ AfterCall(s) = [s EXCEPT !.doing = None]
      /\ s = [kind |-> s.kind, todo |-> s.todo, doing |-> s.doing, alone |-> s.alone]
  BY <1>3, <1>7 DEF AfterCall, GoodSweep
<1>9. PICK t : t = AfterCall(s)
  OBVIOUS
<1>10. t.kind = s.kind /\ t.todo = s.todo /\ t.doing = None
  BY <1>8, <1>9
<1>11. /\ p.claim \in Claims
       /\ Exists(p.claim)' /\ Latest(p.claim)' = p.body
       /\ \A c \in Claims : c # p.claim =>
            /\ Exists(c)' = Exists(c)
            /\ Exists(c) => Latest(c)' = Latest(c)
  BY <1>2, CommitLatest DEF SweepCommit, CourseInv
<1>12. \A item : item \in List(s.kind) <=>
          \E c \in Claims : Wanted(s.kind, c) /\ item = ItemOf(s.kind, c)
  BY <1>4, ListIsExact DEF CourseInv, SerialInv, StoreInv, TypeOK, TablesTypeOK
<1>13. \A item : item \in List(s.kind)' <=>
          \E c \in Claims : Wanted(s.kind, c)' /\ item = ItemOf(s.kind, c)'
  BY <1>4, ListIsExactAfter
<1>14. ~Wanted(s.kind, p.claim)'
  BY <1>4, <1>7, <1>11 DEF Wanted, Taken, Target, Kinds
<1>15. ASSUME NEW c \in Claims, c # p.claim
       PROVE  /\ Wanted(s.kind, c)' <=> Wanted(s.kind, c)
              /\ Wanted(s.kind, c) => ItemOf(s.kind, c)' = ItemOf(s.kind, c)
  <2>1. Exists(c)' = Exists(c) /\ (Exists(c) => Latest(c)' = Latest(c))
    BY <1>11, <1>15
  <2>2. Wanted(s.kind, c)' <=> Wanted(s.kind, c)
    BY <2>1 DEF Wanted, Taken
  <2>3. ASSUME Wanted(s.kind, c) PROVE ItemOf(s.kind, c)' = ItemOf(s.kind, c)
    <3>1. PICK rev : rev = Latest(c)
      OBVIOUS
    <3>2. Latest(c)' = rev
      BY <2>1, <2>3, <3>1 DEF Wanted
    <3> QED
      BY <3>1, <3>2 DEF ItemOf, Recorded, WithExcerpt
  <2> QED
    BY <2>2, <2>3
<1>16. hand = ItemOf(s.kind, p.claim)
  BY <1>6, <1>12 DEF ItemOf
<1>17. \A c : ItemOf(s.kind, c).claim = c
  BY DEF ItemOf
<1>18. \A item : item \in List(s.kind)' <=> item \in List(s.kind) /\ item # hand
  BY <1>11, <1>12, <1>13, <1>14, <1>15, <1>16, <1>17
<1>19. ASSUME NEW item \in List(s.kind), item # hand
       PROVE  Calls(s.kind, item)' = Calls(s.kind, item)
  <2>1. item.claim \in Claims /\ item.claim # p.claim
    BY <1>12, <1>16, <1>17, <1>19
  <2> QED
    BY <1>3, <1>4, <1>11, <2>1, CallsDepend
<1>20. OnCourse(t, Idle)'
  BY <1>4, <1>5, <1>6, <1>10, <1>18, <1>19 DEF OnCourse
<1> QED
  BY <1>3, <1>9, <1>20, NowOnCourse

(* Every indexed file has a claim of its own. *)
LEMMA FilesHaveTheirClaims ==
  ASSUME NEW i \in Files, NEW j \in Files, i.claim = j.claim
  PROVE  i = j
<1>1. PICK f \in DOMAIN IndexClaim : i = [claim |-> IndexClaim[f], file |-> f, excerpt |-> NoExcerpt]
  BY DEF Files
<1>2. PICK g \in DOMAIN IndexClaim : j = [claim |-> IndexClaim[g], file |-> g, excerpt |-> NoExcerpt]
  BY DEF Files
<1>3. IndexClaim[f] = IndexClaim[g]
  BY <1>1, <1>2
<1>4. f = g
  BY <1>3, IndexAssumption
<1> QED
  BY <1>1, <1>2, <1>4

(* Of the two calls on a changed file the first leaves the second to make; *)
(* after the last the file is known.                                       *)
LEMMA IndexCommitsOnCourse ==
  ASSUME CourseInv, NEW w \in Workers, SweepCommit(w),
         sweep[w] # None, sweep[w].alone, sweep[w].kind = "index"
  PROVE  OnCourse(sweep[w], call[w])'
<1>1. PICK s : s = sweep[w]
  OBVIOUS
<1>2. PICK p : p = call[w]
  OBVIOUS
<1>3. /\ s # None /\ s.doing # None /\ p # Idle /\ GoodSweep(s)
      /\ source' = source /\ sweep'[w] = AfterCall(s) /\ call'[w] = Idle
  BY <1>1, <1>2 DEF SweepCommit, Commit, Written, CourseInv, SweepInv, StoreInv, TypeOK
<1>4. OnCourse(s, p) /\ s.kind = "index"
  BY <1>1, <1>2, <1>3 DEF CourseInv, AllOnCourse
<1>5. List(s.kind) = Files /\ List(s.kind)' = Files
  BY <1>4 DEF List, Files
<1>6. PICK hand, calls : s.doing = [item |-> hand, calls |-> calls]
  BY <1>3 DEF GoodSweep
<1>7. s.doing.item = hand /\ s.doing.calls = calls
  BY <1>6
<1>8. /\ hand \in Files /\ hand \notin s.todo
      /\ Remaining("index", hand, calls) /\ Carries(p, hand, Head(calls))
      /\ calls # <<>> /\ calls \in Seq(StoreCall)
  BY <1>3, <1>4, <1>5, <1>7 DEF OnCourse, GoodSweep, Sound
<1>9. Readable(hand.file)
  BY <1>8 DEF Remaining, Calls, IndexCalls
<1>10. \/ \E new \in BOOLEAN : calls = <<Observation(hand.file, new)>>
       \/ calls = <<MarkedStale, Observation(hand.file, FALSE)>>
  BY <1>8 DEF Remaining, Calls, IndexCalls
<1>11. PICK t : t = AfterCall(s)
  OBVIOUS
<1>12. s = [kind |-> s.kind, todo |-> s.todo, doing |-> s.doing, alone |-> s.alone]
  BY <1>3 DEF GoodSweep
<1>13. /\ p.claim \in Claims /\ p.claim = hand.claim
       /\ Exists(p.claim)' /\ Latest(p.claim)' = p.body
       /\ \A c \in Claims : c # p.claim =>
            /\ Exists(c)' = Exists(c)
            /\ Exists(c) => Latest(c)' = Latest(c)
  BY <1>2, <1>8, CommitLatest DEF SweepCommit, CourseInv, Carries
<1>14. ASSUME NEW item \in Files, item # hand
       PROVE  Calls("index", item)' = Calls("index", item)
  <2>1. item.claim \in Claims /\ item.claim # p.claim
    BY <1>8, <1>13, <1>14, FilesHaveTheirClaims, IndexAssumption DEF Files
  <2> QED
    BY <1>3, <1>13, <2>1, CallsDepend DEF Kinds
<1>15. ASSUME NEW new \in BOOLEAN, calls = <<Observation(hand.file, new)>>
       PROVE  OnCourse(t, Idle)'
  <2>1. Len(calls) = 1 /\ Head(calls) = Observation(hand.file, new)
    BY <1>15
  <2>2. t.kind = "index" /\ t.todo = s.todo /\ t.doing = None
    BY <1>4, <1>7, <1>11, <1>12, <2>1 DEF AfterCall
  <2>3. Head(calls).evidence = <<Fingerprint(hand.file)>>
    BY <2>1 DEF Observation
  <2>4. /\ p.body.evidence # <<>>
        /\ p.body.evidence[Len(p.body.evidence)] = Fingerprint(hand.file)
    <3>1. Head(calls).evidence # <<>> /\ Head(calls).evidence[1] = Fingerprint(hand.file)
      BY <2>3
    <3> QED
      BY <1>8, <3>1 DEF Carries
  <2>5. Fingerprint(hand.file).excerpt = source[hand.file]
    BY DEF Fingerprint
  <2>6. Known(hand.claim, hand.file)'
    BY <1>3, <1>13, <2>4, <2>5 DEF Known
  <2>7. Calls("index", hand)' = {<<>>}
    BY <1>3, <1>9, <1>13, <2>6 DEF Calls, IndexCalls, Readable
  <2> QED
    BY <1>4, <1>5, <1>7, <1>14, <2>2, <2>7 DEF OnCourse
<1>16. ASSUME calls = <<MarkedStale, Observation(hand.file, FALSE)>>
       PROVE  OnCourse(t, Idle)'
  <2>1. Len(calls) = 2 /\ Tail(calls) = <<Observation(hand.file, FALSE)>>
    <3>1. ASSUME NEW a, NEW b PROVE Len(<<a, b>>) = 2 /\ Tail(<<a, b>>) = <<b>>
      OBVIOUS
    <3> QED
      BY <1>16, <3>1
  <2>2. PICK rest : rest = [item |-> hand, calls |-> Tail(calls)]
    OBVIOUS
  <2>3. [s.doing EXCEPT !.calls = Tail(s.doing.calls)] = rest
    <3>1. PICK d : d = s.doing
      OBVIOUS
    <3>2. PICK x : x = Tail(calls)
      OBVIOUS
    <3>3. d = [item |-> hand, calls |-> calls] /\ d.calls = calls
      BY <1>6, <3>1
    <3>4. [d EXCEPT !.calls = x] = [item |-> hand, calls |-> x]
      BY <3>3
    <3> QED
      BY <2>2, <3>1, <3>2, <3>3, <3>4
  <2>4. t = [s EXCEPT !.doing = rest]
    BY <1>7, <1>11, <2>1, <2>3 DEF AfterCall
  <2>5. t.kind = "index" /\ t.todo = s.todo /\ t.doing = rest
    BY <1>4, <1>12, <2>4
  <2>6. rest.item = hand /\ rest.calls = <<Observation(hand.file, FALSE)>>
    BY <2>1, <2>2
  <2>7. rest # None
    <3>1. hand \in Item
      BY <1>4, <1>5, <1>8, ListIsItems DEF CourseInv, Kinds
    <3>2. Tail(calls) \in Seq(StoreCall)
      BY <1>8, HeadTailProperties
    <3> QED
      BY <2>2, <3>1, <3>2, InHandIsSome
  <2>8. Remaining("index", hand, rest.calls)'
    BY <1>3, <1>9, <2>6 DEF Remaining, Readable, Observation, Fingerprint
  <2> QED
    BY <1>4, <1>5, <1>7, <1>8, <1>14, <2>5, <2>6, <2>7, <2>8 DEF OnCourse
<1>17. OnCourse(t, Idle)'
  BY <1>10, <1>15, <1>16
<1> QED
  BY <1>3, <1>11, <1>17, NowOnCourse

LEMMA CourseInit == SweepInit => CourseInv
<1> SUFFICES ASSUME SweepInit PROVE CourseInv
  OBVIOUS
<1>1. SweepInv /\ SerialInv
  BY SweepInitSound, InitSerial DEF SweepInit
<1> QED
  BY <1>1 DEF CourseInv, AllOnCourse, SweepInit

LEMMA CourseNext == CourseInv /\ [SweepNext /\ NoOverlap']_sweepVars => CourseInv'
<1> SUFFICES ASSUME CourseInv, [SweepNext /\ NoOverlap']_sweepVars PROVE CourseInv'
  OBVIOUS
<1>1. SweepInv /\ SweepInv'
  BY SweepNextSound DEF CourseInv
<1>2. SerialInv /\ SerialInv'
  <2>1. [Next]_vars
    BY <1>1, StepUsesStore
  <2>2. [Next /\ NoOverlap']_vars
    BY <2>1 DEF sweepVars, vars
  <2> QED
    BY <2>2, NextSerial DEF CourseInv
<1>3. ASSUME NEW v \in Workers, UNCHANGED <<tables, source>>,
             sweep'[v] = sweep[v], call'[v] \in {call[v], Idle},
             sweep'[v] # None, sweep'[v].alone
      PROVE  OnCourse(sweep[v], call[v])'
  <2>1. PICK s : s = sweep[v]
    OBVIOUS
  <2>2. PICK k : k = call[v]
    OBVIOUS
  <2>3. OnCourse(s, k) /\ s.kind \in Kinds
    BY <1>1, <1>3, <2>1, <2>2 DEF CourseInv, AllOnCourse, SweepInv, GoodSweep
  <2>4. OnCourse(s, k)' /\ OnCourse(s, Idle)'
    BY <1>3, <2>3, StaysOnCourse
  <2> QED
    BY <1>3, <2>1, <2>2, <2>4, NowOnCourse
<1>4. ASSUME NEW s, s # None => GoodSweep(s), Disturbed(s) # None
      PROVE  ~Disturbed(s).alone
  <2>1. s # None
    BY <1>4 DEF Disturbed
  <2>2. Disturbed(s) = [kind |-> s.kind, todo |-> s.todo, doing |-> s.doing, alone |-> FALSE]
    BY <1>4, <2>1 DEF GoodSweep, Disturbed
  <2> QED
    BY <2>2
<1>5. ASSUME NEW w \in Workers, NEW v \in Workers,
             UNCHANGED <<tables, source>>, sweep'[v] # None, sweep'[v].alone,
             v # w => sweep'[v] = sweep[v] /\ call'[v] = call[v],
             v = w => OnCourse(sweep[w], call[w])'
      PROVE  OnCourse(sweep[v], call[v])'
  BY <1>3, <1>5
<1>6. AllOnCourse'
  <2> SUFFICES ASSUME NEW v \in Workers, sweep'[v] # None, sweep'[v].alone
               PROVE  OnCourse(sweep[v], call[v])'
    BY DEF AllOnCourse
  <2> USE <1>1 DEF SweepInv
  <2>1. ASSUME NEW w \in Workers, NEW kind \in Kinds, StartSweep(w, kind)
        PROVE  OnCourse(sweep[v], call[v])'
    BY <1>5, <2>1, StartsOnCourse DEF StartSweep
  <2>2. ASSUME NEW w \in Workers, Look(w)
        PROVE  OnCourse(sweep[v], call[v])'
    BY <1>5, <2>2, LooksOnCourse DEF Look, Decided
  <2>3. ASSUME NEW w \in Workers, Act(w)
        PROVE  OnCourse(sweep[v], call[v])'
    <3>1. \A u \in Workers : u # w => call'[u] = call[u]
      <4>1. Reads(w)
        BY <2>3, ActIsCall, CallReads
      <4> QED
        BY <4>1 DEF Reads, Begin, StoreInv, TypeOK
    <3>2. UNCHANGED tables
      <4>1. \E c \in Claims : Call(w, c)
        BY <2>3, ActIsCall
      <4> QED
        BY <4>1, CallLeavesTables
    <3> QED
      BY <1>5, <2>3, <3>1, <3>2, ActsOnCourse DEF Act
  <2>4. ASSUME NEW w \in Workers, SweepCommit(w)
        PROVE  OnCourse(sweep[v], call[v])'
    <3>1. sweep'[v] = IF v # w THEN Disturbed(sweep[v])
                      ELSE IF sweep[w] = None THEN None ELSE AfterCall(sweep[w])
      BY <2>4 DEF SweepCommit, Written
    <3>2. v = w
      BY <1>4, <3>1
    <3>3. sweep[w] # None /\ sweep'[w] = AfterCall(sweep[w])
      BY <3>1, <3>2
    <3>4. sweep[w].alone
      <4>1. AfterCall(sweep[w]).alone = sweep[w].alone
        BY <3>3 DEF AfterCall, GoodSweep
      <4> QED
        BY <3>2, <3>3, <4>1
    <3> QED
      BY <1>2, <2>4, <3>2, <3>3, <3>4, CommitsOnCourse, IndexCommitsOnCourse
      DEF SerialInv, StoreInv, TypeOK, TablesTypeOK
  <2>5. ASSUME NEW w \in Workers, CallFails(w)
        PROVE  OnCourse(sweep[v], call[v])'
    <3>1. GoodSweep(sweep[w]) /\ sweep[w].doing # None /\ call' = call
      BY <2>5 DEF CallFails, InHand
    <3>2. sweep'[w] = IF sweep[w].kind = "index" THEN Disturbed(AfterCall(sweep[w])) ELSE None
      BY <2>5 DEF CallFails
    <3>3. v # w
      BY <1>4, <3>1, <3>2, AfterCallIsGood
    <3> QED
      BY <1>5, <2>5, <3>1, <3>3 DEF CallFails
  <2>6. ASSUME NEW w \in Workers, EndSweep(w)
        PROVE  OnCourse(sweep[v], call[v])'
    BY <1>5, <2>6 DEF EndSweep
  <2>7. ASSUME NEW w \in Workers, NEW c \in Claims, Propose(w, c) \/ Decide(w, c)
        PROVE  OnCourse(sweep[v], call[v])'
    <3>1. Call(w, c) /\ Free(w) /\ UNCHANGED <<source, sweep>>
      BY <2>7, ByHandIsCall DEF Propose, Decide
    <3>2. \A u \in Workers : u # w => call'[u] = call[u]
      <4>1. Reads(w)
        BY <3>1, CallReads
      <4> QED
        BY <4>1 DEF Reads, Begin, StoreInv, TypeOK
    <3>3. UNCHANGED tables
      BY <3>1, CallLeavesTables
    <3> QED
      BY <1>5, <3>1, <3>2, <3>3 DEF Free
  <2>8. ASSUME NEW f \in Entities, Edit(f)
        PROVE  OnCourse(sweep[v], call[v])'
    <3>1. sweep'[v] = Disturbed(sweep[v])
      BY <2>8 DEF Edit
    <3> QED
      BY <1>4, <3>1
  <2>9. CASE SweepCrash
    BY <2>9 DEF SweepCrash
  <2>10. CASE UNCHANGED sweepVars
    BY <1>3, <2>10 DEF sweepVars, tables
  <2> QED
    BY <2>1, <2>2, <2>3, <2>4, <2>5, <2>6, <2>7, <2>8, <2>9, <2>10 DEF SweepNext, SweepStep
<1> QED
  BY <1>1, <1>2, <1>6 DEF CourseInv

(* With one call at a time on each claim the sweeps are a use of the       *)
(* serial store, so its exact indexes and single live revisions hold under *)
(* them, and all they and the decisions by hand do to a claim are steps of *)
(* its ledger.                                                             *)
THEOREM SweepsImplementLedger == SerialSweepSpec => SerialSpec /\ ImplementsLedger
<1>1. SweepInit => Init
  BY DEF SweepInit
<1>2. CourseInv /\ [SweepNext /\ NoOverlap']_sweepVars => [Next /\ NoOverlap']_vars
  <2>1. UNCHANGED sweepVars => UNCHANGED vars
    BY DEF sweepVars, vars
  <2> QED
    BY <2>1, StepUsesStore DEF CourseInv
<1>3. SerialSweepSpec => SerialSpec
  BY <1>1, <1>2, CourseInit, CourseNext, PTL DEF SerialSweepSpec, SerialSpec
<1> QED
  BY <1>3, StoreImplementsLedger, PTL

(* A sweep that nothing disturbed has, when its list is done, left nothing *)
(* of its kind to do: whatever a new list would hold has nothing left.     *)
THEOREM SweepsAreComplete == SerialSweepSpec => []UndisturbedSweepIsComplete
<1>1. CourseInv => UndisturbedSweepIsComplete
  <2> SUFFICES ASSUME CourseInv, NEW w \in Workers,
                      sweep[w] # None, sweep[w].alone,
                      sweep[w].doing = None, sweep[w].todo = {}
               PROVE  NothingLeft(sweep[w].kind)
    BY DEF UndisturbedSweepIsComplete
  <2>1. PICK kind : kind = sweep[w].kind
    OBVIOUS
  <2>2. kind \in Kinds /\ \A item \in List(kind) : Calls(kind, item) = {<<>>}
    BY <2>1 DEF CourseInv, SweepInv, GoodSweep, AllOnCourse, OnCourse
  <2>3. ASSUME kind # "index", NEW c \in Claims, Wanted(kind, c)
        PROVE  Calls(kind, ItemOf(kind, c)) = {<<>>}
    BY <2>2, <2>3, ListIsExact DEF CourseInv, SerialInv, StoreInv, TypeOK, TablesTypeOK
  <2>4. CASE kind = "verify"
    BY <2>1, <2>3, <2>4 DEF NothingLeft, Wanted, Taken, Calls, VerifyCalls, ItemOf
  <2>5. CASE kind = "heal"
    BY <2>1, <2>3, <2>5 DEF NothingLeft, Wanted, Taken, Calls, ItemOf
  <2>6. CASE kind = "refresh"
    BY <2>1, <2>3, <2>6 DEF NothingLeft, Wanted, Taken, Calls, ItemOf
  <2>7. CASE kind = "index"
    <3>1. ASSUME NEW f \in DOMAIN IndexClaim PROVE IndexCalls(IndexClaim[f], f) = {<<>>}
      <4>1. PICK item : item = [claim |-> IndexClaim[f], file |-> f, excerpt |-> NoExcerpt]
        OBVIOUS
      <4>2. item \in List("index") /\ item.claim = IndexClaim[f] /\ item.file = f
        BY <4>1 DEF List, Files
      <4> QED
        BY <2>2, <2>7, <4>2 DEF Calls
    <3> QED
      BY <2>1, <2>7, <3>1 DEF NothingLeft
  <2> QED
    BY <2>2, <2>4, <2>5, <2>6, <2>7 DEF Kinds
<1> QED
  BY <1>1, CourseInit, CourseNext, PTL DEF SerialSweepSpec

(* "Promote, never launder": a sweep that nothing disturbed promotes only  *)
(* proposals and stale claims, makes only settled claims stale, and leaves *)
(* a refutation alone.                                                     *)
THEOREM SweepsKeepDecisions == SerialSweepSpec => UndisturbedSweepKeepsDecisions
<1>1. ASSUME CourseInv, NEW w \in Workers, SweepCommit(w),
             sweep[w] # None, sweep[w].alone, sweep[w].kind # "index"
      PROVE  <<Latest(call[w].claim).status, call[w].body.status>> \in Moves
  <2>1. PICK s : s = sweep[w]
    OBVIOUS
  <2>2. PICK p : p = call[w]
    OBVIOUS
  <2>3. /\ s # None /\ s.doing # None /\ p # Idle /\ GoodSweep(s)
    BY <1>1, <2>1, <2>2 DEF SweepCommit, Commit, CourseInv, SweepInv
  <2>4. OnCourse(s, p) /\ s.kind \in Kinds \ {"index"}
    BY <1>1, <2>1, <2>2, <2>3 DEF CourseInv, AllOnCourse, GoodSweep
  <2>5. PICK hand : hand = s.doing.item
    OBVIOUS
  <2>6. /\ hand \in List(s.kind)
        /\ s.doing.calls \in Calls(s.kind, hand) /\ s.doing.calls # <<>>
        /\ p.claim = hand.claim /\ p.body.status = Head(s.doing.calls).status
    BY <2>3, <2>4, <2>5 DEF OnCourse, Remaining, Carries, GoodSweep
  <2>7. p.body.status = Target(s.kind)
    BY <2>4, <2>6, OneCallEach
  <2>8. PICK c \in Claims : Wanted(s.kind, c) /\ hand = ItemOf(s.kind, c)
    BY <1>1, <2>4, <2>6, ListIsExact DEF CourseInv, SerialInv, StoreInv, TypeOK, TablesTypeOK
  <2>9. Latest(p.claim).status \in Taken(s.kind)
    BY <2>6, <2>8 DEF ItemOf, Wanted
  <2> QED
    BY <2>2, <2>4, <2>7, <2>9 DEF Taken, Target, Moves, Kinds
<1>2. CourseInv /\ [SweepNext /\ NoOverlap']_sweepVars =>
        [\A w \in Workers :
           /\ SweepCommit(w)
           /\ sweep[w] # None /\ sweep[w].alone /\ sweep[w].kind # "index"
           => <<Latest(call[w].claim).status, call[w].body.status>> \in Moves]_sweepVars
  BY <1>1
<1> QED
  BY <1>2, CourseInit, CourseNext, PTL DEF SerialSweepSpec, UndisturbedSweepKeepsDecisions
=============================================================================
