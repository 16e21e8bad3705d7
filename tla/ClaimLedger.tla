---------------------------- MODULE ClaimLedger ----------------------------
(***************************************************************************)
(* What the knowledge store promises its callers: for each claim id a      *)
(* ledger that only grows.  A claim is opened as a proposal or as an       *)
(* observation with evidence; it is decided with evidence that fits the    *)
(* decision; it may be doubted; it may be given a relation once; and it    *)
(* never changes its subject or loses a piece of evidence.                 *)
(***************************************************************************)
EXTENDS Integers, Sequences

CONSTANTS Claims, Entities, Provenances, Evidence,
          Objects,   \* what a claim can say of its relation and object
          Unrelated  \* ... while it has no relation yet

VARIABLE ledger

Entry == [subject  : Entities,
          object   : Objects,
          status   : {"Observed", "Proposed", "Verified", "Stale", "Refuted"},
          evidence : Seq(Evidence),
          by       : Provenances]

TypeOK == ledger \in [Claims -> Seq(Entry)]

Init == ledger = [c \in Claims |-> <<>>]

Last(c) == ledger[c][Len(ledger[c])]

Record(c, e) == ledger' = [ledger EXCEPT ![c] = Append(@, e)]

(* The evidence a claim may be opened with (bound: at most one piece). *)
OpeningEvidence == {<<>>} \cup {<<e>> : e \in Evidence}

(* A claim enters as a proposal, or as an observation that shows something. *)
Open(c, subject, object, evidence, by) ==
  \E s \in {"Proposed"} \cup {t \in {"Observed"} : evidence # <<>>} :
    Record(c, [subject |-> subject, object |-> object, status |-> s,
               evidence |-> evidence, by |-> by])

(* Supporting evidence verifies or observes a claim, counter-evidence      *)
(* refutes it; either is appended to the evidence already there.           *)
Decide(c, s, e, by) ==
  /\ s \in (IF e.supports THEN {"Verified", "Observed"} ELSE {"Refuted"})
  /\ Record(c, [Last(c) EXCEPT !.status = s,
                               !.evidence = Append(@, e),
                               !.by = by])

Doubt(c, by) == Record(c, [Last(c) EXCEPT !.status = "Stale", !.by = by])

Relate(c, object, by) ==
  /\ Last(c).object \in Unrelated
  /\ Record(c, [Last(c) EXCEPT !.object = object, !.by = by])

(* A claim is opened once; everything else takes a claim that is there. *)
Next ==
  \E c \in Claims, by \in Provenances :
    \/ /\ ledger[c] = <<>>
       /\ \E subject \in Entities, object \in Objects, evidence \in OpeningEvidence :
            Open(c, subject, object, evidence, by)
    \/ /\ ledger[c] # <<>>
       /\ \/ \E e \in Evidence, s \in {"Verified", "Observed", "Refuted"} : Decide(c, s, e, by)
          \/ Doubt(c, by)
          \/ \E object \in Entities : Relate(c, object, by)

Spec == Init /\ [][Next]_ledger
=============================================================================
