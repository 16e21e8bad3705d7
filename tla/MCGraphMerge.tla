---------------------------- MODULE MCGraphMerge ----------------------------
(* Small instances of GraphMerge: workers that disagree about one claim. *)
EXTENDS GraphMerge

CONSTANTS c1, c2, e1, e2

pro == [supports |-> TRUE]
con == [supports |-> FALSE]
MCEvidence == {pro, con}

(* A claim as Claim::proposed makes it, and one as a delta may bring it. *)
Add(subject, by) == [kind |-> "add_claim", claim |-> c1, subject |-> subject,
                     object |-> NoEntity, evidence |-> <<>>, by |-> by]
Bring(c, object, by) == [kind |-> "add_claim", claim |-> c, subject |-> e2,
                         object |-> object, evidence |-> <<con>>, by |-> by]
Relate(object) == [kind |-> "add_relation", claim |-> c1, object |-> object]
Verify(e) == [kind |-> "verify_claim", claim |-> c1, evidence |-> e]
Refute(e) == [kind |-> "refute_claim", claim |-> c1, evidence |-> e]

Delta(signed, at, ops) == [signed |-> signed, at |-> at, ops |-> ops]

(* Two workers claim different things under one id; one is checked by its  *)
(* author, one is refuted; the other comes with an object alone and a time *)
(* later than its delta's; a relation arrives early or late.  A delta for  *)
(* local callers, who may merge it again, brings a claim of its own with a *)
(* relation alone; one is invalid.                                         *)
MCDeltas == {
  Delta(TRUE, 1, <<Add(e1, 1), Verify(pro)>>),
  Delta(TRUE, 1, <<Bring(c1, [alone |-> e2], 2), Relate(e1)>>),
  Delta(TRUE, 2, <<Refute(con), Relate(e2)>>),
  Delta(FALSE, 1, <<Bring(c2, Dangling, 1), [Relate(e1) EXCEPT !.claim = c2]>>),
  Delta(FALSE, 2, <<Verify(con)>>)}

MCHalves == {Dangling} \cup Alone
=============================================================================
