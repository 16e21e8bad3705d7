--------------------------- MODULE MCSourceCheck ---------------------------
(* Small instances of SourceCheck: one file whose line is moved or partly  *)
(* dropped, and one claim id, which proposals and the indexer both use.    *)
EXTENDS SourceCheck, TLC

CONSTANTS c1, f1,
          plain, moved, other  \* lines: two say what c1 says, one does not

MCContents == {{plain}, {moved, other}, {other}}

MCTerms == c1 :> {"auth", "bcrypt"} @@ plain :> {"auth", "bcrypt"}
             @@ moved :> {"auth", "bcrypt", "moved"} @@ other :> {"auth"}

MCEvidence ==
  {[supports |-> TRUE, excerpt |-> x] : x \in MCContents \cup UNION MCContents \cup {NoExcerpt}}
    \cup {[supports |-> FALSE, excerpt |-> NoExcerpt]}

MCIndexClaim == f1 :> c1

Symmetry == Permutations(Workers)
=============================================================================
