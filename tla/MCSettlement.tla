---------------------------- MODULE MCSettlement ----------------------------
(***************************************************************************)
(* Settlement on small instances: one request at a time or two, two winner *)
(* lists and two creators.                                                 *)
(***************************************************************************)
EXTENDS Settlement, TLC

CONSTANTS r1, r2, c1, c2, key, stray

OneRequest == {r1}
TwoRequests == {r1, r2}
OnePlace == {<<c1>>, <<c2>>}
TwoCreators == {c1, c2}
CreateApproval == {"create-approval"}
LostWrites == {"recordApproval", "persistEvidence"}

\* No definition tells the requests apart.
Interchangeable == Permutations(TwoRequests)
=============================================================================
