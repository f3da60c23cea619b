------------------------------ MODULE MCPayout ------------------------------
(***************************************************************************)
(* Payout on small instances: two requests at a time or one, two winner    *)
(* lists, what the browser sends or more, and failures where a run wants   *)
(* them.                                                                   *)
(***************************************************************************)
EXTENDS Payout, TLC

CONSTANTS r1, r2, w1, w2, key, stray

TwoRequests == {r1, r2}
OneRequest == {r1}
TwoSelections == {w1, w2}
AnyMode == {"create-approval", "default"}
UsedMode == {"create-approval"}     \* the only one the pages of the app use
AnyClientHash == {None, stray}
TrueClientHash == {None, key}
NoClientHash == {None}              \* the pages of the app send no hash
EveryStep == Steps \ {"idle"}

StepsBeforePayout == ApprovalSteps \cup {"lockWinners", "recordFinalized", "markFailed"}
EvidenceWrite == {"persistEvidence"}

\* Requests and winner lists are model values no definition tells apart.
Interchangeable == Permutations(TwoRequests) \cup Permutations(TwoSelections)
=============================================================================
