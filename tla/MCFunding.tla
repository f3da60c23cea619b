----------------------------- MODULE MCFunding -----------------------------
(***************************************************************************)
(* Funding on a small instance: five requests, at most two at a time.      *)
(***************************************************************************)
EXTENDS Funding

CONSTANTS r1, r2

TwoRequests == {r1, r2}

\* One request of any kind, and one that gets in its way.
KindsOf == [r \in TwoRequests |->
              IF r = r1 THEN AllKinds ELSE {"publish", "save"}]
EveryStep == Steps \ {"idle"}
=============================================================================
