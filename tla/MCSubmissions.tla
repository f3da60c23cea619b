---------------------------- MODULE MCSubmissions ----------------------------
(***************************************************************************)
(* Submissions with two creators, one or two requests at a time and one    *)
(* winner.  One after another, requests get two versions, either limit of  *)
(* entries and a deadline that moves; overlapping ones get the bounds at   *)
(* which a run ends.                                                       *)
(***************************************************************************)
EXTENDS Submissions, TLC

CONSTANTS r1, r2, alice, bob, key

TwoRequests == {r1, r2}
TwoCreators == {alice, bob}
OneKey == {key}

Setting(adapter, overlap, maxSubmissions, maxVersions) ==
  [adapter |-> adapter, overlap |-> overlap, maxSubmissions |-> maxSubmissions,
   maxVersions |-> maxVersions, extends |-> overlap = 1]

EverySetting ==
  {Setting(adapter, 1, n, 2) : adapter \in {"filesystem", "supabase"}, n \in 1..2}
  \cup {Setting("filesystem", 2, 1, 2), Setting("filesystem", 2, 2, 1)}
  \cup {Setting("supabase", 2, 2, 1)}

\* Requests and creators are model values no definition tells apart.
Interchangeable == Permutations(TwoRequests) \cup Permutations(TwoCreators)
=============================================================================
