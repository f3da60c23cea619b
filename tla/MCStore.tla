------------------------------ MODULE MCStore ------------------------------
(***************************************************************************)
(* Store on two drafts, one of them there from the start, with three       *)
(* requests on one or two servers.                                         *)
(***************************************************************************)
EXTENDS Store

CONSTANTS s1, s2, d1, d2

TwoProcesses == {s1, s2}
TwoDrafts == {d1, d2}
FirstDraft == {d1}
=============================================================================
