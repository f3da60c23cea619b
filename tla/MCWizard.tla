----------------------------- MODULE MCWizard ------------------------------
(***************************************************************************)
(* Wizard on a small instance: two handlers at once, and three texts: one  *)
(* incomplete, which offers other prizes than the complete ones, and two   *)
(* complete ones with different deadlines.                                 *)
(***************************************************************************)
EXTENDS Wizard

CONSTANTS f1, f2

TheirPrizes == [t \in Texts |-> t \in Complete]
TheirDeadlines == [t \in Texts |-> IF t = 3 THEN 3 ELSE 2]
=============================================================================
