------------------------------ MODULE MCEscrow ------------------------------
(***************************************************************************)
(* Escrow on two challenges, one and three winners, with a spare transfer  *)
(* to the contract, lists the contract rejects, and a MaxUint so small     *)
(* that the checked additions revert.                                      *)
(***************************************************************************)
EXTENDS Escrow

CONSTANTS this, treasury, sponsor, ops, alice, zero

MCAccounts == {this, treasury, sponsor, ops, alice}

\* One winner, three winners, and three lists fundChallenge rejects.
MCPrizeLists == {<<2>>, <<1, 1, 1>>, <<>>, <<1, 1>>, <<0>>}
MCFees == {0, 1}

\* Valid lists (the contract itself and the treasury among the winners), and
\* lists with a duplicate, the zero address or the wrong length.
MCWinnerLists ==
  {<<alice>>, <<this>>, <<alice, treasury, sponsor>>, <<alice, sponsor, alice>>, <<zero>>, <<alice, sponsor>>}

MCInitialBalances ==
  {[a \in MCAccounts |-> IF a = sponsor THEN 6 ELSE 0]}
=============================================================================
