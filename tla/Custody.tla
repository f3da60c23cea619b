------------------------------ MODULE Custody ------------------------------
(***************************************************************************)
(* What an escrow promises, with no bookkeeping: a custodian takes a       *)
(* deposit for a challenge at most once, holds it, and lets it go at most  *)
(* once, either back to the depositor in full or out of the custodian's    *)
(* balance by no more than the deposit.  CCNEscrow.sol is shown to         *)
(* implement this specification (Escrow!CustodySpec).                      *)
(***************************************************************************)
EXTENDS Naturals

CONSTANTS
  Challenges,   \* deposit identifiers
  Accounts,     \* holders of the token
  Custodian,    \* the account that holds the deposits
  Nobody        \* the depositor of a challenge without a deposit

VARIABLES
  phase,        \* phase[c]: "empty", "held", "paid" or "refunded"
  depositor,    \* depositor[c]: who funded c
  held,         \* held[c]: what the custodian still owes for c
  bal           \* bal[a]: tokens of account a

custodyVars == <<phase, depositor, held, bal>>

CustodyInit ==
  /\ phase = [c \in Challenges |-> "empty"]
  /\ depositor = [c \in Challenges |-> Nobody]
  /\ held = [c \in Challenges |-> 0]
  /\ bal \in [Accounts -> Nat]

\* An account other than the custodian hands over the whole deposit at once.
Deposit(c, a) ==
  /\ phase[c] = "empty"
  /\ a # Custodian
  /\ \E amount \in 1..bal[a] :
       /\ held' = [held EXCEPT ![c] = amount]
       /\ bal' = [bal EXCEPT ![a] = @ - amount, ![Custodian] = @ + amount]
  /\ phase' = [phase EXCEPT ![c] = "held"]
  /\ depositor' = [depositor EXCEPT ![c] = a]

\* The deposit leaves: nobody but the custodian loses tokens, and the custodian
\* loses no more than this one deposit.
Distribute(c) ==
  /\ phase[c] = "held"
  /\ phase' = [phase EXCEPT ![c] = "paid"]
  /\ held' = [held EXCEPT ![c] = 0]
  /\ bal' \in [Accounts -> Nat]
  /\ \A a \in Accounts \ {Custodian} : bal'[a] >= bal[a]
  /\ bal'[Custodian] >= bal[Custodian] - held[c]
  /\ UNCHANGED depositor

\* The deposit goes back to the one who made it, in full.
Return(c) ==
  /\ phase[c] = "held"
  /\ phase' = [phase EXCEPT ![c] = "refunded"]
  /\ held' = [held EXCEPT ![c] = 0]
  /\ bal[Custodian] >= held[c]
  /\ bal' = [bal EXCEPT ![Custodian] = @ - held[c], ![depositor[c]] = @ + held[c]]
  /\ UNCHANGED depositor

\* Tokens move between accounts without the custodian's doing: it can only gain.
Elsewhere ==
  /\ bal' \in [Accounts -> Nat]
  /\ bal'[Custodian] >= bal[Custodian]
  /\ UNCHANGED <<phase, depositor, held>>

CustodyNext ==
  \/ \E c \in Challenges, a \in Accounts : Deposit(c, a)
  \/ \E c \in Challenges : Distribute(c) \/ Return(c)
  \/ Elsewhere

CustodySpec == CustodyInit /\ [][CustodyNext]_custodyVars
=============================================================================
