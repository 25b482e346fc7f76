--------------------------- MODULE PaymentLedger ---------------------------
(***************************************************************************)
(* What the shop promises a customer about money, with nothing said of     *)
(* requests, locks, nodes or servers.  Each checkout attempt has one bill. *)
(* A bill is settled at most once, from the wallet or from a card, and a   *)
(* settled bill is returned at most once, to where it came from.  An open  *)
(* bill that nobody settles may be voided.  Staff may overwrite the wallet *)
(* balance.  OrderLifecycle is shown to implement this specification.      *)
(***************************************************************************)
EXTENDS Integers

CONSTANTS Orders,        \* checkout attempts of one customer
          Price,         \* what one order costs
          MaxCredits     \* largest balance staff may write

VARIABLES credits,       \* wallet balance
          bill           \* state of each attempt's bill

ledgerVars == <<credits, bill>>

Bills == {"none", "open", "void", "paid", "returned", "card_paid", "card_returned"}

LedgerTypeOK ==
    /\ credits \in Nat
    /\ bill \in [Orders -> Bills]

LedgerInit ==
    /\ credits \in 0..MaxCredits
    /\ bill = [o \in Orders |-> "none"]

Moves(o, from, to) ==
    /\ bill[o] \in from
    /\ bill' = [bill EXCEPT ![o] = to]

OpenBill(o) ==
    /\ Moves(o, {"none"}, "open")
    /\ UNCHANGED credits

SettleFromWallet(o) ==
    /\ Moves(o, {"none", "open"}, "paid")
    /\ credits >= Price
    /\ credits' = credits - Price

SettleByCard(o) ==
    /\ Moves(o, {"none"}, "card_paid")
    /\ UNCHANGED credits

ReturnToWallet(o) ==
    /\ Moves(o, {"paid"}, "returned")
    /\ credits' = credits + Price

ReturnToCard(o) ==
    /\ Moves(o, {"card_paid"}, "card_returned")
    /\ UNCHANGED credits

\* Several bills can be voided by one statement.
VoidBills(S) ==
    /\ \A o \in S : bill[o] = "open"
    /\ bill' = [o \in Orders |-> IF o \in S THEN "void" ELSE bill[o]]
    /\ UNCHANGED credits

AdjustWallet(c) ==
    /\ credits' = c
    /\ UNCHANGED bill

LedgerNext ==
    \/ \E o \in Orders :
          \/ OpenBill(o)
          \/ SettleFromWallet(o)
          \/ SettleByCard(o)
          \/ ReturnToWallet(o)
          \/ ReturnToCard(o)
    \/ \E S \in SUBSET Orders : VoidBills(S)
    \/ \E c \in 0..MaxCredits : AdjustWallet(c)

LedgerSpec == LedgerInit /\ [][LedgerNext]_ledgerVars
=============================================================================
