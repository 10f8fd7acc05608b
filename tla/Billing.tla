-------------------------------- MODULE Billing --------------------------------
(***************************************************************************)
(* What the money keeping of the switch promises to the owner of an        *)
(* account: every charge of a call reaches the account it is due from once *)
(* and at one of the amounts the tariff yields, and money moves between    *)
(* two cards only whole, when the code of one is applied to the other.     *)
(***************************************************************************)
EXTENDS Integers

CONSTANTS
  Accounts,     \* cards, customers and dealers
  Cards,        \* the accounts a code may be applied to and from
  Charges,      \* what a call owes: one member for each payer of each call
  PayerOf,      \* PayerOf[e]: the account charge e is due from
  Amounts       \* Amounts[e]: the amounts e may come to

VARIABLES
  balance,      \* the money of every account
  paid          \* the charges that have been taken

Init ==
  /\ balance \in [Accounts -> Int]
  /\ paid = {}

\* A charge is taken from its payer, once.
Pay(e) ==
  /\ e \notin paid
  /\ paid' = paid \cup {e}
  /\ \E m \in Amounts[e] : balance' = [balance EXCEPT ![PayerOf[e]] = @ - m]

\* All the money of card b goes to card a.
Transfer(a, b) ==
  /\ a # b
  /\ balance' = [balance EXCEPT ![a] = @ + balance[b], ![b] = 0]
  /\ UNCHANGED paid

Next ==
  \/ \E e \in Charges : Pay(e)
  \/ \E a, b \in Cards : Transfer(a, b)

Spec == Init /\ [][Next]_<<balance, paid>>
================================================================================
