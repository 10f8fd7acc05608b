\* Active calls, their accounts, and crashes at any point between the queries.
\* It stops when the program was started often enough.
SPECIFICATION Spec
CHECK_DEADLOCK FALSE

CONSTANTS
  leg = leg
  proxied = proxied
  loser = loser
  Calls = {leg, proxied, loser}
  Proxied = {proxied}
  Losers = {loser}
  MaxLives = 3

INVARIANTS
  TypeOK
  
  NoneForgotten
  TimelyBill
