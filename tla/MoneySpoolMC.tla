------------------------------ MODULE MoneySpoolMC ------------------------------
(***************************************************************************)
(* Instances of MoneySpool for TLC.                                        *)
(*                                                                         *)
(* Cards: h1 is made with card k1, h2 is made with card k2 and goes to the *)
(* owner of k1, who pays for it too; the code of k2 may be applied to k1.  *)
(* Peers: h1 comes from a gateway of customer u1 of dealer d1; r1 is an    *)
(* Internet session of card k1 of u1, whose traffic u1 pays for.           *)
(***************************************************************************)
EXTENDS MoneySpool

CONSTANTS h1, h2, r1, k1, k2, u1, d1

\* One unit a second; the first second of a call costs one more.
Plain(s)     == s
Connected(s) == IF s = 0 THEN 0 ELSE s + 1

Tariff(price(_)) == [s \in 0 .. MaxSecs + 1 |-> price(s)]

\* Two calls paid by k1, one of them as the card it goes out to.
CardsCalls      == {h1, h2}
CardsKind       == [c \in CardsCalls |-> "card"]
CardsCustomer   == [c \in CardsCalls |-> u1]
CardsPayer      == [c \in CardsCalls |->
  IF c = h1 THEN [r \in {"card"} |-> k1]
            ELSE [r \in {"outCard", "card"} |-> IF r = "card" THEN k2 ELSE k1]]
CardsCharge     == [e \in UNION {{c} \X DOMAIN CardsPayer[c] : c \in CardsCalls} |->
  IF e[1] = h1 THEN Tariff(Connected) ELSE Tariff(Plain)]
CardsCodes      == {<<k1, k2>>}
CardsMoney      == [a \in {k1, k2, u1} |-> 2]

\* Two calls with the card whose code is applied.
CodePayer       == [c \in CardsCalls |-> [r \in {"card"} |-> k2]]
CodeCharge      == [e \in CardsCalls \X {"card"} |-> Tariff(Plain)]

\* A gateway's call and an Internet session on the same customer.
PeersCalls      == {h1, r1}
PeersKind       == [c \in PeersCalls |-> IF c = h1 THEN "peer" ELSE "radius"]
PeersCustomer   == [c \in PeersCalls |-> u1]
PeersPayer      == [c \in PeersCalls |->
  IF c = h1 THEN [r \in {"in", "inDealer"} |-> IF r = "in" THEN u1 ELSE d1]
            ELSE [r \in {"inCard", "inCardTraf"} |-> IF r = "inCard" THEN k1 ELSE u1]]
PeersCharge     == [e \in UNION {{c} \X DOMAIN PeersPayer[c] : c \in PeersCalls} |->
  IF e[2] = "in" THEN Tariff(Connected) ELSE Tariff(Plain)]
PeersMoney      == [a \in {k1, u1, d1} |-> 2]
================================================================================
