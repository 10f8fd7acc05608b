----------------------------- MODULE CallLimitsMC -----------------------------
(***************************************************************************)
(* Small populations of calls for CallLimits: which calls come, from whom, *)
(* to which card, and the limits they run into.                            *)
(***************************************************************************)
EXTENDS CallLimits, TLC

CONSTANTS c1, c2, c3, i1, p1, p2, a1, a2

SipOrH323(sip) == [ch \in Choices |-> IF ch \in sip THEN "sip" ELSE "h323"]
NoOutCards     == [l \in Legs |-> NoCard]
EveryRoute(n)  == [i \in InPeers |-> [p \in OutPeers |-> n]]

\* Three calls for the two slots of the switch and the one line of inbound
\* peer i1.  A leg outlives the answer leg that held the line, so the legs of
\* c1 and c2 still compete for peer p1 and for the route to p2.
PeerKind       == c1 :> "h323" @@ c2 :> "sip" @@ c3 :> "callpath"
PeerForks      == [c \in Calls |-> 1]
PeerSource     == [c \in Calls |-> i1]
PeerProto      == SipOrH323({p2})
PeerRoutes     == {{p1, p2}}
PeerInLimit    == i1 :> 1
PeerOutLimit   == p1 :> 1 @@ p2 :> 2
PeerRouteLimit == i1 :> (p1 :> 0 @@ p2 :> 1)
PeerLines      == <<>>

\* SIP and H.323 callers, H.323 terminators: the forks of c1 and the call-back c3
\* want the one gateway slot.  Card a1 (two lines) calls itself in c2 while it is
\* called back, and both legs of the call-back may call card a2 (one line).
CardKind       == c1 :> "sip" @@ c2 :> "h323" @@ c3 :> "callback"
CardSource     == c1 :> i1 @@ c2 :> a1 @@ c3 :> a1
CardForks      == c1 :> 2 @@ c2 :> 1 @@ c3 :> 2
CardOutCard    == [l \in Legs |-> IF l[1] = c2 THEN a1
                                  ELSE IF l[1] = c3 THEN a2 ELSE NoCard]
CardProto      == SipOrH323({})
CardRoutes     == {{p1}, {CardDest}}
CardInLimit    == i1 :> 0
CardOutLimit   == p1 :> 1
CardRouteLimit == EveryRoute(0)
CardLines      == a1 :> 2 @@ a2 :> 1
=============================================================================
