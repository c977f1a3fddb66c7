--------------------------- MODULE MCOAuthRefresh ---------------------------
(* OAuthRefresh for TLC: two instances, a refresh loop in each and request *)
(* handlers in the first.                                                  *)
EXTENDS OAuthRefresh

CONSTANTS b1, b2, r1, i1, i2

TwoLoops == {b1, b2}
OneRequest == {r1}
TwoInstances == {i1, i2}
Places == [w \in Workers |-> IF w = b2 THEN i2 ELSE i1]
=============================================================================
