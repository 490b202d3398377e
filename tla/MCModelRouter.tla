--------------------------- MODULE MCModelRouter ---------------------------
(* Routes for TLC: a fallback, and a primary that is also named as the last    *)
(* fallback (with another model), which the schema of routing.yaml allows.   *)
EXTENDS ModelRouter

CONSTANTS p1, p2

RoundTrip == {<<p1, p2, p1>>}
OneWay == {<<p1, p2>>}
=============================================================================
