------------------------- MODULE MCLimitMiddleware -------------------------
(* Two tokens, half a token a millisecond, three ticks a millisecond: the    *)
(* bucket empties, refills from zero and loses remainders within Horizon.    *)
EXTENDS LimitMiddleware
=============================================================================
