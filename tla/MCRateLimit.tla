---------------------------- MODULE MCRateLimit ----------------------------
(* Values for the constants of RateLimit, for TLC: amounts and spans are     *)
(* scaled down, and RATELIMIT_LOGIN has a short limit that is used up before *)
(* the long one.                                                             *)
EXTENDS RateLimit, TLC

OwnAddress(c) == c
LoginLimits   == "login" :> <<[amount |-> 3, span |-> 1], [amount |-> 4, span |-> 3]>>
LoginPace     == "login" :> 6
=============================================================================
