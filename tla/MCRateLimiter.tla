----------------------------- MODULE MCRateLimiter -----------------------------
(* RateLimiter for TLC: a route with a short policy by address and user and *)
(* a longer one by address alone; two callers of one address, one of them   *)
(* logged in.                                                               *)
EXTENDS RateLimiter

MCMaxRequests == <<1, 2>>
MCWindowSeconds == <<1, 2>>
MCDimensions == <<{"ip", "user"}, {"ip"}>>
MCIdentity ==
  [c \in Callers |-> [ip |-> "home",
                      user |-> IF c = "member" THEN "alice" ELSE "anonymous"]]

=============================================================================
