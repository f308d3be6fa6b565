--------------------------- MODULE MCRateLimiter ---------------------------
(* Small instances of RateLimiter for TLC. *)
EXTENDS RateLimiter, TLC

CONSTANTS alice, bob, g1, g2

MCKeys    == {alice, bob}
MCCallers == {g1, g2}
OneKey    == {alice}
OneCaller == {g1}

Symmetric == Permutations(MCKeys) \cup Permutations(MCCallers)
============================================================================
