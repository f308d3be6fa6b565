---------------------------- MODULE MCRunTheater ----------------------------
(* Small instances of RunTheater for TLC. *)
EXTENDS RunTheater

CONSTANTS c1, c2

TwoConnections == {c1, c2}

OneStep    == <<"anchor">>
OneKey     == {"anchor"}
ShortSteps == <<"anchor", "verify">>
ShortKeys  == {"anchor", "verify"}
=============================================================================
