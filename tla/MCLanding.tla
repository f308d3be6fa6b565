------------------------------ MODULE MCLanding ------------------------------
(* The landing page with two of its three themes. *)
EXTENDS Landing

TwoThemes == <<"dark", "light">>
=============================================================================
