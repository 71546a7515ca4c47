------------------------------ MODULE MCDevinLogin ------------------------------
(* Two overlapping or successive sign-in requests. *)
EXTENDS DevinLogin

CONSTANTS h1, h2

MCLogins == {h1, h2}
=============================================================================
