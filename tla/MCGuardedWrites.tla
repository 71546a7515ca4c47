---------------------------- MODULE MCGuardedWrites ----------------------------
(* Small instances of GuardedWrites: two devices save one file.               *)
EXTENDS GuardedWrites

CONSTANTS r1, r2, a, b

MCRequests == {r1, r2}
MCContents == {Empty, a, b}
=============================================================================
