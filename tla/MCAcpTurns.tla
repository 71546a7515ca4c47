----------------------------- MODULE MCAcpTurns -----------------------------
(* Small instances of AcpTurns: c1 and c2 are meant for session s1, and c3   *)
(* for s2.                                                                   *)
EXTENDS AcpTurns

CONSTANTS s1, s2, c1, c2, c3

MCTwoSessions == {s1, s2}
MCThreeCommands == {c1, c2, c3}
MCTarget == [c \in Commands |-> IF c = c3 THEN s2 ELSE s1]
=============================================================================
