--------------------------- MODULE MCAcpPermissions ---------------------------
(* A small instance of AcpPermissions: two requests of session s1, which      *)
(* offer different options, and a session s2 without any.                     *)
EXTENDS AcpPermissions

CONSTANTS q1, q2, s1, s2, allow, reject

MCRequests == {q1, q2}
MCSessions == {s1, s2}
MCOptions == {allow, reject}
MCSessionOf == [q \in Requests |-> s1]
MCOffered == [q \in Requests |-> IF q = q2 THEN {reject} ELSE {allow, reject}]
=============================================================================
