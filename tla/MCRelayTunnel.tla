----------------------------- MODULE MCRelayTunnel -----------------------------
(* Small instances of RelayTunnel.                                            *)
EXTENDS RelayTunnel

CONSTANTS p1, p2

MCPhones == {p1, p2}

(* What open_route starts, and groups as the tests of relay_tunnel.rs set     *)
(* them up, without a code: an owner beside an operator, and a viewer beside  *)
(* a maintainer.                                                              *)
Pair2(first, second) ==
  [code |-> FALSE, members |-> MCPhones,
   grants |-> [p \in MCPhones |-> IF p = p1 THEN first ELSE second]]

Role(role) == [role |-> role, capabilities |-> {}]

MCServices ==
  {[code |-> TRUE, members |-> {}, grants |-> << >>],
   Pair2(Role("owner"), newly_paired), Pair2(Role("viewer"), Role("maintainer"))}

(* With the tailnet open only what carries the owner's login is dispatched.   *)
MCRequests ==
  {[Ask("POST", "session/prompts", "") EXCEPT !.login = "owner"],
   [Ask("DELETE", "devices", "") EXCEPT !.target = p2],
   [Ask("GET", "status", "") EXCEPT !.form = "malformed"]}
=============================================================================
