----------------------------- MODULE CommandLedger -----------------------------
(***************************************************************************)
(* What the host promises about a prompt command, whatever happens to its   *)
(* calls, its sessions, the agent and the process: a command id is claimed  *)
(* once; what is started for it is in the event log by then; the agent gets *)
(* it at most once, while it runs; and it is over once, for good.           *)
(*                                                                          *)
(* AcpTurns implements it (AcpTurns!Ledger).                                *)
(***************************************************************************)
EXTENDS Naturals

CONSTANT Commands  \* command ids

VARIABLES
  stage,     \* stage[c]: new, accepting, running, over
  recorded,  \* commands in the event log
  effects    \* effects[c]: how often the agent got c

ledger == << stage, recorded, effects >>

InFlight == {c \in Commands : stage[c] \in {"accepting", "running"}}

LedgerInit ==
  /\ stage = [c \in Commands |-> "new"]
  /\ recorded = {}
  /\ effects = [c \in Commands |-> 0]

Claim(c) ==
  /\ stage[c] = "new"
  /\ stage' = [stage EXCEPT ![c] = "accepting"]
  /\ UNCHANGED << recorded, effects >>

Start(c) ==
  /\ stage[c] = "accepting"
  /\ stage' = [stage EXCEPT ![c] = "running"]
  /\ recorded' = recorded \cup {c}
  /\ UNCHANGED effects

Deliver(c) ==
  /\ stage[c] = "running" /\ effects[c] = 0
  /\ effects' = [effects EXCEPT ![c] = 1]
  /\ UNCHANGED << stage, recorded >>

(* Commands end one by one, or all together when the host does. *)
End(C) ==
  /\ stage' = [c \in Commands |-> IF c \in C THEN "over" ELSE stage[c]]
  /\ UNCHANGED << recorded, effects >>

(* The workspace is removed, and its log with it. *)
Forget == recorded' = {} /\ UNCHANGED << stage, effects >>

LedgerNext ==
  \/ \E c \in Commands : Claim(c) \/ Start(c) \/ Deliver(c)
  \/ \E C \in SUBSET InFlight : End(C)
  \/ Forget

LedgerSpec == LedgerInit /\ [][LedgerNext]_ledger

=============================================================================
