---------------------------- MODULE AcpPermissions ----------------------------
(***************************************************************************)
(* The permission requests of the agent (apps/leave/src/acp.rs): a handler *)
(* announces a request in the event log and registers it in the shared map *)
(* pending_permissions, a task waits for a decision or five minutes and    *)
(* answers the agent, and two kinds of caller take entries out of the map: *)
(* decide_permission for a client, cancel_session for a cancelled session. *)
(*                                                                         *)
(* The module follows one life of the worker.  A new life starts with an   *)
(* empty map and a new agent, and shares only the event log with the last. *)
(***************************************************************************)
EXTENDS Naturals, FiniteSets

CONSTANTS
  Requests,     \* permission requests the agent makes
  Sessions,
  Options,      \* option ids
  SessionOf,    \* SessionOf[q]: the session request q belongs to
  Offered,      \* Offered[q]: the options the agent offers in q
  Denied,       \* the decision "no option": cancelled
  Nothing,      \* no value yet
  MaxCancels,   \* bound: cancel calls
  MaxFaults     \* bound: store operations that fail

ASSUME RequestAssumption ==
  /\ SessionOf \in [Requests -> Sessions]
  /\ Offered \in [Requests -> SUBSET Options]

ASSUME ValueAssumption ==
  /\ Denied \notin Options
  /\ Nothing \notin Options \cup {Denied}

ASSUME BoundAssumption == MaxCancels \in Nat /\ MaxFaults \in Nat

VARIABLES
  host,         \* the worker: ready, stopped
  phase,        \* phase[q]: how far the handler and the task of q have come
  pending,      \* keys of pending_permissions
  inHand,       \* decisions taken out of the map by a client and not yet sent
  channel,      \* channel[q]: value sent on the oneshot channel of q
  chosen,       \* chosen[q]: outcome the task of q has settled on
  answer,       \* answer[q]: outcome the agent has been given
  told,         \* told[q]: decision a client was told has been applied
  requested,    \* requests with a permission_requested event
  resolved,     \* resolved[q]: outcome in the permission_resolved event
  sweep,        \* the cancel in progress: the requests it still has to visit
  swept,        \* requests a cancel has taken out of the map
  late,         \* requests decided after their deadline, while still listening
  cancels, faults    \* counters of the bounds

vars == << host, phase, pending, inHand, channel, chosen, answer, told,
           requested, resolved, sweep, swept, late, cancels, faults >>

Decision == Options \cup {Denied}

(* unasked; asked: the handler is publishing; announced: published, not in  *)
(* the map; waiting: the task awaits a decision; expired: the deadline has  *)
(* fired and the receiver of the channel has not been dropped yet; settled: *)
(* it has an outcome; answered: the agent has it; closed: the outcome is    *)
(* published; lost: the connection took the handler or the task with it.    *)
Phases == {"unasked", "asked", "announced", "waiting", "expired", "settled",
           "answered", "closed", "lost"}

(* The receiver exists, so that a send on the channel succeeds. *)
Listening(q) == phase[q] \in {"waiting", "expired"}

NoSweep == [active |-> FALSE, todo |-> {}]

TypeOK ==
  /\ host \in {"ready", "stopped"}
  /\ phase \in [Requests -> Phases]
  /\ pending \subseteq Requests
  /\ inHand \subseteq [req : Requests, val : Decision]
  /\ channel \in [Requests -> Decision \cup {Nothing}]
  /\ chosen \in [Requests -> Decision \cup {Nothing}]
  /\ answer \in [Requests -> Decision \cup {Nothing}]
  /\ told \in [Requests -> Decision \cup {Nothing}]
  /\ requested \subseteq Requests
  /\ resolved \in [Requests -> Decision \cup {Nothing}]
  /\ sweep \in [active : BOOLEAN, todo : SUBSET Requests]
  /\ swept \subseteq Requests
  /\ late \subseteq Requests
  /\ \A q \in Requests : phase[q] \in {"settled", "answered"} => chosen[q] # Nothing
  /\ cancels \in 0..MaxCancels
  /\ faults \in 0..MaxFaults

Init ==
  /\ host = "ready"
  /\ phase = [q \in Requests |-> "unasked"]
  /\ pending = {}
  /\ inHand = {}
  /\ channel = [q \in Requests |-> Nothing]
  /\ chosen = [q \in Requests |-> Nothing]
  /\ answer = [q \in Requests |-> Nothing]
  /\ told = [q \in Requests |-> Nothing]
  /\ requested = {}
  /\ resolved = [q \in Requests |-> Nothing]
  /\ sweep = NoSweep
  /\ swept = {}
  /\ late = {}
  /\ cancels = 0
  /\ faults = 0

Enter(q, p) == phase' = [phase EXCEPT ![q] = p]

In(q, p) == host = "ready" /\ phase[q] = p

StoreFault == faults < MaxFaults /\ faults' = faults + 1

-----------------------------------------------------------------------------
(* The handler of session/request_permission.  The connection handles the   *)
(* agent's messages one at a time, so one request is in the handler at most.*)

AgentAsks(q) ==
  /\ In(q, "unasked")
  /\ \A r \in Requests : phase[r] \notin {"asked", "announced"}
  /\ Enter(q, "asked")
  /\ UNCHANGED << host, pending, inHand, channel, chosen, answer, told, requested,
                  resolved, sweep, swept, late, cancels, faults >>

(* permission_requested reaches the log, and the clients, first. *)
Announce(q) ==
  /\ In(q, "asked")
  /\ Enter(q, "announced")
  /\ requested' = requested \cup {q}
  /\ UNCHANGED << host, pending, inHand, channel, chosen, answer, told, resolved,
                  sweep, swept, late, cancels, faults >>

(* Without its audit event the request is denied at once. *)
AnnounceFails(q) ==
  /\ In(q, "asked")
  /\ StoreFault
  /\ Enter(q, "closed")
  /\ answer' = [answer EXCEPT ![q] = Denied]
  /\ UNCHANGED << host, pending, inHand, channel, chosen, told, requested, resolved,
                  sweep, swept, late, cancels >>

(* Insert into the map and spawn the waiting task. *)
Register(q) ==
  /\ In(q, "announced")
  /\ Enter(q, "waiting")
  /\ pending' = pending \cup {q}
  /\ UNCHANGED << host, inHand, channel, chosen, answer, told, requested, resolved,
                  sweep, swept, late, cancels, faults >>

-----------------------------------------------------------------------------
(* The task waiting for request q *)

Settle(q, v) ==
  /\ Enter(q, "settled")
  /\ chosen' = [chosen EXCEPT ![q] = v]
  /\ UNCHANGED << host, pending, inHand, channel, answer, told, requested, resolved,
                  sweep, swept, late, cancels, faults >>

Wake(q) ==
  /\ In(q, "waiting")
  /\ channel[q] # Nothing
  /\ Settle(q, channel[q])

(* tokio::time::timeout polls the channel, and then the clock. *)
DeadlineFires(q) ==
  /\ In(q, "waiting")
  /\ channel[q] = Nothing
  /\ Enter(q, "expired")
  /\ UNCHANGED << host, pending, inHand, channel, chosen, answer, told, requested,
                  resolved, sweep, swept, late, cancels, faults >>

(* Variant: the task starts waiting again. *)
Timeout_WaitsAgain(q) ==
  /\ In(q, "expired")
  /\ Enter(q, "waiting")
  /\ UNCHANGED << host, pending, inHand, channel, chosen, answer, told, requested,
                  resolved, sweep, swept, late, cancels, faults >>

(* The future returns Elapsed and drops the receiver, with whatever was     *)
(* sent since the channel was polled.                                       *)
Timeout(q) ==
  /\ In(q, "expired")
  /\ Settle(q, Denied)

(* Variant: the entry of an expired request stays in the map. *)
Answer_KeepsEntry(q) ==
  /\ In(q, "settled")
  /\ Enter(q, "answered")
  /\ answer' = [answer EXCEPT ![q] = chosen[q]]
  /\ UNCHANGED << host, pending, inHand, channel, chosen, told, requested, resolved,
                  sweep, swept, late, cancels, faults >>

(* Remove the entry, if it is still there, and respond to the agent. *)
Answer(q) ==
  /\ In(q, "settled")
  /\ Enter(q, "answered")
  /\ pending' = pending \ {q}
  /\ answer' = [answer EXCEPT ![q] = chosen[q]]
  /\ UNCHANGED << host, inHand, channel, chosen, told, requested, resolved, sweep,
                  swept, late, cancels, faults >>

(* Variant: the outcome may be published before the agent has it. *)
Resolve_BeforeAnswer(q) ==
  /\ \/ In(q, "settled") /\ UNCHANGED phase
     \/ In(q, "answered") /\ Enter(q, "closed")
  /\ resolved' = [resolved EXCEPT ![q] = chosen[q]]
  /\ UNCHANGED << host, pending, inHand, channel, chosen, answer, told, requested,
                  sweep, swept, late, cancels, faults >>

(* permission_resolved; a failing store is logged. *)
Resolve(q) ==
  /\ In(q, "answered")
  /\ Enter(q, "closed")
  /\ \/ resolved' = [resolved EXCEPT ![q] = chosen[q]] /\ UNCHANGED faults
     \/ StoreFault /\ UNCHANGED resolved
  /\ UNCHANGED << host, pending, inHand, channel, chosen, answer, told, requested,
                  sweep, swept, late, cancels >>

-----------------------------------------------------------------------------
(* decide_permission: an HTTP handler, which also runs beside a worker that *)
(* has stopped.  A decision on an unknown request or on an option that was  *)
(* not offered is refused and changes nothing.                              *)

(* Variant: the entry is looked up and not removed. *)
DecideTake_KeepsEntry(q, v) ==
  /\ q \in pending
  /\ v \in Offered[q] \cup {Denied}
  /\ inHand' = inHand \cup {[req |-> q, val |-> v]}
  /\ UNCHANGED << host, phase, pending, channel, chosen, answer, told, requested,
                  resolved, sweep, swept, late, cancels, faults >>

DecideTake(q, v) ==
  /\ q \in pending
  /\ v \in Offered[q] \cup {Denied}
  /\ pending' = pending \ {q}
  /\ inHand' = inHand \cup {[req |-> q, val |-> v]}
  /\ UNCHANGED << host, phase, channel, chosen, answer, told, requested, resolved,
                  sweep, swept, late, cancels, faults >>

(* Variant: the result of the send is ignored. *)
DecideSend_IgnoresExpiry(d) ==
  /\ d \in inHand
  /\ inHand' = inHand \ {d}
  /\ channel' = [channel EXCEPT ![d.req] = d.val]
  /\ told' = [told EXCEPT ![d.req] = d.val]
  /\ late' = late \cup {q \in {d.req} : phase[q] = "expired"}
  /\ UNCHANGED << host, phase, pending, chosen, answer, requested, resolved, sweep,
                  swept, cancels, faults >>

(* The lock is dropped before the send, which fails when the task no longer *)
(* listens: the client is told that the request has expired.                *)
DecideSend(d) ==
  /\ d \in inHand
  /\ inHand' = inHand \ {d}
  /\ IF Listening(d.req)
       THEN /\ channel' = [channel EXCEPT ![d.req] = d.val]
            /\ told' = [told EXCEPT ![d.req] = d.val]
       ELSE UNCHANGED << channel, told >>
  /\ late' = late \cup {q \in {d.req} : phase[q] = "expired"}
  /\ UNCHANGED << host, phase, pending, chosen, answer, requested, resolved, sweep,
                  swept, cancels, faults >>

-----------------------------------------------------------------------------
(* cancel_session: collect the session's entries, then take them out one at *)
(* a time.  The lock is free between the entries.                           *)

CancelCollect(s) ==
  /\ host = "ready"
  /\ ~ sweep.active
  /\ cancels < MaxCancels
  /\ cancels' = cancels + 1
  /\ sweep' = [active |-> TRUE, todo |-> {q \in pending : SessionOf[q] = s}]
  /\ UNCHANGED << host, phase, pending, inHand, channel, chosen, answer, told,
                  requested, resolved, swept, late, faults >>

(* Variant: cancelling looks the entry up and leaves it in the map. *)
CancelOne_KeepsEntry(q) ==
  /\ q \in sweep.todo
  /\ sweep' = [sweep EXCEPT !.todo = @ \ {q}]
  /\ swept' = swept \cup ({q} \cap pending)
  /\ channel' = IF q \in pending /\ Listening(q)
                  THEN [channel EXCEPT ![q] = Denied] ELSE channel
  /\ UNCHANGED << host, phase, pending, inHand, chosen, answer, told, requested,
                  resolved, late, cancels, faults >>

(* The entry may be gone: decided, or expired and removed by its task. *)
CancelOne(q) ==
  /\ q \in sweep.todo
  /\ sweep' = [sweep EXCEPT !.todo = @ \ {q}]
  /\ pending' = pending \ {q}
  /\ swept' = swept \cup ({q} \cap pending)
  /\ channel' = IF q \in pending /\ Listening(q)
                  THEN [channel EXCEPT ![q] = Denied] ELSE channel
  /\ UNCHANGED << host, phase, inHand, chosen, answer, told, requested, resolved,
                  late, cancels, faults >>

CancelDone ==
  /\ sweep.active
  /\ sweep.todo = {}
  /\ sweep' = NoSweep
  /\ UNCHANGED << host, phase, pending, inHand, channel, chosen, answer, told,
                  requested, resolved, swept, late, cancels, faults >>

-----------------------------------------------------------------------------
(* The connection ends: handler, tasks and the cancel in progress are gone, *)
(* the map keeps its entries.                                               *)
WorkerStops ==
  /\ host = "ready"
  /\ host' = "stopped"
  /\ phase' = [q \in Requests |->
                 IF phase[q] \in {"asked", "announced", "waiting", "expired", "settled",
                                 "answered"}
                   THEN "lost" ELSE phase[q]]
  /\ sweep' = NoSweep
  /\ UNCHANGED << pending, inHand, channel, chosen, answer, told, requested, resolved,
                  swept, late, cancels, faults >>

HandlerStep(q) == Announce(q) \/ AnnounceFails(q) \/ Register(q)

TaskStep(q) == Wake(q) \/ DeadlineFires(q) \/ Timeout(q) \/ Answer(q) \/ Resolve(q)

SweepStep == CancelDone \/ \E q \in Requests : CancelOne(q)

Next ==
  \/ \E q \in Requests : AgentAsks(q) \/ HandlerStep(q) \/ TaskStep(q)
  \/ \E q \in Requests, v \in Decision : DecideTake(q, v)
  \/ \E d \in inHand : DecideSend(d)
  \/ \E s \in Sessions : CancelCollect(s)
  \/ SweepStep
  \/ WorkerStops

Spec == Init /\ [][Next]_vars

(* The runtime polls the handler, the tasks and the senders; the deadline   *)
(* of a waiting task passes.  Nobody has to ask, decide or cancel.          *)
Fairness ==
  /\ \A q \in Requests : WF_vars(HandlerStep(q)) /\ WF_vars(TaskStep(q))
  /\ WF_vars(\E d \in inHand : DecideSend(d))
  /\ WF_vars(SweepStep)

FairSpec == Spec /\ Fairness

-----------------------------------------------------------------------------
(* Properties                                                               *)

(* A client that was told its decision has been applied was told the truth: *)
(* the agent is never given another outcome, whatever the timeout, a cancel *)
(* or a second client do meanwhile, but for a decision sent in the instant  *)
(* between the deadline and the drop of the receiver, which is denied       *)
(* (decide_permission's send against the task's timeout).                   *)
AckedUnlessRaced ==
  \A q \in Requests :
    told[q] # Nothing /\ answer[q] # Nothing
      => answer[q] = told[q] \/ (q \in late /\ answer[q] = Denied)

(* "One pending resolution" (docs/compatibility.md): once one client's      *)
(* decision has been applied no other decision is.                          *)
NoSecondDecision ==
  [][\A q \in Requests : told[q] # Nothing => told'[q] = told[q]]_vars

(* "Exact agent option IDs": the agent is only given an option it offered,  *)
(* for a request that is in the event log.                                  *)
OnlyOfferedOptions ==
  \A q \in Requests :
    answer[q] \in Options => answer[q] \in Offered[q] /\ q \in requested

(* While the worker runs, every entry of the map belongs to a task that     *)
(* will take it out: no client is shown a request nobody waits for.         *)
PendingHasTask ==
  host = "ready" => \A q \in pending : phase[q] \in {"waiting", "expired", "settled"}

(* A request that a cancel took out of the map is never approved, not even  *)
(* by a decision that was on its way (cancel_session against                *)
(* decide_permission).                                                      *)
SweptIsNeverApproved ==
  \A q \in swept : answer[q] \notin Options /\ told[q] = Nothing

(* The log never shows an outcome the agent was not given: the event is     *)
(* published after the response.                                            *)
LogMatchesAnswer ==
  \A q \in Requests : resolved[q] # Nothing => answer[q] = resolved[q]

(* Every request is answered, with no help from a client: five-minute       *)
(* expiry (docs/compatibility.md), unless the worker dies.                  *)
RequestsAreAnswered ==
  \A q \in Requests : phase[q] = "asked" ~> (answer[q] # Nothing \/ host = "stopped")

-----------------------------------------------------------------------------
(* The inductive invariant behind the safety properties.                    *)

Fresh(q) == phase[q] \in {"unasked", "asked", "announced"}

(* Before it is registered a request has left no trace but its event. *)
FreshInv ==
  \A q \in Requests : Fresh(q) =>
    /\ phase[q] = "announced" => q \in requested
    /\ q \notin pending \cup swept
    /\ \A d \in inHand : d.req # q
    /\ channel[q] = Nothing /\ told[q] = Nothing
    /\ chosen[q] = Nothing /\ answer[q] = Nothing /\ resolved[q] = Nothing

(* The entry of a request is in one place: in the map, in one client's hand,*)
(* or consumed.                                                             *)
EntryInv ==
  /\ \A q \in pending :
       /\ phase[q] \in {"waiting", "expired", "settled", "lost"}
       /\ host = "ready" => phase[q] # "lost"
       /\ q \in requested \ swept
       /\ channel[q] = Nothing /\ told[q] = Nothing
  /\ \A d \in inHand :
       /\ d.req \in requested \ (pending \cup swept)
       /\ channel[d.req] = Nothing /\ told[d.req] = Nothing
       /\ d.val \in Offered[d.req] \cup {Denied}
  /\ \A d, e \in inHand : d.req = e.req => d = e

(* What was sent on the channel. *)
ChannelInv ==
  \A q \in Requests :
    /\ channel[q] \in Options => channel[q] \in Offered[q] /\ q \in requested
    /\ q \in swept => channel[q] \notin Options /\ told[q] = Nothing
    /\ told[q] # Nothing => channel[q] = told[q]

(* What the task made of it. *)
TaskInv ==
  \A q \in Requests :
    /\ Listening(q) => chosen[q] = Nothing
    /\ Listening(q) \/ phase[q] = "settled" => answer[q] = Nothing
    /\ phase[q] = "answered" => answer[q] = chosen[q]
    /\ Listening(q) \/ phase[q] \in {"settled", "answered"} => resolved[q] = Nothing
    /\ chosen[q] \in Options => channel[q] = chosen[q]
    /\ chosen[q] # Nothing /\ told[q] # Nothing
         => chosen[q] = told[q] \/ (q \in late /\ chosen[q] = Denied)
    /\ phase[q] = "expired" /\ told[q] # Nothing => q \in late
    /\ answer[q] \in Options => chosen[q] = answer[q]

Safe ==
  /\ FreshInv
  /\ EntryInv
  /\ ChannelInv
  /\ TaskInv
  /\ AckedUnlessRaced
  /\ LogMatchesAnswer

Inv == TypeOK /\ Safe

=============================================================================
