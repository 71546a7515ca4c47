------------------------- MODULE AcpPermissionsProofs -------------------------
(***************************************************************************)
(* Proofs about AcpPermissions, for every set of requests, sessions and    *)
(* options and every number of cancels and store faults.                   *)
(***************************************************************************)
EXTENDS AcpPermissions, TLAPS

LEMMA TypeInit == Init => TypeOK
  BY RequestAssumption, BoundAssumption DEF Init, TypeOK, Phases, NoSweep

(* Every step keeps the types: one case per action of Next.                 *)
LEMMA TypeNext == TypeOK /\ [Next]_vars => TypeOK'
<1> SUFFICES ASSUME TypeOK, [Next]_vars PROVE TypeOK'
  OBVIOUS
<1> USE RequestAssumption, BoundAssumption DEF TypeOK, Decision
<1>1. ASSUME NEW q \in Requests, AgentAsks(q) PROVE TypeOK'
  BY <1>1 DEF AgentAsks, In, Enter, Phases
<1>2. ASSUME NEW q \in Requests, Announce(q) PROVE TypeOK'
  BY <1>2 DEF Announce, In, Enter, Phases
<1>3. ASSUME NEW q \in Requests, AnnounceFails(q) PROVE TypeOK'
  BY <1>3 DEF AnnounceFails, In, Enter, StoreFault, Phases
<1>4. ASSUME NEW q \in Requests, Register(q) PROVE TypeOK'
  BY <1>4 DEF Register, In, Enter, Phases
<1>5. ASSUME NEW q \in Requests, Wake(q) PROVE TypeOK'
  BY <1>5 DEF Wake, Settle, In, Enter, Phases
<1>16. ASSUME NEW q \in Requests, DeadlineFires(q) PROVE TypeOK'
  BY <1>16 DEF DeadlineFires, In, Enter, Phases
<1>6. ASSUME NEW q \in Requests, Timeout(q) PROVE TypeOK'
  BY <1>6, ValueAssumption DEF Timeout, Settle, In, Enter, Phases
<1>7. ASSUME NEW q \in Requests, Answer(q) PROVE TypeOK'
  BY <1>7 DEF Answer, In, Enter, Phases
<1>8. ASSUME NEW q \in Requests, Resolve(q) PROVE TypeOK'
  BY <1>8 DEF Resolve, In, Enter, StoreFault, Phases
<1>9. ASSUME NEW q \in Requests, NEW v \in Decision, DecideTake(q, v)
       PROVE  TypeOK'
  BY <1>9 DEF DecideTake, Phases
<1>10. ASSUME NEW d \in inHand, DecideSend(d) PROVE TypeOK'
  BY <1>10 DEF DecideSend, Listening, Phases
<1>11. ASSUME NEW s \in Sessions, CancelCollect(s) PROVE TypeOK'
  BY <1>11 DEF CancelCollect, Phases
<1>12. ASSUME NEW q \in Requests, CancelOne(q) PROVE TypeOK'
  BY <1>12 DEF CancelOne, Listening, Phases
<1>13. CASE CancelDone
  BY <1>13 DEF CancelDone, NoSweep, Phases
<1>14. CASE WorkerStops
  BY <1>14 DEF WorkerStops, NoSweep, Phases
<1>15. CASE UNCHANGED vars
  BY <1>15 DEF vars, Phases
<1> QED
  BY <1>1, <1>2, <1>3, <1>4, <1>5, <1>6, <1>7, <1>8, <1>9, <1>10, <1>11, <1>12, <1>13, <1>14, <1>15, <1>16
     DEF Next, HandlerStep, TaskStep, SweepStep

LEMMA SafeInit == Init => Safe
  BY ValueAssumption DEF Init, Safe, FreshInv, EntryInv, ChannelInv, TaskInv, Fresh, Listening,
     AckedUnlessRaced, LogMatchesAnswer

(* Every step keeps the invariant: one case per action of Next.             *)
LEMMA SafeNext == Inv /\ [Next]_vars => Safe'
<1> SUFFICES ASSUME TypeOK, Safe, [Next]_vars PROVE Safe'
  BY DEF Inv
<1> USE ValueAssumption DEF Safe, FreshInv, EntryInv, ChannelInv, TaskInv, Fresh, Listening,
        AckedUnlessRaced, LogMatchesAnswer
<1>1. ASSUME NEW q \in Requests, AgentAsks(q) PROVE Safe'
  BY <1>1 DEF AgentAsks, In, Enter, TypeOK, Decision
<1>2. ASSUME NEW q \in Requests, Announce(q) PROVE Safe'
  BY <1>2 DEF Announce, In, Enter, TypeOK, Decision
<1>3. ASSUME NEW q \in Requests, AnnounceFails(q) PROVE Safe'
  BY <1>3 DEF AnnounceFails, In, Enter, StoreFault, TypeOK, Decision
<1>4. ASSUME NEW q \in Requests, Register(q) PROVE Safe'
  <2> USE <1>4 DEF Register, In, Enter, TypeOK, Decision
  <2>1. FreshInv'
    OBVIOUS
  <2>2. EntryInv'
    OBVIOUS
  <2>3. ChannelInv'
    OBVIOUS
  <2>4. TaskInv'
    OBVIOUS
  <2>5. AckedUnlessRaced' /\ LogMatchesAnswer'
    OBVIOUS
  <2> QED
    BY <2>1, <2>2, <2>3, <2>4, <2>5
<1>5. ASSUME NEW q \in Requests, Wake(q) PROVE Safe'
  BY <1>5 DEF Wake, Settle, In, Enter, TypeOK, Decision
<1>16. ASSUME NEW q \in Requests, DeadlineFires(q) PROVE Safe'
  BY <1>16 DEF DeadlineFires, In, Enter, TypeOK, Decision
<1>6. ASSUME NEW q \in Requests, Timeout(q) PROVE Safe'
  BY <1>6 DEF Timeout, Settle, In, Enter, TypeOK, Decision
<1>7. ASSUME NEW q \in Requests, Answer(q) PROVE Safe'
  BY <1>7 DEF Answer, In, Enter, TypeOK, Decision
<1>8. ASSUME NEW q \in Requests, Resolve(q) PROVE Safe'
  BY <1>8 DEF Resolve, In, Enter, StoreFault, TypeOK, Decision
<1>9. ASSUME NEW q \in Requests, NEW v \in Decision, DecideTake(q, v)
       PROVE  Safe'
  BY <1>9 DEF DecideTake, TypeOK, Decision
<1>10. ASSUME NEW d \in inHand, DecideSend(d) PROVE Safe'
  BY <1>10 DEF DecideSend, TypeOK, Decision
<1>11. ASSUME NEW s \in Sessions, CancelCollect(s) PROVE Safe'
  BY <1>11 DEF CancelCollect, TypeOK, Decision
<1>12. ASSUME NEW q \in Requests, CancelOne(q) PROVE Safe'
  BY <1>12 DEF CancelOne, TypeOK, Decision
<1>13. CASE CancelDone
  BY <1>13 DEF CancelDone, NoSweep, TypeOK, Decision
<1>14. CASE WorkerStops
  BY <1>14 DEF WorkerStops, NoSweep, TypeOK, Decision
<1>15. CASE UNCHANGED vars
  BY <1>15 DEF vars, TypeOK, Decision
<1> QED
  BY <1>1, <1>2, <1>3, <1>4, <1>5, <1>6, <1>7, <1>8, <1>9, <1>10, <1>11, <1>12, <1>13, <1>14, <1>15, <1>16
     DEF Next, HandlerStep, TaskStep, SweepStep

(* The inductive invariant of the permission map, its tasks and its callers.*)
THEOREM Invariance == Spec => []Inv
<1>1. Init => Inv
  BY TypeInit, SafeInit DEF Inv
<1>2. Inv /\ [Next]_vars => Inv'
  BY TypeNext, SafeNext DEF Inv
<1> QED
  BY <1>1, <1>2, PTL DEF Spec

(* Every reachable state has the declared types.                            *)
THEOREM TypeCorrect == Spec => []TypeOK
<1>1. Inv => TypeOK
  BY DEF Inv
<1> QED
  BY <1>1, Invariance, PTL

(* An applied decision is the one the agent receives, the race with the     *)
(* deadline apart.                                                          *)
THEOREM AckedHolds == Spec => []AckedUnlessRaced
<1>1. Inv => AckedUnlessRaced
  BY DEF Inv, Safe
<1> QED
  BY <1>1, Invariance, PTL

(* The agent is only given what it offered and what the log shows it asked. *)
THEOREM OfferedHolds == Spec => []OnlyOfferedOptions
<1>1. Inv => OnlyOfferedOptions
  BY DEF Inv, Safe, TypeOK, ChannelInv, TaskInv, OnlyOfferedOptions
<1> QED
  BY <1>1, Invariance, PTL

(* No entry of the map is orphaned while the worker runs.                   *)
THEOREM PendingHolds == Spec => []PendingHasTask
<1>1. Inv => PendingHasTask
  BY DEF Inv, Safe, TypeOK, EntryInv, PendingHasTask
<1> QED
  BY <1>1, Invariance, PTL

(* What a cancel took out of the map is never approved.                     *)
THEOREM SweptHolds == Spec => []SweptIsNeverApproved
<1>1. Inv => SweptIsNeverApproved
  BY DEF Inv, Safe, TypeOK, ChannelInv, TaskInv, SweptIsNeverApproved
<1> QED
  BY <1>1, Invariance, PTL

(* The published outcome is the one the agent was given.                    *)
THEOREM LogHolds == Spec => []LogMatchesAnswer
<1>1. Inv => LogMatchesAnswer
  BY DEF Inv, Safe
<1> QED
  BY <1>1, Invariance, PTL

(* One decision per request: a second one is never applied.                 *)
THEOREM OneDecision == Spec => NoSecondDecision
<1>1. Inv /\ [Next]_vars => [\A q \in Requests : told[q] # Nothing => told'[q] = told[q]]_vars
  <2> SUFFICES ASSUME Inv, Next, NEW q \in Requests, told[q] # Nothing
               PROVE  told'[q] = told[q]
    BY DEF vars
  <2>1. ASSUME NEW d \in inHand, DecideSend(d) PROVE told'[q] = told[q]
    BY <2>1 DEF DecideSend, Inv, Safe, EntryInv, TypeOK
  <2>2. CASE UNCHANGED told
    BY <2>2
  <2> QED
    BY <2>1, <2>2 DEF Next, HandlerStep, TaskStep, SweepStep, AgentAsks, Announce,
       AnnounceFails, Register, Wake, DeadlineFires, Timeout, Settle, Answer, Resolve, DecideTake,
       CancelCollect, CancelOne, CancelDone, WorkerStops
<1> QED
  BY <1>1, Invariance, PTL DEF Spec, NoSecondDecision

===============================================================================
