-------------------------- MODULE GuardedWritesProofs --------------------------
(***************************************************************************)
(* Proofs about GuardedWrites, for every set of requests and contents and  *)
(* every number of agent writes and disconnections.                        *)
(***************************************************************************)
EXTENDS GuardedWrites, TLAPS

LEMMA InvInit == Init => Inv
  BY WritesAssumption DEF Init, Inv, TypeOK, Steps, HolderInv, FoundInv, VerifiedInv

(* Every step keeps the invariant.  The mutex decides: two undropped jobs   *)
(* cannot both be between their first check and their answer.               *)
LEMMA InvNext == Inv /\ [Next]_vars => Inv'
<1> SUFFICES ASSUME Inv, [Next]_vars PROVE Inv'
  OBVIOUS
<1> USE WritesAssumption DEF Inv, TypeOK, HolderInv, FoundInv, VerifiedInv, Goto, Release,
        Replace, Blocking, file, request
<1>1. ASSUME NEW r \in Requests, NEW b \in Contents, NEW c \in Contents, Submit(r, b, c)
      PROVE  Inv'
  BY <1>1 DEF Submit, Steps
<1>2. ASSUME NEW r \in Requests, Lock(r) PROVE Inv'
  BY <1>2 DEF Lock, Steps
<1>3. ASSUME NEW r \in Requests, FirstCheck(r) PROVE Inv'
  BY <1>3 DEF FirstCheck, Steps
<1>4. ASSUME NEW r \in Requests, SecondCheck(r) PROVE Inv'
  BY <1>4 DEF SecondCheck, Steps
<1>5. ASSUME NEW r \in Requests, Commit(r) PROVE Inv'
  BY <1>5 DEF Commit, Steps
<1>6. ASSUME NEW r \in Requests, CommitFails(r) PROVE Inv'
  BY <1>6 DEF CommitFails, Steps
<1>7. ASSUME NEW r \in Requests, Answer(r) PROVE Inv'
  BY <1>7 DEF Answer, Steps
<1>8. ASSUME NEW r \in Requests, Disconnect(r) PROVE Inv'
  BY <1>8 DEF Disconnect, Steps
<1>9. ASSUME NEW c \in Contents, AgentWrites(c) PROVE Inv'
  BY <1>9 DEF AgentWrites, Steps
<1>10. CASE UNCHANGED vars
  BY <1>10 DEF vars
<1> QED
  BY <1>1, <1>2, <1>3, <1>4, <1>5, <1>6, <1>7, <1>8, <1>9, <1>10 DEF Next, RequestStep

(* The inductive invariant of the two checks and the mutex.                 *)
THEOREM Invariance == Spec => []Inv
<1> QED
  BY InvInit, InvNext, PTL DEF Spec

(* Type correctness: every request is at a step of write_text, and the      *)
(* writer mutex is free or held by a request.                               *)
THEOREM TypeCorrect == Spec => []TypeOK
<1>1. Inv => TypeOK
  BY DEF Inv
<1> QED
  BY <1>1, Invariance, PTL

(* Only a dropped request lets one device overwrite another's save unseen.  *)
THEOREM SavesAreSerialHolds == Spec => SavesAreSerial
<1>1. Inv /\ [Next]_vars
        => [\A r \in Requests :
              Commit(r) /\ disk # found[r] /\ writer # Nobody => detached # {}]_vars
  BY DEF Inv, FoundInv, Commit
<1> QED
  BY <1>1, Invariance, PTL DEF Spec, SavesAreSerial

(* Only what the agent writes after the last check can be overwritten.      *)
THEOREM AgentWorkIsCheckedHolds == Spec => AgentWorkIsChecked
<1>1. Inv /\ [Next]_vars
        => [\A r \in Requests :
              Commit(r) /\ disk # found[r] /\ writer = Nobody => r \in raced]_vars
  BY DEF Inv, VerifiedInv, Commit
<1> QED
  BY <1>1, Invariance, PTL DEF Spec, AgentWorkIsChecked

================================================================================
