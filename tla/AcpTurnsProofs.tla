---------------------------- MODULE AcpTurnsProofs ----------------------------
(***************************************************************************)
(* Proofs about AcpTurns, for every set of sessions and commands, every    *)
(* channel capacity and every number of calls, crashes and store faults.   *)
(***************************************************************************)
EXTENDS AcpTurns, TLAPS

(* A command of the channel leads to a place of the loop with the argument  *)
(* that place needs (command_loop's match).                                 *)
LEMMA EntryType ==
  ASSUME NEW cmd \in WorkerCommand
  PROVE  /\ Entry[cmd.op] \in Places
         /\ Entry[cmd.op] = "create_agent" => cmd.arg = None
         /\ Entry[cmd.op] \in ResumePlaces \cup CancelPlaces => cmd.arg \in Sessions
         /\ Entry[cmd.op] \in PromptPlaces => cmd.arg \in Commands
         /\ Entry[cmd.op] \notin CreatePlaces \cup {"idle"}
         /\ Entry[cmd.op] \in PromptPlaces => Entry[cmd.op] = "prompt_check"
<1>1. CASE cmd \in [op : {"create"}, arg : {None}]
  BY <1>1 DEF Entry, Places, CreatePlaces, ResumePlaces, CancelPlaces,
     PromptPlaces
<1>2. CASE cmd \in [op : {"resume", "cancel"}, arg : Sessions]
  BY <1>2 DEF Entry, Places, CreatePlaces, ResumePlaces, CancelPlaces,
     PromptPlaces
<1>3. CASE cmd \in [op : {"prompt"}, arg : Commands]
  BY <1>3 DEF Entry, Places, CreatePlaces, ResumePlaces, CancelPlaces,
     PromptPlaces
<1> QED
  BY <1>1, <1>2, <1>3 DEF WorkerCommand

(* The part of the type invariant about the command loop, named so that a   *)
(* step that leaves the loop where it is need not expand it.                *)
LoopOK ==
  /\ at \in Places
  /\ at \in {"idle", "create_agent"} => arg = None
  /\ at \in CreatePlaces \cup ResumePlaces \cup CancelPlaces => arg \in Sessions
  /\ at \in PromptPlaces => arg \in Commands

InboxOK == inbox \in Seq(WorkerCommand) /\ Len(inbox) <= Capacity

DataOK ==
  /\ host \in HostStates
  /\ registered \in BOOLEAN
  /\ row \in [Sessions -> RowStates]
  /\ claimed \subseteq Commands
  /\ prompted \subseteq Commands
  /\ InboxOK
  /\ turn \in [Commands -> TurnStates]
  /\ delivered \in [Commands -> Nat]
  /\ overtaken \subseteq Commands
  /\ calls \in 0..MaxCalls
  /\ crashes \in 0..MaxCrashes
  /\ faults \in 0..MaxFaults

LEMMA TypeParts == TypeOK <=> LoopOK /\ DataOK
  BY DEF TypeOK, LoopOK, DataOK, InboxOK

LEMMA FinishOK == Finish => LoopOK'
  BY DEF Finish, LoopOK, Places, CreatePlaces, ResumePlaces, CancelPlaces,
     PromptPlaces

LEMMA SameLoopOK == LoopOK /\ UNCHANGED << at, arg >> => LoopOK'
  BY DEF LoopOK

LEMMA TypeInit == Init => TypeOK
<1> SUFFICES ASSUME Init PROVE TypeOK
  OBVIOUS
<1>1. LoopOK
  BY DEF Init, LoopOK, Places, CreatePlaces, ResumePlaces, CancelPlaces,
     PromptPlaces
<1>2. InboxOK
  BY BoundsAssumption DEF Init, InboxOK
<1>3. DataOK
  BY <1>2, BoundsAssumption DEF Init, DataOK, HostStates, RowStates, TurnStates
<1> QED
  BY <1>1, <1>3, TypeParts

LEMMA TypeNext == TypeOK /\ [Next]_vars => TypeOK'
<1> SUFFICES ASSUME LoopOK, DataOK, [Next]_vars
             PROVE  LoopOK' /\ DataOK'
  BY DEF TypeOK, LoopOK, DataOK, InboxOK
<1> USE DEF durable, counters, InboxOK
<1>fault. StoreFault => faults' \in 0..MaxFaults
  BY BoundsAssumption DEF StoreFault, DataOK
<1>drop. DropTasks => LoopOK' /\ InboxOK' /\ turn' \in [Commands -> TurnStates]
  <2> SUFFICES ASSUME DropTasks
               PROVE  LoopOK' /\ InboxOK' /\ turn' \in [Commands -> TurnStates]
    OBVIOUS
  <2>1. LoopOK'
    BY FinishOK DEF DropTasks
  <2>2. turn' \in [Commands -> TurnStates]
    BY DEF DropTasks, DataOK, TurnStates
  <2>3. InboxOK'
    BY BoundsAssumption DEF DropTasks
  <2> QED
    BY <2>1, <2>2, <2>3
<1>1. CASE MarkOffline
  <2>1. row' \in [Sessions -> RowStates]
    BY <1>1 DEF MarkOffline, DataOK, RowStates
  <2> QED
    BY <1>1, <1>fault, <2>1, SameLoopOK DEF MarkOffline, DataOK, HostStates
<1>2. CASE Connect
  BY <1>2, SameLoopOK DEF Connect, DataOK, HostStates
<1>3. CASE AgentStops
  BY <1>3, <1>drop DEF AgentStops, DataOK, HostStates
<1>4. CASE Crash
  BY <1>4, <1>drop, BoundsAssumption DEF Crash, DataOK, HostStates
<1>5. CASE Boot
  BY <1>5, SameLoopOK DEF Boot, DataOK, HostStates
<1>6. CASE RemoveWorkspace
  BY <1>6, SameLoopOK DEF RemoveWorkspace, DataOK, RowStates
<1>7. ASSUME NEW cmd \in WorkerCommand, Call(cmd) PROVE LoopOK' /\ DataOK'
  BY <1>7, SameLoopOK, BoundsAssumption DEF Call, DataOK
<1>8. CASE TakeCommand
  <2>1. /\ Head(inbox) \in WorkerCommand
        /\ Tail(inbox) \in Seq(WorkerCommand)
        /\ Len(Tail(inbox)) <= Capacity
    BY <1>8, BoundsAssumption DEF TakeCommand, DataOK
  <2>2. LoopOK'
    BY <1>8, <2>1, EntryType DEF TakeCommand, LoopOK
  <2> QED
    BY <1>8, <2>1, <2>2 DEF TakeCommand, DataOK
<1>9. CASE JobStoreFails
  <2>1. turn' \in [Commands -> TurnStates]
    BY <1>9 DEF JobStoreFails, DataOK, TurnStates
  <2> QED
    BY <1>9, <2>1, <1>fault, FinishOK DEF JobStoreFails, DataOK
<1>10. CASE AgentRefuses
  BY <1>10, FinishOK DEF AgentRefuses, DataOK
<1>11. ASSUME NEW s \in Sessions, AgentCreates(s) PROVE LoopOK' /\ DataOK'
  BY <1>11 DEF AgentCreates, LoopOK, DataOK, Places, CreatePlaces, PromptPlaces
<1>12. CASE StoreCreated
  BY <1>12 DEF StoreCreated, At, Goto, LoopOK, DataOK, RowStates, Places,
     CreatePlaces, PromptPlaces
<1>13. CASE AgentResumes
  BY <1>13 DEF AgentResumes, At, Goto, LoopOK, DataOK, Places, ResumePlaces,
     PromptPlaces
<1>14. CASE NotifyCancel
  BY <1>14 DEF NotifyCancel, At, Goto, LoopOK, DataOK, Places, CancelPlaces,
     PromptPlaces
<1>15. CASE FreeSession
  BY <1>15 DEF FreeSession, UpdateSessionState, At, Goto, LoopOK, DataOK,
     RowStates, Places, ResumePlaces, CancelPlaces, PromptPlaces
<1>16. CASE PublishOutcome
  BY <1>16, FinishOK DEF PublishOutcome, DataOK
<1>17. CASE CheckSession
  BY <1>17 DEF CheckSession, At, Goto, Finish, LoopOK, DataOK, Places,
     CreatePlaces, ResumePlaces, CancelPlaces, PromptPlaces
<1>18. CASE ClaimCommand
  BY <1>18 DEF ClaimCommand, At, Goto, Finish, LoopOK, DataOK, Places,
     CreatePlaces, ResumePlaces, CancelPlaces, PromptPlaces
<1>19. CASE MarkWorking
  BY <1>19, TargetAssumption DEF MarkWorking, UpdateSessionState, At, Goto,
     Finish, LoopOK, DataOK, RowStates, TurnStates, Places, CreatePlaces,
     ResumePlaces, CancelPlaces, PromptPlaces
<1>20. CASE RecordAndSpawn
  BY <1>20, FinishOK DEF RecordAndSpawn, At, LoopOK, DataOK, TurnStates,
     PromptPlaces
<1>21. ASSUME NEW c \in Commands, TurnStep(c) PROVE LoopOK' /\ DataOK'
  <2>1. CASE SendPrompt(c)
    BY <2>1, SameLoopOK DEF SendPrompt, DataOK, TurnStates
  <2>2. CASE AgentAnswers(c)
    BY <2>2, SameLoopOK DEF AgentAnswers, DataOK, TurnStates
  <2>3. CASE FinishTurn(c)
    BY <2>3, <1>fault, SameLoopOK, TargetAssumption
       DEF FinishTurn, UpdateSessionState, DataOK, TurnStates, RowStates
  <2>4. CASE PublishTurn(c)
    BY <2>4, SameLoopOK DEF PublishTurn, DataOK, TurnStates
  <2> QED
    BY <1>21, <2>1, <2>2, <2>3, <2>4 DEF TurnStep
<1>22. CASE UNCHANGED vars
  BY <1>22, SameLoopOK DEF vars, DataOK
<1> QED
  BY <1>1, <1>2, <1>3, <1>4, <1>5, <1>6, <1>7, <1>8, <1>9, <1>10, <1>11, <1>12,
     <1>13, <1>14, <1>15, <1>16, <1>17, <1>18, <1>19, <1>20, <1>21, <1>22
     DEF Next, JobStep

(* Every reachable state has the declared types.                            *)
THEOREM TypeCorrect == Spec => []TypeOK
  BY TypeInit, TypeNext, PTL DEF Spec
(* The inductive invariant without the types.                               *)
Safe ==
  /\ AtMostOnce
  /\ AcceptanceInv
  /\ TurnInv
  /\ ClaimedIsAccountedFor
  /\ QuietInv
  /\ RowInv
  /\ BusyInv
  /\ CheckedInv
  /\ OneTurnUnlessOvertaken
  /\ WorkingInv

(* Every step keeps it: one case per action of Next.                        *)
LEMMA SafeNext == Inv /\ [Next]_vars => Safe'
<1> SUFFICES ASSUME TypeOK, Safe, TypeOK', [Next]_vars PROVE Safe'
  BY TypeNext DEF Inv, Safe
<1> USE TargetAssumption DEF durable, counters, Live, InAcceptance, Busy, Safe,
        AtMostOnce, AcceptanceInv, TurnInv, ClaimedIsAccountedFor, QuietInv, RowInv,
        BusyInv, CheckedInv, OneTurnUnlessOvertaken, WorkingInv
<1>1. CASE MarkOffline
  BY <1>1 DEF MarkOffline, StoreFault, TypeOK
<1>2. CASE Connect
  BY <1>2 DEF Connect
<1>3. CASE AgentStops
  BY <1>3 DEF AgentStops, DropTasks, Finish, TypeOK
<1>4. CASE Crash
  BY <1>4 DEF Crash, DropTasks, Finish, TypeOK
<1>5. CASE Boot
  BY <1>5 DEF Boot, TypeOK
<1>6. CASE RemoveWorkspace
  <2>1. WorkingInv' /\ RowInv' /\ BusyInv'
    BY <1>6 DEF RemoveWorkspace, TypeOK, CreatePlaces
  <2>2. TurnInv' /\ ClaimedIsAccountedFor' /\ AcceptanceInv' /\ AtMostOnce' /\ QuietInv'
    BY <1>6 DEF RemoveWorkspace, TypeOK
  <2>3. CheckedInv' /\ OneTurnUnlessOvertaken'
    BY <1>6 DEF RemoveWorkspace
  <2> QED
    BY <2>1, <2>2, <2>3
<1>7. ASSUME NEW cmd \in WorkerCommand, Call(cmd) PROVE Safe'
  BY <1>7 DEF Call, Admitted, RequireReady, TypeOK
<1>8. CASE TakeCommand
  <2>1. Head(inbox) \in WorkerCommand
    BY <1>8 DEF TakeCommand, TypeOK
  <2>2. at' \notin {"create_store", "prompt_claim", "prompt_mark", "prompt_record"}
    BY <1>8, <2>1, EntryType DEF TakeCommand, CreatePlaces, PromptPlaces
  <2> QED
    BY <1>8, <2>2 DEF TakeCommand, TypeOK
<1>9. CASE JobStoreFails
  BY <1>9 DEF JobStoreFails, StoreFault, Finish, StorePlaces, WorkspacePlaces, CanAppend, TypeOK
<1>10. CASE AgentRefuses
  BY <1>10 DEF AgentRefuses, At, Finish, TypeOK
<1>11. ASSUME NEW s \in Sessions, AgentCreates(s) PROVE Safe'
  BY <1>11 DEF AgentCreates, At, TypeOK
<1>12. CASE StoreCreated
  BY <1>12 DEF StoreCreated, At, Goto, CanAppend, TypeOK
<1>13. CASE AgentResumes
  BY <1>13 DEF AgentResumes, At, Goto, TypeOK
<1>14. CASE NotifyCancel
  BY <1>14 DEF NotifyCancel, At, Goto, TypeOK
<1>15. CASE FreeSession
  BY <1>15 DEF FreeSession, At, Goto, UpdateSessionState, TypeOK
<1>16. CASE PublishOutcome
  BY <1>16 DEF PublishOutcome, At, Finish, TypeOK
<1>17. CASE CheckSession
  BY <1>17 DEF CheckSession, At, Goto, Finish, TypeOK
<1>18. CASE ClaimCommand
  BY <1>18 DEF ClaimCommand, At, Goto, Finish, TypeOK
<1>19. CASE MarkWorking
  <2> DEFINE t == Target[arg]
  <2>1. arg \in Commands /\ t \in Sessions /\ at = "prompt_mark" /\ host = "ready"
    BY <1>19 DEF MarkWorking, At, TypeOK, PromptPlaces
  <2>2. CASE row[t] = "absent"
    <3>1. /\ at' = "idle" /\ turn' = [turn EXCEPT ![arg] = "void"] /\ row' = row
          /\ UNCHANGED << host, registered, claimed, prompted, delivered, overtaken, faults >>
      BY <1>19, <2>1, <2>2 DEF MarkWorking, Finish, UpdateSessionState, TypeOK
    <3>2. AtMostOnce' /\ AcceptanceInv' /\ TurnInv' /\ ClaimedIsAccountedFor' /\ QuietInv'
      BY <2>1, <3>1 DEF TypeOK
    <3>3. RowInv' /\ BusyInv' /\ CheckedInv' /\ OneTurnUnlessOvertaken' /\ WorkingInv'
      BY <2>1, <3>1 DEF TypeOK
    <3> QED
      BY <3>2, <3>3
  <2>3. CASE row[t] # "absent"
    <3>1. /\ at' = "prompt_record" /\ arg' = arg /\ turn' = turn
          /\ row' = [row EXCEPT ![t] = "working"]
          /\ UNCHANGED << host, registered, claimed, prompted, delivered, overtaken, faults >>
      BY <1>19, <2>1, <2>3 DEF MarkWorking, Goto, UpdateSessionState
    <3>2. AtMostOnce' /\ AcceptanceInv' /\ TurnInv' /\ ClaimedIsAccountedFor' /\ QuietInv'
      BY <2>1, <3>1
    <3>3. RowInv' /\ BusyInv'
      BY <2>1, <2>3, <3>1 DEF TypeOK
    <3>4. CheckedInv' /\ OneTurnUnlessOvertaken'
      BY <2>1, <3>1
    <3>5. WorkingInv'
      <4> SUFFICES ASSUME faults = 0, NEW s \in Sessions, row'[s] = "working"
                   PROVE  \E c \in Commands : Target[c] = s /\ Busy(c)'
        BY <3>1
      <4>1. CASE s = t
        BY <2>1, <3>1, <4>1
      <4>2. CASE s # t
        BY <2>1, <3>1, <4>2 DEF TypeOK
      <4> QED
        BY <4>1, <4>2
    <3> QED
      BY <3>2, <3>3, <3>4, <3>5
  <2> QED
    BY <2>2, <2>3
<1>20. CASE RecordAndSpawn
  BY <1>20 DEF RecordAndSpawn, At, Finish, CanAppend, TypeOK
<1>21. ASSUME NEW c \in Commands, SendPrompt(c) PROVE Safe'
  BY <1>21 DEF SendPrompt, TypeOK
<1>22. ASSUME NEW c \in Commands, AgentAnswers(c) PROVE Safe'
  BY <1>22 DEF AgentAnswers, TypeOK
<1>23. ASSUME NEW c \in Commands, FinishTurn(c) PROVE Safe'
  <2>1. /\ turn[c] = "answered" /\ turn' = [turn EXCEPT ![c] = "freed"]
        /\ UNCHANGED << host, registered, claimed, prompted, at, arg, delivered >>
        /\ overtaken \subseteq overtaken'
    BY <1>23 DEF FinishTurn
  <2>2. AtMostOnce' /\ AcceptanceInv' /\ TurnInv' /\ ClaimedIsAccountedFor' /\ QuietInv'
    BY <2>1 DEF TypeOK
  <2>3. CheckedInv' /\ OneTurnUnlessOvertaken'
    BY <2>1 DEF TypeOK
  <2>4. RowInv' /\ BusyInv' /\ WorkingInv'
    <3>1. CASE UNCHANGED faults
      BY <1>23, <2>1, <3>1 DEF FinishTurn, StoreFault, UpdateSessionState, TypeOK,
         CreatePlaces
    <3>2. CASE faults' # faults
      BY <1>23, <2>1, <3>2 DEF FinishTurn, StoreFault, TypeOK
    <3> QED
      BY <3>1, <3>2
  <2> QED
    BY <2>2, <2>3, <2>4
<1>24. ASSUME NEW c \in Commands, PublishTurn(c) PROVE Safe'
  BY <1>24 DEF PublishTurn, TypeOK
<1>25. CASE UNCHANGED vars
  BY <1>25 DEF vars, TypeOK
<1> QED
  BY <1>1, <1>2, <1>3, <1>4, <1>5, <1>6, <1>7, <1>8, <1>9, <1>10, <1>11, <1>12,
     <1>13, <1>14, <1>15, <1>16, <1>17, <1>18, <1>19, <1>20, <1>21, <1>22, <1>23,
     <1>24, <1>25 DEF Next, JobStep, TurnStep

LEMMA InvInit == Init => Inv
<1> SUFFICES ASSUME Init PROVE Inv
  OBVIOUS
<1> USE DEF Init, Live, InAcceptance, Busy
<1>1. TypeOK
  BY TypeInit
<1>2. Safe
  BY DEF Safe, AtMostOnce, AcceptanceInv, TurnInv, ClaimedIsAccountedFor, QuietInv,
     RowInv, BusyInv, CheckedInv, OneTurnUnlessOvertaken, WorkingInv
<1> QED
  BY <1>1, <1>2 DEF Inv, Safe

LEMMA InvNext == Inv /\ [Next]_vars => Inv'
  BY TypeNext, SafeNext DEF Inv, Safe

(* The inductive invariant of the worker: every reachable state satisfies   *)
(* it (apps/leave/src/acp.rs, all handlers, at every interleaving).         *)
THEOREM Invariance == Spec => []Inv
  BY InvInit, InvNext, PTL DEF Spec

(* The agent is given the prompt of a command id at most once, over every   *)
(* retry, cancellation, crash, restart and store failure.                   *)
THEOREM AtMostOnceHolds == Spec => []AtMostOnce
<1>1. Inv => AtMostOnce
  BY DEF Inv
<1> QED
  BY <1>1, Invariance, PTL

(* What the agent works on is claimed and in the event log.                 *)
THEOREM RecordedHolds == Spec => []RecordedBeforeDelivery
<1>1. Inv => RecordedBeforeDelivery
  BY DEF Inv, TypeOK, TurnInv, RecordedBeforeDelivery, TurnStates
<1> QED
  BY <1>1, Invariance, PTL

(* A refused prompt never burns its command id.                             *)
THEOREM ClaimedHolds == Spec => []ClaimedIsAccountedFor
<1>1. Inv => ClaimedIsAccountedFor
  BY DEF Inv
<1> QED
  BY <1>1, Invariance, PTL

(* Two turns share a session only after a cancel or a resume.               *)
THEOREM OneTurnHolds == Spec => []OneTurnUnlessOvertaken
<1>1. Inv => OneTurnUnlessOvertaken
  BY DEF Inv
<1> QED
  BY <1>1, Invariance, PTL

(* With a store that has not failed, a working session has its turn.        *)
THEOREM WorkingHolds == Spec => []WorkingHasTurn
<1>1. Inv => WorkingHasTurn
  BY DEF Inv, WorkingInv, WorkingHasTurn
<1> QED
  BY <1>1, Invariance, PTL

-----------------------------------------------------------------------------
(* AcpTurns implements CommandLedger.  Steps that neither claim a command,  *)
(* nor start, deliver or end one leave its stage as it is.                  *)
StageSame == Stage' = Stage /\ prompted' = prompted /\ delivered' = delivered

LEMMA StageStutters ==
  StageSame => [Ledger!LedgerNext]_Ledger!ledger
  BY DEF StageSame, Ledger!ledger

LEMMA StageDependsOn ==
  ASSUME claimed' = claimed, turn' = turn,
         \A c \in Commands : InAcceptance(c)' <=> InAcceptance(c)
  PROVE  Stage' = Stage
  BY DEF Stage, Live

(* What cuts commands short ends them all at once. *)
LEMMA StageEnds ==
  ASSUME NEW C \in SUBSET Commands,
         \A c \in C : Stage[c] \in {"accepting", "running"},
         \A c \in Commands : Stage'[c] = IF c \in C THEN "over" ELSE Stage[c],
         prompted' = prompted, delivered' = delivered
  PROVE  [Ledger!LedgerNext]_Ledger!ledger
<1>1. C \in SUBSET Ledger!InFlight
  BY DEF Ledger!InFlight
<1>2. Stage' = [c \in Commands |-> IF c \in C THEN "over" ELSE Stage[c]]
  BY DEF Stage
<1>3. Ledger!End(C)
  BY <1>2 DEF Ledger!End
<1> QED
  BY <1>1, <1>3 DEF Ledger!LedgerNext

LEMMA LedgerStep ==
  Inv /\ [Next]_vars => [Ledger!LedgerNext]_Ledger!ledger
<1> SUFFICES ASSUME Inv, Inv', [Next]_vars
             PROVE  [Ledger!LedgerNext]_Ledger!ledger
  BY InvNext
<1> USE DEF durable, counters
<1>a. /\ TypeOK /\ AcceptanceInv /\ TurnInv /\ ClaimedIsAccountedFor /\ QuietInv /\ AtMostOnce
      /\ TypeOK' /\ AcceptanceInv' /\ TurnInv'
  BY DEF Inv
<1>drop. ASSUME DropTasks, claimed' = claimed, prompted' = prompted, delivered' = delivered
         PROVE  [Ledger!LedgerNext]_Ledger!ledger
  <2> DEFINE C == {c \in Commands : Stage[c] \in {"accepting", "running"}}
  <2>1. \A c \in Commands : ~ InAcceptance(c)'
    BY <1>drop DEF DropTasks, Finish, InAcceptance
  <2>2. \A c \in Commands : Stage'[c] = IF c \in C THEN "over" ELSE Stage[c]
    BY <1>drop, <1>a, <2>1 DEF Stage, DropTasks, Live, InAcceptance, AcceptanceInv, TurnInv,
       TypeOK, TurnStates
  <2> QED
    BY <1>drop, <2>2, StageEnds
<1>1. CASE MarkOffline
  <2>1. StageSame
    BY <1>1, StageDependsOn DEF MarkOffline, StageSame, InAcceptance
  <2> QED
    BY <2>1, StageStutters
<1>2. CASE Connect
  <2>1. StageSame
    BY <1>2, StageDependsOn DEF Connect, StageSame, InAcceptance
  <2> QED
    BY <2>1, StageStutters
<1>3. CASE AgentStops
  BY <1>3, <1>drop DEF AgentStops
<1>4. CASE Crash
  BY <1>4, <1>drop DEF Crash
<1>5. CASE Boot
  <2>1. StageSame
    BY <1>5, StageDependsOn DEF Boot, StageSame, InAcceptance
  <2> QED
    BY <2>1, StageStutters
<1>6. CASE RemoveWorkspace
  <2>1. Stage' = Stage
    BY <1>6, StageDependsOn DEF RemoveWorkspace, InAcceptance
  <2>2. Ledger!Forget
    BY <1>6, <2>1 DEF RemoveWorkspace, Ledger!Forget
  <2> QED
    BY <2>2 DEF Ledger!LedgerNext
<1>7. ASSUME NEW cmd \in WorkerCommand, Call(cmd) PROVE [Ledger!LedgerNext]_Ledger!ledger
  <2>1. StageSame
    BY <1>7, StageDependsOn DEF Call, StageSame, InAcceptance
  <2> QED
    BY <2>1, StageStutters
<1>8. CASE TakeCommand
  <2>1. at' \notin {"prompt_mark", "prompt_record"} /\ at = "idle"
    <3>1. Head(inbox) \in WorkerCommand
      BY <1>8, <1>a DEF TakeCommand, TypeOK
    <3> QED
      BY <1>8, <3>1, EntryType DEF TakeCommand, PromptPlaces
  <2>2. StageSame
    BY <1>8, <2>1, StageDependsOn DEF TakeCommand, StageSame, InAcceptance
  <2> QED
    BY <2>2, StageStutters
<1>9. CASE JobStoreFails
  <2> DEFINE C == {c \in Commands : InAcceptance(c)}
  <2>1. \A c \in Commands : ~ InAcceptance(c)'
    BY <1>9 DEF JobStoreFails, Finish, InAcceptance
  <2>2. \A c \in C : Stage[c] = "accepting"
    BY <1>a DEF Stage, AcceptanceInv
  <2>3. \A c \in Commands : Stage'[c] = IF c \in C THEN "over" ELSE Stage[c]
    BY <1>9, <1>a, <2>1 DEF Stage, JobStoreFails, Live, AcceptanceInv, TypeOK
  <2> QED
    BY <1>9, <2>2, <2>3, StageEnds DEF JobStoreFails
<1>10. CASE AgentRefuses
  <2>1. StageSame
    BY <1>10, StageDependsOn DEF AgentRefuses, At, Finish, StageSame, InAcceptance
  <2> QED
    BY <2>1, StageStutters
<1>11. ASSUME NEW s \in Sessions, AgentCreates(s) PROVE [Ledger!LedgerNext]_Ledger!ledger
  <2>1. StageSame
    BY <1>11, StageDependsOn DEF AgentCreates, At, StageSame, InAcceptance
  <2> QED
    BY <2>1, StageStutters
<1>12. CASE StoreCreated
  <2>1. StageSame
    BY <1>12, StageDependsOn DEF StoreCreated, At, Goto, StageSame, InAcceptance
  <2> QED
    BY <2>1, StageStutters
<1>13. CASE AgentResumes
  <2>1. StageSame
    BY <1>13, StageDependsOn DEF AgentResumes, At, Goto, StageSame, InAcceptance
  <2> QED
    BY <2>1, StageStutters
<1>14. CASE NotifyCancel
  <2>1. StageSame
    BY <1>14, StageDependsOn DEF NotifyCancel, At, Goto, StageSame, InAcceptance
  <2> QED
    BY <2>1, StageStutters
<1>15. CASE FreeSession
  <2>1. StageSame
    BY <1>15, StageDependsOn DEF FreeSession, At, Goto, StageSame, InAcceptance
  <2> QED
    BY <2>1, StageStutters
<1>16. CASE PublishOutcome
  <2>1. StageSame
    BY <1>16, StageDependsOn DEF PublishOutcome, At, Finish, StageSame, InAcceptance
  <2> QED
    BY <2>1, StageStutters
<1>17. CASE CheckSession
  <2>1. StageSame
    BY <1>17, StageDependsOn DEF CheckSession, At, Goto, Finish, StageSame, InAcceptance
  <2> QED
    BY <2>1, StageStutters
<1>18. CASE ClaimCommand
  <2>1. arg \in Commands /\ at = "prompt_claim"
    BY <1>18, <1>a DEF ClaimCommand, At, TypeOK, PromptPlaces
  <2>2. CASE arg \in claimed
    <3>1. StageSame
      BY <1>18, <2>1, <2>2, StageDependsOn DEF ClaimCommand, Finish, StageSame, InAcceptance
    <3> QED
      BY <3>1, StageStutters
  <2>3. CASE arg \notin claimed
    <3>1. Stage[arg] = "new" /\ Stage' = [Stage EXCEPT ![arg] = "accepting"]
      BY <1>18, <2>1, <2>3 DEF ClaimCommand, Goto, Stage, InAcceptance, Live
    <3>2. Ledger!Claim(arg)
      BY <1>18, <3>1 DEF ClaimCommand, Ledger!Claim
    <3> QED
      BY <2>1, <3>2 DEF Ledger!LedgerNext
  <2> QED
    BY <2>2, <2>3
<1>19. CASE MarkWorking
  <2>1. arg \in Commands /\ at = "prompt_mark"
    BY <1>19, <1>a DEF MarkWorking, At, TypeOK, PromptPlaces
  <2>2. CASE row[Target[arg]] = "absent"
    <3>1. /\ Stage[arg] = "accepting"
          /\ \A c \in Commands : Stage'[c] = IF c \in {arg} THEN "over" ELSE Stage[c]
      BY <1>19, <1>a, <2>1, <2>2 DEF MarkWorking, Finish, Stage, InAcceptance, Live,
         AcceptanceInv, TypeOK
    <3> QED
      BY <1>19, <2>1, <3>1, StageEnds DEF MarkWorking
  <2>3. CASE row[Target[arg]] # "absent"
    <3>1. StageSame
      BY <1>19, <2>1, <2>3, StageDependsOn DEF MarkWorking, Goto, StageSame, InAcceptance
    <3> QED
      BY <3>1, StageStutters
  <2> QED
    BY <2>2, <2>3
<1>20. CASE RecordAndSpawn
  <2>1. arg \in Commands /\ at = "prompt_record"
    BY <1>20, <1>a DEF RecordAndSpawn, At, TypeOK, PromptPlaces
  <2>2. Stage[arg] = "accepting" /\ Stage' = [Stage EXCEPT ![arg] = "running"]
    BY <1>20, <1>a, <2>1 DEF RecordAndSpawn, Finish, Stage, InAcceptance, Live, AcceptanceInv,
       TypeOK
  <2>3. Ledger!Start(arg)
    BY <1>20, <2>2 DEF RecordAndSpawn, Ledger!Start
  <2> QED
    BY <2>1, <2>3 DEF Ledger!LedgerNext
<1>21. ASSUME NEW c \in Commands, SendPrompt(c) PROVE [Ledger!LedgerNext]_Ledger!ledger
  <2>1. Stage[c] = "running" /\ Stage' = Stage
    BY <1>21, <1>a DEF SendPrompt, Stage, Live, InAcceptance, AcceptanceInv, TurnInv, TypeOK
  <2>2. delivered[c] = 0
    BY <1>21, <1>a DEF SendPrompt, TurnInv
  <2>3. delivered[c] + 1 = 1
    BY <2>2
  <2>4. delivered' = [delivered EXCEPT ![c] = 1]
    BY <1>21, <2>3 DEF SendPrompt
  <2>5. Ledger!Deliver(c)
    BY <1>21, <2>1, <2>2, <2>4 DEF SendPrompt, Ledger!Deliver
  <2> QED
    BY <2>5 DEF Ledger!LedgerNext
<1>22. ASSUME NEW c \in Commands, AgentAnswers(c) PROVE [Ledger!LedgerNext]_Ledger!ledger
  <2>1. StageSame
    BY <1>22, <1>a DEF AgentAnswers, StageSame, Stage, Live, InAcceptance, TypeOK
  <2> QED
    BY <2>1, StageStutters
<1>23. ASSUME NEW c \in Commands, FinishTurn(c) PROVE [Ledger!LedgerNext]_Ledger!ledger
  <2>1. StageSame
    BY <1>23, <1>a DEF FinishTurn, StageSame, Stage, Live, InAcceptance, TypeOK
  <2> QED
    BY <2>1, StageStutters
<1>24. ASSUME NEW c \in Commands, PublishTurn(c) PROVE [Ledger!LedgerNext]_Ledger!ledger
  <2>1. /\ Stage[c] = "running"
        /\ \A d \in Commands : Stage'[d] = IF d \in {c} THEN "over" ELSE Stage[d]
    BY <1>24, <1>a DEF PublishTurn, Stage, Live, InAcceptance, AcceptanceInv, TurnInv, TypeOK
  <2> QED
    BY <1>24, <2>1, StageEnds DEF PublishTurn
<1>25. CASE UNCHANGED vars
  <2>1. StageSame
    BY <1>25, StageDependsOn DEF vars, StageSame, InAcceptance
  <2> QED
    BY <2>1, StageStutters
<1> QED
  BY <1>1, <1>2, <1>3, <1>4, <1>5, <1>6, <1>7, <1>8, <1>9, <1>10, <1>11, <1>12,
     <1>13, <1>14, <1>15, <1>16, <1>17, <1>18, <1>19, <1>20, <1>21, <1>22, <1>23,
     <1>24, <1>25 DEF Next, JobStep, TurnStep

(* Whatever the calls, the agent, the store and the process do, a command   *)
(* id lives as its caller may rely on it (claim_command, accept_prompt).    *)
THEOREM Implementation == Spec => ImplementsLedger
<1>1. Init => Ledger!LedgerInit
  BY DEF Init, Ledger!LedgerInit, Stage
<1> QED
  BY <1>1, LedgerStep, Invariance, PTL DEF Spec, ImplementsLedger, Ledger!LedgerSpec

===============================================================================
