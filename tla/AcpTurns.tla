------------------------------- MODULE AcpTurns -------------------------------
(***************************************************************************)
(* The prompt side of the supervised ACP worker (apps/leave/src/acp.rs) on *)
(* top of the durable store (crates/leave-core/src/event_store.rs): how a  *)
(* client's prompt, create, resume or cancel call becomes an agent turn.   *)
(*                                                                         *)
(* Three kinds of task run concurrently and meet in the store:             *)
(*   - HTTP handlers, which check readiness and push onto the worker's     *)
(*     command channel (Call);                                             *)
(*   - the command loop, which takes one command at a time and awaits the  *)
(*     store and the agent between its steps (the job actions);            *)
(*   - one spawned task per accepted prompt, which awaits the agent's      *)
(*     answer and then writes the session back to idle (the turn actions). *)
(* Each action is the code between two awaits.  The process may crash and  *)
(* the agent may die between any two of them, and any write of the store   *)
(* may fail.                                                               *)
(***************************************************************************)
EXTENDS Naturals, Sequences, FiniteSets

CONSTANTS
  Sessions,     \* ACP session ids the agent hands out
  Commands,     \* command ids clients mint, one per prompt they submit
  Target,       \* Target[c]: the session the prompt of command c is meant for
  Capacity,     \* size of the command channel (64 in the code)
  None,         \* no session and no command
  MaxCalls,     \* bound: calls the clients make, retries included
  MaxCrashes,   \* bound: crashes of the host process
  MaxFaults     \* bound: store operations that fail

ASSUME TargetAssumption == Target \in [Commands -> Sessions]

ASSUME NoneAssumption == None \notin Sessions \cup Commands

ASSUME BoundsAssumption ==
  /\ Capacity \in Nat \ {0}
  /\ MaxCalls \in Nat
  /\ MaxCrashes \in Nat
  /\ MaxFaults \in Nat

VARIABLES
  host,         \* the process and its AgentState: down, booting, starting, ready, stopped
  registered,   \* the workspace row exists (durable)
  row,          \* row[s]: state column of the session (durable), "absent" if no row
  claimed,      \* command ids in command_deduplication (durable)
  prompted,     \* commands with a user_prompt event in the log (durable)
  inbox,        \* the command channel
  at,           \* where the command loop is: idle, or waiting in a handler
  arg,          \* the session or the prompt that handler is about
  turn,         \* turn[c]: the spawned task of prompt c
  delivered,    \* delivered[c]: PromptRequests for c that reached the agent
  overtaken,    \* prompts whose session was written to idle under their turn
  calls, crashes, faults    \* counters of the bounds

vars == << host, registered, row, claimed, prompted, inbox, at, arg, turn,
           delivered, overtaken, calls, crashes, faults >>

durable  == << registered, row, claimed, prompted >>
counters == << calls, crashes, faults >>

-----------------------------------------------------------------------------
HostStates == {"down", "booting", "starting", "ready", "stopped"}
RowStates  == {"absent", "idle", "working", "offline"}

(* "void" is a prompt that was claimed and never became a task: its         *)
(* acceptance failed after the claim.  "dropped" is a task that was lost    *)
(* with the agent connection or with the process.                           *)
TurnStates == {"none", "spawned", "sent", "answered", "freed", "ended",
               "dropped", "void"}

(* A command of the channel: what to do, to which session or prompt.       *)
WorkerCommand ==
  [op : {"create"}, arg : {None}]
    \cup [op : {"resume", "cancel"}, arg : Sessions]
    \cup [op : {"prompt"}, arg : Commands]

(* Where the loop waits inside a handler: for the agent, or for the store. *)
CreatePlaces == {"create_store", "create_publish"}
ResumePlaces == {"resume_agent", "resume_store", "resume_publish"}
CancelPlaces == {"cancel_notify", "cancel_store", "cancel_publish"}
PromptPlaces == {"prompt_check", "prompt_claim", "prompt_mark", "prompt_record"}
Places == {"idle", "create_agent"} \cup CreatePlaces \cup ResumePlaces
            \cup CancelPlaces \cup PromptPlaces

Entry == [create |-> "create_agent", resume |-> "resume_agent",
          cancel |-> "cancel_notify", prompt |-> "prompt_check"]

(* A turn is live while its task may still be talking to the agent. *)
Live(c) == turn[c] \in {"spawned", "sent", "answered"}

(* The loop has claimed c and has not spawned its task yet. *)
InAcceptance(c) ==
  /\ at \in {"prompt_mark", "prompt_record"}
  /\ arg = c

(* The turn of c is under way: its session has been marked working for it   *)
(* and its task has not ended.                                              *)
Busy(c) == Live(c) \/ (at = "prompt_record" /\ arg = c)

TypeOK ==
  /\ host \in HostStates
  /\ registered \in BOOLEAN
  /\ row \in [Sessions -> RowStates]
  /\ claimed \subseteq Commands
  /\ prompted \subseteq Commands
  /\ inbox \in Seq(WorkerCommand)
  /\ Len(inbox) <= Capacity
  /\ at \in Places
  /\ at \in {"idle", "create_agent"} => arg = None
  /\ at \in CreatePlaces \cup ResumePlaces \cup CancelPlaces => arg \in Sessions
  /\ at \in PromptPlaces => arg \in Commands
  /\ turn \in [Commands -> TurnStates]
  /\ delivered \in [Commands -> Nat]
  /\ overtaken \subseteq Commands
  /\ calls \in 0..MaxCalls
  /\ crashes \in 0..MaxCrashes
  /\ faults \in 0..MaxFaults

-----------------------------------------------------------------------------
(* The host starts with a registered workspace, an empty store and no       *)
(* agent connection.                                                        *)
Init ==
  /\ host = "booting"
  /\ registered = TRUE
  /\ row = [s \in Sessions |-> "absent"]
  /\ claimed = {}
  /\ prompted = {}
  /\ inbox = << >>
  /\ at = "idle" /\ arg = None
  /\ turn = [c \in Commands |-> "none"]
  /\ delivered = [c \in Commands |-> 0]
  /\ overtaken = {}
  /\ calls = 0 /\ crashes = 0 /\ faults = 0

-----------------------------------------------------------------------------
(* UPDATE sessions SET state = st WHERE session_id = s; no row, no effect. *)
UpdateSessionState(s, st) ==
  row' = [row EXCEPT ![s] = IF @ = "absent" THEN @ ELSE st]

(* An event can be appended: it references the workspace row (foreign key). *)
CanAppend == registered

At(place) == host = "ready" /\ at = place

Goto(place) == at' = place /\ arg' = arg

(* The handler answers its caller and the loop goes back to the channel.    *)
Finish == at' = "idle" /\ arg' = None

StoreFault == faults < MaxFaults /\ faults' = faults + 1

-----------------------------------------------------------------------------
(* Host lifecycle: AcpHandle::start and run_worker. *)

(* Variant: the sessions of the last life are left as they were. *)
MarkOffline_Skipped ==
  /\ host = "booting"
  /\ host' = "starting"
  /\ UNCHANGED << durable, inbox, at, arg, turn, delivered, overtaken, counters >>

(* The worker first marks every persisted session offline; a failing store  *)
(* is logged and ignored.                                                   *)
MarkOffline ==
  /\ host = "booting"
  /\ host' = "starting"
  /\ \/ /\ row' = [s \in Sessions |-> IF row[s] = "absent" THEN "absent" ELSE "offline"]
        /\ UNCHANGED faults
     \/ StoreFault /\ UNCHANGED row
  /\ UNCHANGED << registered, claimed, prompted, inbox, at, arg, turn, delivered,
                  overtaken, calls, crashes >>

Connect ==
  /\ host = "starting"
  /\ host' = "ready"
  /\ UNCHANGED << durable, inbox, at, arg, turn, delivered, overtaken, counters >>

(* Losing the connection or the process drops the tasks, the command being  *)
(* executed and the queued ones.                                            *)
DropTasks ==
  /\ inbox' = << >>
  /\ Finish
  /\ turn' = [c \in Commands |->
                IF Live(c) \/ turn[c] = "freed" THEN "dropped"
                ELSE IF InAcceptance(c) THEN "void"
                ELSE turn[c]]

(* run_worker returns: the agent could not be started, exited, or a task    *)
(* failed to answer it.  The worker is not started again in this process.   *)
AgentStops ==
  /\ host \in {"starting", "ready"}
  /\ host' = "stopped"
  /\ DropTasks
  /\ UNCHANGED << durable, delivered, overtaken, counters >>

Crash ==
  /\ host # "down"
  /\ crashes < MaxCrashes
  /\ crashes' = crashes + 1
  /\ host' = "down"
  /\ DropTasks
  /\ UNCHANGED << durable, delivered, overtaken, calls, faults >>

(* `leave serve` refuses to start for a workspace that is not registered. *)
Boot ==
  /\ host = "down"
  /\ registered
  /\ host' = "booting"
  /\ UNCHANGED << durable, inbox, at, arg, turn, delivered, overtaken, counters >>

(* `leave workspace remove`, run by the owner beside a serving host: the    *)
(* sessions and the events go with the workspace (ON DELETE CASCADE), the   *)
(* command claims stay.                                                     *)
RemoveWorkspace ==
  /\ registered
  /\ registered' = FALSE
  /\ row' = [s \in Sessions |-> "absent"]
  /\ prompted' = {}
  /\ UNCHANGED << host, claimed, inbox, at, arg, turn, delivered, overtaken, counters >>

-----------------------------------------------------------------------------
(* The guards of the loopback API: the agent is connected, and the session  *)
(* a call names is in the workspace.                                        *)
RequireReady == host = "ready"

RequireSession(s) == row[s] # "absent"

Admitted(cmd) ==
  /\ RequireReady
  /\ cmd.op \in {"resume", "cancel"} => RequireSession(cmd.arg)
  /\ cmd.op = "prompt" => RequireSession(Target[cmd.arg])

(* An admitted call is pushed onto the channel, when it has room.  A retry  *)
(* is the same call made again.                                             *)
Call(cmd) ==
  /\ calls < MaxCalls
  /\ Admitted(cmd)
  /\ Len(inbox) < Capacity
  /\ calls' = calls + 1
  /\ inbox' = Append(inbox, cmd)
  /\ UNCHANGED << host, durable, at, arg, turn, delivered, overtaken, crashes, faults >>

(* command_loop takes the next command when the last one has been answered. *)
TakeCommand ==
  /\ host = "ready"
  /\ at = "idle"
  /\ inbox # << >>
  /\ at' = Entry[Head(inbox).op]
  /\ arg' = Head(inbox).arg
  /\ inbox' = Tail(inbox)
  /\ UNCHANGED << host, durable, turn, delivered, overtaken, counters >>

(* Where a handler awaits the store, and where it writes a row that refers  *)
(* to the workspace.                                                        *)
WorkspacePlaces == {"create_store", "create_publish", "resume_publish",
                    "cancel_publish", "prompt_record"}
StorePlaces == WorkspacePlaces \cup
  {"resume_store", "cancel_store", "prompt_check", "prompt_claim", "prompt_mark"}

(* Every `?` after a store call: the handler answers with the error and     *)
(* undoes nothing.                                                          *)
JobStoreFails ==
  /\ host = "ready"
  /\ at \in StorePlaces
  /\ \/ StoreFault
     \* a write that references the workspace row fails once it is gone
     \/ ~ CanAppend /\ at \in WorkspacePlaces /\ UNCHANGED faults
  /\ turn' = [c \in Commands |-> IF InAcceptance(c) THEN "void" ELSE turn[c]]
  /\ Finish
  /\ UNCHANGED << host, durable, inbox, delivered, overtaken, calls, crashes >>

(* The agent answers a session/new or session/resume request. *)
AgentRefuses ==
  /\ At("create_agent") \/ At("resume_agent")
  /\ Finish
  /\ UNCHANGED << host, durable, inbox, turn, delivered, overtaken, counters >>

AgentCreates(s) ==
  /\ At("create_agent")
  /\ row[s] = "absent"
  /\ at' = "create_store"
  /\ arg' = s
  /\ UNCHANGED << host, durable, inbox, turn, delivered, overtaken, counters >>

StoreCreated ==
  /\ At("create_store")
  /\ CanAppend
  /\ row' = [row EXCEPT ![arg] = "idle"]
  /\ Goto("create_publish")
  /\ UNCHANGED << host, registered, claimed, prompted, inbox, turn, delivered,
                  overtaken, counters >>

AgentResumes ==
  /\ At("resume_agent")
  /\ Goto("resume_store")
  /\ UNCHANGED << host, durable, inbox, turn, delivered, overtaken, counters >>

(* Send the cancel notification and cancel the session's pending            *)
(* permissions (module AcpPermissions).                                     *)
NotifyCancel ==
  /\ At("cancel_notify")
  /\ Goto("cancel_store")
  /\ UNCHANGED << host, durable, inbox, turn, delivered, overtaken, counters >>

(* Both resume and cancel write "idle" whatever the session is doing. *)
FreeSession ==
  /\ \/ At("resume_store") /\ Goto("resume_publish")
     \/ At("cancel_store") /\ Goto("cancel_publish")
  /\ UpdateSessionState(arg, "idle")
  /\ overtaken' = overtaken \cup {c \in Commands : Busy(c) /\ Target[c] = arg}
  /\ UNCHANGED << host, registered, claimed, prompted, inbox, turn, delivered,
                  counters >>

(* session_created, session_resumed, session_cancelled; then the answer. *)
PublishOutcome ==
  /\ At("create_publish") \/ At("resume_publish") \/ At("cancel_publish")
  /\ CanAppend
  /\ Finish
  /\ UNCHANGED << host, durable, inbox, turn, delivered, overtaken, counters >>

-----------------------------------------------------------------------------
(* accept_prompt *)

(* Variant: a working session is not refused. *)
CheckSession_AllowsWorking ==
  /\ At("prompt_check")
  /\ IF row[Target[arg]] = "absent" THEN Finish ELSE Goto("prompt_claim")
  /\ UNCHANGED << host, durable, inbox, turn, delivered, overtaken, counters >>

(* Variant: the command is claimed before the session is checked. *)
CheckSession_ClaimsFirst ==
  /\ At("prompt_check")
  /\ claimed' = claimed \cup {arg}
  /\ IF row[Target[arg]] \in {"absent", "working"} \/ arg \in claimed
       THEN Finish ELSE Goto("prompt_mark")
  /\ UNCHANGED << host, registered, row, prompted, inbox, turn, delivered,
                  overtaken, counters >>

(* The session must exist and must not be working. *)
CheckSession ==
  /\ At("prompt_check")
  /\ IF row[Target[arg]] \in {"absent", "working"} THEN Finish ELSE Goto("prompt_claim")
  /\ UNCHANGED << host, durable, inbox, turn, delivered, overtaken, counters >>

(* Variant: the claim's answer is ignored. *)
ClaimCommand_IgnoresDuplicate ==
  /\ At("prompt_claim")
  /\ Goto("prompt_mark")
  /\ claimed' = claimed \cup {arg}
  /\ UNCHANGED << host, registered, row, prompted, inbox, turn, delivered,
                  overtaken, counters >>

(* Variant: a duplicate is never answered. *)
ClaimCommand_WaitsForever ==
  /\ At("prompt_claim")
  /\ arg \notin claimed
  /\ Goto("prompt_mark")
  /\ claimed' = claimed \cup {arg}
  /\ UNCHANGED << host, registered, row, prompted, inbox, turn, delivered,
                  overtaken, counters >>

(* INSERT OR IGNORE: a command seen before is answered as a duplicate. *)
ClaimCommand ==
  /\ At("prompt_claim")
  /\ IF arg \in claimed THEN Finish ELSE Goto("prompt_mark")
  /\ claimed' = claimed \cup {arg}
  /\ UNCHANGED << host, registered, row, prompted, inbox, turn, delivered,
                  overtaken, counters >>

(* The session becomes working, unless it disappeared since the check. *)
MarkWorking ==
  /\ At("prompt_mark")
  /\ UpdateSessionState(Target[arg], "working")
  /\ IF row[Target[arg]] = "absent"
       THEN Finish /\ turn' = [turn EXCEPT ![arg] = "void"]
       ELSE Goto("prompt_record") /\ UNCHANGED turn
  /\ UNCHANGED << host, registered, claimed, prompted, inbox, delivered,
                  overtaken, counters >>

(* Variant: a failed append is logged and the turn starts anyway. *)
RecordAndSpawn_Unrecorded ==
  /\ At("prompt_record")
  /\ \/ prompted' = prompted \cup {arg} /\ UNCHANGED faults
     \/ StoreFault /\ UNCHANGED prompted
  /\ turn' = [turn EXCEPT ![arg] = "spawned"]
  /\ Finish
  /\ UNCHANGED << host, registered, row, claimed, inbox, delivered, overtaken,
                  calls, crashes >>

(* Append user_prompt, spawn the turn's task and answer the client. *)
RecordAndSpawn ==
  /\ At("prompt_record")
  /\ CanAppend
  /\ prompted' = prompted \cup {arg}
  /\ turn' = [turn EXCEPT ![arg] = "spawned"]
  /\ Finish
  /\ UNCHANGED << host, registered, row, claimed, inbox, delivered, overtaken,
                  counters >>

-----------------------------------------------------------------------------
(* The spawned task of prompt c *)

SendPrompt(c) ==
  /\ host = "ready"
  /\ turn[c] = "spawned"
  /\ turn' = [turn EXCEPT ![c] = "sent"]
  /\ delivered' = [delivered EXCEPT ![c] = @ + 1]
  /\ UNCHANGED << host, durable, inbox, at, arg, overtaken, counters >>

(* The agent ends the turn, with a result or an error. *)
AgentAnswers(c) ==
  /\ host = "ready"
  /\ turn[c] = "sent"
  /\ turn' = [turn EXCEPT ![c] = "answered"]
  /\ UNCHANGED << host, durable, inbox, at, arg, delivered, overtaken, counters >>

(* Variant: the session is written back to idle only after a result. *)
FinishTurn_OnlyAfterResult(c) ==
  /\ host = "ready"
  /\ turn[c] = "answered"
  /\ turn' = [turn EXCEPT ![c] = "freed"]
  /\ UpdateSessionState(Target[c], "idle") \/ UNCHANGED row
  /\ UNCHANGED << host, registered, claimed, prompted, inbox, at, arg, delivered,
                  overtaken, counters >>

(* Back to idle; a failing store is logged and ignored. *)
FinishTurn(c) ==
  /\ host = "ready"
  /\ turn[c] = "answered"
  /\ turn' = [turn EXCEPT ![c] = "freed"]
  /\ \/ /\ UpdateSessionState(Target[c], "idle")
        /\ overtaken' = overtaken \cup
             {d \in Commands \ {c} : Busy(d) /\ Target[d] = Target[c]}
        /\ UNCHANGED faults
     \/ StoreFault /\ UNCHANGED << row, overtaken >>
  /\ UNCHANGED << host, registered, claimed, prompted, inbox, at, arg, delivered,
                  calls, crashes >>

(* prompt_completed or prompt_failed; a failing store is logged. *)
PublishTurn(c) ==
  /\ host = "ready"
  /\ turn[c] = "freed"
  /\ turn' = [turn EXCEPT ![c] = "ended"]
  /\ UNCHANGED << host, durable, inbox, at, arg, delivered, overtaken, counters >>

-----------------------------------------------------------------------------
JobStep ==
  \/ TakeCommand
  \/ JobStoreFails
  \/ AgentRefuses
  \/ \E s \in Sessions : AgentCreates(s)
  \/ StoreCreated
  \/ AgentResumes
  \/ NotifyCancel
  \/ FreeSession
  \/ PublishOutcome
  \/ CheckSession
  \/ ClaimCommand
  \/ MarkWorking
  \/ RecordAndSpawn

TurnStep(c) == SendPrompt(c) \/ AgentAnswers(c) \/ FinishTurn(c) \/ PublishTurn(c)

Next ==
  \/ MarkOffline
  \/ Connect
  \/ AgentStops
  \/ Crash
  \/ Boot
  \/ RemoveWorkspace
  \/ \E cmd \in WorkerCommand : Call(cmd)
  \/ JobStep
  \/ \E c \in Commands : TurnStep(c)

Spec == Init /\ [][Next]_vars

(* The runtime polls every task that can run, and the agent answers what it *)
(* is asked; nothing is assumed of clients, crashes or faults.              *)
Fairness ==
  /\ WF_vars(MarkOffline)
  /\ WF_vars(JobStep)
  /\ \A c \in Commands : WF_vars(TurnStep(c))

FairSpec == Spec /\ Fairness

-----------------------------------------------------------------------------
(* Properties                                                               *)

(* "Commands carry a durable command ID which the host claims before side   *)
(* effects": whatever is retried, cancelled, crashed or restarted, the agent*)
(* is given the prompt of a command id at most once (claim_command).        *)
AtMostOnce == \A c \in Commands : delivered[c] <= 1

(* The agent never works on a prompt that is not in the owner's event log   *)
(* (accept_prompt publishes user_prompt before it spawns the turn).         *)
RecordedBeforeDelivery ==
  \A c \in Commands :
    delivered[c] > 0 => c \in claimed /\ (registered => c \in prompted)

(* A command id is burnt only by a prompt that got past the refusals: once  *)
(* claimed it is being accepted, has its task, or was cut short after the   *)
(* claim.  A prompt refused because the session is busy can be retried      *)
(* under its id (the order of the checks in accept_prompt).                 *)
ClaimedIsAccountedFor ==
  \A c \in claimed : turn[c] # "none" \/ InAcceptance(c)

(* Two turns of one session run together only when a cancel or a resume, or *)
(* the end of a turn so overtaken, wrote the session to idle under one of   *)
(* them (the "working" guard of accept_prompt).                             *)
OneTurnUnlessOvertaken ==
  \A c, d \in Commands :
    c # d /\ Target[c] = Target[d] /\ Live(c) /\ Live(d)
      => c \in overtaken \/ d \in overtaken

(* As long as the store has not failed, a session shown as working on a     *)
(* ready host has a turn under way: nothing strands it (the idle write of   *)
(* the turn's task and mark_workspace_sessions_offline after a restart).    *)
WorkingHasTurn ==
  host = "ready" /\ faults = 0 =>
    \A s \in Sessions : row[s] = "working" =>
      \E c \in Commands : Target[c] = s /\ Busy(c)

(* The command loop never wedges: what was queued on a ready host has been  *)
(* answered some time later (every handler answers in every branch).        *)
QueueDrains ==
  (host = "ready" /\ inbox # << >>) ~> (inbox = << >> /\ at = "idle")

(* A working session becomes free again while the host stays ready and the  *)
(* store does not fail (the spawned task of accept_prompt).                 *)
WorkingEnds ==
  \A s \in Sessions :
    (host = "ready" /\ row[s] = "working")
      ~> (host # "ready" \/ row[s] # "working" \/ faults > 0)

(* The life of a command id as its caller may rely on it (CommandLedger):   *)
(* the claim, the spawned task and the log, over every step of the worker,  *)
(* make one command run at most once and be over for good.                  *)
Stage ==
  [c \in Commands |->
     IF c \notin claimed THEN "new"
     ELSE IF InAcceptance(c) THEN "accepting"
     ELSE IF Live(c) \/ turn[c] = "freed" THEN "running"
     ELSE "over"]

Ledger == INSTANCE CommandLedger
            WITH stage <- Stage, recorded <- prompted, effects <- delivered

ImplementsLedger == Ledger!LedgerSpec

-----------------------------------------------------------------------------
(* The inductive invariant behind the safety properties.                    *)

(* A prompt is in acceptance only once, before it has a task. *)
AcceptanceInv ==
  \A c \in Commands : InAcceptance(c) => turn[c] = "none" /\ c \in claimed

(* What a task's state says about the store and the agent. *)
TurnInv ==
  \A c \in Commands :
    /\ turn[c] # "none" => c \in claimed
    /\ turn[c] \in {"none", "spawned", "void"} => delivered[c] = 0
    /\ turn[c] \notin {"none", "void"} /\ registered => c \in prompted

(* Nothing runs on a host that is not ready. *)
QuietInv ==
  host # "ready" => at = "idle" /\ \A c \in Commands : ~ Live(c)

(* Rows exist only while the workspace does, and only create_session makes  *)
(* one.                                                                     *)
RowInv ==
  /\ ~ registered => \A s \in Sessions : row[s] = "absent"
  /\ at = "create_store" => row[arg] = "absent"
  /\ \A c \in Commands : Busy(c) /\ registered => row[Target[c]] # "absent"

(* The row of a session says working during a turn that is not overtaken. *)
BusyInv ==
  \A c \in Commands :
    Busy(c) /\ c \notin overtaken => row[Target[c]] \in {"working", "absent"}

(* A prompt that passed the check meets only overtaken turns. *)
CheckedInv ==
  \A c, d \in Commands :
    /\ at \in {"prompt_claim", "prompt_mark", "prompt_record"}
    /\ arg = c
    /\ c # d
    /\ Target[c] = Target[d]
    /\ Live(d)
    => d \in overtaken

(* WorkingHasTurn, from the moment the rows have been marked offline. *)
WorkingInv ==
  host \in {"starting", "ready"} /\ faults = 0 =>
    \A s \in Sessions : row[s] = "working" =>
      \E c \in Commands : Target[c] = s /\ Busy(c)

Inv ==
  /\ TypeOK
  /\ AtMostOnce
  /\ AcceptanceInv
  /\ TurnInv
  /\ ClaimedIsAccountedFor
  /\ QuietInv
  /\ RowInv
  /\ BusyInv
  /\ CheckedInv
  /\ OneTurnUnlessOvertaken
  /\ WorkingInv

=============================================================================
