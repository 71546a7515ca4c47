------------------------------- MODULE Terminals -------------------------------
(***************************************************************************)
(* The terminals of the workbench: TerminalManager (terminal.rs), its       *)
(* socket (terminal_websocket in local_server.rs) and the panel of the page *)
(* that opens one socket on one terminal (terminal-panel.tsx).              *)
(*                                                                          *)
(* The pseudo terminal holds at most PtyRoom units each way.  A chunk of    *)
(* output is known by its number; the broadcast keeps the last Ring chunks. *)
(* Terminals are never removed, so what one leaves behind stays.            *)
(***************************************************************************)
EXTENDS Naturals, Sequences

CONSTANTS
  Shells,      \* terminal ids
  Sockets,     \* sockets
  Nobody,      \* no terminal, no writer
  PtyRoom,     \* what the pseudo terminal buffers, each way
  Ring,        \* TERMINAL_CHANNEL_CAPACITY
  FrameUnits,  \* units of an input frame
  MaxFrames,   \* bound: input frames of a socket
  MaxPrinted   \* bound: units a shell prints

ASSUME TerminalAssumption ==
  /\ Nobody \notin Shells \cup Sockets
  /\ PtyRoom \in Nat \ {0} /\ Ring \in Nat \ {0} /\ FrameUnits \in Nat \ {0}
  /\ MaxFrames \in Nat /\ MaxPrinted \in Nat

VARIABLES
  terminalGranted,  \* --grant-terminal
  shell,    \* shell[t]: none, running, exited
  writer,   \* writer[t]: the socket that holds the writer
  typed,    \* typed[t]: the units written to t, by the frame they belong to
  taken,    \* taken[t]: how many of them the shell has read
  printed,  \* printed[t]: units the shell has printed
  copied,   \* copied[t]: units the reader thread has read
  sent,     \* sent[t]: chunks broadcast
  on,       \* on[s]: the terminal of socket s
  task,     \* task[s]: off, idle, queued, writing, closed
  frames,   \* frames[s]: input frames received
  left,     \* left[s]: units left of the frame
  from,     \* from[s]: the first chunk after the subscription
  shown     \* shown[s]: the chunks the tab got, in order

tvars == << terminalGranted, shell, writer, typed, taken, printed, copied, sent,
            on, task, frames, left, from, shown >>
pty == << terminalGranted, shell, writer, typed, taken, printed, copied, sent >>

TerminalInit ==
  /\ terminalGranted \in BOOLEAN
  /\ shell = [t \in Shells |-> "none"]
  /\ writer = [t \in Shells |-> Nobody]
  /\ typed = [t \in Shells |-> << >>]
  /\ taken = [t \in Shells |-> 0] /\ printed = [t \in Shells |-> 0]
  /\ copied = [t \in Shells |-> 0] /\ sent = [t \in Shells |-> 0]
  /\ on = [s \in Sockets |-> Nobody]
  /\ task = [s \in Sockets |-> "off"]
  /\ frames = [s \in Sockets |-> 0] /\ left = [s \in Sockets |-> 0]
  /\ from = [s \in Sockets |-> 0] /\ shown = [s \in Sockets |-> << >>]

InputFull(t) == Len(typed[t]) - taken[t] >= PtyRoom
OutputFull(t) == printed[t] - copied[t] >= PtyRoom

-----------------------------------------------------------------------------
(* create; a size out of bounds, or a shell that does not start, creates    *)
(* nothing.                                                                 *)
CreateTerminal(t) ==
  /\ terminalGranted /\ shell[t] = "none"
  /\ shell' = [shell EXCEPT ![t] = "running"]
  /\ UNCHANGED << terminalGranted, writer, typed, taken, printed, copied, sent,
                  on, task, frames, left, from, shown >>

(* The panel opens a socket; the scrollback is not kept. *)
AttachTerminal(s, t) ==
  /\ task[s] = "off" /\ shell[t] # "none"
  /\ on' = [on EXCEPT ![s] = t]
  /\ task' = [task EXCEPT ![s] = "idle"]
  /\ from' = [from EXCEPT ![s] = sent[t] + 1]
  /\ UNCHANGED << pty, frames, left, shown >>

(* An input frame is handed to a blocking thread, and waited for. *)
ReceiveInput(s) ==
  /\ task[s] = "idle" /\ frames[s] < MaxFrames
  /\ task' = [task EXCEPT ![s] = "queued"]
  /\ frames' = [frames EXCEPT ![s] = @ + 1]
  /\ left' = [left EXCEPT ![s] = FrameUnits]
  /\ UNCHANGED << pty, on, from, shown >>

(* Variant: the writer is not locked. *)
LockWriter_Shared(s) ==
  /\ task[s] = "queued"
  /\ writer' = [writer EXCEPT ![on[s]] = s]
  /\ task' = [task EXCEPT ![s] = "writing"]
  /\ UNCHANGED << terminalGranted, shell, typed, taken, printed, copied, sent, on, frames, left, from, shown >>

LockWriter(s) ==
  /\ task[s] = "queued" /\ writer[on[s]] = Nobody
  /\ writer' = [writer EXCEPT ![on[s]] = s]
  /\ task' = [task EXCEPT ![s] = "writing"]
  /\ UNCHANGED << terminalGranted, shell, typed, taken, printed, copied, sent, on, frames, left, from, shown >>

(* write_all: unit by unit, as the pseudo terminal has room. *)
WriteUnit(s) ==
  /\ task[s] = "writing" /\ ~ InputFull(on[s])
  /\ typed' = [typed EXCEPT ![on[s]] = Append(@, << s, frames[s] >>)]
  /\ left' = [left EXCEPT ![s] = @ - 1]
  /\ IF left[s] > 1 THEN UNCHANGED << writer, task >>
     ELSE writer' = [writer EXCEPT ![on[s]] = Nobody] /\ task' = [task EXCEPT ![s] = "idle"]
  /\ UNCHANGED << terminalGranted, shell, taken, printed, copied, sent, on, frames, from, shown >>

(* The shell is gone: the write may fail, and the socket ends. *)
WriteFails(s) ==
  /\ task[s] = "writing" /\ shell[on[s]] = "exited"
  /\ writer' = [writer EXCEPT ![on[s]] = Nobody]
  /\ task' = [task EXCEPT ![s] = "closed"]
  /\ UNCHANGED << terminalGranted, shell, typed, taken, printed, copied, sent, on, frames, left, from, shown >>

(* The page leaves, or sends a frame over 64 KiB; a handler that waits for  *)
(* a write does not notice.                                                 *)
LeaveTerminal(s) ==
  /\ task[s] = "idle"
  /\ task' = [task EXCEPT ![s] = "closed"]
  /\ UNCHANGED << pty, on, frames, left, from, shown >>

-----------------------------------------------------------------------------
(* Output *)

Behind(s) == sent[on[s]] - (from[s] + Len(shown[s])) + 1

(* Variant: what was missed is skipped, as the preview socket does. *)
Forward_SkipsLag(s) ==
  /\ task[s] = "idle" /\ Behind(s) > 0
  /\ LET next == from[s] + Len(shown[s]) IN
       shown' = [shown EXCEPT ![s] = Append(@, IF Behind(s) > Ring THEN next + Behind(s) - Ring ELSE next)]
  /\ UNCHANGED << pty, on, task, frames, left, from >>

(* The next chunk goes to the page; a socket that fell behind is closed. *)
Forward(s) ==
  /\ task[s] = "idle" /\ Behind(s) > 0
  /\ IF Behind(s) > Ring
     THEN task' = [task EXCEPT ![s] = "closed"] /\ UNCHANGED shown
     ELSE shown' = [shown EXCEPT ![s] = Append(@, from[s] + Len(@))] /\ UNCHANGED task
  /\ UNCHANGED << pty, on, frames, left, from >>

(* Variant: a chunk waits for the sockets to keep up. *)
CopyOutput_Waits(t) ==
  /\ copied[t] < printed[t]
  /\ \A s \in Sockets : on[s] = t /\ task[s] # "closed" => Behind(s) < Ring
  /\ copied' = [copied EXCEPT ![t] = printed[t]]
  /\ sent' = [sent EXCEPT ![t] = @ + 1]
  /\ UNCHANGED << terminalGranted, shell, writer, typed, taken, printed, on, task, frames, left, from, shown >>

(* copy_output: what there is becomes one chunk, whoever listens. *)
CopyOutput(t) ==
  /\ copied[t] < printed[t]
  /\ copied' = [copied EXCEPT ![t] = printed[t]]
  /\ sent' = [sent EXCEPT ![t] = @ + 1]
  /\ UNCHANGED << terminalGranted, shell, writer, typed, taken, printed, on, task, frames, left, from, shown >>

-----------------------------------------------------------------------------
(* The shell: it reads, prints when there is room, and may exit. *)

ShellReads(t) ==
  /\ shell[t] = "running" /\ taken[t] < Len(typed[t])
  /\ taken' = [taken EXCEPT ![t] = @ + 1]
  /\ UNCHANGED << terminalGranted, shell, writer, typed, printed, copied, sent, on, task, frames, left, from, shown >>

ShellPrints(t) ==
  /\ shell[t] = "running" /\ ~ OutputFull(t) /\ printed[t] < MaxPrinted
  /\ printed' = [printed EXCEPT ![t] = @ + 1]
  /\ UNCHANGED << terminalGranted, shell, writer, typed, taken, copied, sent, on, task, frames, left, from, shown >>

ShellExits(t) ==
  /\ shell[t] = "running"
  /\ shell' = [shell EXCEPT ![t] = "exited"]
  /\ UNCHANGED << terminalGranted, writer, typed, taken, printed, copied, sent, on, task, frames, left, from, shown >>

-----------------------------------------------------------------------------
TerminalNext ==
  \/ \E t \in Shells :
       \/ CreateTerminal(t) \/ CopyOutput(t) \/ ShellReads(t) \/ ShellPrints(t) \/ ShellExits(t)
       \/ \E s \in Sockets : AttachTerminal(s, t)
  \/ \E s \in Sockets :
       ReceiveInput(s) \/ LockWriter(s) \/ WriteUnit(s) \/ WriteFails(s) \/ LeaveTerminal(s) \/ Forward(s)

(* The reader thread goes on; nothing is assumed of sockets, pages, shells. *)
TerminalFairness == \A t \in Shells : WF_tvars(CopyOutput(t))

TerminalSpec == TerminalInit /\ [][TerminalNext]_tvars

-----------------------------------------------------------------------------
(* Properties                                                               *)

(* A tab shows an unbroken piece of the terminal's output from where it     *)
(* subscribed: a socket that fell behind the ring ends instead of going on  *)
(* with a hole (the Lagged arm of terminal_websocket).                      *)
TabShowsOnePiece ==
  \A s \in Sockets : \A i \in DOMAIN shown[s] : shown[s][i] = from[s] + i - 1

(* What two sockets of one terminal type or paste at once reaches the shell *)
(* frame by frame: no unit of one lands inside a frame of the other (write  *)
(* holds the writer until all of it is written).                            *)
FramesArriveWhole ==
  \A t \in Shells : \A i, j, k \in DOMAIN typed[t] :
    i < j /\ j < k /\ typed[t][i] = typed[t][k] => typed[t][j] = typed[t][i]

(* A shell that cannot print for want of room can print again, whatever the *)
(* sockets do: pages that read slowly, or handlers stuck in a write, never  *)
(* hold up what runs in the terminal.                                       *)
ShellNeverStalls == \A t \in Shells : OutputFull(t) ~> ~ OutputFull(t)

-----------------------------------------------------------------------------
(* The inductive invariant behind them.                                     *)

TerminalTypeOK ==
  /\ terminalGranted \in BOOLEAN
  /\ shell \in [Shells -> {"none", "running", "exited"}]
  /\ writer \in [Shells -> Sockets \cup {Nobody}]
  /\ typed \in [Shells -> Seq(Sockets \X Nat)]
  /\ taken \in [Shells -> Nat] /\ printed \in [Shells -> Nat]
  /\ copied \in [Shells -> Nat] /\ sent \in [Shells -> Nat]
  /\ on \in [Sockets -> Shells \cup {Nobody}]
  /\ task \in [Sockets -> {"off", "idle", "queued", "writing", "closed"}]
  /\ frames \in [Sockets -> Nat] /\ left \in [Sockets -> 0..FrameUnits]
  /\ from \in [Sockets -> Nat] /\ shown \in [Sockets -> Seq(Nat)]
  /\ \A s \in Sockets : IF task[s] = "off" THEN shown[s] = << >> ELSE on[s] \in Shells

(* A frame is written by the socket that holds the writer, and some of it   *)
(* is left until it is written.                                             *)
WriterInv ==
  \A s \in Sockets :
    /\ task[s] = "writing" => writer[on[s]] = s
    /\ task[s] \in {"queued", "writing"} => left[s] > 0

(* What a terminal was sent is of frames its sockets have received; of the  *)
(* frame that waits for the writer there is nothing yet, and nothing        *)
(* follows what there is of the frame that is being written.                *)
FrameInv ==
  \A s \in Sockets, t \in Shells : \A i \in DOMAIN typed[t] : typed[t][i][1] = s =>
    /\ task[s] # "off" /\ on[s] = t
    /\ typed[t][i][2] <= frames[s]
    /\ task[s] = "queued" => typed[t][i][2] < frames[s]
    /\ task[s] = "writing" /\ typed[t][i][2] = frames[s]
         => \A j \in DOMAIN typed[t] : i <= j => typed[t][j] = typed[t][i]

TerminalInv ==
  TerminalTypeOK /\ WriterInv /\ FrameInv /\ FramesArriveWhole /\ TabShowsOnePiece

=============================================================================
