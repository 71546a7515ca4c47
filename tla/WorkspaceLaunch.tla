---------------------------- MODULE WorkspaceLaunch ----------------------------
(***************************************************************************)
(* Starting a workspace host from the setup window: the launch and          *)
(* Tailscale handlers of setup_server.rs and its shutdown, what the started *)
(* `leave connect` does (main.rs), and the background service (service.rs). *)
(*                                                                          *)
(* A launch l starts one process, also called l: the host itself, or for a  *)
(* background launch the helper that installs the service.  All hosts use   *)
(* one port.  A folder's record is "no" (not registered), "plain", or       *)
(* "global" (its global customization is exposed).                          *)
(***************************************************************************)
EXTENDS Naturals, FiniteSets

CONSTANTS
  Launches,  \* launch requests
  Connects,  \* pages that connect Tailscale
  Folders,   \* workspace folders
  Asks,      \* what a launch may ask for: its folder, in the background, global
  Service,   \* the background host
  None       \* no process, no unit

ASSUME LaunchAssumption ==
  /\ {Service, None} \cap (Launches \cup Connects) = {} /\ Service # None
  /\ Launches \cap Connects = {} /\ Folders # {}
  /\ Asks \subseteq [folder : Folders, background : BOOLEAN, global : BOOLEAN]

VARIABLES
  setup,       \* the setup process: open, closing, gone
  want,        \* want[l]: what launch l asks for
  step,        \* step[x]: where launch or Tailscale request x is
  slot,        \* the child the setup window keeps
  tailscale,   \* the `tailscale up` it keeps
  process,     \* process[x]: the process of x, or the service
  port,        \* who listens on the port of the host
  runs,        \* runs[h]: the record host h serves
  saw,         \* saw[l]: the record process l found for its folder
  registered,  \* registered[f]: the record of folder f
  unit,        \* the launch that wrote the service's unit
  excused      \* requests that met another one, or the shutdown, half-way, or
               \* were dropped before what they had started was in its slot

vars == << setup, want, step, slot, tailscale, process, port, runs, saw, registered, unit, excused >>
window == << setup, want, slot, tailscale, unit, excused >>

Records == {"no", "plain", "global"}
Hosts == Launches \cup {Service}
Running == {"booting", "looked", "starting", "serving"}

TypeOK ==
  /\ setup \in {"open", "closing", "gone"}
  /\ want \in [Launches -> Asks]
  /\ step \in [Launches \cup Connects ->
       {"idle", "tested", "installing", "waiting", "ready", "refused", "failed", "dropped"}]
  /\ slot \in Launches \cup {None} /\ tailscale \in Connects \cup {None}
  /\ process \in [Hosts \cup Connects -> Running \cup {"none", "exited"}]
  /\ port \in Hosts \cup {None}
  /\ runs \in [Hosts -> [folder : Folders, record : Records]]
  /\ saw \in [Launches -> Records] /\ registered \in [Folders -> Records]
  /\ unit \in Launches \cup {None}
  /\ excused \subseteq Launches \cup Connects

Init ==
  /\ setup = "open"
  /\ want \in [Launches -> Asks]
  /\ step = [x \in Launches \cup Connects |-> "idle"]
  /\ slot = None /\ tailscale = None
  /\ process = [x \in Hosts \cup Connects |-> "none"]
  /\ port = None
  /\ runs = [h \in Hosts |-> [folder |-> CHOOSE f \in Folders : TRUE, record |-> "no"]]
  /\ saw = [l \in Launches |-> "no"]
  /\ registered = [f \in Folders |-> "no"]
  /\ unit = None
  /\ excused = {}

Freed(h) == IF port = h THEN None ELSE port

-----------------------------------------------------------------------------
(* The launch handler of the setup window *)

Tested(X) == {x \in X : step[x] = "tested"}

(* The folder, the tools and the slot are looked at: all is well, or the    *)
(* launch is refused.  The slot keeps a child that has exited.              *)
Test(l) ==
  /\ setup = "open" /\ step[l] = "idle"
  /\ \/ /\ slot = None
        /\ step' = [step EXCEPT ![l] = "tested"]
        /\ excused' = excused \cup (IF Tested(Launches) = {} THEN {} ELSE Tested(Launches) \cup {l})
     \/ /\ step' = [step EXCEPT ![l] = "refused"]
        /\ UNCHANGED excused
  /\ UNCHANGED << setup, want, slot, tailscale, unit, process, port, runs, saw, registered >>

(* The process is started.  A foreground host takes the slot, whoever has   *)
(* it; the handlers that are under way at a shutdown go on.                 *)
Spawn(l) ==
  /\ setup # "gone" /\ step[l] = "tested"
  /\ process' = [process EXCEPT ![l] = "booting"]
  /\ IF want[l].background
     THEN step' = [step EXCEPT ![l] = "installing"] /\ UNCHANGED << slot, excused >>
     ELSE /\ step' = [step EXCEPT ![l] = "waiting"]
          /\ slot' = l
          /\ excused' = IF setup = "closing" THEN excused \cup {l} ELSE excused
  /\ UNCHANGED << setup, want, tailscale, unit, port, runs, saw, registered >>

(* The log or the process cannot be opened, or the helper failed. *)
CannotStart(l) ==
  /\ step[l] = "tested" \/ (step[l] = "installing" /\ process[l] = "exited")
  /\ step' = [step EXCEPT ![l] = "failed"]
  /\ UNCHANGED << window, process, port, runs, saw, registered >>

(* wait_for_workspace: a host that serves the folder answers on the port. *)
Ready(l) ==
  /\ step[l] = "waiting"
  /\ port # None /\ runs[port].folder = want[l].folder
  /\ step' = [step EXCEPT ![l] = "ready"]
  /\ UNCHANGED << window, process, port, runs, saw, registered >>

(* Or the child in the slot, whose ever it is, has exited. *)
SeesExit(l) ==
  /\ step[l] = "waiting"
  /\ slot # None /\ process[slot] = "exited"
  /\ slot' = None
  /\ step' = [step EXCEPT ![l] = "failed"]
  /\ UNCHANGED << setup, want, tailscale, unit, excused, process, port, runs, saw, registered >>

(* Variant: the polls go on for ever. *)
GivesUp_Never(l) == FALSE /\ UNCHANGED vars

(* Or a hundred polls have found neither. *)
GivesUp(l) ==
  /\ step[l] = "waiting"
  /\ step' = [step EXCEPT ![l] = "failed"]
  /\ UNCHANGED << window, process, port, runs, saw, registered >>

(* The page disconnects, and the server drops the handler: as it waits for  *)
(* the mutex of the slot with a host it has started, for the helper, or for *)
(* the port.  No process is killed for it, and a host that is not in the    *)
(* slot yet never will be.                                                  *)
PageLeaves(l) ==
  /\ \/ /\ setup # "gone" /\ step[l] = "tested" /\ ~ want[l].background
        /\ process' = [process EXCEPT ![l] = "booting"]
        /\ excused' = excused \cup {l}
     \/ /\ step[l] \in {"installing", "waiting"}
        /\ UNCHANGED << process, excused >>
  /\ step' = [step EXCEPT ![l] = "dropped"]
  /\ UNCHANGED << setup, want, slot, tailscale, unit, port, runs, saw, registered >>

-----------------------------------------------------------------------------
(* tailscale_connect *)

(* The slot is looked at and `tailscale up` is started; it is put into the  *)
(* slot when it shows a link, or shows nothing for a while.  The page may   *)
(* ask again once it is answered; the slot is never emptied.  (A page whose *)
(* process is still about after it left asks again under another name.)     *)
ConnectTailscale(t) ==
  /\ setup = "open" /\ step[t] # "tested"
  /\ IF tailscale # None
     THEN step' = [step EXCEPT ![t] = "refused"] /\ UNCHANGED << process, excused >>
     ELSE /\ process[t] \notin Running
          /\ step' = [step EXCEPT ![t] = "tested"]
          /\ process' = [process EXCEPT ![t] = "booting"]
          /\ excused' = (excused \ {t}) \cup
               (IF Tested(Connects) = {} THEN {} ELSE Tested(Connects) \cup {t})
  /\ UNCHANGED << setup, want, slot, tailscale, unit, port, runs, saw, registered >>

KeepTailscale(t) ==
  /\ setup # "gone" /\ step[t] = "tested"
  /\ tailscale' = t
  /\ step' = [step EXCEPT ![t] = "ready"]
  /\ excused' = IF setup = "closing" THEN excused \cup {t} ELSE excused
  /\ UNCHANGED << setup, want, slot, unit, process, port, runs, saw, registered >>

(* The page disconnects before that: the handler is dropped, and the        *)
(* process, which is not killed with it, is in no slot.                     *)
AbandonTailscale(t) ==
  /\ step[t] = "tested"
  /\ step' = [step EXCEPT ![t] = "dropped"]
  /\ excused' = excused \cup {t}
  /\ UNCHANGED << setup, want, slot, tailscale, unit, process, port, runs, saw, registered >>

(* Its output ends: it is waited for, and answered. *)
TailscaleEnds(t) ==
  /\ step[t] = "tested" /\ process[t] = "exited"
  /\ \E outcome \in {"ready", "failed"} : step' = [step EXCEPT ![t] = outcome]
  /\ UNCHANGED << window, process, port, runs, saw, registered >>

-----------------------------------------------------------------------------
(* The shutdown: the children in the slots are killed, the handlers under   *)
(* way are waited for, and the process ends.                                *)

(* Variant: only the host is stopped. *)
Shutdown_ForgetsTailscale ==
  /\ setup = "open" /\ setup' = "closing"
  /\ process' = [x \in DOMAIN process |-> IF x = slot THEN "exited" ELSE process[x]]
  /\ port' = IF slot = None THEN port ELSE Freed(slot)
  /\ slot' = None /\ tailscale' = None
  /\ UNCHANGED << want, step, runs, saw, registered, unit, excused >>

Shutdown ==
  /\ setup = "open" /\ setup' = "closing"
  /\ process' = [x \in DOMAIN process |-> IF x \in {slot, tailscale} THEN "exited" ELSE process[x]]
  /\ port' = IF slot = None THEN port ELSE Freed(slot)
  /\ slot' = None /\ tailscale' = None
  /\ UNCHANGED << want, step, runs, saw, registered, unit, excused >>

Leave ==
  /\ setup = "closing"
  /\ \A x \in DOMAIN step : step[x] \notin {"tested", "installing", "waiting"}
  /\ setup' = "gone"
  /\ UNCHANGED << want, step, slot, tailscale, process, port, runs, saw, registered, unit, excused >>

-----------------------------------------------------------------------------
(* `leave connect` *)

Look(l) ==
  /\ process[l] = "booting"
  /\ saw' = [saw EXCEPT ![l] = registered[want[l].folder]]
  /\ process' = [process EXCEPT ![l] = "looked"]
  /\ UNCHANGED << window, step, port, runs, registered >>

(* Variant: the record is written without naming its folder. *)
Register_EveryFolder(l) ==
  /\ process[l] = "looked"
  /\ LET record == IF want[l].global THEN "global" ELSE "plain" IN
       /\ registered' = [f \in Folders |-> record]
       /\ process' = [process EXCEPT ![l] = "starting"]
       /\ runs' = [runs EXCEPT ![l] = [folder |-> want[l].folder, record |-> record]]
  /\ UNCHANGED << window, step, port, saw >>

upsert_workspace(folder, record) == registered' = [registered EXCEPT ![folder] = record]

(* A folder seen without a record is given one, unless another process has  *)
(* done so meanwhile (its path is unique); a record that was seen is only   *)
(* ever opened further.  `serve` then reads the record again.               *)
Register(l) ==
  /\ process[l] = "looked"
  /\ LET folder == want[l].folder
         record == IF want[l].global THEN "global"
                   ELSE IF saw[l] = "no" THEN "plain" ELSE registered[folder]
     IN IF saw[l] = "no" /\ registered[folder] # "no"
        THEN process' = [process EXCEPT ![l] = "exited"] /\ UNCHANGED << registered, runs >>
        ELSE /\ upsert_workspace(folder, record)
             /\ process' = [process EXCEPT ![l] = "starting"]
             /\ runs' = [runs EXCEPT ![l] = [folder |-> folder, record |-> record]]
  /\ UNCHANGED << window, step, port, saw >>

(* A second listener on the port fails, and the host ends. *)
Bind(l) ==
  /\ process[l] = "starting" /\ ~ want[l].background
  /\ IF port = None
     THEN port' = l /\ process' = [process EXCEPT ![l] = "serving"]
     ELSE process' = [process EXCEPT ![l] = "exited"] /\ UNCHANGED port
  /\ UNCHANGED << window, step, runs, saw, registered >>

(* Devin or Tailscale is not there, the host or the helper fails, or the    *)
(* sign-in of Tailscale ends.                                               *)
Exits(x) ==
  /\ process[x] \in Running
  /\ process' = [process EXCEPT ![x] = "exited"]
  /\ port' = Freed(x)
  /\ UNCHANGED << window, step, runs, saw, registered >>

-----------------------------------------------------------------------------
(* The background service *)

(* The unit is written and the service enabled: one that runs already goes  *)
(* on as it was.                                                            *)
Install(l) ==
  /\ process[l] = "starting" /\ want[l].background
  /\ unit' = l
  /\ process' = [process EXCEPT ![l] = "exited",
                   ![Service] = IF @ = "none" THEN "starting" ELSE @]
  /\ step' = [step EXCEPT ![l] = IF @ = "installing" THEN "waiting" ELSE @]
  /\ UNCHANGED << setup, want, slot, tailscale, excused, port, runs, saw, registered >>

(* It starts with the unit there is, and again until it gets the port. *)
ServiceBinds ==
  /\ process[Service] = "starting" /\ unit # None /\ port = None
  /\ port' = Service
  /\ process' = [process EXCEPT ![Service] = "serving"]
  /\ LET folder == want[unit].folder IN
       runs' = [runs EXCEPT ![Service] = [folder |-> folder, record |-> registered[folder]]]
  /\ UNCHANGED << window, step, saw, registered >>

ServiceFails ==
  /\ process[Service] = "serving"
  /\ process' = [process EXCEPT ![Service] = IF unit = None THEN "none" ELSE "starting"]
  /\ port' = Freed(Service)
  /\ UNCHANGED << window, step, runs, saw, registered >>

(* `leave service uninstall` goes on when the service cannot be stopped. *)
Uninstall ==
  /\ unit # None
  /\ unit' = None
  /\ \/ process' = [process EXCEPT ![Service] = "none"] /\ port' = Freed(Service)
     \/ UNCHANGED << process, port >>
  /\ UNCHANGED << setup, want, step, slot, tailscale, excused, runs, saw, registered >>

-----------------------------------------------------------------------------
Handler(l) ==
  Test(l) \/ Spawn(l) \/ CannotStart(l) \/ Ready(l) \/ SeesExit(l) \/ GivesUp(l) \/ PageLeaves(l)
Connect(l) == Look(l) \/ Register(l) \/ Bind(l) \/ Install(l)
TailscaleStep(t) ==
  ConnectTailscale(t) \/ KeepTailscale(t) \/ AbandonTailscale(t) \/ TailscaleEnds(t)

Next ==
  \/ \E l \in Launches : Handler(l) \/ Connect(l) \/ Exits(l)
  \/ \E t \in Connects : TailscaleStep(t) \/ Exits(t)
  \/ ServiceBinds \/ ServiceFails \/ Uninstall
  \/ Shutdown \/ Leave

Spec == Init /\ [][Next]_vars

(* A launch is polled to its end, and its helper goes on. *)
Fairness ==
  \A l \in Launches :
    /\ WF_vars(Spawn(l) \/ CannotStart(l))
    /\ WF_vars(Look(l) \/ Register(l) \/ Install(l))
    /\ WF_vars(GivesUp(l))

FairSpec == Spec /\ Fairness

-----------------------------------------------------------------------------
(* Properties                                                               *)

(* What the setup window started in the foreground ends with it (the        *)
(* shutdown of serve), but for a request that was between its look at the   *)
(* slot and its use of it when another one, or the shutdown, came by, or    *)
(* when its own page left and the handler was dropped.                      *)
NothingOutlivesSetup ==
  setup = "gone" =>
    \A x \in Launches \cup Connects :
      process[x] \in Running /\ (x \in Launches => ~ want[x].background) => x \in excused

(* A host exposes the global customization of a folder only when some       *)
(* launch asked that for this very folder (connect reads, changes and       *)
(* writes the record in separate steps; launches of one folder overlap).    *)
ExposesOnlyWhatWasAsked ==
  \A h \in Hosts :
    process[h] = "serving" /\ runs[h].record = "global" =>
      \E l \in Launches : process[l] # "none" /\ want[l].global /\ want[l].folder = runs[h].folder

(* Every launch is answered if its page waits, whatever becomes of the host *)
(* it started, of the one that holds the port and of the child in the slot. *)
LaunchesEnd ==
  \A l \in Launches :
    (step[l] \in {"tested", "installing", "waiting"}) ~> (step[l] \in {"ready", "failed", "dropped"})

-----------------------------------------------------------------------------
(* The inductive invariant behind them.                                     *)

(* One host at a time serves, and a launch is tested before it has a        *)
(* process or the slot.                                                     *)
PortInv ==
  /\ \A h \in Hosts : process[h] = "serving" <=> port = h
  /\ \A l \in Launches : step[l] \in {"idle", "tested"} => process[l] = "none" /\ slot # l

(* A foreground host that nobody got in the way of is in the slot as long   *)
(* as the window is open.  Launches that were tested at once, and a child   *)
(* in the slot that another launch may still displace, met half-way.        *)
SlotInv ==
  /\ \A l \in Launches :
       process[l] \in Running /\ ~ want[l].background /\ l \notin excused
         => setup = "open" /\ slot = l
  /\ \A k, l \in Launches : k # l /\ step[k] = "tested" /\ step[l] = "tested" => k \in excused
  /\ \A l \in Launches : step[l] = "tested" /\ slot # None => slot \in excused

(* The same of `tailscale up`, which is started before it has its slot.     *)
TailscaleInv ==
  /\ \A t \in Connects :
       process[t] \in Running /\ t \notin excused
         => step[t] = "tested" \/ (setup = "open" /\ tailscale = t)
  /\ \A t, u \in Connects : t # u /\ step[t] = "tested" /\ step[u] = "tested" => t \in excused
  /\ \A t \in Connects : step[t] = "tested" /\ tailscale # None => tailscale \in excused
  /\ setup = "gone" => \A t \in Connects : step[t] # "tested"

Asked(folder) ==
  \E l \in Launches : process[l] # "none" /\ want[l].global /\ want[l].folder = folder

(* Neither a record nor what a host has read of it is open unasked.         *)
RecordInv ==
  /\ \A f \in Folders : registered[f] = "global" => Asked(f)
  /\ \A h \in Hosts : runs[h].record = "global" => Asked(runs[h].folder)

Inv == TypeOK /\ PortInv /\ SlotInv /\ TailscaleInv /\ RecordInv

=============================================================================
