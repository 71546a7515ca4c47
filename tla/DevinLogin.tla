------------------------------- MODULE DevinLogin -------------------------------
(***************************************************************************)
(* The guided Devin sign-in of the setup wizard                             *)
(* (apps/leave/src/setup_server.rs).  Every request is handled by a task of *)
(* its own, and every attempt has a task that reads the child's output and  *)
(* one that stops it after ten minutes.  They share the slot that keeps the *)
(* child and the report of what it printed, each behind a mutex that is     *)
(* released between any two steps below.                                    *)
(*                                                                          *)
(* A request starts at most one attempt, so that the attempt is known by    *)
(* its request, and so is the generation of the report.                     *)
(***************************************************************************)
EXTENDS Naturals

CONSTANTS
  Logins,   \* requests for a guided sign-in
  NoLogin

ASSUME LoginAssumption == NoLogin \notin Logins

VARIABLES
  server,     \* the server: open, closed
  signedIn,   \* what devin auth status says
  login,      \* login[h]: where the request h is
  child,      \* child[h]: the devin auth login of h: none, running, exited
  devin_login, \* the slot: the attempt whose child is kept, if any
  generation, \* the attempt that began the report last
  link,       \* the attempt that printed the link of the report, if any
  finished,   \* what the report says of its attempt
  stream,     \* stream[h]: the reader of the child's output
  watch       \* watch[h]: the watchdog of the attempt

(* DevinLoginReport; the transcript is left out. *)
report == << generation, link, finished >>

loginVars == << server, signedIn, login, child, devin_login, report, stream, watch >>

LoginTypeOK ==
  /\ server \in {"open", "closed"}
  /\ signedIn \in BOOLEAN
  /\ login \in [Logins -> {"none", "probed", "free", "spawned", "waiting", "looking", "answered"}]
  /\ child \in [Logins -> {"none", "running", "exited"}]
  /\ devin_login \in Logins \cup {NoLogin}
  /\ devin_login # NoLogin => child[devin_login] # "none"
  /\ generation \in Logins \cup {NoLogin}
  /\ link \in Logins \cup {NoLogin}
  /\ finished \in BOOLEAN
  /\ stream \in [Logins -> {"none", "reading", "found", "ended"}]
  /\ watch \in [Logins -> {"none", "armed", "stopping", "stopped", "ended"}]
  /\ \A h \in Logins :
       /\ login[h] \in {"spawned", "waiting", "looking"} => child[h] # "none"
       /\ stream[h] # "none" => child[h] # "none"
       /\ stream[h] = "none" <=> watch[h] = "none"
       /\ child[h] # "none" => generation # NoLogin

LoginInit ==
  /\ server = "open"
  /\ signedIn = FALSE
  /\ login = [h \in Logins |-> "none"]
  /\ child = [h \in Logins |-> "none"]
  /\ devin_login = NoLogin
  /\ generation = NoLogin /\ link = NoLogin /\ finished = FALSE
  /\ stream = [h \in Logins |-> "none"]
  /\ watch = [h \in Logins |-> "none"]

-----------------------------------------------------------------------------
(* auth_login *)

LoginAt(h, from, to) == login[h] = from /\ login' = [login EXCEPT ![h] = to]

(* devin_status; a computer that is signed in has its answer. *)
LoginProbes(h) ==
  /\ server = "open"
  /\ LoginAt(h, "none", IF signedIn THEN "answered" ELSE "probed")
  /\ UNCHANGED << server, signedIn, child, devin_login, report, stream, watch >>

Exited(h) == h # NoLogin /\ child[h] = "exited"

LoginChecksSlot(h) ==
  /\ LoginAt(h, "probed", IF devin_login # NoLogin /\ ~ Exited(devin_login) THEN "answered" ELSE "free")
  /\ devin_login' = IF Exited(devin_login) THEN NoLogin ELSE devin_login
  /\ UNCHANGED << server, signedIn, child, report, stream, watch >>

(* The child is spawned, and the report begins anew; or it cannot be.  The  *)
(* child runs under nobody's eyes before it is in the slot.                 *)
LoginSpawns(h) ==
  \/ /\ LoginAt(h, "free", "spawned")
     /\ child' = [child EXCEPT ![h] = "running"]
     /\ generation' = h /\ link' = NoLogin /\ finished' = FALSE
     /\ UNCHANGED << server, signedIn, devin_login, stream, watch >>
  \/ /\ LoginAt(h, "free", "answered")
     /\ UNCHANGED << server, signedIn, child, devin_login, report, stream, watch >>

(* Variant: the child was spawned without kill_on_drop. *)
LoginKeepsChild_NoKill(h) ==
  /\ LoginAt(h, "spawned", "waiting")
  /\ devin_login' = h
  /\ UNCHANGED child
  /\ stream' = [stream EXCEPT ![h] = "reading"]
  /\ watch' = [watch EXCEPT ![h] = "armed"]
  /\ UNCHANGED << server, signedIn, report >>

(* Whatever was in the slot is dropped, and killed (kill_on_drop). *)
LoginKeepsChild(h) ==
  /\ LoginAt(h, "spawned", "waiting")
  /\ devin_login' = h
  /\ child' = IF devin_login = NoLogin THEN child ELSE [child EXCEPT ![devin_login] = "exited"]
  /\ stream' = [stream EXCEPT ![h] = "reading"]
  /\ watch' = [watch EXCEPT ![h] = "armed"]
  /\ UNCHANGED << server, signedIn, report >>

(* await_devin_login_link: a link is looked for first, ... *)
LoginLooksForLink(h) ==
  /\ LoginAt(h, "waiting", IF link # NoLogin THEN "answered" ELSE "looking")
  /\ UNCHANGED << server, signedIn, child, devin_login, report, stream, watch >>

(* ... then the child, whosever it is; its exit is an answer, ... *)
LoginFindsExit(h) ==
  /\ Exited(devin_login)
  /\ LoginAt(h, "looking", "answered")
  /\ devin_login' = NoLogin
  /\ UNCHANGED << server, signedIn, child, report, stream, watch >>

LoginLooksAgain(h) ==
  /\ ~ Exited(devin_login)
  /\ LoginAt(h, "looking", "waiting")
  /\ UNCHANGED << server, signedIn, child, devin_login, report, stream, watch >>

(* Variant: the deadline only counts once there is a link. *)
LoginGivesUp_WithLink(h) ==
  /\ ~ Exited(devin_login)
  /\ link # NoLogin
  /\ LoginAt(h, "looking", "answered")
  /\ UNCHANGED << server, signedIn, child, devin_login, report, stream, watch >>

(* ... and so is the deadline. *)
LoginGivesUp(h) ==
  /\ ~ Exited(devin_login)
  /\ LoginAt(h, "looking", "answered")
  /\ UNCHANGED << server, signedIn, child, devin_login, report, stream, watch >>

-----------------------------------------------------------------------------
(* stream_devin_login, the reader of attempt h.  All readers share the one  *)
(* report.                                                                  *)

StreamFindsLink(h) ==
  /\ stream[h] = "reading"
  /\ link = NoLogin
  /\ stream' = [stream EXCEPT ![h] = "found"]
  /\ UNCHANGED << server, signedIn, login, child, devin_login, report, watch >>

StreamReportsLink(h) ==
  /\ stream[h] = "found"
  /\ stream' = [stream EXCEPT ![h] = "reading"]
  /\ link' = h
  /\ UNCHANGED << server, signedIn, login, child, devin_login, generation, finished, watch >>

(* The end of the output, which the exit of the child precedes. *)
StreamEnds(h) ==
  /\ stream[h] = "reading"
  /\ child[h] = "exited"
  /\ stream' = [stream EXCEPT ![h] = "ended"]
  /\ finished' = TRUE
  /\ UNCHANGED << server, signedIn, login, child, devin_login, generation, link, watch >>

-----------------------------------------------------------------------------
(* stop_stale_devin_login, the watchdog of attempt h *)

(* Variant: the watchdog takes its own attempt for another. *)
WatchdogChecks_Inverted(h) ==
  /\ watch[h] = "armed"
  /\ watch' = [watch EXCEPT ![h] =
                 IF generation # h /\ ~ finished THEN "stopping" ELSE "ended"]
  /\ UNCHANGED << server, signedIn, login, child, devin_login, report, stream >>

(* Ten minutes are over. *)
WatchdogChecks(h) ==
  /\ watch[h] = "armed"
  /\ watch' = [watch EXCEPT ![h] =
                 IF generation = h /\ ~ finished THEN "stopping" ELSE "ended"]
  /\ UNCHANGED << server, signedIn, login, child, devin_login, report, stream >>

(* The child in the slot is killed, whosever it is. *)
WatchdogStops(h) ==
  /\ watch[h] = "stopping"
  /\ watch' = [watch EXCEPT ![h] = "stopped"]
  /\ devin_login' = NoLogin
  /\ child' = IF devin_login = NoLogin THEN child ELSE [child EXCEPT ![devin_login] = "exited"]
  /\ UNCHANGED << server, signedIn, login, report, stream >>

WatchdogReports(h) ==
  /\ watch[h] = "stopped"
  /\ watch' = [watch EXCEPT ![h] = "ended"]
  /\ finished' = (finished \/ generation = h)
  /\ UNCHANGED << server, signedIn, login, child, devin_login, generation, link, stream >>

-----------------------------------------------------------------------------
(* setup_status, asked by the wizard every five seconds and by a launch,    *)
(* takes a child that has exited out of the slot.                           *)
SetupStatus ==
  /\ server = "open"
  /\ Exited(devin_login)
  /\ devin_login' = NoLogin
  /\ UNCHANGED << server, signedIn, login, child, report, stream, watch >>

(* Ctrl+C: the kept child is killed.  Requests under way are finished. *)
LoginShutdown ==
  /\ server = "open"
  /\ server' = "closed"
  /\ child' = IF devin_login = NoLogin THEN child ELSE [child EXCEPT ![devin_login] = "exited"]
  /\ devin_login' = NoLogin
  /\ UNCHANGED << signedIn, login, report, stream, watch >>

(* devin auth login ends, signed in or not. *)
ChildExits(h) ==
  /\ child[h] = "running"
  /\ child' = [child EXCEPT ![h] = "exited"]
  /\ signedIn' \in {signedIn, TRUE}
  /\ UNCHANGED << server, login, devin_login, report, stream, watch >>

-----------------------------------------------------------------------------
LoginStep(h) ==
  \/ LoginChecksSlot(h)
  \/ LoginSpawns(h)
  \/ LoginKeepsChild(h)
  \/ LoginLooksForLink(h)
  \/ LoginFindsExit(h)
  \/ LoginLooksAgain(h)
  \/ LoginGivesUp(h)

StreamStep(h) == StreamFindsLink(h) \/ StreamReportsLink(h) \/ StreamEnds(h)

WatchdogStep(h) == WatchdogChecks(h) \/ WatchdogStops(h) \/ WatchdogReports(h)

LoginNext ==
  \/ \E h \in Logins :
       LoginProbes(h) \/ LoginStep(h) \/ StreamStep(h) \/ WatchdogStep(h) \/ ChildExits(h)
  \/ SetupStatus
  \/ LoginShutdown

LoginSpec == LoginInit /\ [][LoginNext]_loginVars

(* The handlers, the watchdogs and their timers go on, and the loop of a    *)
(* request ends at its deadline.  Nothing is assumed of the children.       *)
LoginFairness ==
  \A h \in Logins :
    WF_loginVars(LoginStep(h)) /\ SF_loginVars(LoginGivesUp(h)) /\ WF_loginVars(WatchdogStep(h))

FairLoginSpec == LoginSpec /\ LoginFairness

-----------------------------------------------------------------------------
(* Properties                                                               *)

(* No sign-in runs where neither the watchdog nor the shutdown reaches it:  *)
(* it is in the slot, or its request is about to put it there, even when    *)
(* two requests have passed the check of the slot together (kill_on_drop).  *)
NoOrphanLogin ==
  \A h \in Logins : child[h] = "running" => devin_login = h \/ login[h] = "spawned"

(* Every request is answered, whatever the child does and whoever else      *)
(* takes it out of the slot (the deadline of await_devin_login_link).       *)
LoginsAnswered ==
  \A h \in Logins : (login[h] # "none") ~> (login[h] = "answered")

(* What the report says is not about the attempt h: another sign-in has     *)
(* begun, or the reader of another one has said that it is finished.        *)
Misled(h) == generation # h \/ (finished /\ stream[h] # "ended")

(* A sign-in is stopped when its ten minutes are over                       *)
(* (stop_stale_devin_login), unless the report has been taken from it.      *)
CeilingHolds ==
  \A h \in Logins :
    (watch[h] = "armed" /\ child[h] = "running") ~> (child[h] = "exited" \/ Misled(h))

=============================================================================
