------------------------------ MODULE SetupProofs ------------------------------
(***************************************************************************)
(* Proofs about the setup wizard (setup_server.rs): the guided sign-in, for *)
(* any number of requests, and the launch, for every set of launches, of    *)
(* pages that connect Tailscale and of folders.  The two share the window   *)
(* only, and each is proved of its own specification.                       *)
(***************************************************************************)
EXTENDS DevinLogin, WorkspaceLaunch, TLAPS

(* The guided sign-in                                                       *)


(* The variables keep their types, and what has a child is kept by it.      *)
THEOREM LoginTypeCorrect == LoginSpec => []LoginTypeOK
<1>1. LoginInit => LoginTypeOK
  BY DEF LoginInit, LoginTypeOK
<1>2. LoginTypeOK /\ [LoginNext]_loginVars => LoginTypeOK'
  <2> SUFFICES ASSUME LoginTypeOK, [LoginNext]_loginVars
               PROVE  LoginTypeOK'
    OBVIOUS
  <2> USE LoginAssumption DEF LoginTypeOK, LoginAt, report
  <2>1. ASSUME NEW h \in Logins, LoginProbes(h)
        PROVE  LoginTypeOK'
    BY <2>1 DEF LoginProbes
  <2>2. ASSUME NEW h \in Logins, LoginStep(h)
        PROVE  LoginTypeOK'
    <3>1. CASE LoginChecksSlot(h)
      BY <3>1 DEF LoginChecksSlot, Exited
    <3>2. CASE LoginSpawns(h)
      <4>1. CASE login'[h] = "spawned"
        <5>1. /\ login' = [login EXCEPT ![h] = "spawned"]
              /\ child' = [child EXCEPT ![h] = "running"]
              /\ generation' = h /\ link' = NoLogin /\ finished' = FALSE
              /\ UNCHANGED << server, signedIn, devin_login, stream, watch >>
          BY <3>2, <4>1 DEF LoginSpawns
        <5>2. \A k \in Logins : child[k] # "none" => child'[k] # "none"
          BY <5>1
        <5>3. \A k \in Logins : login'[k] \in {"spawned", "waiting", "looking"} => child'[k] # "none"
          BY <5>1, <5>2
        <5> QED
          BY <5>1, <5>2, <5>3
      <4>2. CASE login'[h] # "spawned"
        BY <3>2, <4>2 DEF LoginSpawns
      <4> QED
        BY <4>1, <4>2
    <3>3. CASE LoginKeepsChild(h)
      BY <3>3 DEF LoginKeepsChild
    <3>4. CASE LoginLooksForLink(h)
      BY <3>4 DEF LoginLooksForLink
    <3>5. CASE LoginFindsExit(h) \/ LoginLooksAgain(h) \/ LoginGivesUp(h)
      BY <3>5 DEF LoginFindsExit, LoginLooksAgain, LoginGivesUp
    <3> QED
      BY <2>2, <3>1, <3>2, <3>3, <3>4, <3>5 DEF LoginStep
  <2>3. ASSUME NEW h \in Logins, StreamStep(h)
        PROVE  LoginTypeOK'
    BY <2>3 DEF StreamStep, StreamFindsLink, StreamReportsLink, StreamEnds
  <2>4. ASSUME NEW h \in Logins, WatchdogStep(h)
        PROVE  LoginTypeOK'
    BY <2>4 DEF WatchdogStep, WatchdogChecks, WatchdogStops, WatchdogReports
  <2>5. ASSUME NEW h \in Logins, ChildExits(h)
        PROVE  LoginTypeOK'
    BY <2>5 DEF ChildExits
  <2>6. CASE SetupStatus
    BY <2>6 DEF SetupStatus
  <2>7. CASE LoginShutdown
    BY <2>7 DEF LoginShutdown
  <2>8. CASE UNCHANGED loginVars
    BY <2>8 DEF loginVars, report
  <2> QED
    BY <2>1, <2>2, <2>3, <2>4, <2>5, <2>6, <2>7, <2>8 DEF LoginNext
<1> QED
  BY <1>1, <1>2, PTL DEF LoginSpec

(* A sign-in that runs is in the slot, where the watchdog and the shutdown  *)
(* find it, or its request is about to put it there (auth_login).           *)
THEOREM NoOrphan == LoginSpec => []NoOrphanLogin
<1>1. LoginInit => NoOrphanLogin
  BY DEF LoginInit, NoOrphanLogin
<1>2. LoginTypeOK /\ NoOrphanLogin /\ [LoginNext]_loginVars => NoOrphanLogin'
  <2> SUFFICES ASSUME LoginTypeOK, NoOrphanLogin, [LoginNext]_loginVars
               PROVE  NoOrphanLogin'
    OBVIOUS
  <2> USE LoginAssumption DEF LoginTypeOK, NoOrphanLogin, LoginAt, report
  <2>1. ASSUME NEW h \in Logins, LoginProbes(h)
        PROVE  NoOrphanLogin'
    BY <2>1 DEF LoginProbes
  <2>2. ASSUME NEW h \in Logins, LoginStep(h)
        PROVE  NoOrphanLogin'
    <3>1. CASE LoginChecksSlot(h)
      BY <3>1 DEF LoginChecksSlot, Exited
    <3>2. CASE LoginSpawns(h)
      BY <3>2 DEF LoginSpawns
    <3>3. CASE LoginKeepsChild(h)
      BY <3>3 DEF LoginKeepsChild
    <3>4. CASE LoginLooksForLink(h)
      BY <3>4 DEF LoginLooksForLink
    <3>5. CASE LoginFindsExit(h) \/ LoginLooksAgain(h) \/ LoginGivesUp(h)
      BY <3>5 DEF LoginFindsExit, LoginLooksAgain, LoginGivesUp, Exited
    <3> QED
      BY <2>2, <3>1, <3>2, <3>3, <3>4, <3>5 DEF LoginStep
  <2>3. ASSUME NEW h \in Logins, StreamStep(h)
        PROVE  NoOrphanLogin'
    BY <2>3 DEF StreamStep, StreamFindsLink, StreamReportsLink, StreamEnds
  <2>4. ASSUME NEW h \in Logins, WatchdogStep(h)
        PROVE  NoOrphanLogin'
    BY <2>4 DEF WatchdogStep, WatchdogChecks, WatchdogStops, WatchdogReports
  <2>5. ASSUME NEW h \in Logins, ChildExits(h)
        PROVE  NoOrphanLogin'
    BY <2>5 DEF ChildExits
  <2>6. CASE SetupStatus
    BY <2>6 DEF SetupStatus, Exited
  <2>7. CASE LoginShutdown
    BY <2>7 DEF LoginShutdown
  <2>8. CASE UNCHANGED loginVars
    BY <2>8 DEF loginVars, report
  <2> QED
    BY <2>1, <2>2, <2>3, <2>4, <2>5, <2>6, <2>7, <2>8 DEF LoginNext
<1> QED
  BY <1>1, <1>2, LoginTypeCorrect, PTL DEF LoginSpec

-----------------------------------------------------------------------------
(* The launch                                                               *)


LEMMA Distinct ==
  /\ \A l \in Launches : l # Service /\ l # None /\ l \notin Connects
  /\ \A t \in Connects : t # Service /\ t # None /\ t \notin Launches /\ t \notin Hosts
  /\ Service # None /\ None \notin Hosts
  BY LaunchAssumption DEF LaunchAssumption, Hosts

LEMMA AsksTyped ==
  \A ask \in Asks : ask.folder \in Folders /\ ask.background \in BOOLEAN /\ ask.global \in BOOLEAN
  BY LaunchAssumption DEF LaunchAssumption

LEMMA InvInit == Init => Inv
<1> SUFFICES ASSUME Init PROVE Inv
  OBVIOUS
<1>1. (CHOOSE f \in Folders : TRUE) \in Folders
  BY LaunchAssumption DEF LaunchAssumption
<1>2. TypeOK
  BY <1>1 DEF Init, TypeOK, Records
<1>3. PortInv
  BY Distinct DEF Init, PortInv, Hosts
<1>4. SlotInv /\ TailscaleInv
  BY DEF Init, SlotInv, TailscaleInv, Running, Hosts
<1>5. RecordInv
  BY DEF Init, RecordInv
<1> QED
  BY <1>2, <1>3, <1>4, <1>5 DEF Inv

-----------------------------------------------------------------------------
(* Types                                                                    *)

LEMMA TypeNext == TypeOK /\ [Next]_vars => TypeOK'
<1> SUFFICES ASSUME TypeOK, [Next]_vars PROVE TypeOK'
  OBVIOUS
<1> USE DEF TypeOK, Running, Hosts, window
<1>1. ASSUME NEW l \in Launches, Handler(l) PROVE TypeOK'
  <2>1. CASE Test(l)
    BY <2>1 DEF Test, Tested
  <2>2. CASE Spawn(l)
    BY <2>2 DEF Spawn
  <2>3. CASE CannotStart(l)
    BY <2>3 DEF CannotStart
  <2>4. CASE Ready(l)
    BY <2>4 DEF Ready
  <2>5. CASE SeesExit(l)
    BY <2>5 DEF SeesExit
  <2>6. CASE GivesUp(l)
    BY <2>6 DEF GivesUp
  <2>7. CASE PageLeaves(l)
    BY <2>7 DEF PageLeaves
  <2> QED
    BY <1>1, <2>1, <2>2, <2>3, <2>4, <2>5, <2>6, <2>7 DEF Handler
<1>2. ASSUME NEW l \in Launches, Connect(l) PROVE TypeOK'
  <2>1. CASE Look(l)
    BY <2>1, AsksTyped DEF Look
  <2>2. CASE Register(l)
    <3>1. want[l].folder \in Folders /\ want[l].global \in BOOLEAN
      BY AsksTyped
    <3>2. registered[want[l].folder] \in Records /\ {"global", "plain"} \subseteq Records
      BY <3>1 DEF Records
    <3>3. UNCHANGED << registered, runs >> \/ \E record \in Records :
            /\ registered' = [registered EXCEPT ![want[l].folder] = record]
            /\ runs' = [runs EXCEPT ![l] = [folder |-> want[l].folder, record |-> record]]
      BY <2>2, <3>2 DEF Register, upsert_workspace
    <3>4. registered' \in [Folders -> Records] /\ runs' \in [Hosts -> [folder : Folders, record : Records]]
      BY <3>1, <3>3
    <3>5. process' \in [Hosts \cup Connects -> Running \cup {"none", "exited"}]
      BY <2>2 DEF Register
    <3> QED
      BY <2>2, <3>4, <3>5 DEF Register
  <2>3. CASE Bind(l)
    BY <2>3 DEF Bind
  <2>4. CASE Install(l)
    BY <2>4 DEF Install
  <2> QED
    BY <1>2, <2>1, <2>2, <2>3, <2>4 DEF Connect
<1>3. ASSUME NEW t \in Connects, TailscaleStep(t) PROVE TypeOK'
  <2>1. CASE ConnectTailscale(t)
    BY <2>1 DEF ConnectTailscale, Tested
  <2>2. CASE KeepTailscale(t)
    BY <2>2 DEF KeepTailscale
  <2>3. CASE TailscaleEnds(t)
    BY <2>3 DEF TailscaleEnds
  <2>4. CASE AbandonTailscale(t)
    BY <2>4 DEF AbandonTailscale
  <2> QED
    BY <1>3, <2>1, <2>2, <2>3, <2>4 DEF TailscaleStep
<1>4. ASSUME NEW x \in Launches \cup Connects, Exits(x) PROVE TypeOK'
  BY <1>4 DEF Exits, Freed
<1>5. ASSUME ServiceBinds PROVE TypeOK'
  <2>1. unit \in Launches
    BY <1>5 DEF ServiceBinds
  <2>2. want[unit].folder \in Folders
    BY <2>1, AsksTyped
  <2>3. runs' \in [Hosts -> [folder : Folders, record : Records]]
    BY <1>5, <2>2 DEF ServiceBinds
  <2> QED
    BY <1>5, <2>3 DEF ServiceBinds
<1>6. ASSUME ServiceFails PROVE TypeOK'
  BY <1>6 DEF ServiceFails, Freed
<1>7. ASSUME Uninstall PROVE TypeOK'
  BY <1>7 DEF Uninstall, Freed
<1>8. ASSUME Shutdown PROVE TypeOK'
  BY <1>8 DEF Shutdown, Freed
<1>9. ASSUME Leave PROVE TypeOK'
  BY <1>9 DEF Leave
<1>10. CASE UNCHANGED vars
  BY <1>10 DEF vars
<1> QED
  BY <1>1, <1>2, <1>3, <1>4, <1>5, <1>6, <1>7, <1>8, <1>9, <1>10 DEF Next

-----------------------------------------------------------------------------
(* Steps of a host, of the helper and of the service start nothing that was *)
(* not running, and leave the window and its requests alone, but for the    *)
(* helper, which tells its launch that it is done.                          *)

Elsewhere ==
  \/ \E l \in Launches : Connect(l) \/ CannotStart(l) \/ Ready(l) \/ GivesUp(l)
  \/ \E x \in Launches \cup Connects : Exits(x)
  \/ ServiceBinds \/ ServiceFails \/ Uninstall

LEMMA ElsewhereKeeps ==
  ASSUME TypeOK, Elsewhere
  PROVE  /\ UNCHANGED << setup, want, slot, tailscale, excused >>
         /\ \A l \in Launches : step'[l] = "tested" => step[l] = "tested"
         /\ \A t \in Connects : step'[t] = step[t]
         /\ \A x \in Launches \cup Connects :
              /\ process'[x] \in Running => process[x] \in Running
              /\ process[x] # "none" => process'[x] # "none"
<1> USE Distinct DEF TypeOK, Running, window, Hosts
<1>1. ASSUME NEW l \in Launches, Look(l) \/ Register(l) \/ Bind(l)
      PROVE  /\ UNCHANGED << setup, want, slot, tailscale, excused, step >>
             /\ process[l] \in Running /\ process'[l] \in Running \cup {"exited"}
             /\ \A x \in Launches \cup Connects : x # l => process'[x] = process[x]
  BY <1>1 DEF Look, Register, Bind
<1>2. ASSUME NEW l \in Launches, Install(l)
      PROVE  /\ UNCHANGED << setup, want, slot, tailscale, excused >>
             /\ process'[l] = "exited" /\ step'[l] \in {step[l], "waiting"}
             /\ \A x \in Launches \cup Connects :
                  x # l => process'[x] = process[x] /\ step'[x] = step[x]
  BY <1>2 DEF Install
<1>3. ASSUME NEW l \in Launches, CannotStart(l) \/ Ready(l) \/ GivesUp(l)
      PROVE  /\ UNCHANGED << setup, want, slot, tailscale, excused, process >>
             /\ step'[l] \in {"failed", "ready"}
             /\ \A x \in Launches \cup Connects : x # l => step'[x] = step[x]
  BY <1>3 DEF CannotStart, Ready, GivesUp
<1>4. ASSUME NEW x \in Launches \cup Connects, Exits(x)
      PROVE  /\ UNCHANGED << setup, want, slot, tailscale, excused, step >>
             /\ process'[x] = "exited"
             /\ \A y \in Launches \cup Connects : y # x => process'[y] = process[y]
  BY <1>4 DEF Exits
<1>5. ASSUME ServiceBinds \/ ServiceFails \/ Uninstall
      PROVE  /\ UNCHANGED << setup, want, slot, tailscale, excused, step >>
             /\ \A x \in Launches \cup Connects : process'[x] = process[x]
  BY <1>5 DEF ServiceBinds, ServiceFails, Uninstall
<1>6. ASSUME NEW l \in Launches, Connect(l) \/ CannotStart(l) \/ Ready(l) \/ GivesUp(l)
      PROVE  /\ UNCHANGED << setup, want, slot, tailscale, excused >>
             /\ \A k \in Launches : step'[k] = "tested" => step[k] = "tested"
             /\ \A t \in Connects : step'[t] = step[t]
             /\ \A x \in Launches \cup Connects :
                  /\ process'[x] \in Running => process[x] \in Running
                  /\ process[x] # "none" => process'[x] # "none"
  <2>1. CASE Look(l) \/ Register(l) \/ Bind(l)
    BY <1>1, <2>1
  <2>2. CASE Install(l)
    BY <1>2, <2>2
  <2>3. CASE CannotStart(l) \/ Ready(l) \/ GivesUp(l)
    BY <1>3, <2>3
  <2> QED
    BY <1>6, <2>1, <2>2, <2>3 DEF Connect
<1> QED
  BY <1>4, <1>5, <1>6 DEF Elsewhere

LEMMA Steps ==
  Next => \/ Elsewhere
          \/ \E l \in Launches : Test(l) \/ Spawn(l) \/ PageLeaves(l) \/ SeesExit(l)
          \/ \E t \in Connects : TailscaleStep(t)
          \/ Shutdown \/ Leave
  BY DEF Next, Elsewhere, Handler

-----------------------------------------------------------------------------
(* The invariant                                                            *)

LEMMA PortNext == TypeOK /\ PortInv /\ [Next]_vars => PortInv'
<1> SUFFICES ASSUME TypeOK, PortInv, [Next]_vars PROVE PortInv'
  OBVIOUS
<1> USE Distinct DEF TypeOK, PortInv, Hosts, window
<1>1. ASSUME NEW l \in Launches, Test(l) PROVE PortInv'
  BY <1>1 DEF Test
<1>2. ASSUME NEW l \in Launches, Spawn(l) \/ PageLeaves(l) PROVE PortInv'
  BY <1>2 DEF Spawn, PageLeaves
<1>3. ASSUME NEW l \in Launches, CannotStart(l) \/ Ready(l) \/ SeesExit(l) \/ GivesUp(l) PROVE PortInv'
  BY <1>3 DEF CannotStart, Ready, SeesExit, GivesUp
<1>4. ASSUME NEW l \in Launches, Look(l) \/ Register(l) PROVE PortInv'
  BY <1>4 DEF Look, Register
<1>5. ASSUME NEW l \in Launches, Bind(l) PROVE PortInv'
  BY <1>5 DEF Bind
<1>6. ASSUME NEW l \in Launches, Install(l) PROVE PortInv'
  BY <1>6 DEF Install
<1>7. ASSUME NEW t \in Connects, TailscaleStep(t) PROVE PortInv'
  BY <1>7 DEF TailscaleStep, ConnectTailscale, KeepTailscale, AbandonTailscale, TailscaleEnds
<1>8. ASSUME NEW x \in Launches \cup Connects, Exits(x) PROVE PortInv'
  BY <1>8 DEF Exits, Freed, Running
<1>9. ASSUME ServiceBinds PROVE PortInv'
  BY <1>9 DEF ServiceBinds
<1>10. ASSUME ServiceFails PROVE PortInv'
  BY <1>10 DEF ServiceFails, Freed
<1>11. ASSUME Uninstall PROVE PortInv'
  BY <1>11 DEF Uninstall, Freed
<1>12. ASSUME Shutdown PROVE PortInv'
  <2>1. ASSUME NEW h \in Hosts PROVE process'[h] = "serving" <=> port' = h
    BY <1>12 DEF Shutdown, Freed
  <2>2. ASSUME NEW l \in Launches, step'[l] \in {"idle", "tested"}
        PROVE  process'[l] = "none" /\ slot' # l
    <3>1. process[l] = "none" /\ l # slot
      BY <1>12, <2>2 DEF Shutdown
    <3>2. l \notin {slot, tailscale} /\ l \in DOMAIN process /\ l # None
      BY <3>1
    <3> QED
      BY <1>12, <3>1, <3>2 DEF Shutdown
  <2> QED
    BY <2>1, <2>2
<1>13. ASSUME Leave PROVE PortInv'
  BY <1>13 DEF Leave
<1>14. CASE UNCHANGED vars
  BY <1>14 DEF vars
<1> QED
  BY <1>1, <1>2, <1>3, <1>4, <1>5, <1>6, <1>7, <1>8, <1>9, <1>10, <1>11, <1>12, <1>13, <1>14
     DEF Next, Handler, Connect

(* Who displaces the child in the slot was tested before that child took    *)
(* it, and so was in its way.                                               *)
LEMMA SlotNext == TypeOK /\ PortInv /\ SlotInv /\ [Next]_vars => SlotInv'
<1> SUFFICES ASSUME TypeOK, PortInv, SlotInv, [Next]_vars PROVE SlotInv'
  OBVIOUS
<1> USE Distinct DEF TypeOK, SlotInv, Hosts
<1>1. ASSUME NEW l \in Launches, Test(l) PROVE SlotInv'
  BY <1>1 DEF Test, Tested, PortInv, Running
<1>2. ASSUME NEW l \in Launches, Spawn(l) PROVE SlotInv'
  <2>1. /\ \A k \in Launches \ {l} : process'[k] = process[k] /\ step'[k] = step[k]
        /\ step[l] = "tested" /\ step'[l] # "tested" /\ UNCHANGED << setup, want >>
        /\ \/ want[l].background /\ UNCHANGED << slot, excused >>
           \/ slot' = l /\ excused \subseteq excused' /\ (setup = "open" \/ l \in excused')
    BY <1>2 DEF Spawn
  <2>2. setup \in {"open", "closing"}
    BY <1>2 DEF Spawn
  <2>3. ASSUME NEW k \in Launches, process'[k] \in Running, ~ want[k].background, k \notin excused'
        PROVE  setup = "open" /\ slot' = k
    <3>1. CASE k = l
      BY <2>1, <2>3, <3>1
    <3>2. CASE k # l
      BY <2>1, <2>3, <3>2
    <3> QED
      BY <3>1, <3>2
  <2>4. \A k \in Launches : step'[k] = "tested" => k # l /\ step[k] = "tested"
    BY <2>1
  <2>5. ASSUME NEW k \in Launches, step'[k] = "tested", slot' # None PROVE slot' \in excused'
    BY <2>1, <2>4, <2>5
  <2>6. \A j, k \in Launches : j # k /\ step'[j] = "tested" /\ step'[k] = "tested" => j \in excused'
    BY <2>1, <2>4
  <2> QED
    BY <2>1, <2>3, <2>5, <2>6
<1>3. ASSUME NEW l \in Launches, SeesExit(l) PROVE SlotInv'
  BY <1>3 DEF SeesExit, Running
<1>4. ASSUME Elsewhere PROVE SlotInv'
  BY <1>4, ElsewhereKeeps
<1>5. ASSUME NEW t \in Connects, TailscaleStep(t) PROVE SlotInv'
  <2>1. /\ UNCHANGED << setup, want, slot >> /\ excused \ {t} \subseteq excused'
        /\ \A l \in Launches : process'[l] = process[l] /\ step'[l] = step[l]
    BY <1>5 DEF TailscaleStep, ConnectTailscale, KeepTailscale, AbandonTailscale, TailscaleEnds, window
  <2>2. \A l \in Launches : l # t
    OBVIOUS
  <2> QED
    BY <2>1, <2>2
<1>6. ASSUME Shutdown PROVE SlotInv'
  <2>1. \A l \in Launches : process'[l] \in Running => process[l] \in Running /\ l # slot
    BY <1>6 DEF Shutdown, Running
  <2> QED
    BY <1>6, <2>1 DEF Shutdown
<1>7. ASSUME Leave PROVE SlotInv'
  BY <1>7 DEF Leave
<1>8. CASE UNCHANGED vars
  BY <1>8 DEF vars
<1>9. ASSUME NEW l \in Launches, PageLeaves(l) PROVE SlotInv'
  <2>1. /\ UNCHANGED << setup, want, slot >> /\ excused \subseteq excused'
        /\ process'[l] = process[l] \/ l \in excused'
        /\ step'[l] = "dropped"
        /\ \A k \in Launches \ {l} : process'[k] = process[k] /\ step'[k] = step[k]
    BY <1>9 DEF PageLeaves
  <2> QED
    BY <2>1
<1> QED
  BY <1>1, <1>2, <1>3, <1>4, <1>5, <1>6, <1>7, <1>8, <1>9, Steps

LEMMA TailscaleNext == TypeOK /\ TailscaleInv /\ [Next]_vars => TailscaleInv'
<1> SUFFICES ASSUME TypeOK, TailscaleInv, [Next]_vars PROVE TailscaleInv'
  OBVIOUS
<1> USE Distinct DEF TypeOK, TailscaleInv, Hosts
<1>1. ASSUME NEW l \in Launches, Test(l) \/ Spawn(l) \/ PageLeaves(l) \/ SeesExit(l)
      PROVE  TailscaleInv'
  <2>1. /\ UNCHANGED << setup, tailscale >> /\ excused \subseteq excused'
        /\ \A t \in Connects : process'[t] = process[t] /\ step'[t] = step[t]
    BY <1>1 DEF Test, Spawn, PageLeaves, SeesExit
  <2> QED
    BY <2>1
<1>2. ASSUME Elsewhere PROVE TailscaleInv'
  BY <1>2, ElsewhereKeeps
<1>3. ASSUME NEW t \in Connects, ConnectTailscale(t) PROVE TailscaleInv'
  BY <1>3 DEF ConnectTailscale, Tested
<1>4. ASSUME NEW t \in Connects, KeepTailscale(t) PROVE TailscaleInv'
  BY <1>4 DEF KeepTailscale
<1>5. ASSUME NEW t \in Connects, TailscaleEnds(t) PROVE TailscaleInv'
  BY <1>5 DEF TailscaleEnds, Running, window
<1>6. ASSUME Shutdown PROVE TailscaleInv'
  <2>1. \A t \in Connects : process'[t] \in Running => process[t] \in Running /\ t # tailscale
    BY <1>6 DEF Shutdown, Running
  <2> QED
    BY <1>6, <2>1 DEF Shutdown
<1>7. ASSUME Leave PROVE TailscaleInv'
  BY <1>7 DEF Leave
<1>8. CASE UNCHANGED vars
  BY <1>8 DEF vars
<1>9. ASSUME NEW t \in Connects, AbandonTailscale(t) PROVE TailscaleInv'
  BY <1>9 DEF AbandonTailscale
<1> QED
  BY <1>1, <1>2, <1>3, <1>4, <1>5, <1>6, <1>7, <1>8, <1>9, Steps DEF TailscaleStep

(* A record is opened by a launch that asked for it, and what was asked     *)
(* stays asked.                                                             *)
LEMMA RecordNext == TypeOK /\ RecordInv /\ [Next]_vars => RecordInv'
<1> SUFFICES ASSUME TypeOK, RecordInv, [Next]_vars PROVE RecordInv'
  OBVIOUS
<1>1. want' = want /\ \A l \in Launches : process[l] # "none" => process'[l] # "none"
  <2> USE Distinct DEF TypeOK, Hosts
  <2>1. ASSUME Elsewhere PROVE want' = want /\ \A l \in Launches : process[l] # "none" => process'[l] # "none"
    BY <2>1, ElsewhereKeeps
  <2>2. ASSUME NEW k \in Launches, Test(k) \/ Spawn(k) \/ PageLeaves(k) \/ SeesExit(k)
        PROVE  want' = want /\ \A l \in Launches : process[l] # "none" => process'[l] # "none"
    BY <2>2 DEF Test, Spawn, PageLeaves, SeesExit
  <2>3. ASSUME NEW t \in Connects, TailscaleStep(t)
        PROVE  want' = want /\ \A l \in Launches : process[l] # "none" => process'[l] # "none"
    BY <2>3 DEF TailscaleStep, ConnectTailscale, KeepTailscale, AbandonTailscale, TailscaleEnds, window
  <2>4. ASSUME Shutdown \/ Leave
        PROVE  want' = want /\ \A l \in Launches : process[l] # "none" => process'[l] # "none"
    BY <2>4 DEF Shutdown, Leave
  <2> QED
    BY <2>1, <2>2, <2>3, <2>4, Steps DEF vars
<1>2. ASSUME NEW f, Asked(f) PROVE Asked(f)'
  BY <1>1, <1>2 DEF Asked
<1>3. ASSUME UNCHANGED << registered, runs >> PROVE RecordInv'
  BY <1>2, <1>3 DEF RecordInv
<1>4. ASSUME NEW l \in Launches, Register(l) PROVE RecordInv'
  <2> DEFINE folder == want[l].folder
  <2>1. folder \in Folders
    BY AsksTyped DEF TypeOK
  <2>2. /\ registered \in [Folders -> Records] /\ process[l] = "looked"
        /\ runs \in [Hosts -> [folder : Folders, record : Records]] /\ l \in Hosts
    BY <1>4 DEF Register, TypeOK, Hosts
  <2>3. want[l].global => Asked(folder)
    BY <2>2 DEF Asked
  <2>4. UNCHANGED << registered, runs >> \/ \E record \in {"global", "plain", registered[folder]} :
          /\ record = "global" => want[l].global \/ registered[folder] = "global"
          /\ registered' = [registered EXCEPT ![folder] = record]
          /\ runs' = [runs EXCEPT ![l] = [folder |-> folder, record |-> record]]
    BY <1>4 DEF Register, upsert_workspace
  <2>5. ASSUME NEW record,
               record = "global" => want[l].global \/ registered[folder] = "global",
               registered' = [registered EXCEPT ![folder] = record],
               runs' = [runs EXCEPT ![l] = [folder |-> folder, record |-> record]]
        PROVE  RecordInv'
    <3>1. record = "global" => Asked(folder)
      BY <2>1, <2>3, <2>5 DEF RecordInv
    <3> HIDE DEF folder
    <3>2. ASSUME NEW f \in Folders, registered'[f] = "global" PROVE Asked(f)
      BY <2>1, <2>2, <2>5, <3>1, <3>2 DEF RecordInv
    <3>3. ASSUME NEW h \in Hosts, runs'[h].record = "global" PROVE Asked(runs'[h].folder)
      <4>1. CASE h = l
        BY <2>2, <2>5, <3>1, <3>3, <4>1
      <4>2. CASE h # l
        BY <2>2, <2>5, <3>3, <4>2 DEF RecordInv
      <4> QED
        BY <4>1, <4>2
    <3> QED
      BY <1>2, <3>2, <3>3 DEF RecordInv
  <2> QED
    BY <1>3, <2>4, <2>5
<1>5. ASSUME ServiceBinds PROVE RecordInv'
  <2> DEFINE folder == want[unit].folder
  <2>1. folder \in Folders
    BY <1>5, AsksTyped DEF ServiceBinds, TypeOK
  <2>2. /\ registered' = registered
        /\ runs' = [runs EXCEPT ![Service] = [folder |-> folder, record |-> registered[folder]]]
        /\ runs \in [Hosts -> [folder : Folders, record : Records]]
    BY <1>5 DEF ServiceBinds, TypeOK
  <2> HIDE DEF folder
  <2>3. ASSUME NEW h \in Hosts, runs'[h].record = "global" PROVE Asked(runs'[h].folder)
    <3>1. CASE h = Service
      BY <2>1, <2>2, <2>3, <3>1 DEF RecordInv
    <3>2. CASE h # Service
      BY <2>2, <2>3, <3>2 DEF RecordInv
    <3> QED
      BY <3>1, <3>2
  <2> QED
    BY <1>2, <2>2, <2>3 DEF RecordInv
<1>6. ASSUME NEW l \in Launches, Handler(l) \/ Look(l) \/ Bind(l) \/ Install(l) PROVE RecordInv'
  BY <1>3, <1>6 DEF Handler, Test, Spawn, PageLeaves, CannotStart, Ready, SeesExit, GivesUp, Look, Bind, Install
<1>7. ASSUME NEW t \in Connects, TailscaleStep(t) PROVE RecordInv'
  BY <1>3, <1>7 DEF TailscaleStep, ConnectTailscale, KeepTailscale, AbandonTailscale, TailscaleEnds
<1>8. ASSUME NEW x \in Launches \cup Connects, Exits(x) PROVE RecordInv'
  BY <1>3, <1>8 DEF Exits
<1>9. ASSUME ServiceFails \/ Uninstall \/ Shutdown \/ Leave PROVE RecordInv'
  BY <1>3, <1>9 DEF ServiceFails, Uninstall, Shutdown, Leave
<1>10. CASE UNCHANGED vars
  BY <1>3, <1>10 DEF vars
<1> QED
  BY <1>4, <1>5, <1>6, <1>7, <1>8, <1>9, <1>10 DEF Next, Connect

THEOREM Invariance == Spec => []Inv
<1>1. Inv /\ [Next]_vars => Inv'
  BY TypeNext, PortNext, SlotNext, TailscaleNext, RecordNext DEF Inv
<1> QED
  BY <1>1, InvInit, PTL DEF Spec

THEOREM TypeCorrect == Spec => []TypeOK
<1>1. Inv => TypeOK
  BY DEF Inv
<1> QED
  BY <1>1, Invariance, PTL

(* What the setup window started in the foreground ends with it, but for    *)
(* requests that met half-way or whose page left there (the shutdown of     *)
(* serve in setup_server.rs).                                               *)
THEOREM NothingOutlivesSetupHolds == Spec => []NothingOutlivesSetup
<1>1. Inv => NothingOutlivesSetup
  BY DEF Inv, SlotInv, TailscaleInv, NothingOutlivesSetup
<1> QED
  BY <1>1, Invariance, PTL

(* A host exposes the global customization of a folder only when a launch   *)
(* asked that for this folder (connect in main.rs).                         *)
THEOREM ExposesOnlyWhatWasAskedHolds == Spec => []ExposesOnlyWhatWasAsked
<1>1. Inv => ExposesOnlyWhatWasAsked
  BY DEF Inv, RecordInv, Asked, ExposesOnlyWhatWasAsked
<1> QED
  BY <1>1, Invariance, PTL

================================================================================
