---------------------------- MODULE WorkbenchProofs ----------------------------
(***************************************************************************)
(* Proofs about the four tools of the workbench, for every set of sockets,  *)
(* previews, paths and names, and every capacity and bound.                 *)
(***************************************************************************)
EXTENDS Terminals, Previews, GitPanel, Customizations, TLAPS

-----------------------------------------------------------------------------
(* Customizations                                                           *)

LEMMA CustomizationInvInit == CustomizationInit => CustomizationInv
  BY DEF CustomizationInit, CustomizationInv, CustomizationTypeOK, Changes, Actions, Scopes,
         ReviewInv, PendingInv, OnlyReviewedAndGranted, ReviewedChange, GrantedChange

(* Neither another scope nor a host that is connected again changes what a  *)
(* ticked box stands for; everything else that changes the form empties it. *)
LEMMA CustomizationInvNext == CustomizationInv /\ [CustomizationNext]_cvars => CustomizationInv'
<1> SUFFICES ASSUME CustomizationInv, [CustomizationNext]_cvars PROVE CustomizationInv'
  OBVIOUS
<1> USE DEF CustomizationInv, CustomizationTypeOK, ReviewInv, PendingInv,
            OnlyReviewedAndGranted, ReviewedChange, GrantedChange
<1>1. ASSUME Tick \/ TypePhrase PROVE CustomizationInv'
  BY <1>1 DEF Tick, TypePhrase
<1>2. ASSUME Submit PROVE CustomizationInv'
  BY <1>2 DEF Submit
<1>3. ASSUME Mutate PROVE CustomizationInv'
  BY <1>3 DEF Mutate, RunDevin, Reset, Granted
<1>4. ASSUME Refuse PROVE CustomizationInv'
  BY <1>4 DEF Refuse
<1>5. ASSUME NEW from1 \in SUBSET {"rules", "project", "user"}, Shown(from1),
             "user" \in from1 => globalGranted
      PROVE  CustomizationInv'
  BY <1>5 DEF Shown
<1>6. ASSUME NEW category \in Categories, ListCustomization(category) PROVE CustomizationInv'
  BY <1>5, <1>6 DEF ListCustomization
<1>7. ASSUME NEW category \in Categories, NEW name \in Names, ShowCustomization(category, name)
      PROVE  CustomizationInv'
  BY <1>5, <1>7 DEF ShowCustomization
<1>8. ASSUME NEW kind \in DOMAIN Actions, OpenForm(kind) PROVE CustomizationInv'
  BY <1>8 DEF OpenForm, Reset, Changes, Actions, Scopes
<1>9. ASSUME NEW action \in Actions[form.kind], SetAction(action) PROVE CustomizationInv'
  BY <1>9 DEF SetAction, Reset, Changes, Actions
<1>10. ASSUME NEW name \in Names, SetName(name) PROVE CustomizationInv'
  BY <1>10 DEF SetName, Reset, Changes, Actions
<1>11. ASSUME NEW scope \in Scopes, SetScope(scope) PROVE CustomizationInv'
  <2>1. form' \in Changes /\ Phrase(form') = Phrase(form)
    BY <1>11 DEF SetScope, Changes, Phrase, Actions
  <2> QED
    BY <1>11, <2>1 DEF SetScope
<1>12. ASSUME NEW project \in BOOLEAN, NEW global \in BOOLEAN, Reconnect(project, global)
       PROVE  CustomizationInv'
  BY <1>12 DEF Reconnect
<1>13. CASE UNCHANGED cvars
  BY <1>13 DEF cvars
<1> QED
  BY <1>1, <1>2, <1>3, <1>4, <1>6, <1>7, <1>8, <1>9, <1>10, <1>11, <1>12, <1>13
     DEF CustomizationNext

(* Devin is asked only for changes of a kind, an action and a name that     *)
(* stood in the form when its box was ticked, and that the running host was *)
(* granted; scope, source and arguments may have changed since.  Without    *)
(* the grant no list shows the user's own configuration (mutate, list and   *)
(* show).                                                                   *)
THEOREM OnlyReviewedAndGrantedHolds == CustomizationSpec => []OnlyReviewedAndGranted
<1>1. CustomizationInv => OnlyReviewedAndGranted
  BY DEF CustomizationInv
<1> QED
  BY <1>1, CustomizationInvInit, CustomizationInvNext, PTL DEF CustomizationSpec

-----------------------------------------------------------------------------
(* The Git panel                                                            *)

LEMMA GitInvInit == GitInit => GitPanelInv
<1> SUFFICES ASSUME GitInit PROVE GitPanelInv
  OBVIOUS
<1>1. commits \in 0..MaxCommits
  BY GitAssumption DEF GitInit, GitAssumption
<1>2. tip[head] \in Trees
  BY DEF GitInit
<1> QED
  BY <1>1, <1>2 DEF GitInit, GitPanelInv, GitTypeOK, SwitchInv

LEMMA GitInvNext == GitPanelInv /\ [GitNext]_gvars => GitPanelInv'
<1> SUFFICES ASSUME GitPanelInv, [GitNext]_gvars PROVE GitPanelInv'
  OBVIOUS
<1>0. ignored' = ignored
  BY DEF GitNext, gvars
<1> USE <1>0, GitAssumption DEF GitPanelInv, GitTypeOK, SwitchInv, Trees, Unlocked, Rewritten, Ignored, repository
<1>1. ASSUME Refresh PROVE GitPanelInv'
  BY <1>1 DEF Refresh, parse_status, Listings
<1>2. ASSUME ArmPush \/ Push PROVE GitPanelInv'
  BY <1>2 DEF ArmPush, Push
<1>3. ASSUME NEW name \in listed, Toggle(name) PROVE GitPanelInv'
  BY <1>3 DEF Toggle
<1>4. ASSUME Stage \/ Unstage PROVE GitPanelInv'
  BY <1>4 DEF Stage, Unstage
<1>5. ASSUME Commit PROVE GitPanelInv'
  BY <1>5 DEF Commit, CommitTree
<1>6. ASSUME AgentCommits PROVE GitPanelInv'
  BY <1>6 DEF AgentCommits, CommitTree
<1>7. ASSUME NEW b \in Branches, SwitchBranch(b) PROVE GitPanelInv'
  BY <1>7 DEF SwitchBranch, SwitchKeepsWork
<1>8. ASSUME SwitchWrites PROVE GitPanelInv'
  BY <1>8 DEF SwitchWrites
<1>9. ASSUME NEW p \in Paths, NEW content \in Contents \cup {Absent}, AgentWrites(p, content)
      PROVE  GitPanelInv'
  BY <1>9 DEF AgentWrites
<1>10. ASSUME NEW p \in Paths, NEW content \in Contents \cup {Absent}, AgentMerges(p, content)
       PROVE  GitPanelInv'
  BY <1>10 DEF AgentMerges
<1>11. CASE UNCHANGED gvars
  BY <1>11 DEF gvars
<1> QED
  BY <1>1, <1>2, <1>3, <1>4, <1>5, <1>6, <1>7, <1>8, <1>9, <1>10, <1>11 DEF GitNext

THEOREM GitInvariance == GitSpec => []GitPanelInv
  BY GitInvInit, GitInvNext, PTL DEF GitSpec

(* No button of the panel replaces a file of the working tree that differs  *)
(* from the last commit, unless it is ignored and not tracked, whatever the *)
(* agent did since the panel was refreshed (git.rs: nothing is called with  *)
(* --force, and unstage leaves the working tree).                           *)
THEOREM WorkSurvivesHolds == GitSpec => WorkSurvives
<1> DEFINE Kept(p) ==
      working'[p] # working[p]
        => \/ working[p] \in {Absent, tip[head][p]}
           \/ p \in touched
           \/ Ignored(p)
           \/ \E content \in Contents \cup {Absent} : AgentWrites(p, content) \/ AgentMerges(p, content)
<1>1. ASSUME GitPanelInv, [GitNext]_gvars, NEW p \in Paths PROVE Kept(p)
  <2>1. CASE SwitchWrites
    BY <1>1, <2>1 DEF SwitchWrites, GitPanelInv, GitTypeOK, SwitchInv, Unlocked, Trees
  <2>2. ASSUME NEW q \in Paths, NEW content \in Contents \cup {Absent},
               AgentWrites(q, content) \/ AgentMerges(q, content)
        PROVE  Kept(p)
    <3>1. CASE q = p
      BY <2>2, <3>1
    <3>2. CASE q # p
      BY <1>1, <2>2, <3>2 DEF AgentWrites, AgentMerges, GitPanelInv, GitTypeOK, Trees
    <3> QED
      BY <3>1, <3>2
  <2>3. CASE UNCHANGED working
    BY <2>3
  <2> QED
    BY <1>1, <2>1, <2>2, <2>3
       DEF GitNext, gvars, repository, Refresh, ArmPush, Stage, Unstage, Commit, Push, AgentCommits,
           Toggle, SwitchBranch
<1>2. GitPanelInv /\ [GitNext]_gvars => [\A p \in Paths : Kept(p)]_gvars
  BY <1>1
<1> QED
  BY <1>2, GitInvariance, PTL DEF GitSpec, WorkSurvives

-----------------------------------------------------------------------------
(* Previews                                                                 *)

LEMMA PreviewInvInit == PreviewInit => PreviewInv
<1> SUFFICES ASSUME PreviewInit PROVE PreviewInv
  OBVIOUS
<1> USE PreviewAssumption DEF PreviewInit, PreviewAssumption, Pages
<1>1. NoRequest \in [to : Origins \cup {Blank}, asked : SUBSET Views] /\ NoRequest.asked = {}
  BY DEF NoRequest
<1>2. PreviewTypeOK
  BY <1>1 DEF PreviewTypeOK
<1>3. PageInv
  BY <1>1 DEF PageInv
<1>4. NoOrphanBrowser /\ ListenerInv /\ LiveInv /\ PausingInv
  BY DEF NoOrphanBrowser, ListenerInv, LiveInv, PausingInv
<1> QED
  BY <1>2, <1>3, <1>4 DEF PreviewInv

(* A browser that ends leaves no port, no interception and no page behind.  *)
LEMMA KilledBrowser ==
  ASSUME PreviewInv, NEW b \in Views, Killed(b)
  PROVE  /\ child' \in [Views -> {"none", "running", "dead"}]
         /\ listener' \in [Ports -> Views \cup {NoView}]
         /\ opener' \in [Windows -> Views \cup {NoView}]
         /\ page' \in [Pages -> Origins \cup {Blank}]
         /\ paused' \in [Pages -> [to : Origins \cup {Blank}, asked : SUBSET Views]]
         /\ pausing' = {v \in pausing : BrowserOf(found[v]) # b}
         /\ child'[b] # "running" /\ (child'[b] = "none" <=> child[b] = "none")
         /\ \A d \in Views \ {b} : child'[d] = child[d]
         /\ \A p \in Pages : BrowserOf(p) = b => page'[p] = Blank /\ paused'[p].asked = {}
         /\ \A p \in Pages : BrowserOf(p) # b => page'[p] = page[p] /\ paused'[p] = paused[p]
         /\ \A q \in Ports : listener'[q] # NoView => listener[q] # b /\ listener'[q] = listener[q]
         /\ \A w \in Windows : opener'[w] # NoView => opener[w] # b /\ opener'[w] = opener[w]
         /\ \A p \in Pages : IsOpen(p)' => IsOpen(p) /\ BrowserOf(p) # b
<1> USE PreviewAssumption DEF Killed, PreviewInv, PreviewTypeOK, PreviewAssumption, Pages
<1>1. NoRequest \in [to : Origins \cup {Blank}, asked : SUBSET Views] /\ NoRequest.asked = {}
  BY DEF NoRequest
<1>2. paused' \in [Pages -> [to : Origins \cup {Blank}, asked : SUBSET Views]]
  BY <1>1
<1>3. \A p \in Pages : BrowserOf(p) = b => page'[p] = Blank /\ paused'[p].asked = {}
  BY <1>1
<1>4. \A p \in Pages : BrowserOf(p) # b => page'[p] = page[p] /\ paused'[p] = paused[p]
  OBVIOUS
<1>5. /\ child'[b] # "running" /\ (child'[b] = "none" <=> child[b] = "none")
      /\ \A d \in Views \ {b} : child'[d] = child[d]
  OBVIOUS
<1>6. \A w \in Windows : opener'[w] # NoView => opener[w] # b /\ opener'[w] = opener[w]
  OBVIOUS
<1>7. \A p \in Pages : IsOpen(p)' => IsOpen(p) /\ BrowserOf(p) # b
  BY <1>5, <1>6 DEF IsOpen, BrowserOf
<1> QED
  BY <1>2, <1>3, <1>4, <1>5, <1>6, <1>7

(* A page is never loaded without the consent of a preview: the browser     *)
(* asks whoever intercepts its requests, and somebody does.                 *)
LEMMA LoadAsks ==
  ASSUME PreviewInv, NEW p \in Pages, NEW origin, NEW v \in pausing, found[v] = p, Load(p, origin)
  PROVE  /\ page' = page
         /\ paused' = [paused EXCEPT ![p] = [to |-> origin, asked |-> {w \in pausing : found[w] = p}]]
  BY DEF Load, PreviewInv, PreviewTypeOK

LEMMA OrderAsks ==
  ASSUME PreviewInv, NEW v \in Views, RunOrder(v)
  PROVE  /\ found[v] \in Pages
         /\ \/ pausing' = pausing \cup {v} /\ page' = page /\ paused' = paused
            \/ /\ v \in pausing /\ pausing' = pausing /\ page' = page
               /\ \E request \in [to : Origins \cup {Blank}, asked : SUBSET Views] :
                    /\ request.asked = {w \in pausing : found[w] = found[v]}
                    /\ paused' = [paused EXCEPT ![found[v]] = request]
<1>1. found[v] \in Pages
  BY DEF RunOrder, PreviewInv, LiveInv
<1>2. orders[v] \in Seq(Orders) /\ orders[v] # << >>
  BY DEF RunOrder, PreviewInv, PreviewTypeOK
<1>3. CASE Head(orders[v]) = "Fetch.enable"
  BY <1>1, <1>3 DEF RunOrder
<1>4. CASE Head(orders[v]) # "Fetch.enable"
  <2>1. v \in pausing
    BY <1>4 DEF RunOrder, PreviewInv, PausingInv
  <2>2. Head(orders[v]) \in Origins
    BY <1>2, <1>4 DEF Orders
  <2>3. Load(found[v], Head(orders[v])) /\ pausing' = pausing
    BY <1>4 DEF RunOrder
  <2>4. PICK request : request = [to |-> Head(orders[v]), asked |-> {w \in pausing : found[w] = found[v]}]
    OBVIOUS
  <2>5. /\ request \in [to : Origins \cup {Blank}, asked : SUBSET Views]
        /\ request.asked = {w \in pausing : found[w] = found[v]}
    BY <2>2, <2>4 DEF PreviewInv, PreviewTypeOK
  <2>6. page' = page /\ paused' = [paused EXCEPT ![found[v]] = request]
    BY <1>1, <2>1, <2>2, <2>3, <2>4, LoadAsks
  <2> QED
    BY <1>1, <2>1, <2>3, <2>5, <2>6
<1> QED
  BY <1>3, <1>4

(* A link in the first page of a browser is asked about too; in a window it *)
(* may not be.                                                              *)
LEMMA LinkAsks ==
  ASSUME PreviewInv, NEW p \in Pages, NEW origin \in Origins, FollowLink(p, origin)
  PROVE  /\ pausing' = pausing
         /\ page' \in [Pages -> Origins \cup {Blank}]
         /\ paused' \in [Pages -> [to : Origins \cup {Blank}, asked : SUBSET Views]]
         /\ \A b \in Views : page'[b] = page[b]
         /\ \A d \in Pages : paused'[d] = paused[d] \/ paused'[d].asked = {w \in pausing : found[w] = d}
<1>1. /\ pausing \subseteq Views
      /\ page \in [Pages -> Origins \cup {Blank}]
      /\ paused \in [Pages -> [to : Origins \cup {Blank}, asked : SUBSET Views]]
  BY DEF PreviewInv, PreviewTypeOK
<1>2. pausing' = pausing /\ Load(p, origin)
  BY DEF FollowLink
<1>3. CASE {w \in pausing : found[w] = p} = {}
  <2>1. page' = [page EXCEPT ![p] = origin] /\ paused' = paused
    BY <1>2, <1>3 DEF Load
  <2>2. p \notin Views
    BY <1>3 DEF FollowLink, PreviewInv, PageInv
  <2> QED
    BY <1>1, <1>2, <2>1, <2>2
<1>4. CASE {w \in pausing : found[w] = p} # {}
  <2>1. PICK request : request = [to |-> origin, asked |-> {w \in pausing : found[w] = p}]
    OBVIOUS
  <2>2. page' = page /\ paused' = [paused EXCEPT ![p] = request]
    BY <1>2, <1>4, <2>1 DEF Load
  <2>3. request \in [to : Origins \cup {Blank}, asked : SUBSET Views]
    BY <1>1, <2>1
  <2>4. request.asked = {w \in pausing : found[w] = p}
    BY <2>1
  <2> QED
    BY <1>1, <1>2, <2>2, <2>3, <2>4
<1> QED
  BY <1>3, <1>4

(* A window that opens or closes touches no page a browser started with,    *)
(* and what it leaves waits for nobody who does not intercept.              *)
LEMMA WindowOpens ==
  ASSUME PreviewInv, NEW p \in Pages, NEW w \in Windows, NEW origin \in Origins, OpenWindow(p, w, origin)
  PROVE  /\ opener' \in [Windows -> Views \cup {NoView}]
         /\ page' \in [Pages -> Origins \cup {Blank}]
         /\ child[opener'[w]] = "running"
         /\ \A x \in Windows \ {w} : opener'[x] = opener[x]
         /\ \A b \in Views : page'[b] = page[b]
         /\ \A v \in Views : stage[v] = "live" => found[v] # w
<1> USE PreviewAssumption DEF OpenWindow, PreviewInv, PreviewTypeOK, PreviewAssumption, Pages
<1>1. BrowserOf(p) \in Views /\ child[BrowserOf(p)] = "running"
  BY DEF IsOpen, BrowserOf, ListenerInv
<1>2. w \notin Views /\ w \in Pages
  OBVIOUS
<1>3. \A v \in Views : stage[v] = "live" => found[v] # w
  BY DEF Clients
<1> QED
  BY <1>1, <1>2, <1>3

LEMMA WindowCloses ==
  ASSUME PreviewInv, NEW w \in Windows, CloseWindow(w)
  PROVE  /\ opener' \in [Windows -> Views \cup {NoView}]
         /\ page' \in [Pages -> Origins \cup {Blank}]
         /\ paused' \in [Pages -> [to : Origins \cup {Blank}, asked : SUBSET Views]]
         /\ pausing' = {v \in pausing : found[v] # w}
         /\ opener'[w] = NoView /\ \A x \in Windows \ {w} : opener'[x] = opener[x]
         /\ \A b \in Views : page'[b] = page[b]
         /\ paused'[w].asked = {} /\ \A d \in Pages \ {w} : paused'[d] = paused[d]
<1> USE PreviewAssumption DEF CloseWindow, PreviewInv, PreviewTypeOK, PreviewAssumption, Pages
<1>1. NoRequest \in [to : Origins \cup {Blank}, asked : SUBSET Views] /\ NoRequest.asked = {}
  BY DEF NoRequest
<1>2. w \notin Views /\ w \in Pages
  OBVIOUS
<1> QED
  BY <1>1, <1>2

(* A decision lets a page through only when everybody who was asked agrees, *)
(* and one who agrees approves of its origin.                               *)
LEMMA DecisionApproves ==
  ASSUME PreviewInv, NEW v \in Views, DecideRequest(v)
  PROVE  /\ found[v] \in Pages /\ v \in pausing /\ pausing' = pausing
         /\ paused' \in [Pages -> [to : Origins \cup {Blank}, asked : SUBSET Views]]
         /\ \A d \in Pages : paused'[d].asked \subseteq paused[d].asked
         /\ page' \in [Pages -> Origins \cup {Blank}]
         /\ \A d \in Pages : page'[d] = page[d] \/ (d = found[v] /\ page'[d] = approved[v])
<1>1. found[v] \in Pages
  BY DEF DecideRequest, PreviewInv, LiveInv
<1>2. v \in pausing /\ pausing' = pausing
  BY <1>1 DEF DecideRequest, PreviewInv, PageInv
<1> DEFINE b == found[v]
           request == paused[b]
           none == NoRequest
           rest == [request EXCEPT !.asked = request.asked \ {v}]
<1>3. paused \in [Pages -> [to : Origins \cup {Blank}, asked : SUBSET Views]]
  BY DEF PreviewInv, PreviewTypeOK
<1>4. page \in [Pages -> Origins \cup {Blank}] /\ approved[v] \in Origins
  BY DEF PreviewInv, PreviewTypeOK
<1>5. \E r : r \in {none, rest} /\ paused' = [paused EXCEPT ![b] = r]
  BY DEF DecideRequest
<1>6. page' = page \/ page' = [page EXCEPT ![b] = approved[v]]
  BY DEF DecideRequest
<1>7. request \in [to : Origins \cup {Blank}, asked : SUBSET Views]
  BY <1>1, <1>3
<1>8. \A r \in {none, rest} : /\ r \in [to : Origins \cup {Blank}, asked : SUBSET Views]
                              /\ r.asked \subseteq request.asked
  BY <1>7 DEF NoRequest
<1> HIDE DEF none, rest
<1>9. PICK r : r \in {none, rest} /\ paused' = [paused EXCEPT ![b] = r]
  BY <1>5
<1>10. r \in [to : Origins \cup {Blank}, asked : SUBSET Views] /\ r.asked \subseteq request.asked
  BY <1>8, <1>9
<1>11. paused' \in [Pages -> [to : Origins \cup {Blank}, asked : SUBSET Views]]
  BY <1>1, <1>3, <1>9, <1>10
<1>12. ASSUME NEW d \in Pages PROVE paused'[d].asked \subseteq paused[d].asked
  <2>1. CASE d = b
    BY <1>1, <1>3, <1>9, <1>10, <2>1
  <2>2. CASE d # b
    BY <1>3, <1>9, <2>2
  <2> QED
    BY <2>1, <2>2
<1>13. page' \in [Pages -> Origins \cup {Blank}]
  BY <1>4, <1>6
<1>14. \A d \in Pages : page'[d] = page[d] \/ (d = b /\ page'[d] = approved[v])
  BY <1>4, <1>6
<1> QED
  BY <1>1, <1>2, <1>11, <1>12, <1>13, <1>14

LEMMA PreviewTypeNext == PreviewInv /\ [PreviewNext]_pvars => PreviewTypeOK'
<1> SUFFICES ASSUME PreviewInv, [PreviewNext]_pvars PROVE PreviewTypeOK'
  OBVIOUS
<1>0. PreviewTypeOK /\ ListenerInv /\ LiveInv
  BY DEF PreviewInv
<1> USE DEF PreviewTypeOK
<1>1. ASSUME NEW v \in Views, ReservePort(v) PROVE PreviewTypeOK'
  BY <1>0, <1>1 DEF ReservePort
<1>2. ASSUME NEW v \in Views, StartBrowser(v) PROVE PreviewTypeOK'
  BY <1>0, <1>2 DEF StartBrowser
<1>3. ASSUME NEW v \in Views, BrowserListens(v) PROVE PreviewTypeOK'
  BY <1>0, <1>3 DEF BrowserListens
<1>4. ASSUME NEW v \in Views, FindPage(v) PROVE PreviewTypeOK'
  <2>1. found' \in [Views -> Pages \cup {NoView}]
    BY <1>0, <1>4 DEF FindPage
  <2> QED
    BY <1>0, <1>4, <2>1 DEF FindPage, Orders
<1>5. ASSUME NEW v \in Views, CreateFails(v) PROVE PreviewTypeOK'
  BY <1>0, <1>5, KilledBrowser DEF CreateFails
<1>6. ASSUME NEW v \in Views, BrowserDies(v) PROVE PreviewTypeOK'
  BY <1>0, <1>6, KilledBrowser DEF BrowserDies
<1>7. ASSUME NEW v \in Views, TaskEnds(v) PROVE PreviewTypeOK'
  BY <1>0, <1>7, KilledBrowser DEF TaskEnds
<1>8. ASSUME NEW v \in Views, NEW origin \in Origins, Navigate(v, origin) PROVE PreviewTypeOK'
  BY <1>0, <1>8 DEF Navigate
<1>9. ASSUME NEW v \in Views, TakeControl(v) PROVE PreviewTypeOK'
  BY <1>0, <1>9 DEF TakeControl, Orders
<1>10. ASSUME NEW v \in Views, RunOrder(v) PROVE PreviewTypeOK'
  <2>1. orders' \in [Views -> Seq(Orders)]
    <3>1. Tail(orders[v]) \in Seq(Orders)
      BY <1>0, <1>10 DEF RunOrder
    <3> QED
      BY <1>0, <1>10, <3>1 DEF RunOrder
  <2>2. pausing' \subseteq Views /\ page' \in [Pages -> Origins \cup {Blank}]
    BY <1>0, <1>10, OrderAsks
  <2>3. paused' \in [Pages -> [to : Origins \cup {Blank}, asked : SUBSET Views]]
    <3>1. PICK request \in [to : Origins \cup {Blank}, asked : SUBSET Views] :
            paused' = paused \/ paused' = [paused EXCEPT ![found[v]] = request]
      BY <1>0, <1>10, OrderAsks
    <3> QED
      BY <1>0, <3>1
  <2> QED
    BY <1>0, <1>10, <2>1, <2>2, <2>3 DEF RunOrder
<1>11. ASSUME NEW p \in Pages, NEW origin \in Origins, FollowLink(p, origin) PROVE PreviewTypeOK'
  BY <1>0, <1>11, LinkAsks DEF FollowLink
<1>12. ASSUME NEW v \in Views, DecideRequest(v) PROVE PreviewTypeOK'
  BY <1>0, <1>12, DecisionApproves DEF DecideRequest
<1>13. ASSUME NEW p \in Pages, NEW w \in Windows, NEW origin \in Origins, OpenWindow(p, w, origin)
       PROVE  PreviewTypeOK'
  BY <1>0, <1>13, WindowOpens DEF OpenWindow
<1>14. ASSUME NEW w \in Windows, CloseWindow(w) PROVE PreviewTypeOK'
  BY <1>0, <1>14, WindowCloses DEF CloseWindow
<1>15. CASE UNCHANGED pvars
  BY <1>0, <1>15 DEF pvars
<1> QED
  BY <1>1, <1>2, <1>3, <1>4, <1>5, <1>6, <1>7, <1>8, <1>9, <1>10, <1>11, <1>12, <1>13, <1>14, <1>15
     DEF PreviewNext

(* When a browser ends, its previews stop intercepting and its pages and    *)
(* requests are gone; the other browsers and their previews do not notice.  *)
LEMMA KilledKeeps ==
  ASSUME PreviewInv, NEW b \in Views, Killed(b), UNCHANGED << found, approved, orders >>,
         \A v \in Views : stage'[v] = "live" => stage[v] = "live",
         \A v \in Views : stage[v] = "live" /\ stage'[v] # "live" => ~IsOpen(found[v])
  PROVE  PausingInv' /\ PageInv'
<1>0. PreviewTypeOK /\ LiveInv /\ PausingInv /\ PageInv
  BY DEF PreviewInv
<1>1. /\ pausing' = {v \in pausing : BrowserOf(found[v]) # b} /\ pausing \subseteq Views
      /\ \A p \in Pages : BrowserOf(p) = b => page'[p] = Blank /\ paused'[p].asked = {}
      /\ \A p \in Pages : BrowserOf(p) # b => page'[p] = page[p] /\ paused'[p] = paused[p]
      /\ \A p \in Pages : IsOpen(p)' => IsOpen(p) /\ BrowserOf(p) # b
      /\ \A p \in Pages : IsOpen(p) /\ BrowserOf(p) # b => IsOpen(p)'
  <2>1. \A p \in Pages : IsOpen(p) /\ BrowserOf(p) # b => IsOpen(p)'
    BY <1>0, PreviewAssumption
       DEF Killed, IsOpen, BrowserOf, Pages, PreviewTypeOK, PreviewAssumption
  <2> QED
    BY <1>0, <2>1, KilledBrowser DEF PreviewTypeOK
<1>2. ASSUME NEW v \in pausing' PROVE stage'[v] = "live" /\ IsOpen(found[v])'
  <2>1. v \in pausing /\ v \in Views /\ BrowserOf(found[v]) # b
    BY <1>1
  <2>2. stage[v] = "live" /\ IsOpen(found[v]) /\ found[v] \in Pages
    BY <1>0, <2>1 DEF PausingInv, LiveInv
  <2>3. PICK p \in Pages : p = found[v]
    BY <2>2
  <2> QED
    BY <1>1, <2>1, <2>2, <2>3
<1>3. ASSUME NEW v \in Views, stage'[v] = "live", IsOpen(found[v])', v \notin pausing'
      PROVE  orders[v] = << "Fetch.enable", approved[v] >>
  <2>1. stage[v] = "live" /\ found[v] \in Pages
    BY <1>0, <1>3 DEF LiveInv
  <2>2. PICK p \in Pages : p = found[v]
    BY <2>1
  <2>3. IsOpen(p) /\ BrowserOf(p) # b
    BY <1>1, <1>3, <2>2
  <2>4. v \notin pausing
    BY <1>1, <1>3, <2>2, <2>3
  <2> QED
    BY <1>0, <2>1, <2>2, <2>3, <2>4 DEF PausingInv
<1>4. \A d \in Views : page'[d] # Blank => \E v \in pausing' : found[v] = d /\ page'[d] = approved[v]
  BY <1>0, <1>1 DEF PageInv, Pages
<1>5. \A p \in Pages : paused'[p].asked \subseteq {v \in pausing' : found[v] = p}
  BY <1>0, <1>1 DEF PageInv
<1> QED
  BY <1>2, <1>3, <1>4, <1>5 DEF PausingInv, PageInv

LEMMA PreviewInvNext == PreviewInv /\ [PreviewNext]_pvars => PreviewInv'
<1> SUFFICES ASSUME PreviewInv, [PreviewNext]_pvars PROVE PreviewInv'
  OBVIOUS
<1>0. PreviewTypeOK /\ PreviewTypeOK' /\ NoOrphanBrowser /\ ListenerInv /\ LiveInv /\ PausingInv /\ PageInv
  BY PreviewTypeNext DEF PreviewInv
<1> USE <1>0 DEF PreviewTypeOK
<1>1. ASSUME NEW v \in Views, ReservePort(v) PROVE PreviewInv'
  BY <1>1 DEF ReservePort, PreviewInv, NoOrphanBrowser, ListenerInv, LiveInv, PausingInv, PageInv, IsOpen
<1>2. ASSUME NEW v \in Views, StartBrowser(v) PROVE PreviewInv'
  BY <1>2 DEF StartBrowser, PreviewInv, NoOrphanBrowser, ListenerInv, LiveInv, PausingInv, PageInv, IsOpen
<1>3. ASSUME NEW v \in Views, BrowserListens(v) PROVE PreviewInv'
  BY <1>3 DEF BrowserListens, PreviewInv, NoOrphanBrowser, ListenerInv, LiveInv, PausingInv, PageInv, IsOpen
<1>4. ASSUME NEW v \in Views, FindPage(v) PROVE PreviewInv'
  <2>1. NoOrphanBrowser'
    BY <1>4 DEF FindPage, NoOrphanBrowser
  <2>2. ListenerInv'
    BY <1>4 DEF FindPage, ListenerInv
  <2>3. LiveInv'
    <3>1. PICK p \in Pages : BrowserOf(p) = listener[port[v]] /\ found' = [found EXCEPT ![v] = p]
      BY <1>4 DEF FindPage
    <3>2. p \in Views => child[p] = "running"
      <4>1. p \in Views => BrowserOf(p) = p
        BY PreviewAssumption DEF BrowserOf, PreviewAssumption
      <4> QED
        BY <1>4, <3>1, <4>1 DEF FindPage, ListenerInv
    <3> QED
      BY <1>4, <3>1, <3>2 DEF FindPage, LiveInv
  <2>4. PausingInv'
    BY <1>4 DEF FindPage, PausingInv, IsOpen
  <2>5. PageInv'
    <3>1. UNCHANGED << page, paused, pausing, approved >> /\ \A w \in pausing : found'[w] = found[w]
      BY <1>4 DEF FindPage, PausingInv
    <3> HIDE <1>0 DEF PreviewTypeOK
    <3> QED
      BY <1>0, <3>1 DEF PageInv
  <2> QED
    BY <2>1, <2>2, <2>3, <2>4, <2>5 DEF PreviewInv
<1>5. ASSUME NEW v \in Views, CreateFails(v) PROVE PreviewInv'
  <2>1. NoOrphanBrowser'
    BY <1>5, KilledBrowser DEF CreateFails, NoOrphanBrowser
  <2>2. ListenerInv'
    BY <1>5, KilledBrowser DEF CreateFails, ListenerInv
  <2>3. LiveInv'
    BY <1>5, KilledBrowser DEF CreateFails, LiveInv, NoOrphanBrowser
  <2>4. PausingInv'
    BY <1>5, KilledKeeps DEF CreateFails
  <2>5. PageInv'
    BY <1>5, KilledKeeps DEF CreateFails
  <2> QED
    BY <2>1, <2>2, <2>3, <2>4, <2>5 DEF PreviewInv
<1>6. ASSUME NEW v \in Views, BrowserDies(v) PROVE PreviewInv'
  <2>1. NoOrphanBrowser'
    BY <1>6, KilledBrowser DEF BrowserDies, NoOrphanBrowser
  <2>2. ListenerInv'
    BY <1>6, KilledBrowser DEF BrowserDies, ListenerInv
  <2>3. LiveInv'
    BY <1>6, KilledBrowser DEF BrowserDies, LiveInv, NoOrphanBrowser
  <2>4. PausingInv'
    BY <1>6, KilledKeeps DEF BrowserDies
  <2>5. PageInv'
    BY <1>6, KilledKeeps DEF BrowserDies
  <2> QED
    BY <2>1, <2>2, <2>3, <2>4, <2>5 DEF PreviewInv
<1>7. ASSUME NEW v \in Views, TaskEnds(v) PROVE PreviewInv'
  <2>1. NoOrphanBrowser'
    BY <1>7, KilledBrowser DEF TaskEnds, NoOrphanBrowser
  <2>2. ListenerInv'
    BY <1>7, KilledBrowser DEF TaskEnds, ListenerInv
  <2>3. LiveInv'
    BY <1>7, KilledBrowser DEF TaskEnds, LiveInv, NoOrphanBrowser
  <2>4. PausingInv'
    BY <1>7, KilledKeeps DEF TaskEnds
  <2>5. PageInv'
    BY <1>7, KilledKeeps DEF TaskEnds
  <2> QED
    BY <2>1, <2>2, <2>3, <2>4, <2>5 DEF PreviewInv
<1>8. ASSUME NEW v \in Views, NEW origin \in Origins, Navigate(v, origin) PROVE PreviewInv'
  BY <1>8 DEF Navigate, PreviewInv, NoOrphanBrowser, ListenerInv, LiveInv, PausingInv, PageInv, IsOpen
<1>9. ASSUME NEW v \in Views, TakeControl(v) PROVE PreviewInv'
  <2>1. NoOrphanBrowser'
    BY <1>9 DEF TakeControl, NoOrphanBrowser
  <2>2. ListenerInv'
    BY <1>9 DEF TakeControl, ListenerInv
  <2>3. LiveInv'
    BY <1>9 DEF TakeControl, LiveInv
  <2>4. PausingInv'
    <3>1. orders[v] # << "Fetch.enable", approved[v] >>
      BY <1>9 DEF TakeControl
    <3>2. v \in pausing \/ ~IsOpen(found[v])
      BY <1>9, <3>1 DEF TakeControl, PausingInv, IsOpen
    <3> QED
      BY <1>9, <3>2 DEF TakeControl, PausingInv, IsOpen
  <2>5. PageInv'
    BY <1>9 DEF TakeControl, PageInv, PausingInv, IsOpen
  <2> QED
    BY <2>1, <2>2, <2>3, <2>4, <2>5 DEF PreviewInv
<1>10. ASSUME NEW v \in Views, RunOrder(v) PROVE PreviewInv'
  <2>1. NoOrphanBrowser'
    BY <1>10, OrderAsks DEF RunOrder, NoOrphanBrowser
  <2>2. ListenerInv'
    BY <1>10, OrderAsks DEF RunOrder, ListenerInv
  <2>3. LiveInv'
    BY <1>10, OrderAsks DEF RunOrder, LiveInv
  <2>4. PausingInv'
    BY <1>10, OrderAsks DEF RunOrder, PausingInv, LiveInv, IsOpen
  <2>5. PageInv'
    <3>1. /\ pausing \subseteq pausing' /\ page' = page
      BY <1>10, OrderAsks
    <3>2. \A p \in Pages : paused'[p] = paused[p] \/ paused'[p].asked = {w \in pausing : found[w] = p}
      <4> HIDE <1>0 DEF PreviewTypeOK
      <4>1. found[v] \in Pages /\ paused \in [Pages -> [to : Origins \cup {Blank}, asked : SUBSET Views]]
        BY <1>0, <1>10, OrderAsks DEF PreviewTypeOK
      <4>2. CASE paused' = paused
        BY <4>2
      <4>3. CASE paused' # paused
        <5>1. PICK request : /\ request.asked = {w \in pausing : found[w] = found[v]}
                             /\ paused' = [paused EXCEPT ![found[v]] = request]
          BY <1>10, <4>3, OrderAsks
        <5> QED
          BY <4>1, <5>1
      <4> QED
        BY <4>2, <4>3
    <3>3. UNCHANGED << found, approved >>
      BY <1>10 DEF RunOrder
    <3> HIDE <1>0 DEF PreviewTypeOK
    <3> QED
      BY <1>0, <3>1, <3>2, <3>3 DEF PageInv
  <2> QED
    BY <2>1, <2>2, <2>3, <2>4, <2>5 DEF PreviewInv
<1>11. ASSUME NEW p \in Pages, NEW origin \in Origins, FollowLink(p, origin) PROVE PreviewInv'
  <2>1. NoOrphanBrowser'
    BY <1>11, LinkAsks DEF FollowLink, NoOrphanBrowser
  <2>2. ListenerInv'
    BY <1>11, LinkAsks DEF FollowLink, ListenerInv
  <2>3. LiveInv'
    BY <1>11, LinkAsks DEF FollowLink, LiveInv
  <2>4. PausingInv'
    BY <1>11, LinkAsks DEF FollowLink, PausingInv, LiveInv, IsOpen
  <2>5. PageInv'
    <3>1. /\ pausing' = pausing /\ \A b \in Views : page'[b] = page[b]
          /\ \A d \in Pages : paused'[d] = paused[d] \/ paused'[d].asked = {w \in pausing : found[w] = d}
      BY <1>11, LinkAsks
    <3>2. UNCHANGED << found, approved >>
      BY <1>11 DEF FollowLink
    <3> HIDE <1>0 DEF PreviewTypeOK
    <3> QED
      BY <1>0, <3>1, <3>2 DEF PageInv
  <2> QED
    BY <2>1, <2>2, <2>3, <2>4, <2>5 DEF PreviewInv
<1>12. ASSUME NEW v \in Views, DecideRequest(v) PROVE PreviewInv'
  <2>1. NoOrphanBrowser'
    BY <1>12, DecisionApproves DEF DecideRequest, NoOrphanBrowser
  <2>2. ListenerInv'
    BY <1>12, DecisionApproves DEF DecideRequest, ListenerInv
  <2>3. LiveInv'
    BY <1>12, DecisionApproves DEF DecideRequest, LiveInv
  <2>4. PausingInv'
    BY <1>12, DecisionApproves DEF DecideRequest, PausingInv, LiveInv, IsOpen
  <2>5. PageInv'
    <3>1. /\ pausing' = pausing /\ v \in pausing
          /\ \A d \in Pages : paused'[d].asked \subseteq paused[d].asked
      BY <1>12, DecisionApproves
    <3>2. \A d \in Pages : page'[d] = page[d] \/ (d = found[v] /\ page'[d] = approved[v])
      BY <1>12, DecisionApproves
    <3>3. UNCHANGED << found, approved >>
      BY <1>12 DEF DecideRequest
    <3> HIDE <1>0 DEF PreviewTypeOK
    <3> QED
      BY <1>0, <3>1, <3>2, <3>3 DEF PageInv, Pages
  <2> QED
    BY <2>1, <2>2, <2>3, <2>4, <2>5 DEF PreviewInv
<1>13. ASSUME NEW p \in Pages, NEW w \in Windows, NEW origin \in Origins, OpenWindow(p, w, origin)
       PROVE  PreviewInv'
  <2>0. /\ UNCHANGED << stage, child, listener, found, approved, orders, pausing, paused >>
        /\ \A v \in Views : stage[v] = "live" => (IsOpen(found[v])' <=> IsOpen(found[v]))
    BY <1>13, WindowOpens DEF OpenWindow, IsOpen
  <2>1. NoOrphanBrowser'
    BY <2>0 DEF NoOrphanBrowser
  <2>2. ListenerInv'
    BY <1>13, <2>0, WindowOpens DEF ListenerInv
  <2>3. LiveInv'
    BY <2>0 DEF LiveInv
  <2>4. PausingInv'
    BY <2>0 DEF PausingInv
  <2>5. PageInv'
    BY <1>13, <2>0, WindowOpens DEF PageInv
  <2> QED
    BY <2>1, <2>2, <2>3, <2>4, <2>5 DEF PreviewInv
<1>14. ASSUME NEW w \in Windows, CloseWindow(w) PROVE PreviewInv'
  <2>0. /\ UNCHANGED << stage, child, listener, found, approved, orders >>
        /\ \A v \in Views : found[v] # w => (IsOpen(found[v])' <=> IsOpen(found[v]))
        /\ \A v \in Views : found[v] = w => ~IsOpen(found[v])'
    BY <1>14, WindowCloses DEF CloseWindow, IsOpen
  <2>1. NoOrphanBrowser'
    BY <2>0 DEF NoOrphanBrowser
  <2>2. ListenerInv'
    BY <1>14, <2>0, WindowCloses DEF ListenerInv
  <2>3. LiveInv'
    BY <2>0 DEF LiveInv
  <2>4. PausingInv'
    BY <1>14, <2>0, WindowCloses DEF PausingInv
  <2>5. PageInv'
    <3>1. \A b \in Views : b # w
      BY PreviewAssumption DEF PreviewAssumption
    <3>2. /\ pausing' = {v \in pausing : found[v] # w}
          /\ \A b \in Views : page'[b] = page[b]
          /\ paused'[w].asked = {} /\ \A d \in Pages \ {w} : paused'[d] = paused[d]
      BY <1>14, WindowCloses
    <3> HIDE <1>0 DEF PreviewTypeOK
    <3>3. \A b \in Views : page'[b] # Blank => \E v \in pausing' : found[v] = b /\ page'[b] = approved[v]
      BY <1>0, <3>1, <3>2 DEF PageInv
    <3>4. ASSUME NEW d \in Pages PROVE paused'[d].asked \subseteq {v \in pausing' : found[v] = d}
      BY <1>0, <3>2 DEF PageInv
    <3> QED
      BY <2>0, <3>3, <3>4 DEF PageInv
  <2> QED
    BY <2>1, <2>2, <2>3, <2>4, <2>5 DEF PreviewInv
<1>15. CASE UNCHANGED pvars
  BY <1>15 DEF pvars, PreviewInv, NoOrphanBrowser, ListenerInv, LiveInv, PausingInv, PageInv, IsOpen
<1> QED
  BY <1>1, <1>2, <1>3, <1>4, <1>5, <1>6, <1>7, <1>8, <1>9, <1>10, <1>11, <1>12, <1>13, <1>14, <1>15
     DEF PreviewNext

THEOREM PreviewInvariance == PreviewSpec => []PreviewInv
  BY PreviewInvInit, PreviewInvNext, PTL DEF PreviewSpec

(* No browser runs on without a creation or a task that will kill it        *)
(* (kill_on_drop, and the end of the task).                                 *)
THEOREM NoOrphanBrowserHolds == PreviewSpec => []NoOrphanBrowser
<1>1. PreviewInv => NoOrphanBrowser
  BY DEF PreviewInv
<1> QED
  BY <1>1, PreviewInvariance, PTL

(* The page a browser starts with shows origins that were approved for a    *)
(* preview that talks to it, also when two previews have found one browser; *)
(* nothing is said of windows (the interception in preview.rs).             *)
THEOREM PageStaysApprovedHolds == PreviewSpec => []PageStaysApproved
<1>1. PreviewInv => PageStaysApproved
  BY DEF PreviewInv, PreviewTypeOK, PausingInv, PageInv, PageStaysApproved, Clients
<1> QED
  BY <1>1, PreviewInvariance, PTL

-----------------------------------------------------------------------------
(* Terminals                                                                *)

LEMMA TerminalInvInit == TerminalInit => TerminalInv
  BY TerminalAssumption
     DEF TerminalInit, TerminalInv, TerminalTypeOK, WriterInv, FrameInv, FramesArriveWhole,
         TabShowsOnePiece, TerminalAssumption

LEMMA TerminalTypeNext == TerminalInv /\ [TerminalNext]_tvars => TerminalTypeOK'
<1> SUFFICES ASSUME TerminalInv, [TerminalNext]_tvars PROVE TerminalTypeOK'
  OBVIOUS
<1>0. TerminalTypeOK /\ WriterInv /\ FrameUnits \in Nat \ {0}
  BY TerminalAssumption DEF TerminalInv, TerminalAssumption
<1> USE <1>0 DEF TerminalTypeOK, WriterInv, pty
<1>1. ASSUME NEW t \in Shells, CreateTerminal(t) PROVE TerminalTypeOK'
  BY <1>1 DEF CreateTerminal
<1>2. ASSUME NEW t \in Shells, CopyOutput(t) PROVE TerminalTypeOK'
  BY <1>2 DEF CopyOutput
<1>3. ASSUME NEW t \in Shells, ShellReads(t) PROVE TerminalTypeOK'
  <2>1. taken[t] + 1 \in Nat
    OBVIOUS
  <2> QED
    BY <1>3, <2>1 DEF ShellReads
<1>4. ASSUME NEW t \in Shells, ShellPrints(t) PROVE TerminalTypeOK'
  BY <1>4 DEF ShellPrints
<1>5. ASSUME NEW t \in Shells, ShellExits(t) PROVE TerminalTypeOK'
  BY <1>5 DEF ShellExits
<1>6. ASSUME NEW t \in Shells, NEW s \in Sockets, AttachTerminal(s, t) PROVE TerminalTypeOK'
  BY <1>6 DEF AttachTerminal
<1>7. ASSUME NEW s \in Sockets, ReceiveInput(s) PROVE TerminalTypeOK'
  BY <1>7 DEF ReceiveInput
<1>8. ASSUME NEW s \in Sockets, LockWriter(s) PROVE TerminalTypeOK'
  BY <1>8 DEF LockWriter
<1>9. ASSUME NEW s \in Sockets, WriteUnit(s) PROVE TerminalTypeOK'
  <2>1. typed' \in [Shells -> Seq(Sockets \X Nat)]
    <3>1. << s, frames[s] >> \in Sockets \X Nat /\ on[s] \in Shells
      BY <1>9 DEF WriteUnit
    <3>2. typed' = [typed EXCEPT ![on[s]] = Append(typed[on[s]], << s, frames[s] >>)]
      BY <1>9 DEF WriteUnit
    <3> QED
      BY <3>1, <3>2
  <2>2. left' \in [Sockets -> 0..FrameUnits]
    <3>1. left[s] \in 1..FrameUnits
      BY <1>9 DEF WriteUnit
    <3>2. left[s] - 1 \in 0..FrameUnits
      BY <3>1
    <3> QED
      BY <1>9, <3>2 DEF WriteUnit
  <2>3. /\ task' \in [Sockets -> {"off", "idle", "queued", "writing", "closed"}]
        /\ writer' \in [Shells -> Sockets \cup {Nobody}]
        /\ \A r \in Sockets : task'[r] # "off" => on[r] \in Shells
    BY <1>9 DEF WriteUnit
  <2> QED
    BY <1>9, <2>1, <2>2, <2>3 DEF WriteUnit
<1>10. ASSUME NEW s \in Sockets, WriteFails(s) PROVE TerminalTypeOK'
  BY <1>10 DEF WriteFails
<1>11. ASSUME NEW s \in Sockets, LeaveTerminal(s) PROVE TerminalTypeOK'
  BY <1>11 DEF LeaveTerminal
<1>12. ASSUME NEW s \in Sockets, Forward(s) PROVE TerminalTypeOK'
  <2>1. from[s] + Len(shown[s]) \in Nat
    OBVIOUS
  <2>2. Append(shown[s], from[s] + Len(shown[s])) \in Seq(Nat)
    BY <2>1
  <2>3. shown' \in [Sockets -> Seq(Nat)]
    BY <1>12, <2>2 DEF Forward
  <2> QED
    BY <1>12, <2>3 DEF Forward
<1>13. CASE UNCHANGED tvars
  BY <1>13 DEF tvars
<1> QED
  BY <1>1, <1>2, <1>3, <1>4, <1>5, <1>6, <1>7, <1>8, <1>9, <1>10, <1>11, <1>12, <1>13
     DEF TerminalNext

(* What is typed changes only by a unit of the frame that is written. *)
LEMMA TypedKeeps ==
  ASSUME TerminalInv, UNCHANGED << typed, frames >>,
         \A s \in Sockets : task[s] # "off" => task'[s] # "off" /\ on'[s] = on[s],
         \A s \in Sockets : task'[s] \in {"queued", "writing"} => task[s] \in {"queued", "writing"},
         \A s \in Sockets : task'[s] = "queued" => task[s] = "queued"
  PROVE  FrameInv' /\ FramesArriveWhole'
<1>0. TerminalTypeOK /\ FrameInv /\ FramesArriveWhole
  BY DEF TerminalInv
<1>1. ASSUME NEW s \in Sockets, NEW t \in Shells, NEW i \in DOMAIN typed[t], typed[t][i][1] = s
      PROVE  /\ task'[s] # "off" /\ on'[s] = t
             /\ typed[t][i][2] <= frames[s]
             /\ task'[s] = "queued" => typed[t][i][2] < frames[s]
             /\ task'[s] = "writing" /\ typed[t][i][2] = frames[s]
                  => \A j \in DOMAIN typed[t] : i <= j => typed[t][j] = typed[t][i]
  <2>1. typed[t][i][2] \in Nat /\ frames[s] \in Nat
    BY <1>0 DEF TerminalTypeOK
  <2> QED
    BY <1>0, <1>1, <2>1 DEF FrameInv
<1> QED
  BY <1>0, <1>1 DEF FrameInv, FramesArriveWhole

LEMMA WriterNext == TerminalInv /\ [TerminalNext]_tvars => WriterInv'
<1> SUFFICES ASSUME TerminalInv, [TerminalNext]_tvars PROVE WriterInv'
  OBVIOUS
<1>0. TerminalTypeOK /\ WriterInv /\ FrameUnits \in Nat \ {0} /\ Nobody \notin Sockets
  BY TerminalAssumption DEF TerminalInv, TerminalAssumption
<1> USE <1>0 DEF TerminalTypeOK, WriterInv, pty
<1>1. ASSUME NEW t \in Shells,
             CreateTerminal(t) \/ CopyOutput(t) \/ ShellReads(t) \/ ShellPrints(t) \/ ShellExits(t)
      PROVE  WriterInv'
  BY <1>1 DEF CreateTerminal, CopyOutput, ShellReads, ShellPrints, ShellExits
<1>6. ASSUME NEW t \in Shells, NEW s \in Sockets, AttachTerminal(s, t) PROVE WriterInv'
  BY <1>6 DEF AttachTerminal
<1>7. ASSUME NEW s \in Sockets, ReceiveInput(s) PROVE WriterInv'
  BY <1>7 DEF ReceiveInput
<1>8. ASSUME NEW s \in Sockets, LockWriter(s) PROVE WriterInv'
  BY <1>8 DEF LockWriter
<1>9. ASSUME NEW s \in Sockets, WriteUnit(s) PROVE WriterInv'
  BY <1>9 DEF WriteUnit
<1>10. ASSUME NEW s \in Sockets, WriteFails(s) PROVE WriterInv'
  BY <1>10 DEF WriteFails
<1>11. ASSUME NEW s \in Sockets, LeaveTerminal(s) PROVE WriterInv'
  BY <1>11 DEF LeaveTerminal
<1>12. ASSUME NEW s \in Sockets, Forward(s) PROVE WriterInv'
  BY <1>12 DEF Forward
<1>13. CASE UNCHANGED tvars
  BY <1>13 DEF tvars
<1> QED
  BY <1>1, <1>6, <1>7, <1>8, <1>9, <1>10, <1>11, <1>12, <1>13 DEF TerminalNext

(* A unit that is written belongs to the frame of the one socket that holds *)
(* the writer.                                                              *)
LEMMA UnitWritten ==
  ASSUME TerminalInv, NEW s \in Sockets, WriteUnit(s)
  PROVE  FrameInv' /\ FramesArriveWhole'
<1>0. TerminalTypeOK /\ TerminalTypeOK' /\ WriterInv /\ FrameInv /\ FramesArriveWhole
  BY TerminalTypeNext DEF TerminalInv, TerminalNext
<1> DEFINE h == on[s]
           u == << s, frames[s] >>
           n == Len(typed[h]) + 1
<1>1. /\ h \in Shells /\ task[s] = "writing" /\ writer[h] = s
      /\ task'[s] \in {"writing", "idle"} /\ \A r \in Sockets \ {s} : task'[r] = task[r]
      /\ UNCHANGED << on, frames >>
  BY <1>0 DEF WriteUnit, TerminalTypeOK, WriterInv
<1>2. typed' = [typed EXCEPT ![h] = Append(typed[h], u)]
  BY DEF WriteUnit
<1>3. /\ typed[h] \in Seq(Sockets \X Nat) /\ u \in Sockets \X Nat
      /\ typed \in [Shells -> Seq(Sockets \X Nat)] /\ frames \in [Sockets -> Nat]
  BY <1>0, <1>1 DEF TerminalTypeOK
<1>4. /\ n \in Nat \ {0} /\ DOMAIN typed[h] = 1..(n - 1) /\ DOMAIN typed'[h] = 1..n
      /\ typed'[h][n] = u /\ \A i \in 1..(n - 1) : typed'[h][i] = typed[h][i]
  BY <1>1, <1>2, <1>3
<1>5. \A t \in Shells \ {h} : typed'[t] = typed[t]
  BY <1>2, <1>3
<1>6. u[1] = s /\ u[2] = frames[s] /\ frames[s] \in Nat
  BY <1>3
<1> HIDE DEF h, u, n
<1>7. ASSUME NEW i \in 1..(n - 1), typed[h][i][1] = s, typed[h][i][2] = frames[s]
      PROVE  typed[h][i] = u /\ \A j \in 1..(n - 1) : i <= j => typed[h][j] = u
  <2>1. typed[h][i] \in Sockets \X Nat
    BY <1>3, <1>4
  <2>2. typed[h][i] = u
    BY <1>7, <2>1 DEF u
  <2> QED
    BY <1>0, <1>1, <1>4, <1>7, <2>2 DEF FrameInv
<1>8. ASSUME NEW r \in Sockets, NEW t \in Shells, NEW i \in DOMAIN typed'[t], typed'[t][i][1] = r
      PROVE  /\ task'[r] # "off" /\ on'[r] = t
             /\ typed'[t][i][2] <= frames'[r]
             /\ task'[r] = "queued" => typed'[t][i][2] < frames'[r]
             /\ task'[r] = "writing" /\ typed'[t][i][2] = frames'[r]
                  => \A j \in DOMAIN typed'[t] : i <= j => typed'[t][j] = typed'[t][i]
  <2>1. CASE t # h
    <3>1. i \in DOMAIN typed[t] /\ typed'[t] = typed[t]
      BY <1>5, <1>8, <2>1
    <3>2. r # s
      BY <1>0, <1>8, <2>1, <3>1 DEF FrameInv, h
    <3> QED
      BY <1>0, <1>1, <1>8, <3>1, <3>2 DEF FrameInv
  <2>2. CASE t = h /\ i # n /\ r # s
    <3>1. i \in 1..(n - 1) /\ typed'[h][i] = typed[h][i]
      BY <1>4, <1>8, <2>2
    <3>2. task[r] # "off" /\ on[r] = h /\ task'[r] = task[r]
      BY <1>0, <1>1, <1>4, <1>8, <2>2, <3>1 DEF FrameInv
    <3>3. task[r] # "writing"
      BY <1>0, <1>1, <2>2, <3>2 DEF WriterInv
    <3> QED
      BY <1>0, <1>1, <1>4, <1>8, <2>2, <3>1, <3>2, <3>3 DEF FrameInv
  <2>3. CASE t = h /\ i # n /\ r = s
    <3>1. i \in 1..(n - 1) /\ typed'[h][i] = typed[h][i]
      BY <1>4, <1>8, <2>3
    <3>2. on[s] = h /\ typed[h][i][2] <= frames[s]
      BY <1>0, <1>1, <1>4, <1>8, <2>3, <3>1 DEF FrameInv
    <3>3. ASSUME typed[h][i][2] = frames[s], NEW j \in 1..n, i <= j PROVE typed'[h][j] = typed'[h][i]
      <4>1. j = n \/ j \in 1..(n - 1)
        BY <1>4
      <4> QED
        BY <1>4, <1>7, <1>8, <2>3, <3>1, <3>3, <4>1
    <3> QED
      BY <1>1, <1>4, <2>3, <3>1, <3>2, <3>3
  <2>4. CASE t = h /\ i = n
    <3>1. r = s /\ typed'[h][i][2] = frames[s]
      BY <1>4, <1>6, <1>8, <2>4
    <3>2. \A j \in 1..n : n <= j => j = n
      BY <1>4
    <3> QED
      BY <1>1, <1>4, <1>6, <2>4, <3>1, <3>2 DEF h
  <2> QED
    BY <2>1, <2>2, <2>3, <2>4
<1>9. ASSUME NEW t \in Shells, NEW i \in DOMAIN typed'[t], NEW j \in DOMAIN typed'[t],
             NEW k \in DOMAIN typed'[t], i < j, j < k, typed'[t][i] = typed'[t][k]
      PROVE  typed'[t][j] = typed'[t][i]
  <2>1. CASE t # h
    BY <1>0, <1>5, <1>9, <2>1 DEF FramesArriveWhole
  <2>2. CASE t = h
    <3>1. i \in 1..(n - 1) /\ j \in 1..(n - 1) /\ (k = n \/ k \in 1..(n - 1))
      BY <1>4, <1>9, <2>2
    <3>2. CASE k = n
      <4>1. typed[h][i] = u
        BY <1>4, <1>9, <2>2, <3>1, <3>2
      <4> QED
        BY <1>4, <1>6, <1>7, <1>9, <2>2, <3>1, <4>1
    <3>3. CASE k \in 1..(n - 1)
      BY <1>0, <1>1, <1>4, <1>9, <2>2, <3>1, <3>3 DEF FramesArriveWhole
    <3> QED
      BY <3>1, <3>2, <3>3
  <2> QED
    BY <2>1, <2>2
<1> QED
  BY <1>8, <1>9 DEF FrameInv, FramesArriveWhole

LEMMA TerminalInvNext == TerminalInv /\ [TerminalNext]_tvars => TerminalInv'
<1> SUFFICES ASSUME TerminalInv, [TerminalNext]_tvars PROVE TerminalInv'
  OBVIOUS
<1>0. TerminalTypeOK /\ TerminalTypeOK' /\ WriterInv' /\ FrameInv /\ FramesArriveWhole /\ TabShowsOnePiece
  BY TerminalTypeNext, WriterNext DEF TerminalInv
<1>1. FrameInv' /\ FramesArriveWhole'
  <2>1. ASSUME NEW t \in Shells,
               CreateTerminal(t) \/ CopyOutput(t) \/ ShellReads(t) \/ ShellPrints(t) \/ ShellExits(t)
        PROVE  FrameInv' /\ FramesArriveWhole'
    <3>1. UNCHANGED << typed, frames, task, on >>
      BY <2>1 DEF CreateTerminal, CopyOutput, ShellReads, ShellPrints, ShellExits
    <3> QED
      BY <3>1, TypedKeeps
  <2>2. ASSUME NEW t \in Shells, NEW s \in Sockets, AttachTerminal(s, t)
        PROVE  FrameInv' /\ FramesArriveWhole'
    <3>1. /\ UNCHANGED << typed, frames >> /\ task[s] = "off" /\ task'[s] = "idle"
          /\ \A r \in Sockets \ {s} : task'[r] = task[r] /\ on'[r] = on[r]
      BY <1>0, <2>2 DEF AttachTerminal, pty, TerminalTypeOK
    <3> QED
      BY <3>1, TypedKeeps
  <2>3. ASSUME NEW s \in Sockets, ReceiveInput(s) PROVE FrameInv' /\ FramesArriveWhole'
    <3>1. /\ UNCHANGED << typed, on >> /\ task[s] = "idle" /\ task'[s] = "queued"
          /\ frames'[s] = frames[s] + 1
          /\ \A r \in Sockets \ {s} : task'[r] = task[r] /\ frames'[r] = frames[r]
      BY <1>0, <2>3 DEF ReceiveInput, pty, TerminalTypeOK
    <3>2. ASSUME NEW r \in Sockets, NEW t \in Shells, NEW i \in DOMAIN typed[t], typed[t][i][1] = r
          PROVE  /\ task'[r] # "off" /\ on[r] = t
                 /\ typed[t][i][2] <= frames'[r]
                 /\ task'[r] = "queued" => typed[t][i][2] < frames'[r]
                 /\ task'[r] = "writing" /\ typed[t][i][2] = frames'[r]
                      => \A j \in DOMAIN typed[t] : i <= j => typed[t][j] = typed[t][i]
      <4>1. typed[t][i][2] \in Nat /\ frames[r] \in Nat
        <5>1. typed[t] \in Seq(Sockets \X Nat) /\ frames[r] \in Nat
          BY <1>0 DEF TerminalTypeOK
        <5> QED
          BY <3>2, <5>1
      <4>2. on[r] = t /\ task[r] # "off" /\ typed[t][i][2] <= frames[r]
        BY <1>0, <3>2 DEF FrameInv
      <4>3. CASE r = s
        BY <3>1, <4>1, <4>2, <4>3
      <4>4. CASE r # s
        BY <1>0, <3>1, <3>2, <4>4 DEF FrameInv
      <4> QED
        BY <4>3, <4>4
    <3> QED
      BY <1>0, <3>1, <3>2 DEF FrameInv, FramesArriveWhole
  <2>4. ASSUME NEW s \in Sockets, LockWriter(s) \/ WriteFails(s) \/ LeaveTerminal(s) \/ Forward(s)
        PROVE  FrameInv' /\ FramesArriveWhole'
    <3>1. /\ UNCHANGED << typed, frames, on >> /\ \A r \in Sockets \ {s} : task'[r] = task[r]
          /\ task[s] # "off" /\ task'[s] \notin {"off", "queued"}
          /\ task'[s] = "writing" => task[s] = "queued"
      BY <1>0, <2>4 DEF LockWriter, WriteFails, LeaveTerminal, Forward, pty, TerminalTypeOK
    <3> QED
      BY <3>1, TypedKeeps
  <2>5. CASE UNCHANGED tvars
    BY <2>5, TypedKeeps DEF tvars
  <2> QED
    BY <2>1, <2>2, <2>3, <2>4, <2>5, UnitWritten DEF TerminalNext
<1>2. TabShowsOnePiece'
  <2>1. ASSUME NEW s \in Sockets, Forward(s) PROVE TabShowsOnePiece'
    <3>1. /\ from' = from /\ \A r \in Sockets \ {s} : shown'[r] = shown[r]
          /\ shown'[s] \in {shown[s], Append(shown[s], from[s] + Len(shown[s]))}
      BY <1>0, <2>1 DEF Forward, TerminalTypeOK
    <3>2. shown[s] \in Seq(Nat) /\ from[s] \in Nat
      BY <1>0 DEF TerminalTypeOK
    <3>3. ASSUME NEW i \in DOMAIN shown'[s] PROVE shown'[s][i] = from[s] + i - 1
      <4>1. CASE shown'[s] = shown[s]
        BY <1>0, <4>1 DEF TabShowsOnePiece
      <4>2. CASE shown'[s] = Append(shown[s], from[s] + Len(shown[s]))
        <5>1. i = Len(shown[s]) + 1 \/ (i \in DOMAIN shown[s] /\ shown'[s][i] = shown[s][i])
          BY <3>2, <4>2
        <5>2. CASE i = Len(shown[s]) + 1
          BY <3>2, <4>2, <5>2
        <5>3. CASE i \in DOMAIN shown[s] /\ shown'[s][i] = shown[s][i]
          BY <1>0, <5>3 DEF TabShowsOnePiece
        <5> QED
          BY <5>1, <5>2, <5>3
      <4> QED
        BY <3>1, <4>1, <4>2
    <3> QED
      BY <1>0, <3>1, <3>3 DEF TabShowsOnePiece
  <2>2. ASSUME NEW t \in Shells, NEW s \in Sockets, AttachTerminal(s, t) PROVE TabShowsOnePiece'
    <3>1. /\ shown' = shown /\ shown[s] = << >>
          /\ \A r \in Sockets \ {s} : from'[r] = from[r]
      BY <1>0, <2>2 DEF AttachTerminal, TerminalTypeOK
    <3> QED
      BY <1>0, <3>1 DEF TabShowsOnePiece
  <2>3. ASSUME UNCHANGED << from, shown >> PROVE TabShowsOnePiece'
    BY <1>0, <2>3 DEF TabShowsOnePiece
  <2> QED
    BY <2>1, <2>2, <2>3
       DEF TerminalNext, tvars, CreateTerminal, CopyOutput, ShellReads, ShellPrints, ShellExits,
           ReceiveInput, LockWriter, WriteUnit, WriteFails, LeaveTerminal
<1> QED
  BY <1>0, <1>1, <1>2 DEF TerminalInv

THEOREM TerminalInvariance == TerminalSpec => []TerminalInv
  BY TerminalInvInit, TerminalInvNext, PTL DEF TerminalSpec

(* What sockets type into one terminal arrives frame by frame (the writer   *)
(* lock in terminal.rs).                                                    *)
THEOREM FramesArriveWholeHolds == TerminalSpec => []FramesArriveWhole
<1>1. TerminalInv => FramesArriveWhole
  BY DEF TerminalInv
<1> QED
  BY <1>1, TerminalInvariance, PTL

(* A tab shows one unbroken piece of the output (the Lagged arm of          *)
(* terminal_websocket).                                                     *)
THEOREM TabShowsOnePieceHolds == TerminalSpec => []TabShowsOnePiece
<1>1. TerminalInv => TabShowsOnePiece
  BY DEF TerminalInv
<1> QED
  BY <1>1, TerminalInvariance, PTL

================================================================================
