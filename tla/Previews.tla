-------------------------------- MODULE Previews --------------------------------
(***************************************************************************)
(* The previews of the workbench: PreviewManager and the task of a preview  *)
(* (preview.rs), its handlers (local_server.rs) and panel                   *)
(* (preview-panel.tsx).  Frames, clicks and text are left out.              *)
(*                                                                          *)
(* A preview v starts one browser, also called v.  The port of its DevTools *)
(* is found, given up and used, so v may find the browser of another        *)
(* preview there.  A browser starts with one page, also called v, and opens *)
(* more of them, windows, when a page asks for them; a preview talks to one *)
(* page.  It runs the orders of a preview one after another, and before it  *)
(* loads anything into a page it asks every preview that has enabled Fetch  *)
(* there.  Nobody attaches to a window when it opens, so what it loads is   *)
(* not asked about.  Frames inside a page are left out.                     *)
(***************************************************************************)
EXTENDS Naturals, Sequences, FiniteSets

CONSTANTS
  Views,        \* preview ids
  NoView,       \* nobody
  Windows,      \* windows and tabs that pages open
  Ports,        \* loopback ports
  Origins,      \* origins
  Blank,        \* the page a browser starts with
  ControlRoom   \* what the channel of controls holds

ASSUME PreviewAssumption ==
  /\ NoView \notin Views \cup Windows /\ Views \cap Windows = {}
  /\ Blank \notin Origins /\ ControlRoom \in Nat \ {0}

VARIABLES
  previewGranted,  \* --grant-preview
  stage,     \* stage[v]: new, reserved, starting, live, failed, ended
  approved,  \* approved[v]: the origin of the address it was created with
  port,      \* port[v]: the port it found
  child,     \* child[v]: none, running, dead
  listener,  \* listener[p]: the browser that has the port
  opener,    \* opener[w]: the browser window w is open in
  found,     \* found[v]: the page v talks to
  controls,  \* controls[v]: navigations the task has not taken
  orders,    \* orders[v]: what the task has sent to the browser
  pausing,   \* previews whose Fetch.enable is in force
  page,      \* page[p]: the origin that page p shows
  paused     \* paused[p]: a request that waits: [to, asked]; asked = {} for none

pvars == << previewGranted, stage, approved, port, child, listener, opener, found,
            controls, orders, pausing, page, paused >>

Pages == Views \cup Windows
BrowserOf(p) == IF p \in Windows THEN opener[p] ELSE p
IsOpen(p) == IF p \in Windows THEN opener[p] # NoView ELSE child[p] = "running"
NoRequest == [to |-> Blank, asked |-> {}]

PreviewInit ==
  /\ previewGranted \in BOOLEAN
  /\ stage = [v \in Views |-> "new"]
  /\ approved \in [Views -> Origins]
  /\ port \in [Views -> Ports]
  /\ child = [v \in Views |-> "none"]
  /\ listener = [p \in Ports |-> NoView]
  /\ opener = [w \in Windows |-> NoView]
  /\ found = [v \in Views |-> NoView]
  /\ controls = [v \in Views |-> << >>] /\ orders = [v \in Views |-> << >>]
  /\ pausing = {}
  /\ page = [p \in Pages |-> Blank]
  /\ paused = [p \in Pages |-> NoRequest]

Clients(p) == {v \in Views : found[v] = p /\ stage[v] = "live"}

-----------------------------------------------------------------------------
(* create; an address that is not plain loopback HTTP, or a size out of     *)
(* bounds, creates nothing.                                                 *)

(* reserve_loopback_port: a port nobody has; it is given up at once. *)
ReservePort(v) ==
  /\ previewGranted /\ stage[v] = "new"
  /\ listener[port[v]] = NoView
  /\ stage' = [stage EXCEPT ![v] = "reserved"]
  /\ UNCHANGED << previewGranted, approved, port, child, listener, opener, found, controls, orders, pausing, page, paused >>

StartBrowser(v) ==
  /\ stage[v] = "reserved"
  /\ stage' = [stage EXCEPT ![v] = "starting"]
  /\ child' = [child EXCEPT ![v] = "running"]
  /\ UNCHANGED << previewGranted, approved, port, listener, opener, found, controls, orders, pausing, page, paused >>

(* The browser takes the port, unless another one has it. *)
BrowserListens(v) ==
  /\ child[v] = "running" /\ listener[port[v]] = NoView
  /\ listener' = [listener EXCEPT ![port[v]] = v]
  /\ UNCHANGED << previewGranted, stage, approved, port, child, opener, found, controls, orders, pausing, page, paused >>

(* Variant: the page is opened before its requests are intercepted. *)
FindPage_OpensFirst(v) ==
  /\ stage[v] = "starting" /\ listener[port[v]] # NoView
  /\ stage' = [stage EXCEPT ![v] = "live"]
  /\ \E p \in Pages : BrowserOf(p) = listener[port[v]] /\ found' = [found EXCEPT ![v] = p]
  /\ orders' = [orders EXCEPT ![v] = << approved[v], "Fetch.enable" >>]
  /\ UNCHANGED << previewGranted, approved, port, child, listener, opener, controls, pausing, page, paused >>

(* wait_for_page: whoever has the port answers, and v attaches to the first *)
(* page it lists, which may be a window.  Requests of that page are         *)
(* intercepted, then the approved address is opened in it.                  *)
FindPage(v) ==
  /\ stage[v] = "starting" /\ listener[port[v]] # NoView
  /\ stage' = [stage EXCEPT ![v] = "live"]
  /\ \E p \in Pages : BrowserOf(p) = listener[port[v]] /\ found' = [found EXCEPT ![v] = p]
  /\ orders' = [orders EXCEPT ![v] = << "Fetch.enable", approved[v] >>]
  /\ UNCHANGED << previewGranted, approved, port, child, listener, opener, controls, pausing, page, paused >>

(* A browser ends: its port is free, and its pages and requests are gone.   *)
Killed(b) ==
  /\ child' = [child EXCEPT ![b] = IF @ = "running" THEN "dead" ELSE @]
  /\ listener' = [p \in Ports |-> IF listener[p] = b THEN NoView ELSE listener[p]]
  /\ opener' = [w \in Windows |-> IF opener[w] = b THEN NoView ELSE opener[w]]
  /\ pausing' = {v \in pausing : BrowserOf(found[v]) # b}
  /\ page' = [p \in Pages |-> IF BrowserOf(p) = b THEN Blank ELSE page[p]]
  /\ paused' = [p \in Pages |-> IF BrowserOf(p) = b THEN NoRequest ELSE paused[p]]

(* Variant: the browser is let go of and runs on. *)
CreateFails_LeavesBrowser(v) ==
  /\ stage[v] \in {"reserved", "starting"}
  /\ stage' = [stage EXCEPT ![v] = "failed"]
  /\ UNCHANGED << child, listener, opener, pausing, page, paused >>
  /\ UNCHANGED << previewGranted, approved, port, found, controls, orders >>

(* It does not start, fifty polls find no page, or DevTools does not take   *)
(* the socket or an order: the browser is killed, or dropped and killed.    *)
CreateFails(v) ==
  /\ stage[v] \in {"reserved", "starting"}
  /\ stage' = [stage EXCEPT ![v] = "failed"]
  /\ Killed(v)
  /\ UNCHANGED << previewGranted, approved, port, found, controls, orders >>

-----------------------------------------------------------------------------
(* Controls *)

(* control: the preview is known, the address is of its origin, and the     *)
(* channel has room.                                                        *)
Navigate(v, origin) ==
  /\ stage[v] = "live"
  /\ origin = approved[v]
  /\ Len(controls[v]) < ControlRoom
  /\ controls' = [controls EXCEPT ![v] = Append(@, origin)]
  /\ UNCHANGED << previewGranted, stage, approved, port, child, listener, opener, found, orders, pausing, page, paused >>

TakeControl(v) ==
  /\ stage[v] = "live" /\ controls[v] # << >> /\ orders[v] = << >>
  /\ orders' = [orders EXCEPT ![v] = << Head(controls[v]) >>]
  /\ controls' = [controls EXCEPT ![v] = Tail(@)]
  /\ UNCHANGED << previewGranted, stage, approved, port, child, listener, opener, found, pausing, page, paused >>

-----------------------------------------------------------------------------
(* The browser *)

(* Another origin is asked for; a later request of the page replaces it. *)
Load(p, origin) ==
  LET asked == {v \in pausing : found[v] = p} IN
    IF asked = {} THEN page' = [page EXCEPT ![p] = origin] /\ UNCHANGED paused
    ELSE paused' = [paused EXCEPT ![p] = [to |-> origin, asked |-> asked]] /\ UNCHANGED page

RunOrder(v) ==
  /\ stage[v] = "live" /\ IsOpen(found[v]) /\ orders[v] # << >>
  /\ IF Head(orders[v]) = "Fetch.enable"
     THEN pausing' = pausing \cup {v} /\ UNCHANGED << page, paused >>
     ELSE Load(found[v], Head(orders[v])) /\ UNCHANGED pausing
  /\ orders' = [orders EXCEPT ![v] = Tail(@)]
  /\ UNCHANGED << previewGranted, stage, approved, port, child, listener, opener, found, controls >>

(* A link, a redirect or a script leads a page anywhere, in that page. *)
FollowLink(p, origin) ==
  /\ IsOpen(p) /\ page[p] # Blank
  /\ Load(p, origin)
  /\ UNCHANGED << previewGranted, stage, approved, port, child, listener, opener, found, controls, orders, pausing >>

(* A link with target=_blank, or window.open: a new page with any origin,   *)
(* which no preview is asked about.                                         *)
OpenWindow(p, w, origin) ==
  /\ IsOpen(p) /\ page[p] # Blank
  /\ opener[w] = NoView /\ Clients(w) = {}
  /\ opener' = [opener EXCEPT ![w] = BrowserOf(p)]
  /\ page' = [page EXCEPT ![w] = origin]
  /\ UNCHANGED << previewGranted, stage, approved, port, child, listener, found, controls, orders, pausing, paused >>

CloseWindow(w) ==
  /\ opener[w] # NoView
  /\ opener' = [opener EXCEPT ![w] = NoView]
  /\ pausing' = {v \in pausing : found[v] # w}
  /\ page' = [page EXCEPT ![w] = Blank]
  /\ paused' = [paused EXCEPT ![w] = NoRequest]
  /\ UNCHANGED << previewGranted, stage, approved, port, child, listener, found, controls, orders >>

(* Fetch.requestPaused: the task lets its own origin through and fails      *)
(* every other one.                                                         *)
DecideRequest(v) ==
  /\ stage[v] = "live"
  /\ LET p == found[v]
         request == paused[p]
         others == request.asked \ {v}
     IN /\ v \in request.asked
        /\ IF request.to # approved[v]
           THEN paused' = [paused EXCEPT ![p] = NoRequest] /\ UNCHANGED page
           ELSE /\ paused' = [paused EXCEPT ![p] = IF others = {} THEN NoRequest
                                                     ELSE [request EXCEPT !.asked = others]]
                /\ page' = IF others = {} THEN [page EXCEPT ![p] = request.to] ELSE page
  /\ UNCHANGED << previewGranted, stage, approved, port, child, listener, opener, found, controls, orders, pausing >>

BrowserDies(b) ==
  /\ child[b] = "running"
  /\ Killed(b)
  /\ UNCHANGED << previewGranted, stage, approved, port, found, controls, orders >>

(* The socket to the page ends with it: the task ends and kills its own     *)
(* browser.  The entry of the preview stays.                                *)
TaskEnds(v) ==
  /\ stage[v] = "live" /\ ~IsOpen(found[v])
  /\ stage' = [stage EXCEPT ![v] = "ended"]
  /\ Killed(v)
  /\ UNCHANGED << previewGranted, approved, port, found, controls, orders >>

-----------------------------------------------------------------------------
PreviewNext ==
  \/ \E v \in Views :
       \/ ReservePort(v) \/ StartBrowser(v) \/ BrowserListens(v) \/ FindPage(v) \/ CreateFails(v)
       \/ TakeControl(v) \/ RunOrder(v) \/ DecideRequest(v) \/ BrowserDies(v) \/ TaskEnds(v)
  \/ \E v \in Views, origin \in Origins : Navigate(v, origin)
  \/ \E p \in Pages, origin \in Origins : FollowLink(p, origin)
  \/ \E p \in Pages, w \in Windows, origin \in Origins : OpenWindow(p, w, origin)
  \/ \E w \in Windows : CloseWindow(w)

PreviewSpec == PreviewInit /\ [][PreviewNext]_pvars

-----------------------------------------------------------------------------
(* Properties                                                               *)

(* The page a browser starts with, the one its preview shows and sends      *)
(* input to (launch_browser), shows only an origin approved for a preview   *)
(* that talks to it, wherever controls, links and redirects lead that page, *)
(* and whichever preview found which browser.  Windows are the exception:   *)
(* preview.rs says that previews are "restricted to an approved loopback    *)
(* origin", and what a page opens in a window is not, nor what a preview    *)
(* that finds such a window shows at first.                                 *)
PageStaysApproved ==
  \A b \in Views : page[b] \in {Blank} \cup {approved[v] : v \in Clients(b)}

(* No browser runs on without a creation under way or a task that will kill *)
(* it, also when the preview found the browser of another one.              *)
NoOrphanBrowser ==
  \A v \in Views : child[v] = "running" => stage[v] \in {"starting", "live"}

-----------------------------------------------------------------------------
(* The inductive invariant behind them.                                     *)

Orders == Origins \cup {"Fetch.enable"}

PreviewTypeOK ==
  /\ previewGranted \in BOOLEAN
  /\ stage \in [Views -> {"new", "reserved", "starting", "live", "failed", "ended"}]
  /\ approved \in [Views -> Origins]
  /\ port \in [Views -> Ports]
  /\ child \in [Views -> {"none", "running", "dead"}]
  /\ listener \in [Ports -> Views \cup {NoView}]
  /\ opener \in [Windows -> Views \cup {NoView}]
  /\ found \in [Views -> Pages \cup {NoView}]
  /\ controls \in [Views -> Seq(Origins)]
  /\ orders \in [Views -> Seq(Orders)]
  /\ pausing \subseteq Views
  /\ page \in [Pages -> Origins \cup {Blank}]
  /\ paused \in [Pages -> [to : Origins \cup {Blank}, asked : SUBSET Views]]

(* A port and a window are held by a browser that runs, and a live preview  *)
(* has found a page of a browser that was started.                          *)
ListenerInv ==
  /\ \A q \in Ports : listener[q] # NoView => child[listener[q]] = "running"
  /\ \A w \in Windows : opener[w] # NoView => child[opener[w]] = "running"

LiveInv ==
  \A v \in Views :
    /\ stage[v] = "live" => found[v] \in Pages
    /\ stage[v] = "live" /\ found[v] \in Views => child[found[v]] # "none"
    /\ stage[v] \in {"new", "reserved"} => child[v] = "none"

(* A preview intercepts as long as it is live and its page is open: before  *)
(* it opens anything it still has Fetch.enable to send.                     *)
PausingInv ==
  /\ \A v \in pausing : stage[v] = "live" /\ IsOpen(found[v])
  /\ \A v \in Views :
       stage[v] = "live" /\ IsOpen(found[v]) /\ v \notin pausing
         => orders[v] = << "Fetch.enable", approved[v] >>

(* The first page of a browser, once it is not blank, is intercepted, and   *)
(* so is a request that waits.                                              *)
PageInv ==
  /\ \A b \in Views :
       page[b] # Blank => \E v \in pausing : found[v] = b /\ page[b] = approved[v]
  /\ \A p \in Pages : paused[p].asked \subseteq {v \in pausing : found[v] = p}

PreviewInv ==
  PreviewTypeOK /\ NoOrphanBrowser /\ ListenerInv /\ LiveInv /\ PausingInv /\ PageInv

=============================================================================
