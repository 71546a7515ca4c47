------------------------------ MODULE EventStream ------------------------------
(***************************************************************************)
(* How an event reaches the screen of a device: publish_event appends it to*)
(* the log and then hands it to a broadcast channel (apps/leave/src/acp.rs);*)
(* the WebSocket handler forwards what its receiver yields, or says that it *)
(* has fallen behind (local_server.rs); the session screen merges the live  *)
(* events into a cached page, which it reloads from the log now and then    *)
(* (apps/web/src/lib/api.ts, screens/session-screen.tsx).                   *)
(*                                                                          *)
(* Publishers, the handler, the socket, the screen and its requests are all *)
(* concurrent.  An event is represented by its sequence in the log.  The    *)
(* query cache of the screen is a library (TanStack Query).                 *)
(***************************************************************************)
EXTENDS Naturals, Sequences, FiniteSets, SequencesExt

CONSTANTS
  Ring,        \* capacity of the broadcast channel (512 in the code)
  PageLimit,   \* most events a page of the log holds (1000)
  MaxEvents,   \* bound: events appended
  MaxDrops,    \* bound: connections lost, host restarts included
  MaxReloads   \* bound: reloads the user's own actions cause

ASSUME StreamAssumption ==
  /\ Ring \in Nat \ {0}
  /\ PageLimit \in Nat
  /\ MaxEvents \in Nat
  /\ MaxDrops \in Nat
  /\ MaxReloads \in Nat

VARIABLES
  logged,     \* the sequences of the log are 1..logged (durable)
  mine,       \* those that belong to the session on screen (durable)
  unsent,     \* appended, and not handed to the channel yet
  sent,       \* what this life of the host has handed to the channel, in order
  link,       \* the WebSocket of the screen: open, closed
  from,       \* the receiver of the socket subscribed after sent[from]
  pos,        \* and has yielded, or skipped, everything up to sent[pos]
  wire,       \* messages on the socket
  loaded,     \* the cache holds a page
  page,       \* the events of that page
  fetch,      \* the request for a page: none, asked, answered
  snapshot,   \* the events an answered request carries
  lost,       \* events that a reload left out though they had been forwarded
  drops, reloads    \* counters of the bounds

host   == << logged, mine, unsent, sent >>
socket == << link, from, pos >>
screen == << loaded, page, fetch, snapshot, lost >>
vars   == << host, socket, wire, screen, drops, reloads >>

Events == 1..MaxEvents

(* The message replay_required; every other message is an event. *)
Replay == 0

(* The first events of a set, as ORDER BY sequence ASC LIMIT ? gives them. *)
FirstOnes(S) == {e \in S : Cardinality({d \in S : d < e}) < PageLimit}

(* The elements of a set of events in increasing order. *)
InOrder(S) ==
  CHOOSE seq \in [1..Cardinality(S) -> S] : \A i, j \in DOMAIN seq : i < j => seq[i] < seq[j]

TypeOK ==
  /\ logged \in 0..MaxEvents
  /\ mine \subseteq 1..logged
  /\ unsent \subseteq 1..logged
  /\ sent \in Seq(1..logged)
  /\ link \in {"open", "closed"}
  /\ from \in Nat /\ pos \in Nat
  /\ link = "open" => from <= pos /\ pos <= Len(sent)
  /\ wire \in Seq(1..logged \cup {Replay})
  /\ loaded \in BOOLEAN
  /\ page \in Seq(1..logged)
  /\ fetch \in {"none", "asked", "answered"}
  /\ snapshot \subseteq 1..logged
  /\ fetch # "answered" => snapshot = {}
  /\ lost \subseteq 1..logged
  /\ drops \in 0..MaxDrops
  /\ reloads \in 0..MaxReloads

(* The screen is mounted beside a host that has just started: it asks for   *)
(* the page and opens the socket.                                           *)
Init ==
  /\ logged = 0 /\ mine = {} /\ unsent = {} /\ sent = << >>
  /\ link = "closed" /\ from = 0 /\ pos = 0
  /\ wire = << >>
  /\ loaded = FALSE /\ page = << >>
  /\ fetch = "asked" /\ snapshot = {}
  /\ lost = {}
  /\ drops = 0 /\ reloads = 0

-----------------------------------------------------------------------------
(* publish_event: a task appends, and some time later broadcasts.  Another  *)
(* task may overtake it in between.                                         *)

AppendEvent(own) ==
  /\ logged < MaxEvents
  /\ logged' = logged + 1
  /\ mine' = IF own THEN mine \cup {logged'} ELSE mine
  /\ unsent' = unsent \cup {logged'}
  /\ UNCHANGED << sent, socket, wire, screen, drops, reloads >>

(* Variant: the event is broadcast first and appended afterwards. *)
Broadcast_BeforeAppend(e) ==
  /\ e = logged + 1 \/ e \in unsent
  /\ e \in Events
  /\ \A i \in DOMAIN sent : sent[i] # e
  /\ unsent' = unsent \ {e}
  /\ sent' = Append(sent, e)
  /\ UNCHANGED << logged, mine, socket, wire, screen, drops, reloads >>

Broadcast(e) ==
  /\ e \in unsent
  /\ unsent' = unsent \ {e}
  /\ sent' = Append(sent, e)
  /\ UNCHANGED << logged, mine, socket, wire, screen, drops, reloads >>

-----------------------------------------------------------------------------
(* The WebSocket handler of the host *)

Behind == Len(sent) - pos > Ring

(* events.recv() yields the next event, while the channel still has it. *)
ForwardEvent ==
  /\ link = "open"
  /\ pos < Len(sent)
  /\ ~ Behind
  /\ pos' = pos + 1
  /\ wire' = Append(wire, sent[pos'])
  /\ UNCHANGED << host, link, from, screen, drops, reloads >>

(* Variant: Lagged is skipped over without a word. *)
ForwardLag_Silent ==
  /\ link = "open"
  /\ Behind
  /\ pos' = Len(sent) - Ring
  /\ UNCHANGED << host, link, from, wire, screen, drops, reloads >>

(* Lagged(skipped): the receiver goes on with the oldest event kept. *)
ForwardLag ==
  /\ link = "open"
  /\ Behind
  /\ pos' = Len(sent) - Ring
  /\ wire' = Append(wire, Replay)
  /\ UNCHANGED << host, link, from, screen, drops, reloads >>

(* The retry timer of connectLocalEvents; the handler subscribes when the   *)
(* socket is up.  Nothing is reloaded.                                      *)
Connect ==
  /\ link = "closed"
  /\ link' = "open"
  /\ from' = Len(sent) /\ pos' = Len(sent)
  /\ UNCHANGED << host, wire, screen, drops, reloads >>

LoseLink ==
  /\ drops < MaxDrops
  /\ drops' = drops + 1
  /\ link' = "closed" /\ from' = 0 /\ pos' = 0
  /\ wire' = << >>

LinkDrops ==
  /\ link = "open"
  /\ LoseLink
  /\ UNCHANGED << host, screen, reloads >>

(* A crash of the host: what was appended and not broadcast never is.  A    *)
(* request of the screen that was under way is retried.                     *)
HostRestarts ==
  /\ LoseLink
  /\ unsent' = {} /\ sent' = << >>
  /\ fetch' = IF fetch = "none" THEN "none" ELSE "asked"
  /\ snapshot' = {}
  /\ UNCHANGED << logged, mine, loaded, page, lost, reloads >>

-----------------------------------------------------------------------------
(* The session screen *)

Handed == {sent[i] : i \in (from + 1)..pos}

(* Events of the session that were forwarded or skipped on this connection  *)
(* and are not in the set S.                                                *)
Without(S) == {e \in mine \cap Handed : e \notin S \cup ToSet(wire')}

(* Variant: live events are put at the end as they come. *)
appendLiveEvent_Unsorted(e) ==
  IF e \in ToSet(page) THEN page ELSE Append(page, e)

appendLiveEvent(e) ==
  IF e \in ToSet(page) THEN page ELSE InOrder(ToSet(page) \cup {e})

ReceiveEvent ==
  /\ wire # << >>
  /\ Head(wire) # Replay
  /\ wire' = Tail(wire)
  /\ IF Head(wire) \in mine
       THEN page' = appendLiveEvent(Head(wire)) /\ loaded' = TRUE
       ELSE UNCHANGED << page, loaded >>
  /\ UNCHANGED << host, socket, fetch, snapshot, lost, drops, reloads >>

(* invalidateQueries: a request under way is cancelled and asked again, but *)
(* the first one, which is joined.                                          *)
Invalidate ==
  /\ UNCHANGED << loaded, page >>
  /\ IF fetch = "answered" /\ ~ loaded
       THEN /\ lost' = lost \cup Without(snapshot)
            /\ UNCHANGED << fetch, snapshot >>
       ELSE fetch' = "asked" /\ snapshot' = {} /\ UNCHANGED lost

(* Variant: replay_required is ignored. *)
ReceiveReplay_Ignored ==
  /\ wire # << >>
  /\ Head(wire) = Replay
  /\ wire' = Tail(wire)
  /\ UNCHANGED << host, socket, screen, drops, reloads >>

ReceiveReplay ==
  /\ wire # << >>
  /\ Head(wire) = Replay
  /\ wire' = Tail(wire)
  /\ Invalidate
  /\ UNCHANGED << host, socket, drops, reloads >>

(* A prompt, cancel, resume or decision the user made has succeeded. *)
UserActed ==
  /\ reloads < MaxReloads
  /\ reloads' = reloads + 1
  /\ UNCHANGED wire
  /\ Invalidate
  /\ UNCHANGED << host, socket, drops >>

(* session_events: the host reads the page from the log, always after 0. *)
ReadPage ==
  /\ fetch = "asked"
  /\ fetch' = "answered"
  /\ snapshot' = FirstOnes(mine)
  /\ UNCHANGED << host, socket, wire, loaded, page, lost, drops, reloads >>

(* The answer replaces the page, live events and all. *)
PageArrives ==
  /\ fetch = "answered"
  /\ fetch' = "none"
  /\ page' = InOrder(snapshot) /\ loaded' = TRUE
  /\ snapshot' = {}
  /\ UNCHANGED wire
  /\ lost' = lost \cup Without(snapshot)
  /\ UNCHANGED << host, socket, drops, reloads >>

-----------------------------------------------------------------------------
Forward == ForwardEvent \/ ForwardLag

Receive == ReceiveEvent \/ ReceiveReplay

Next ==
  \/ \E own \in BOOLEAN : AppendEvent(own)
  \/ \E e \in Events : Broadcast(e)
  \/ Forward
  \/ Connect
  \/ LinkDrops
  \/ HostRestarts
  \/ Receive
  \/ UserActed
  \/ ReadPage
  \/ PageArrives

Spec == Init /\ [][Next]_vars

(* Publishers finish, the handler and the screen handle what they are sent, *)
(* requests are answered.  Nothing has to be published, dropped or reloaded.*)
Fairness ==
  /\ WF_vars(\E e \in Events : Broadcast(e))
  /\ WF_vars(Forward)
  /\ WF_vars(Connect)
  /\ WF_vars(Receive)
  /\ WF_vars(ReadPage)
  /\ WF_vars(PageArrives)

FairSpec == Spec /\ Fairness

-----------------------------------------------------------------------------
(* Properties                                                               *)

(* Append before broadcast: whatever is on a socket or on the screen is in  *)
(* the log already, so that it survives a restart (publish_event).          *)
ShownIsLogged ==
  ToSet(sent) \cup (ToSet(wire) \ {Replay}) \cup ToSet(page) \subseteq 1..logged

(* The screen shows the session's events in the order of the log, each of   *)
(* them once, though publishers overtake one another between append and     *)
(* broadcast and live events meet reloads (appendLiveEvent).                *)
PageInLogOrder ==
  /\ \A i, j \in DOMAIN page : i < j => page[i] < page[j]
  /\ ToSet(page) \subseteq mine

(* On an open connection no event is lost in silence: it is on the screen   *)
(* or on its way, or a reload that will bring it is, or a reload left it    *)
(* out, because it was read too early or the page was full (the Lagged arm  *)
(* of the handler, and onReplayRequired).                                   *)
NoSilentLoss ==
  \A e \in mine \cap Handed :
    \/ link = "closed"
    \/ e \in ToSet(page) \cup ToSet(wire) \cup lost
    \/ Replay \in ToSet(wire)
    \/ fetch = "asked"
    \/ fetch = "answered" /\ (e \in snapshot \/ e \notin FirstOnes(mine))

(* ... and reaches the screen in the end, if the connection lasts.          *)
LiveEventsAreShown ==
  \A e \in Events :
    (link = "open" /\ e \in unsent \cap mine)
      ~> (e \in ToSet(page) \/ e \in lost \/ link = "closed")

-----------------------------------------------------------------------------
(* The inductive invariant behind the first three: a page under way holds   *)
(* events of the session, as the one on the screen does.                    *)
SnapshotInv == snapshot \subseteq mine

Inv == TypeOK /\ SnapshotInv /\ PageInLogOrder /\ NoSilentLoss

=============================================================================
