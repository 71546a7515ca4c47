------------------------------ MODULE RelayRoutes ------------------------------
(***************************************************************************)
(* The relay (apps/relay/src): routes that hosts register and revoke, and   *)
(* the fanout of opaque frames between the connections attached to a route. *)
(*                                                                          *)
(* A connection is served by two tasks: a writer, which follows the route's *)
(* broadcast channel, and a reader, which publishes what the peer sends and *)
(* takes the writer with it when it ends.  Both hold the channel for        *)
(* themselves: the route table only matters to those who still attach.      *)
(* A frame is represented by its place in the channel and its sender.       *)
(***************************************************************************)
EXTENDS Naturals, Sequences, FiniteSets

CONSTANTS
  Routes,        \* route ids, each used by one registration
  Connections,   \* endpoint ids, each used by one connection
  None,          \* no route
  Ring,          \* CHANNEL_CAPACITY (256 in the code)
  MaxFrames      \* bound: frames published on a route

ASSUME RoutesAssumption ==
  /\ None \notin Routes
  /\ Ring \in Nat \ {0}
  /\ MaxFrames \in Nat

VARIABLES
  issued,     \* routes that have been registered
  table,      \* the route table
  revoking,   \* routes whose revocation has been authorized, but not made
  phase,      \* phase[c]: none, authorized, open, closed
  route,      \* route[c]: the route c has been authorized for
  writing,    \* connections whose writer is running
  channel,    \* channel[r]: senders of the frames published on r, in order
  start,      \* start[c]: frames published before c subscribed
  pos,        \* pos[c]: frames the writer of c has taken from the channel
  got         \* got[c]: places of the frames written to the peer of c, in order

vars == << issued, table, revoking, phase, route, writing, channel, start, pos, got >>

routes == << issued, table, revoking >>
cursor == << start, pos, got >>

TypeOK ==
  /\ issued \subseteq Routes
  /\ table \subseteq issued
  /\ revoking \subseteq issued
  /\ phase \in [Connections -> {"none", "authorized", "open", "closed"}]
  /\ route \in [Connections -> Routes \cup {None}]
  /\ \A c \in Connections : phase[c] \in {"authorized", "open"} => route[c] \in issued
  /\ writing \subseteq {c \in Connections : phase[c] = "open"}
  /\ channel \in [Routes -> Seq(Connections)]
  /\ start \in [Connections -> Nat]
  /\ pos \in [Connections -> Nat]
  /\ got \in [Connections -> Seq(Nat)]

Init ==
  /\ issued = {} /\ table = {} /\ revoking = {}
  /\ phase = [c \in Connections |-> "none"]
  /\ route = [c \in Connections |-> None]
  /\ writing = {}
  /\ channel = [r \in Routes |-> << >>]
  /\ start = [c \in Connections |-> 0]
  /\ pos = [c \in Connections |-> 0]
  /\ got = [c \in Connections |-> << >>]

-----------------------------------------------------------------------------
(* The route table *)

Register(r) ==
  /\ r \notin issued
  /\ issued' = issued \cup {r}
  /\ table' = table \cup {r}
  /\ UNCHANGED << revoking, phase, route, writing, channel, cursor >>

(* revoke_route authorizes under one lock and removes under another. *)
AuthorizeRevocation(r) ==
  /\ r \in table
  /\ revoking' = revoking \cup {r}
  /\ UNCHANGED << issued, table, phase, route, writing, channel, cursor >>

Revoke(r) ==
  /\ r \in revoking
  /\ revoking' = revoking \ {r}
  /\ table' = table \ {r}
  /\ UNCHANGED << issued, phase, route, writing, channel, cursor >>

-----------------------------------------------------------------------------
(* Attaching: the token is checked and the channel subscribed to under the  *)
(* lock of the table; the upgrade comes later.                              *)

Authorize(c, r) ==
  /\ phase[c] = "none"
  /\ r \in table
  /\ phase' = [phase EXCEPT ![c] = "authorized"]
  /\ route' = [route EXCEPT ![c] = r]
  /\ start' = [start EXCEPT ![c] = Len(channel[r])]
  /\ pos' = [pos EXCEPT ![c] = Len(channel[r])]
  /\ UNCHANGED << routes, writing, channel, got >>

(* The upgrade succeeds, or is refused for its origin or fails. *)
Upgrade(c) ==
  /\ phase[c] = "authorized"
  /\ \/ phase' = [phase EXCEPT ![c] = "open"] /\ writing' = writing \cup {c}
     \/ phase' = [phase EXCEPT ![c] = "closed"] /\ UNCHANGED writing
  /\ UNCHANGED << routes, route, channel, cursor >>

-----------------------------------------------------------------------------
(* The reader of connection c *)

Publish(c) ==
  /\ phase[c] = "open"
  /\ Len(channel[route[c]]) < MaxFrames
  /\ channel' = [channel EXCEPT ![route[c]] = Append(@, c)]
  /\ UNCHANGED << routes, phase, route, writing, cursor >>

(* The peer closes or fails, sends a text, a frame that does not decode or  *)
(* names another route, or more frames in a second than it may.             *)
ReaderEnds(c) ==
  /\ phase[c] = "open"
  /\ phase' = [phase EXCEPT ![c] = "closed"]
  /\ writing' = writing \ {c}
  /\ UNCHANGED << routes, route, channel, cursor >>

-----------------------------------------------------------------------------
(* The writer of connection c.  Its channel is never closed: the reader     *)
(* holds a sender as long as it runs.                                       *)

Behind(c) == Len(channel[route[c]]) - pos[c] > Ring

(* Variant: the writer waits for a frame of somebody else. *)
Write_SticksAtOwn(c) ==
  /\ c \in writing
  /\ pos[c] < Len(channel[route[c]])
  /\ ~ Behind(c)
  /\ channel[route[c]][pos[c] + 1] # c
  /\ pos' = [pos EXCEPT ![c] = @ + 1]
  /\ got' = [got EXCEPT ![c] = Append(@, pos'[c])]
  /\ UNCHANGED << routes, phase, route, writing, channel, start >>

Write(c) ==
  /\ c \in writing
  /\ pos[c] < Len(channel[route[c]])
  /\ ~ Behind(c)
  /\ pos' = [pos EXCEPT ![c] = @ + 1]
  /\ got' = [got EXCEPT ![c] = IF channel[route[c]][pos'[c]] = c THEN @ ELSE Append(@, pos'[c])]
  /\ UNCHANGED << routes, phase, route, writing, channel, start >>

(* Variant: a lagging writer goes on with the oldest frame left. *)
WriterLags_Skips(c) ==
  /\ c \in writing
  /\ Behind(c)
  /\ pos' = [pos EXCEPT ![c] = Len(channel[route[c]]) - Ring]
  /\ UNCHANGED << routes, phase, route, writing, channel, start, got >>

(* A writer that has fallen behind closes the socket and ends. *)
WriterLags(c) ==
  /\ c \in writing
  /\ Behind(c)
  /\ writing' = writing \ {c}
  /\ UNCHANGED << routes, phase, route, channel, cursor >>

(* A frame or a heartbeat cannot be written. *)
WriterFails(c) ==
  /\ c \in writing
  /\ writing' = writing \ {c}
  /\ UNCHANGED << routes, phase, route, channel, cursor >>

-----------------------------------------------------------------------------
WriterStep(c) == Write(c) \/ WriterLags(c)

Next ==
  \/ \E r \in Routes : Register(r) \/ AuthorizeRevocation(r) \/ Revoke(r)
  \/ \E c \in Connections, r \in Routes : Authorize(c, r)
  \/ \E c \in Connections :
       Upgrade(c) \/ Publish(c) \/ ReaderEnds(c) \/ WriterStep(c) \/ WriterFails(c)

Spec == Init /\ [][Next]_vars

(* The writers are polled, revocations and upgrades finish.  Nothing is     *)
(* assumed of the peers.                                                    *)
Fairness ==
  /\ \A r \in Routes : WF_vars(Revoke(r))
  /\ \A c \in Connections : WF_vars(WriterStep(c)) /\ WF_vars(Upgrade(c))

FairSpec == Spec /\ Fairness

-----------------------------------------------------------------------------
(* Properties                                                               *)

(* The frames a connection must have been given when its writer has taken   *)
(* everything up to place n: those the others published since it attached.  *)
Foreign(c, n) == {i \in (start[c] + 1)..n : channel[route[c]][i] # c}

(* A peer never misses a frame without losing its connection: whatever its  *)
(* writer has passed, it was given, in order, but its own frames (the       *)
(* subscription under the table's lock, and the Lagged arm of the writer).  *)
(* The ratchets of the MLS sessions at both ends depend on it.              *)
NoGap ==
  \A c \in Connections : phase[c] = "open" =>
    /\ {got[c][k] : k \in DOMAIN got[c]} = Foreign(c, pos[c])
    /\ \A k, l \in DOMAIN got[c] : k < l => got[c][k] < got[c][l]

(* Every frame reaches every peer that stays connected, and whose writer    *)
(* has not failed.                                                          *)
FramesArrive ==
  \A c \in Connections : \A n \in 1..MaxFrames :
    (c \in writing /\ n \in start[c] + 1 .. Len(channel[route[c]]))
      ~> (pos[c] >= n \/ c \notin writing)

(* "Forget a route and disconnect everything attached to it"                *)
(* (RouteTable::revoke).                                                    *)
RevokedRouteEmpties ==
  \A r \in Routes :
    (r \in issued \ table) ~> (\A c \in Connections : route[c] = r => c \notin writing)

-----------------------------------------------------------------------------
(* The inductive invariant behind NoGap.                                    *)

Attached(c) == phase[c] \in {"authorized", "open"}

(* A receiver stands between its subscription and the end of its channel. *)
CursorInv ==
  \A c \in Connections : Attached(c) =>
    start[c] <= pos[c] /\ pos[c] <= Len(channel[route[c]])

(* Nothing is written before the upgrade, and no writer has moved. *)
UpgradeInv ==
  \A c \in Connections :
    /\ phase[c] \in {"none", "authorized"} => got[c] = << >>
    /\ phase[c] = "authorized" => pos[c] = start[c]

(* The peer was given what its writer has passed, but its own. *)
Given(c) ==
  /\ \A k \in DOMAIN got[c] : got[c][k] \in Foreign(c, pos[c])
  /\ \A i \in Foreign(c, pos[c]) : \E k \in DOMAIN got[c] : got[c][k] = i
  /\ \A k, l \in DOMAIN got[c] : k < l => got[c][k] < got[c][l]

GivenInv == \A c \in Connections : phase[c] = "open" => Given(c)

Inv == TypeOK /\ CursorInv /\ UpgradeInv /\ GivenInv

=============================================================================
