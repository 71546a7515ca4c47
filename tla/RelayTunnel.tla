------------------------------ MODULE RelayTunnel ------------------------------
(***************************************************************************)
(* A workspace served over a relay route: the serving loop of the host      *)
(* (relay_tunnel.rs), the MLS group it keeps (session.rs), the pairing      *)
(* exchange (pairing.rs) and the browser bindings of a phone (browser.rs).  *)
(*                                                                          *)
(* The relay hands every frame to every other endpoint of the route, in     *)
(* order (RelayRoutes).  A frame of the group carries the epoch it was      *)
(* sealed in and opens in that epoch alone.  The host starts a new group on *)
(* a new route each time it starts; the phones are honest.  A page knows    *)
(* the welcome from other pairing frames only by handing it to `complete`.  *)
(***************************************************************************)
EXTENDS RemoteRequests, Naturals, Sequences, Functions

CONSTANTS
  Phones,       \* device ids of phones
  Services,     \* the services that may be served: [code, members, grants]
  Requests,     \* the requests the phones make
  Access,       \* how the host is reached otherwise: local or tailnet
  MaxStarts,    \* bound: starts of the host
  MaxPairings,  \* bound: pairings begun by a phone
  MaxRequests   \* bound: requests made by a phone

ASSUME TunnelAssumption ==
  /\ \A s \in Services :
       /\ s.code \in BOOLEAN /\ s.members \subseteq Phones /\ DOMAIN s.grants \subseteq Phones
       /\ \A p \in DOMAIN s.grants :
            s.grants[p].role \in Roles /\ s.grants[p].capabilities \subseteq Capabilities
  /\ Access \in {"local", "tailnet"}
  /\ MaxStarts \in Nat \ {0} /\ MaxPairings \in Nat /\ MaxRequests \in Nat

VARIABLES
  starts,    \* starts of the host
  serving,   \* whether the loop of serve_route runs
  code,      \* whether a pairing code is showing
  roster,    \* roster[e]: the phones of the group in its epoch e
  grants,    \* the DeviceRegistry
  stage,     \* stage[p]: new, pending, spent, joined
  at,        \* at[p]: the epoch of p's session, 0 in a group that is gone
  began,     \* began[p]: pairings begun
  asked,     \* asked[p]: requests made
  toHost,    \* frames the relay holds for the host
  toPhone,   \* toPhone[p]: frames the relay holds for p
  revoked,   \* phones the host has told an owner it revoked
  answered,  \* requests the host has answered
  acted,     \* what the router was asked to do, and for which grant
  read       \* answers opened: by whom, and who was revoked when it was sealed

vars == << starts, serving, code, roster, grants, stage, at, began, asked,
           toHost, toPhone, revoked, answered, acted, read >>
host == << starts, serving, code, roster, grants, revoked, answered, acted >>
phone == << stage, at, began, asked, read >>

(* WorkspaceSession: the group as the host holds it. *)
epoch == Len(roster)
member_device_ids == roster[epoch]
create == << {} >>
add_device(p) == roster' = Append(roster, member_device_ids \cup {p})
remove_device(p) == roster' = Append(roster, member_device_ids \ {p})

Frames ==
  [kind : {"request"}, from : Phones, right : BOOLEAN] \cup
  [kind : {"welcome"}, to : Phones, epoch : Nat] \cup
  [kind : {"sealed"}, from : Phones, epoch : Nat, n : 1..MaxRequests, body : Requests] \cup
  [kind : {"answer"}, by : Phones, n : 1..MaxRequests, epoch : Nat, gone : SUBSET Phones]

TypeOK ==
  /\ starts \in 1..MaxStarts /\ serving \in BOOLEAN /\ code \in BOOLEAN
  /\ roster \in Seq(SUBSET Phones) /\ roster # << >>
  /\ DOMAIN grants \subseteq Phones
  /\ \A p \in DOMAIN grants : grants[p].role \in Roles /\ grants[p].capabilities \subseteq Capabilities
  /\ stage \in [Phones -> {"new", "pending", "spent", "joined"}]
  /\ at \in [Phones -> 0..epoch]
  /\ began \in [Phones -> 0..MaxPairings] /\ asked \in [Phones -> 0..MaxRequests]
  /\ toHost \in Seq(Frames) /\ toPhone \in [Phones -> Seq(Frames)]
  /\ revoked \subseteq Phones
  /\ answered \subseteq [by : Phones, n : 1..MaxRequests]

Init ==
  /\ \E s \in Services :
       /\ code = s.code
       /\ roster = << s.members >>
       /\ grants = s.grants
       /\ stage = [p \in Phones |-> IF p \in s.members THEN "joined" ELSE "new"]
       /\ at = [p \in Phones |-> IF p \in s.members THEN 1 ELSE 0]
  /\ starts = 1 /\ serving = TRUE
  /\ began = [p \in Phones |-> 0] /\ asked = [p \in Phones |-> 0]
  /\ toHost = << >> /\ toPhone = [p \in Phones |-> << >>]
  /\ revoked = {} /\ answered = {} /\ acted = {} /\ read = {}

-----------------------------------------------------------------------------
(* Frames and the relay *)

Request(p, right) == [kind |-> "request", from |-> p, right |-> right]
Welcome(p) == [kind |-> "welcome", to |-> p, epoch |-> epoch + 1]
Sealed(p, n, q) == [kind |-> "sealed", from |-> p, epoch |-> at[p], n |-> n, body |-> q]
Answer(frame, now, gone) ==
  [kind |-> "answer", by |-> frame.from, n |-> frame.n, epoch |-> now, gone |-> gone]

is_pairing_frame(frame) == frame.kind \in {"request", "welcome"}

PhoneSends(p, frame) ==
  /\ toHost' = IF serving THEN Append(toHost, frame) ELSE toHost
  /\ toPhone' = [r \in Phones |-> IF r = p THEN toPhone[r] ELSE Append(toPhone[r], frame)]

HostSends(frame) ==
  /\ toHost' = Tail(toHost)
  /\ toPhone' = [r \in Phones |-> Append(toPhone[r], frame)]

HostKeepsSilent == toHost' = Tail(toHost) /\ UNCHANGED toPhone

-----------------------------------------------------------------------------
(* A phone *)

(* The phone scans the code: a new identity, and a request on the route.    *)
(* A code read wrongly gives a request the host cannot verify.              *)
StartPairing(p) ==
  /\ stage[p] \in {"new", "spent"} \/ (stage[p] = "joined" /\ at[p] = 0)
  /\ began[p] < MaxPairings
  /\ stage' = [stage EXCEPT ![p] = "pending"]
  /\ began' = [began EXCEPT ![p] = @ + 1]
  /\ \E right \in BOOLEAN : PhoneSends(p, Request(p, right))
  /\ UNCHANGED << host, at, asked, read >>

join(p, welcome) ==
  /\ stage' = [stage EXCEPT ![p] = "joined"]
  /\ at' = [at EXCEPT ![p] = welcome.epoch]

(* `complete` takes the identity before it reads the frame: what is not the *)
(* welcome of this phone ends its pairing.                                  *)
Complete(p) ==
  /\ toPhone[p] # << >>
  /\ LET frame == Head(toPhone[p]) IN
       /\ is_pairing_frame(frame)
       /\ IF stage[p] # "pending" THEN UNCHANGED << stage, at >>
          ELSE IF frame.kind = "welcome" /\ frame.to = p THEN join(p, frame)
          ELSE /\ stage' = [stage EXCEPT ![p] = "spent"]
               /\ UNCHANGED at
  /\ toPhone' = [toPhone EXCEPT ![p] = Tail(@)]
  /\ UNCHANGED << host, began, asked, read, toHost >>

(* What does not open is dropped; a request of another phone concerns nobody *)
(* but the host.                                                             *)
Open(p) ==
  /\ toPhone[p] # << >>
  /\ LET frame == Head(toPhone[p]) IN
       /\ ~ is_pairing_frame(frame)
       /\ IF stage[p] = "joined" /\ frame.epoch = at[p] /\ frame.kind = "answer"
          THEN read' = read \cup {[by |-> p, n |-> frame.n, gone |-> frame.gone]}
          ELSE UNCHANGED read
  /\ toPhone' = [toPhone EXCEPT ![p] = Tail(@)]
  /\ UNCHANGED << host, stage, at, began, asked, toHost >>

(* A session of a lost group is attached to a route nobody serves. *)
AskHost(p) ==
  /\ stage[p] = "joined" /\ at[p] > 0
  /\ asked[p] < MaxRequests
  /\ asked' = [asked EXCEPT ![p] = @ + 1]
  /\ \E q \in Requests : PhoneSends(p, Sealed(p, asked[p] + 1, q))
  /\ UNCHANGED << host, stage, at, began, read >>

-----------------------------------------------------------------------------
(* The loop of serve_route *)

Receives(kind) == serving /\ toHost # << >> /\ Head(toHost).kind = kind

(* newest_device: some member that holds no grant. *)
Ungranted(group) == group \ DOMAIN grants

Set(d, grant) ==
  grants' = [r \in DOMAIN grants \cup {d} |-> IF r = d THEN grant ELSE grants[r]]
Remove(d) == grants' = Restrict(grants, DOMAIN grants \ {d})

(* Variant: the code goes on admitting. *)
Pair_KeepsCode ==
  /\ Receives("request")
  /\ code /\ Head(toHost).right
  /\ LET p == Head(toHost).from IN
       /\ add_device(p)
       /\ HostSends(Welcome(p))
       /\ grants' = [d \in DOMAIN grants \cup {p} |->
                       IF d \in DOMAIN grants THEN grants[d] ELSE newly_paired]
  /\ revoked' = revoked \ {Head(toHost).from}
  /\ UNCHANGED << starts, serving, code, answered, acted, phone >>

(* The request verifies: the device is added, welcomed and granted, and the *)
(* code closes.  The commit of the addition is sent to nobody.              *)
Pair ==
  /\ Receives("request")
  /\ code /\ Head(toHost).right
  /\ LET p == Head(toHost).from
         new == Ungranted(member_device_ids \cup {p}) IN
       /\ add_device(p)
       /\ HostSends(Welcome(p))
       /\ \/ new = {} /\ UNCHANGED grants
          \/ \E d \in new : Set(d, newly_paired)
  /\ code' = FALSE
  /\ revoked' = revoked \ {Head(toHost).from}
  /\ UNCHANGED << starts, serving, answered, acted, phone >>

(* No code is showing, or the tag does not match. *)
RefusePairing ==
  /\ Receives("request")
  /\ ~ (code /\ Head(toHost).right)
  /\ HostKeepsSilent
  /\ UNCHANGED << host, phone >>

(* A frame of another epoch does not open, and is not answered. *)
Ignore ==
  /\ Receives("sealed")
  /\ Head(toHost).epoch # epoch
  /\ HostKeepsSilent
  /\ UNCHANGED << host, phone >>

Opened == Receives("sealed") /\ Head(toHost).epoch = epoch

Answers(now, gone) ==
  /\ HostSends(Answer(Head(toHost), now, gone))
  /\ answered' = answered \cup {[by |-> Head(toHost).from, n |-> Head(toHost).n]}

Revocation(q) == q.form = "valid" /\ q.method = "DELETE" /\ q.route = "devices"

MayRevoke(p) ==
  p \in DOMAIN grants /\ authorize(grants[p].role, grants[p].capabilities, "manage_members")

(* Variant: the grant is dropped and the group stays as it was. *)
Revoke_KeepsGroup ==
  /\ Opened /\ Revocation(Head(toHost).body)
  /\ LET p == Head(toHost).from
         target == Head(toHost).body.target
     IN IF MayRevoke(p) /\ target # p /\ target \in member_device_ids
        THEN /\ Remove(target)
             /\ revoked' = revoked \cup {target}
             /\ Answers(epoch, revoked')
             /\ UNCHANGED roster
        ELSE Answers(epoch, revoked) /\ UNCHANGED << roster, grants, revoked >>
  /\ UNCHANGED << starts, serving, code, acted, phone >>

(* revoke: refused (403), of itself (400), of no member (404), or made; the *)
(* commit is sent to nobody, and the answer is sealed in the new epoch.     *)
Revoke ==
  /\ Opened /\ Revocation(Head(toHost).body)
  /\ LET p == Head(toHost).from
         target == Head(toHost).body.target
     IN IF MayRevoke(p) /\ target # p /\ target \in member_device_ids
        THEN /\ remove_device(target)
             /\ Remove(target)
             /\ revoked' = revoked \cup {target}
             /\ Answers(epoch + 1, revoked')
        ELSE Answers(epoch, revoked) /\ UNCHANGED << roster, grants, revoked >>
  /\ UNCHANGED << starts, serving, code, acted, phone >>

(* Variant: what does not decode is dropped, as what does not open is. *)
Handle_DropsMalformed ==
  /\ Opened /\ ~ Revocation(Head(toHost).body)
  /\ IF Valid(Head(toHost).body) THEN Answers(epoch, revoked)
     ELSE HostKeepsSilent /\ UNCHANGED answered
  /\ UNCHANGED << starts, serving, code, roster, grants, revoked, acted, phone >>

(* handle: 400 for what does not decode or validate, 403 for what the grant *)
(* does not allow, and otherwise whatever the router answers, or 500.       *)
Handle ==
  /\ Opened /\ ~ Revocation(Head(toHost).body)
  /\ LET p == Head(toHost).from
         q == Head(toHost).body
     IN acted' = IF Valid(q) /\ permitted(grants, p, q) /\ Dispatches(Access, q)
                 THEN acted \cup {[by |-> p, grant |-> grants[p], request |-> q,
                                   late |-> p \in revoked]}
                 ELSE acted
  /\ Answers(epoch, revoked)
  /\ UNCHANGED << starts, serving, code, roster, grants, revoked, phone >>

(* The relay closes the route, fails, or does not take a frame; or the host *)
(* process ends.  Nothing serves the route again.                           *)
RouteEnds ==
  /\ serving
  /\ serving' = FALSE
  /\ toHost' = << >>
  /\ UNCHANGED << starts, code, roster, grants, revoked, answered, acted, toPhone, phone >>

(* The host starts again: the group is not saved, so open_route makes a new *)
(* one, registers a new route and shows a new code.                         *)
Restart ==
  /\ ~ serving /\ starts < MaxStarts
  /\ starts' = starts + 1
  /\ serving' = TRUE /\ code' = TRUE
  /\ roster' = create /\ grants' = << >>
  /\ toPhone' = [p \in Phones |-> << >>]
  /\ at' = [p \in Phones |-> 0]
  /\ stage' = [p \in Phones |-> IF stage[p] = "pending" THEN "spent" ELSE stage[p]]
  /\ revoked' = {}
  /\ UNCHANGED << toHost, began, asked, answered, acted, read >>

-----------------------------------------------------------------------------
HostStep == Pair \/ RefusePairing \/ Ignore \/ Revoke \/ Handle
PhoneStep(p) == Complete(p) \/ Open(p)

Next ==
  \/ HostStep
  \/ RouteEnds \/ Restart
  \/ \E p \in Phones : StartPairing(p) \/ AskHost(p) \/ PhoneStep(p)

Spec == Init /\ [][Next]_vars

(* The host's task and the pages that are attached go on; nothing obliges a *)
(* phone to pair or to ask.                                                 *)
Fairness == WF_vars(HostStep) /\ \A p \in Phones : WF_vars(PhoneStep(p))
FairSpec == Spec /\ Fairness

-----------------------------------------------------------------------------
(* Properties                                                               *)

Growths == {e \in 2..epoch : ~ roster[e] \subseteq roster[e - 1]}

(* "A pairing code admits exactly one device, then closes" (serve_route):   *)
(* whatever the phones send while and after the code shows, the group grows *)
(* at most once, and not at all while the code still shows.                 *)
OneDevicePerCode == Cardinality(Growths) <= (IF code THEN 0 ELSE 1)

(* Revoking ends access (revoke): what is answered after it cannot be read  *)
(* by the phone that was revoked, and what that phone had sent before, or   *)
(* sends after, reaches no handler.                                         *)
RevokedIsCutOff ==
  /\ \A r \in read : r.by \notin r.gone
  /\ \A a \in acted : ~ a.late

(* What a grant, with the classification of requests, lets a request do.    *)
Bounded(grant, q) ==
  \/ Touches(q) \subseteq MayTouch(grant)
  \/ /\ Misclassified(q)
     /\ \/ grant.role \in {"owner", "maintainer"}
        \/ grant.role = "operator" /\ "global_customization" \in grant.capabilities

(* What the classification of requests (action_for), the roles and the      *)
(* routes of the API make of each other: a handler a phone gets to call     *)
(* touches nothing the role and the capabilities of the phone exclude, but  *)
(* for the requests whose classification misses what their handler does     *)
(* (Misclassified); of these a viewer has none, and an operator no other    *)
(* than one with the grant of global customization.                         *)
GrantBoundsEffects ==
  /\ \A a \in acted : Bounded(a.grant, a.request)
  /\ \A p \in DOMAIN grants : \A q \in Endpoints :
       permitted(grants, p, q) => Bounded(grants[p], q)

Waiting(p, n) ==
  \E i \in DOMAIN toHost :
    toHost[i].kind = "sealed" /\ toHost[i].from = p /\ toHost[i].n = n /\ toHost[i].epoch = epoch

(* A request is answered, if only to refuse it, as long as the route is     *)
(* served and the group has not moved on (the comment of handle).           *)
RequestsAnswered ==
  \A p \in Phones : \A n \in 1..MaxRequests :
    (serving /\ Waiting(p, n)) ~> ([by |-> p, n |-> n] \in answered \/ ~ serving \/ at[p] # epoch)

-----------------------------------------------------------------------------
(* The inductive invariant behind them.                                     *)

Sent == Range(toHost) \cup UNION {Range(toPhone[p]) : p \in Phones}

(* Whoever holds a session was in the group in its epoch, and so was whoever *)
(* a frame is from or welcomes; who was revoked when an answer was sealed    *)
(* was not.                                                                  *)
MemberInv == \A p \in Phones : stage[p] = "joined" /\ at[p] > 0 => p \in roster[at[p]]

Genuine(frame) ==
  /\ frame.kind # "request" => frame.epoch \in 1..epoch
  /\ frame.kind = "sealed" => frame.from \in roster[frame.epoch]
  /\ frame.kind = "welcome" => frame.to \in roster[frame.epoch]
  /\ frame.kind = "answer" => frame.gone \cap roster[frame.epoch] = {}

FrameInv ==
  /\ \A frame \in Sent : Genuine(frame)
  /\ serving \/ toHost = << >>
  /\ revoked \cap member_device_ids = {}

(* As long as the code shows, the group has not grown; afterwards it has at *)
(* most in one epoch.                                                       *)
CodeInv == IF code THEN Growths = {} ELSE \E e \in 1..epoch : Growths \subseteq {e}

Inv == TypeOK /\ MemberInv /\ FrameInv /\ CodeInv /\ RevokedIsCutOff /\ GrantBoundsEffects

=============================================================================
