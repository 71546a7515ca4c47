--------------------------- MODULE RelayTunnelProofs ---------------------------
(***************************************************************************)
(* Proofs about RelayTunnel: for every set of phones, of services and of    *)
(* requests, and every bound.                                               *)
(***************************************************************************)
EXTENDS RelayTunnel, FiniteSetTheorems, TLAPS

-----------------------------------------------------------------------------
(* Grants.  Whatever request the classification permits, the handler that   *)
(* serves it stays within the grant, or within what is known to be          *)
(* classified by something else than what it does.                          *)

LEMMA PermittedIsBounded ==
  ASSUME NEW grant, grant.role \in Roles, grant.capabilities \subseteq Capabilities,
         NEW q, Serves(q), authorize(grant.role, grant.capabilities, action_for(q))
  PROVE  Bounded(grant, q)
<1> DEFINE action == action_for(q)
<1>1. ASSUME NEW c \in Capabilities, action = c
      PROVE  /\ c \in grant.capabilities /\ grant.role # "viewer"
             /\ CapabilityMay[c] \subseteq MayTouch(grant)
  <2>1. c \in grant.capabilities /\ grant.role # "viewer"
    BY <1>1 DEF authorize
  <2> QED
    BY <2>1 DEF MayTouch
<1>2. ASSUME action \in WorkspaceEdits
      PROVE  /\ grant.role \in {"owner", "maintainer"}
             /\ {"code", "git", "project_customization", "ordinary_approval"} \subseteq MayTouch(grant)
  <2>1. grant.role \in {"owner", "maintainer"}
    BY <1>2 DEF authorize
  <2> QED
    BY <2>1 DEF MayTouch, RoleMay
<1>3. CASE q.route \in TerminalRoutes
  <2>1. action = "raw_pty" /\ Touches(q) = {"terminal"}
    BY <1>3 DEF action_for, Touches
  <2>2. CapabilityMay["raw_pty"] = {"terminal"} /\ "raw_pty" \in Capabilities
    BY DEF CapabilityMay, Capabilities
  <2> QED
    BY <1>1, <2>1, <2>2 DEF Bounded
<1>4. CASE q.route \in PreviewRoutes
  <2>1. action = "persistent_browser_profile" /\ Touches(q) = {"preview"}
    BY <1>4 DEF action_for, Touches, TerminalRoutes, PreviewRoutes
  <2>2. /\ CapabilityMay["persistent_browser_profile"] = {"preview"}
        /\ "persistent_browser_profile" \in Capabilities
    BY DEF CapabilityMay, Capabilities
  <2> QED
    BY <1>1, <2>1, <2>2 DEF Bounded
<1>5. CASE q.route \notin TerminalRoutes \cup PreviewRoutes \cup {"customization"} /\ q.method = "GET"
  <2>1. Touches(q) = {}
    BY <1>5 DEF Touches
  <2> QED
    BY <2>1 DEF Bounded
<1>6. CASE q.route = "customization"
  <2>1. /\ q.method \in {"GET", "POST"}
        /\ q.route \notin TerminalRoutes \cup PreviewRoutes \cup {"permissions"}
    BY <1>6 DEF Serves, build_router, GitRoutes, GitReads, TerminalRoutes, PreviewRoutes
  <2>2. CASE q.category \in {"rules", "skills"}
    <3>1. action = "project_customization"
      BY <1>6, <2>1, <2>2 DEF action_for
    <3>2. grant.role \in {"owner", "maintainer"} /\ "project_customization" \in MayTouch(grant)
      BY <1>2, <3>1 DEF WorkspaceEdits
    <3>3. \/ Touches(q) \in {{}, {"project_customization"}}
          \/ Misclassified(q)
      BY <1>6, <2>1, <2>2 DEF Touches, Misclassified
    <3> QED
      BY <3>2, <3>3 DEF Bounded
  <2>3. CASE q.category \notin {"rules", "skills"}
    <3>1. action = "global_customization"
      BY <1>6, <2>1, <2>3 DEF action_for
    <3>2. CapabilityMay["global_customization"] = {"global_customization"}
      BY DEF CapabilityMay
    <3>3. /\ "global_customization" \in grant.capabilities
          /\ grant.role \in {"owner", "maintainer", "operator"}
          /\ "global_customization" \in MayTouch(grant)
      BY <1>1, <3>1, <3>2 DEF Capabilities, Roles
    <3>4. \/ Touches(q) \in {{}, {"global_customization"}}
          \/ Misclassified(q)
      BY <1>6, <2>1, <2>3 DEF Touches, Misclassified
    <3> QED
      BY <3>3, <3>4 DEF Bounded
  <2> QED
    BY <2>2, <2>3
<1>7. CASE /\ q.route \notin TerminalRoutes \cup PreviewRoutes \cup {"customization"}
           /\ q.method # "GET"
  <2>1. /\ q.method \in {"POST", "PUT"}
        /\ q.route \in {"sessions", "session/resume", "session/prompts", "session/cancel",
                        "permissions", "file"} \cup (GitRoutes \ GitReads)
    BY <1>7 DEF Serves, build_router, TerminalRoutes, PreviewRoutes
  <2>2. action = WriteAction(q.route)
    BY <1>7, <2>1 DEF action_for
  <2>3. CASE q.route \in GitRoutes \ GitReads
    <3>1. action = "git_write" /\ Touches(q) = {"git"}
      BY <1>7, <2>2, <2>3 DEF WriteAction, Touches, GitRoutes, GitReads
    <3> QED
      BY <1>2, <3>1 DEF WorkspaceEdits, Bounded
  <2>4. CASE q.route \in {"permissions", "file"}
    <3>1. /\ action = "edit_files"
          /\ \/ Touches(q) \in {{"code"}, {"ordinary_approval"}}
             \/ Misclassified(q)
      BY <1>7, <2>2, <2>4 DEF WriteAction, Touches, GitRoutes, GitReads, SessionRoutes, Misclassified
    <3> QED
      BY <1>2, <3>1 DEF WorkspaceEdits, Bounded
  <2>5. CASE q.route \in {"sessions", "session/resume", "session/prompts", "session/cancel"}
    <3>1. action = "prompt" /\ Touches(q) = {"agent"}
      BY <1>7, <2>2, <2>5 DEF WriteAction, Touches, GitRoutes, GitReads, SessionRoutes
    <3>2. grant.role \in {"owner", "maintainer", "operator"}
      BY <3>1 DEF authorize, Capabilities, Roles
    <3>3. "agent" \in MayTouch(grant)
      BY <3>2 DEF MayTouch, RoleMay
    <3> QED
      BY <3>1, <3>3 DEF Bounded
  <2> QED
    BY <2>1, <2>3, <2>4, <2>5
<1> QED
  BY <1>3, <1>4, <1>5, <1>6, <1>7

-----------------------------------------------------------------------------
(* Frames on their way.  A sender adds one frame, and a receiver takes one  *)
(* away.                                                                    *)

LEMMA AppendRange ==
  ASSUME NEW S, NEW q \in Seq(S), NEW x \in S
  PROVE  Append(q, x) \in Seq(S) /\ Range(Append(q, x)) = Range(q) \cup {x}
<1>1. /\ Append(q, x) \in Seq(S)
      /\ DOMAIN q = 1..Len(q) /\ Len(q) \in Nat /\ DOMAIN Append(q, x) = 1..(Len(q) + 1)
      /\ Append(q, x)[Len(q) + 1] = x /\ \A i \in 1..Len(q) : Append(q, x)[i] = q[i]
  OBVIOUS
<1>2. 1..(Len(q) + 1) = 1..Len(q) \cup {Len(q) + 1}
  BY <1>1
<1> QED
  BY <1>1, <1>2 DEF Range

LEMMA TailRange ==
  ASSUME NEW S, NEW q \in Seq(S), q # << >>
  PROVE  Tail(q) \in Seq(S) /\ Range(Tail(q)) \subseteq Range(q) /\ Head(q) \in Range(q) \cap S
<1>1. /\ Tail(q) \in Seq(S) /\ Len(q) \in Nat \ {0} /\ DOMAIN q = 1..Len(q)
      /\ DOMAIN Tail(q) = 1..(Len(q) - 1) /\ \A i \in 1..(Len(q) - 1) : Tail(q)[i] = q[i + 1]
      /\ Head(q) = q[1] /\ \A i \in 1..Len(q) : q[i] \in S
  OBVIOUS
<1>2. \A i \in 1..(Len(q) - 1) : i + 1 \in 1..Len(q)
  BY <1>1
<1> QED
  BY <1>1, <1>2 DEF Range

LEMMA PhoneSendsOne ==
  ASSUME TypeOK, NEW p \in Phones, NEW frame \in Frames, PhoneSends(p, frame)
  PROVE  /\ toHost' \in Seq(Frames) /\ toPhone' \in [Phones -> Seq(Frames)]
         /\ Sent' \subseteq Sent \cup {frame}
         /\ serving \/ toHost' = toHost
<1>1. toHost \in Seq(Frames) /\ \A r \in Phones : toPhone[r] \in Seq(Frames)
  BY DEF TypeOK
<1>2. toHost' \in Seq(Frames) /\ Range(toHost') \subseteq Range(toHost) \cup {frame}
  BY <1>1, AppendRange DEF PhoneSends
<1>3. toPhone' = [r \in Phones |-> IF r = p THEN toPhone[r] ELSE Append(toPhone[r], frame)]
  BY DEF PhoneSends
<1>4. ASSUME NEW r \in Phones
      PROVE  toPhone'[r] \in Seq(Frames) /\ Range(toPhone'[r]) \subseteq Range(toPhone[r]) \cup {frame}
  BY <1>1, <1>3, AppendRange
<1>5. toPhone' \in [Phones -> Seq(Frames)]
  BY <1>3, <1>4
<1>6. serving \/ toHost' = toHost
  BY DEF PhoneSends
<1> QED
  BY <1>2, <1>4, <1>5, <1>6 DEF Sent

LEMMA HostSendsOne ==
  ASSUME TypeOK, toHost # << >>, NEW frame \in Frames, HostSends(frame)
  PROVE  /\ toHost' \in Seq(Frames) /\ toPhone' \in [Phones -> Seq(Frames)]
         /\ Sent' \subseteq Sent \cup {frame}
<1>1. toHost \in Seq(Frames) /\ \A r \in Phones : toPhone[r] \in Seq(Frames)
  BY DEF TypeOK
<1>2. toHost' \in Seq(Frames) /\ Range(toHost') \subseteq Range(toHost)
  BY <1>1, TailRange DEF HostSends
<1>3. toPhone' = [r \in Phones |-> Append(toPhone[r], frame)]
  BY DEF HostSends
<1>4. ASSUME NEW r \in Phones
      PROVE  toPhone'[r] \in Seq(Frames) /\ Range(toPhone'[r]) \subseteq Range(toPhone[r]) \cup {frame}
  BY <1>1, <1>3, AppendRange
<1>5. toPhone' \in [Phones -> Seq(Frames)]
  BY <1>3, <1>4
<1> QED
  BY <1>2, <1>4, <1>5 DEF Sent

LEMMA PhoneTakesOne ==
  ASSUME TypeOK, NEW p \in Phones, toPhone[p] # << >>, UNCHANGED toHost,
         toPhone' = [toPhone EXCEPT ![p] = Tail(@)]
  PROVE  /\ toHost' \in Seq(Frames) /\ toPhone' \in [Phones -> Seq(Frames)]
         /\ Sent' \subseteq Sent /\ Head(toPhone[p]) \in Sent \cap Frames
<1>1. toHost \in Seq(Frames) /\ toPhone \in [Phones -> Seq(Frames)]
  BY DEF TypeOK
<1>2. /\ Tail(toPhone[p]) \in Seq(Frames) /\ Range(Tail(toPhone[p])) \subseteq Range(toPhone[p])
      /\ Head(toPhone[p]) \in Range(toPhone[p]) \cap Frames
  BY <1>1, TailRange
<1>3. toPhone' \in [Phones -> Seq(Frames)]
  BY <1>1, <1>2
<1>4. \A r \in Phones : Range(toPhone'[r]) \subseteq Range(toPhone[r])
  BY <1>1, <1>2
<1> QED
  BY <1>1, <1>2, <1>3, <1>4 DEF Sent

LEMMA HostTakesOne ==
  ASSUME TypeOK, toHost # << >>, HostKeepsSilent
  PROVE  /\ toHost' \in Seq(Frames) /\ toPhone' \in [Phones -> Seq(Frames)]
         /\ Sent' \subseteq Sent
  BY TailRange DEF TypeOK, HostKeepsSilent, Sent

LEMMA HostReceives ==
  ASSUME TypeOK, NEW kind, Receives(kind)
  PROVE  /\ serving /\ toHost # << >> /\ Head(toHost) \in Sent \cap Frames
         /\ Head(toHost).kind = kind
  BY TailRange DEF TypeOK, Receives, Sent

-----------------------------------------------------------------------------
(* Epochs.  The group moves on by one epoch at a time and forgets none.     *)

LEMMA NewEpoch ==
  ASSUME TypeOK, NEW members \in SUBSET Phones, roster' = Append(roster, members)
  PROVE  /\ roster' \in Seq(SUBSET Phones) /\ roster' # << >>
         /\ epoch \in Nat \ {0} /\ epoch' = epoch + 1 /\ member_device_ids' = members
         /\ \A e \in 1..epoch : e \in 1..epoch' /\ roster'[e] = roster[e]
         /\ Growths' \subseteq Growths \cup {epoch + 1}
         /\ members \subseteq member_device_ids => Growths' = Growths
<1>1. roster \in Seq(SUBSET Phones) /\ epoch \in Nat \ {0}
  BY DEF TypeOK, epoch
<1>2. /\ roster' \in Seq(SUBSET Phones) /\ roster' # << >> /\ epoch' = epoch + 1
      /\ roster'[epoch + 1] = members /\ \A e \in 1..epoch : roster'[e] = roster[e]
  BY <1>1 DEF epoch
<1>3. \A e \in 1..epoch : e \in 1..epoch'
  BY <1>1, <1>2
<1>4. \A e \in 2..epoch' : e = epoch + 1 \/ (e \in 2..epoch /\ e - 1 \in 1..epoch /\ e \in 1..epoch)
  BY <1>1, <1>2
<1>5. \A e \in 2..epoch : e \in 2..epoch' /\ e \in 1..epoch /\ e - 1 \in 1..epoch
  BY <1>1, <1>2
<1>6. Growths' \subseteq Growths \cup {epoch + 1}
  BY <1>2, <1>4 DEF Growths
<1>7. Growths \subseteq Growths'
  BY <1>2, <1>5 DEF Growths
<1>8. ASSUME members \subseteq member_device_ids PROVE epoch + 1 \notin Growths'
  <2>1. (epoch + 1) - 1 = epoch /\ epoch \in 1..epoch
    BY <1>1
  <2> QED
    BY <1>2, <1>8, <2>1 DEF Growths, member_device_ids
<1> QED
  BY <1>1, <1>2, <1>3, <1>6, <1>7, <1>8 DEF member_device_ids

(* What a frame says of an epoch stays true.                                *)
LEMMA StaysGenuine ==
  ASSUME NEW frame, Genuine(frame), \A e \in 1..epoch : e \in 1..epoch' /\ roster'[e] = roster[e]
  PROVE  Genuine(frame)'
  BY DEF Genuine

LEMMA Fields ==
  ASSUME NEW frame \in Frames
  PROVE  /\ frame.kind = "request" => frame.from \in Phones
         /\ frame.kind = "welcome" => frame.to \in Phones /\ frame.epoch \in Nat
         /\ frame.kind = "sealed" => /\ frame.from \in Phones /\ frame.epoch \in Nat
                                     /\ frame.n \in 1..MaxRequests /\ frame.body \in Requests
         /\ frame.kind = "answer" => /\ frame.n \in 1..MaxRequests /\ frame.epoch \in Nat
                                     /\ frame.gone \subseteq Phones
  BY DEF Frames

(* A frame that opens is of a phone that is in the group now.               *)
LEMMA OpenedIsCurrent ==
  ASSUME TypeOK, FrameInv, Opened
  PROVE  LET frame == Head(toHost) IN
         /\ serving /\ toHost # << >>
         /\ frame.from \in Phones /\ frame.n \in 1..MaxRequests /\ frame.body \in Requests
         /\ frame.from \in member_device_ids /\ frame.from \notin revoked
<1>1. /\ serving /\ toHost # << >> /\ Head(toHost) \in Sent \cap Frames
      /\ Head(toHost).kind = "sealed" /\ Head(toHost).epoch = epoch
  BY HostReceives DEF Opened
<1>2. Genuine(Head(toHost)) /\ revoked \cap member_device_ids = {}
  BY <1>1 DEF FrameInv
<1>3. Head(toHost).from \in roster[epoch]
  BY <1>1, <1>2 DEF Genuine
<1> QED
  BY <1>1, <1>2, <1>3, Fields DEF member_device_ids

LEMMA AnswersOne ==
  ASSUME TypeOK, FrameInv, Opened, NEW now \in Nat, NEW gone \in SUBSET Phones, Answers(now, gone)
  PROVE  /\ toHost' \in Seq(Frames) /\ toPhone' \in [Phones -> Seq(Frames)]
         /\ Sent' \subseteq Sent \cup {Answer(Head(toHost), now, gone)}
         /\ answered' \subseteq [by : Phones, n : 1..MaxRequests]
<1>1. /\ toHost # << >> /\ Head(toHost).from \in Phones /\ Head(toHost).n \in 1..MaxRequests
  BY OpenedIsCurrent
<1>2. Answer(Head(toHost), now, gone) \in Frames
  BY <1>1 DEF Answer, Frames
<1>3. answered' \subseteq [by : Phones, n : 1..MaxRequests]
  BY <1>1 DEF Answers, TypeOK
<1> QED
  BY <1>1, <1>2, <1>3, HostSendsOne DEF Answers

LEMMA AnswerGenuine ==
  ASSUME NEW frame, NEW now \in 1..epoch, NEW gone, gone \cap roster[now] = {}
  PROVE  Genuine(Answer(frame, now, gone))
  BY DEF Genuine, Answer

(* What a revocation does when it is made, and when it is not. *)
LEMMA RevokeEffect ==
  ASSUME TypeOK, FrameInv, Revoke
  PROVE  /\ Opened
         /\ \/ \E target \in member_device_ids :
                 /\ roster' = Append(roster, member_device_ids \ {target})
                 /\ Remove(target)
                 /\ revoked' = revoked \cup {target}
                 /\ Answers(epoch + 1, revoked')
            \/ Answers(epoch, revoked) /\ UNCHANGED << roster, grants, revoked >>
         /\ UNCHANGED << starts, serving, code, acted, phone >>
  BY DEF Revoke, remove_device

-----------------------------------------------------------------------------
(* The invariant                                                            *)

LEMMA InvInit == Init => Inv
<1> SUFFICES ASSUME Init PROVE Inv
  OBVIOUS
<1>1. PICK s \in Services :
        /\ code = s.code /\ roster = << s.members >> /\ grants = s.grants
        /\ stage = [p \in Phones |-> IF p \in s.members THEN "joined" ELSE "new"]
        /\ at = [p \in Phones |-> IF p \in s.members THEN 1 ELSE 0]
  BY DEF Init
<1>2. /\ s.code \in BOOLEAN /\ s.members \subseteq Phones /\ DOMAIN s.grants \subseteq Phones
      /\ \A p \in DOMAIN s.grants :
           s.grants[p].role \in Roles /\ s.grants[p].capabilities \subseteq Capabilities
      /\ MaxStarts \in Nat \ {0} /\ MaxPairings \in Nat /\ MaxRequests \in Nat
  BY TunnelAssumption DEF TunnelAssumption
<1>3. roster \in Seq(SUBSET Phones) /\ roster # << >> /\ epoch = 1 /\ roster[1] = s.members
  BY <1>1, <1>2 DEF epoch
<1>4. /\ starts = 1 /\ serving = TRUE
      /\ began = [p \in Phones |-> 0] /\ asked = [p \in Phones |-> 0]
      /\ toHost = << >> /\ toPhone = [p \in Phones |-> << >>]
      /\ revoked = {} /\ answered = {} /\ acted = {} /\ read = {}
  BY DEF Init
<1>5. TypeOK
  BY <1>1, <1>2, <1>3, <1>4 DEF TypeOK
<1>6. Sent = {}
  BY <1>4 DEF Sent, Range
<1>7. Growths = {}
  BY <1>3 DEF Growths
<1>8. MemberInv
  BY <1>1, <1>3 DEF MemberInv
<1>9. FrameInv
  BY <1>4, <1>6 DEF FrameInv
<1>10. CodeInv
  BY <1>3, <1>7 DEF CodeInv
<1>11. RevokedIsCutOff
  BY <1>4 DEF RevokedIsCutOff
<1>12. GrantBoundsEffects
  BY <1>1, <1>2, <1>4, PermittedIsBounded DEF GrantBoundsEffects, permitted, Endpoints
<1> QED
  BY <1>5, <1>8, <1>9, <1>10, <1>11, <1>12 DEF Inv

(* A new device is welcomed to the next epoch, in which it is a member, and *)
(* somebody who holds no grant is given the least one.                      *)
LEMMA PairEffect ==
  ASSUME TypeOK, Pair
  PROVE  \E p \in Phones :
           /\ roster' = Append(roster, member_device_ids \cup {p})
           /\ toHost' \in Seq(Frames) /\ toPhone' \in [Phones -> Seq(Frames)]
           /\ Sent' \subseteq Sent \cup {Welcome(p)}
           /\ revoked' = revoked \ {p}
           /\ DOMAIN grants' \subseteq Phones
           /\ \A d \in DOMAIN grants' :
                grants'[d] = newly_paired \/ (d \in DOMAIN grants /\ grants'[d] = grants[d])
           /\ serving /\ code /\ code' = FALSE
           /\ UNCHANGED << starts, serving, answered, acted, phone >>
<1> DEFINE p == Head(toHost).from
<1>1. serving /\ toHost # << >> /\ p \in Phones
  BY HostReceives, Fields DEF Pair
<1>2. roster \in Seq(SUBSET Phones) /\ roster # << >> /\ DOMAIN grants \subseteq Phones
  BY DEF TypeOK
<1>3. epoch \in Nat /\ member_device_ids \subseteq Phones
  BY <1>2 DEF epoch, member_device_ids
<1>4. Welcome(p) \in Frames
  BY <1>1, <1>3 DEF Welcome, Frames
<1>5. HostSends(Welcome(p)) /\ add_device(p) /\ code /\ code' = FALSE
      /\ revoked' = revoked \ {p}
      /\ UNCHANGED << starts, serving, answered, acted, phone >>
  BY DEF Pair
<1>6. /\ DOMAIN grants' \subseteq Phones
      /\ \A d \in DOMAIN grants' :
           grants'[d] = newly_paired \/ (d \in DOMAIN grants /\ grants'[d] = grants[d])
  <2>1. UNCHANGED grants \/ \E d \in Phones : Set(d, newly_paired)
    BY <1>1, <1>3 DEF Pair, Ungranted
  <2> QED
    BY <1>2, <2>1 DEF Set
<1> QED
  BY <1>1, <1>4, <1>5, <1>6, HostSendsOne DEF add_device

LEMMA TypeNext == Inv /\ [Next]_vars => TypeOK'
<1> SUFFICES ASSUME Inv, [Next]_vars PROVE TypeOK'
  OBVIOUS
<1>0. TypeOK /\ FrameInv /\ MaxStarts \in Nat \ {0} /\ MaxPairings \in Nat /\ MaxRequests \in Nat
  BY TunnelAssumption DEF Inv, TunnelAssumption
<1>1. roster \in Seq(SUBSET Phones) /\ epoch \in Nat \ {0} /\ member_device_ids \in SUBSET Phones
  BY <1>0 DEF TypeOK, epoch, member_device_ids
<1>2. ASSUME Pair PROVE TypeOK'
  <2>1. PICK p \in Phones :
           /\ roster' = Append(roster, member_device_ids \cup {p})
           /\ toHost' \in Seq(Frames) /\ toPhone' \in [Phones -> Seq(Frames)]
           /\ revoked' = revoked \ {p}
           /\ DOMAIN grants' \subseteq Phones
           /\ \A d \in DOMAIN grants' :
                grants'[d] = newly_paired \/ (d \in DOMAIN grants /\ grants'[d] = grants[d])
           /\ code' = FALSE
           /\ UNCHANGED << starts, serving, answered, acted, phone >>
    BY <1>0, <1>2, PairEffect
  <2>2. /\ roster' \in Seq(SUBSET Phones) /\ roster' # << >> /\ epoch' = epoch + 1
    BY <1>0, <1>1, <2>1, NewEpoch
  <2>3. /\ DOMAIN grants' \subseteq Phones
        /\ \A d \in DOMAIN grants' : grants'[d].role \in Roles /\ grants'[d].capabilities \subseteq Capabilities
    BY <1>0, <2>1 DEF TypeOK, newly_paired, Roles
  <2>4. at' \in [Phones -> 0..epoch'] /\ revoked' \subseteq Phones
    BY <1>0, <1>1, <2>1, <2>2 DEF TypeOK, phone
  <2> QED
    BY <1>0, <2>1, <2>2, <2>3, <2>4 DEF TypeOK, phone
<1>3. ASSUME RefusePairing \/ Ignore PROVE TypeOK'
  <2>1. HostKeepsSilent /\ toHost # << >> /\ UNCHANGED << host, phone >>
    BY <1>3 DEF RefusePairing, Ignore, Receives
  <2> QED
    BY <1>0, <2>1, HostTakesOne DEF TypeOK, host, phone, epoch
<1>4. ASSUME Revoke PROVE TypeOK'
  <2>1. UNCHANGED << starts, serving, code, acted, phone >> /\ Opened
    BY <1>0, <1>4, RevokeEffect
  <2>2. ASSUME NEW target \in member_device_ids,
               roster' = Append(roster, member_device_ids \ {target}), Remove(target),
               revoked' = revoked \cup {target}, Answers(epoch + 1, revoked')
        PROVE  TypeOK'
    <3>1. /\ roster' \in Seq(SUBSET Phones) /\ roster' # << >> /\ epoch' = epoch + 1
      BY <1>0, <1>1, <2>2, NewEpoch
    <3>2. /\ DOMAIN grants' \subseteq Phones
          /\ \A d \in DOMAIN grants' : grants'[d].role \in Roles /\ grants'[d].capabilities \subseteq Capabilities
      BY <1>0, <2>2 DEF TypeOK, Remove, Restrict
    <3>3. at' \in [Phones -> 0..epoch'] /\ revoked' \in SUBSET Phones /\ epoch + 1 \in Nat
      BY <1>0, <1>1, <2>1, <2>2, <3>1 DEF TypeOK, phone
    <3>4. /\ toHost' \in Seq(Frames) /\ toPhone' \in [Phones -> Seq(Frames)]
          /\ answered' \subseteq [by : Phones, n : 1..MaxRequests]
      BY <1>0, <2>1, <2>2, <3>3, AnswersOne
    <3> QED
      BY <1>0, <2>1, <3>1, <3>2, <3>3, <3>4 DEF TypeOK, phone
  <2>3. ASSUME Answers(epoch, revoked), UNCHANGED << roster, grants, revoked >> PROVE TypeOK'
    <3>1. /\ toHost' \in Seq(Frames) /\ toPhone' \in [Phones -> Seq(Frames)]
          /\ answered' \subseteq [by : Phones, n : 1..MaxRequests]
      BY <1>0, <1>1, <2>1, <2>3, AnswersOne DEF TypeOK
    <3> QED
      BY <1>0, <2>1, <2>3, <3>1 DEF TypeOK, phone, epoch
  <2> QED
    BY <1>0, <1>4, <2>2, <2>3, RevokeEffect
<1>5. ASSUME Handle PROVE TypeOK'
  <2>1. Opened /\ Answers(epoch, revoked) /\ UNCHANGED << starts, serving, code, roster, grants, revoked, phone >>
    BY <1>5 DEF Handle
  <2>2. /\ toHost' \in Seq(Frames) /\ toPhone' \in [Phones -> Seq(Frames)]
        /\ answered' \subseteq [by : Phones, n : 1..MaxRequests]
    BY <1>0, <1>1, <2>1, AnswersOne DEF TypeOK
  <2> QED
    BY <1>0, <2>1, <2>2 DEF TypeOK, phone, epoch
<1>6. ASSUME RouteEnds PROVE TypeOK'
  <2>1. toHost' \in Seq(Frames) /\ serving' \in BOOLEAN
    <3>1. toHost' = << >> /\ serving' = FALSE
      BY <1>6 DEF RouteEnds
    <3>2. << >> \in Seq(Frames)
      OBVIOUS
    <3> QED
      BY <3>1, <3>2
  <2>2. epoch' = epoch
    BY <1>6 DEF RouteEnds, epoch
  <2>3. UNCHANGED << starts, code, roster, grants, revoked, answered, toPhone, stage, at, began, asked >>
    BY <1>6 DEF RouteEnds, phone
  <2> QED
    BY <1>0, <2>1, <2>2, <2>3 DEF TypeOK
<1>7. ASSUME Restart PROVE TypeOK'
  <2>1. roster' \in Seq(SUBSET Phones) /\ roster' # << >> /\ epoch' = 1
    BY <1>7 DEF Restart, create, epoch
  <2>2. DOMAIN grants' = {} /\ starts' \in 1..MaxStarts
    BY <1>0, <1>7 DEF Restart, TypeOK
  <2>3. /\ toPhone' \in [Phones -> Seq(Frames)] /\ at' \in [Phones -> 0..epoch']
        /\ stage' \in [Phones -> {"new", "pending", "spent", "joined"}]
    BY <1>0, <1>7, <2>1 DEF Restart, TypeOK
  <2> QED
    BY <1>0, <1>7, <2>1, <2>2, <2>3 DEF Restart, TypeOK
<1>8. ASSUME NEW p \in Phones, StartPairing(p) PROVE TypeOK'
  <2>1. PICK right \in BOOLEAN : PhoneSends(p, Request(p, right))
    BY <1>8 DEF StartPairing
  <2>2. Request(p, right) \in Frames
    BY DEF Request, Frames
  <2>3. toHost' \in Seq(Frames) /\ toPhone' \in [Phones -> Seq(Frames)]
    BY <1>0, <2>1, <2>2, PhoneSendsOne
  <2>4. began' \in [Phones -> 0..MaxPairings]
    BY <1>0, <1>8 DEF StartPairing, TypeOK
  <2>5. stage' \in [Phones -> {"new", "pending", "spent", "joined"}]
    BY <1>0, <1>8 DEF StartPairing, TypeOK
  <2> QED
    BY <1>0, <1>8, <2>3, <2>4, <2>5 DEF StartPairing, TypeOK, host, epoch
<1>9. ASSUME NEW p \in Phones, AskHost(p) PROVE TypeOK'
  <2>1. PICK q \in Requests : PhoneSends(p, Sealed(p, asked[p] + 1, q))
    BY <1>9 DEF AskHost
  <2>2. asked[p] + 1 \in 1..MaxRequests /\ at[p] \in Nat
    BY <1>0, <1>1, <1>9 DEF AskHost, TypeOK
  <2>3. Sealed(p, asked[p] + 1, q) \in Frames
    BY <2>2 DEF Sealed, Frames
  <2>4. toHost' \in Seq(Frames) /\ toPhone' \in [Phones -> Seq(Frames)]
    BY <1>0, <2>1, <2>3, PhoneSendsOne
  <2>5. asked' \in [Phones -> 0..MaxRequests]
    BY <1>0, <1>9 DEF AskHost, TypeOK
  <2> QED
    BY <1>0, <1>9, <2>4, <2>5 DEF AskHost, TypeOK, host, epoch
<1>10. ASSUME NEW p \in Phones, Complete(p) PROVE TypeOK'
  <2>1. toHost' \in Seq(Frames) /\ toPhone' \in [Phones -> Seq(Frames)] /\ Head(toPhone[p]) \in Sent
    BY <1>0, <1>10, PhoneTakesOne DEF Complete
  <2>2. /\ UNCHANGED << host, began, asked >>
        /\ \/ UNCHANGED << stage, at >>
           \/ Head(toPhone[p]).kind = "welcome" /\ join(p, Head(toPhone[p]))
           \/ stage' = [stage EXCEPT ![p] = "spent"] /\ UNCHANGED at
    BY <1>10 DEF Complete
  <2>3. Head(toPhone[p]).kind = "welcome" => Head(toPhone[p]).epoch \in 1..epoch
    BY <1>0, <2>1 DEF FrameInv, Genuine
  <2>4. at' \in [Phones -> 0..epoch]
    <3>1. at \in [Phones -> 0..epoch]
      BY <1>0 DEF TypeOK
    <3>2. at' = at \/ \E e \in 0..epoch : at' = [at EXCEPT ![p] = e]
      BY <1>1, <2>2, <2>3 DEF join
    <3> QED
      BY <3>1, <3>2
  <2>5. stage' \in [Phones -> {"new", "pending", "spent", "joined"}]
    BY <1>0, <2>2 DEF join, TypeOK
  <2> QED
    BY <1>0, <2>1, <2>2, <2>4, <2>5 DEF TypeOK, host, epoch
<1>11. ASSUME NEW p \in Phones, Open(p) PROVE TypeOK'
  <2>1. toHost' \in Seq(Frames) /\ toPhone' \in [Phones -> Seq(Frames)]
    BY <1>0, <1>11, PhoneTakesOne DEF Open
  <2> QED
    BY <1>0, <1>11, <2>1 DEF Open, TypeOK, host, epoch
<1>12. CASE UNCHANGED vars
  BY <1>0, <1>12 DEF vars, TypeOK, epoch
<1> QED
  BY <1>2, <1>3, <1>4, <1>5, <1>6, <1>7, <1>8, <1>9, <1>10, <1>11, <1>12
     DEF Next, HostStep, PhoneStep

(* A phone holds a session of an epoch only as a member: by its welcome.    *)
LEMMA MemberNext == Inv /\ [Next]_vars => MemberInv'
<1> SUFFICES ASSUME Inv, [Next]_vars PROVE MemberInv'
  OBVIOUS
<1>0. TypeOK /\ FrameInv /\ MemberInv
  BY DEF Inv
<1>1. /\ roster \in Seq(SUBSET Phones) /\ member_device_ids \in SUBSET Phones
      /\ at \in [Phones -> 0..epoch] /\ epoch \in Nat
      /\ stage \in [Phones -> {"new", "pending", "spent", "joined"}]
  BY <1>0 DEF TypeOK, epoch, member_device_ids
<1>2. ASSUME UNCHANGED << stage, at >>, \A e \in 1..epoch : roster'[e] = roster[e] PROVE MemberInv'
  BY <1>0, <1>1, <1>2 DEF MemberInv
<1>3. ASSUME NEW members \in SUBSET Phones, roster' = Append(roster, members), UNCHANGED << stage, at >>
      PROVE  MemberInv'
  BY <1>0, <1>2, <1>3, NewEpoch
<1>4. ASSUME Pair PROVE MemberInv'
  <2>1. PICK p \in Phones : roster' = Append(roster, member_device_ids \cup {p}) /\ UNCHANGED phone
    BY <1>0, <1>4, PairEffect
  <2> QED
    BY <1>1, <1>3, <2>1 DEF phone
<1>5. ASSUME Revoke PROVE MemberInv'
  BY <1>0, <1>1, <1>2, <1>3, <1>5, RevokeEffect DEF phone
<1>6. ASSUME RefusePairing \/ Ignore \/ Handle \/ RouteEnds PROVE MemberInv'
  BY <1>2, <1>6 DEF RefusePairing, Ignore, Handle, RouteEnds, host, phone
<1>7. ASSUME Restart PROVE MemberInv'
  BY <1>7 DEF Restart, MemberInv
<1>8. ASSUME NEW p \in Phones, StartPairing(p) PROVE MemberInv'
  <2>1. UNCHANGED << at, roster >> /\ \A d \in Phones : stage'[d] = "joined" => stage[d] = "joined"
    BY <1>1, <1>8 DEF StartPairing, host
  <2> QED
    BY <1>0, <2>1 DEF MemberInv
<1>9. ASSUME NEW p \in Phones, AskHost(p) \/ Open(p) PROVE MemberInv'
  BY <1>2, <1>9 DEF AskHost, Open, host
<1>10. ASSUME NEW p \in Phones, Complete(p) PROVE MemberInv'
  <2>1. roster' = roster /\ \A d \in Phones \ {p} : stage'[d] = stage[d] /\ at'[d] = at[d]
    BY <1>1, <1>10 DEF Complete, join, host
  <2>2. /\ Genuine(Head(toPhone[p]))
        /\ \/ stage'[p] = stage[p] /\ at'[p] = at[p]
           \/ stage'[p] = "spent"
           \/ /\ Head(toPhone[p]).kind = "welcome" /\ Head(toPhone[p]).to = p
              /\ at'[p] = Head(toPhone[p]).epoch
    BY <1>0, <1>1, <1>10, PhoneTakesOne DEF Complete, join, FrameInv
  <2>3. stage'[p] = "joined" /\ at'[p] > 0 => p \in roster[at'[p]]
    BY <1>0, <2>2 DEF Genuine, MemberInv
  <2> QED
    BY <1>0, <2>1, <2>3 DEF MemberInv
<1>11. CASE UNCHANGED vars
  BY <1>2, <1>11 DEF vars
<1> QED
  BY <1>4, <1>5, <1>6, <1>7, <1>8, <1>9, <1>10, <1>11 DEF Next, HostStep, PhoneStep

(* Every frame that is sent is genuine, and whoever is revoked is out of    *)
(* the group.                                                               *)
LEMMA FrameNext == Inv /\ [Next]_vars => FrameInv'
<1> SUFFICES ASSUME Inv, [Next]_vars PROVE FrameInv'
  OBVIOUS
<1>0. TypeOK /\ FrameInv /\ MemberInv
  BY DEF Inv
<1>1. /\ roster \in Seq(SUBSET Phones) /\ epoch \in Nat \ {0} /\ member_device_ids \in SUBSET Phones
      /\ revoked \in SUBSET Phones /\ at \in [Phones -> 0..epoch]
  BY <1>0 DEF TypeOK, epoch, member_device_ids
<1>2. ASSUME \A e \in 1..epoch : e \in 1..epoch' /\ roster'[e] = roster[e],
             NEW frame, Sent' \subseteq Sent \cup {frame}, Genuine(frame)'
      PROVE  \A f \in Sent' : Genuine(f)'
  BY <1>0, <1>2, StaysGenuine DEF FrameInv
<1>3. ASSUME Sent' \subseteq Sent, UNCHANGED roster PROVE \A f \in Sent' : Genuine(f)'
  BY <1>0, <1>3 DEF FrameInv, Genuine, epoch
<1>4. ASSUME UNCHANGED << roster, revoked >> PROVE revoked' \cap member_device_ids' = {}
  BY <1>0, <1>4 DEF FrameInv, member_device_ids, epoch
<1>5. ASSUME Pair PROVE FrameInv'
  <2>1. PICK p \in Phones :
           /\ roster' = Append(roster, member_device_ids \cup {p})
           /\ Sent' \subseteq Sent \cup {Welcome(p)} /\ revoked' = revoked \ {p} /\ serving' = TRUE
    BY <1>0, <1>5, PairEffect
  <2>2. member_device_ids \cup {p} \in SUBSET Phones
    BY <1>1
  <2>3. /\ epoch' = epoch + 1 /\ member_device_ids' = member_device_ids \cup {p}
        /\ \A e \in 1..epoch : e \in 1..epoch' /\ roster'[e] = roster[e]
    BY <1>0, <2>1, <2>2, NewEpoch
  <2>4. PICK frame : frame = Welcome(p)
    OBVIOUS
  <2>5. Genuine(frame)'
    BY <1>1, <2>3, <2>4 DEF Genuine, Welcome, member_device_ids
  <2> QED
    BY <1>0, <1>2, <2>1, <2>3, <2>4, <2>5 DEF FrameInv
<1>6. ASSUME RefusePairing \/ Ignore PROVE FrameInv'
  <2>1. HostKeepsSilent /\ serving /\ toHost # << >> /\ UNCHANGED << host, phone >>
    BY <1>6 DEF RefusePairing, Ignore, Receives
  <2> QED
    BY <1>0, <1>3, <1>4, <2>1, HostTakesOne DEF FrameInv, host
<1>7. ASSUME Revoke PROVE FrameInv'
  <2>1. Opened /\ serving /\ UNCHANGED serving
    BY <1>0, <1>7, RevokeEffect, OpenedIsCurrent
  <2>2. ASSUME NEW target \in member_device_ids,
               roster' = Append(roster, member_device_ids \ {target}),
               revoked' = revoked \cup {target}, Answers(epoch + 1, revoked')
        PROVE  FrameInv'
    <3>1. /\ epoch' = epoch + 1 /\ member_device_ids' = member_device_ids \ {target}
          /\ \A e \in 1..epoch : e \in 1..epoch' /\ roster'[e] = roster[e]
      BY <1>0, <1>1, <2>2, NewEpoch
    <3>2. Sent' \subseteq Sent \cup {Answer(Head(toHost), epoch + 1, revoked')}
      BY <1>0, <1>1, <2>1, <2>2, AnswersOne
    <3>3. revoked' \cap member_device_ids' = {}
      BY <1>0, <2>2, <3>1 DEF FrameInv
    <3>4. PICK frame : frame = Answer(Head(toHost), epoch + 1, revoked')
      OBVIOUS
    <3>5. Genuine(frame)'
      BY <1>1, <3>1, <3>3, <3>4 DEF Genuine, Answer, member_device_ids
    <3> QED
      BY <1>2, <2>1, <3>1, <3>2, <3>3, <3>4, <3>5 DEF FrameInv
  <2>3. ASSUME Answers(epoch, revoked), UNCHANGED << roster, grants, revoked >> PROVE FrameInv'
    <3>1. Sent' \subseteq Sent \cup {Answer(Head(toHost), epoch, revoked)}
      BY <1>0, <1>1, <2>1, <2>3, AnswersOne
    <3>2. PICK frame : frame = Answer(Head(toHost), epoch, revoked)
      OBVIOUS
    <3>3. Genuine(frame)'
      BY <1>0, <1>1, <2>3, <3>2 DEF Genuine, Answer, member_device_ids, FrameInv, epoch
    <3>4. \A f \in Sent' : Genuine(f)'
      BY <1>2, <2>3, <3>1, <3>2, <3>3 DEF epoch
    <3> QED
      BY <1>4, <2>1, <2>3, <3>4 DEF FrameInv
  <2> QED
    BY <1>0, <1>7, <2>2, <2>3, RevokeEffect
<1>8. ASSUME Handle PROVE FrameInv'
  <2>1. Opened /\ serving' = TRUE /\ Answers(epoch, revoked) /\ UNCHANGED << roster, revoked >>
    BY <1>0, <1>8, OpenedIsCurrent DEF Handle, TypeOK
  <2>2. Sent' \subseteq Sent \cup {Answer(Head(toHost), epoch, revoked)}
    BY <1>0, <1>1, <2>1, AnswersOne
  <2>3. PICK frame : frame = Answer(Head(toHost), epoch, revoked)
    OBVIOUS
  <2>4. Genuine(frame)'
    BY <1>0, <1>1, <2>1, <2>3 DEF Genuine, Answer, member_device_ids, FrameInv, epoch
  <2>5. \A f \in Sent' : Genuine(f)'
    BY <1>2, <2>1, <2>2, <2>3, <2>4 DEF epoch
  <2> QED
    BY <1>4, <2>1, <2>5 DEF FrameInv
<1>9. ASSUME RouteEnds PROVE FrameInv'
  <2>1. Sent' \subseteq Sent
    BY <1>9 DEF RouteEnds, Sent, Range
  <2> QED
    BY <1>3, <1>4, <1>9, <2>1 DEF RouteEnds, FrameInv
<1>10. ASSUME Restart PROVE FrameInv'
  <2>1. toHost' = << >> /\ toPhone' = [p \in Phones |-> << >>] /\ revoked' = {} /\ serving'
    BY <1>0, <1>10 DEF Restart, FrameInv
  <2>2. Sent' = {}
    BY <2>1 DEF Sent, Range
  <2> QED
    BY <2>1, <2>2 DEF FrameInv
<1>11. ASSUME NEW p \in Phones, StartPairing(p) PROVE FrameInv'
  <2>1. PICK right \in BOOLEAN : PhoneSends(p, Request(p, right))
    BY <1>11 DEF StartPairing
  <2>2. Request(p, right) \in Frames /\ Genuine(Request(p, right))'
    BY DEF Request, Frames, Genuine
  <2>3. Sent' \subseteq Sent \cup {Request(p, right)} /\ (serving \/ toHost' = toHost)
    BY <1>0, <2>1, <2>2, PhoneSendsOne
  <2> QED
    BY <1>0, <1>2, <1>4, <1>11, <2>2, <2>3 DEF StartPairing, host, FrameInv, epoch
<1>12. ASSUME NEW p \in Phones, AskHost(p) PROVE FrameInv'
  <2>1. PICK q \in Requests : PhoneSends(p, Sealed(p, asked[p] + 1, q))
    BY <1>12 DEF AskHost
  <2>2. asked[p] + 1 \in 1..MaxRequests /\ at[p] \in 1..epoch /\ p \in roster[at[p]]
    BY <1>0, <1>1, <1>12, TunnelAssumption DEF AskHost, TypeOK, MemberInv, TunnelAssumption
  <2>3. Sealed(p, asked[p] + 1, q) \in Frames
    BY <2>2 DEF Sealed, Frames
  <2>4. PICK frame : frame = Sealed(p, asked[p] + 1, q)
    OBVIOUS
  <2>5. Genuine(frame)'
    BY <1>12, <2>2, <2>4 DEF AskHost, host, Sealed, Genuine, epoch
  <2>6. Sent' \subseteq Sent \cup {Sealed(p, asked[p] + 1, q)} /\ (serving \/ toHost' = toHost)
    BY <1>0, <2>1, <2>3, PhoneSendsOne
  <2> QED
    BY <1>0, <1>2, <1>4, <1>12, <2>4, <2>5, <2>6 DEF AskHost, host, FrameInv, epoch
<1>13. ASSUME NEW p \in Phones, Complete(p) \/ Open(p) PROVE FrameInv'
  <2>1. Sent' \subseteq Sent /\ UNCHANGED << toHost, host >>
    BY <1>0, <1>13, PhoneTakesOne DEF Complete, Open
  <2> QED
    BY <1>0, <1>3, <1>4, <2>1 DEF FrameInv, host
<1>14. CASE UNCHANGED vars
  BY <1>0, <1>3, <1>4, <1>14 DEF vars, FrameInv, Sent
<1> QED
  BY <1>5, <1>6, <1>7, <1>8, <1>9, <1>10, <1>11, <1>12, <1>13, <1>14 DEF Next, HostStep, PhoneStep

(* The group grows while the code shows, in the step that closes the code.  *)
LEMMA CodeNext == Inv /\ [Next]_vars => CodeInv'
<1> SUFFICES ASSUME Inv, [Next]_vars PROVE CodeInv'
  OBVIOUS
<1>0. TypeOK /\ FrameInv /\ CodeInv
  BY DEF Inv
<1>1. epoch \in Nat \ {0} /\ member_device_ids \in SUBSET Phones
  BY <1>0 DEF TypeOK, epoch, member_device_ids
<1>2. ASSUME UNCHANGED << code, roster >> PROVE CodeInv'
  BY <1>0, <1>2 DEF CodeInv, Growths, epoch
<1>3. ASSUME Pair PROVE CodeInv'
  <2>1. PICK p \in Phones : roster' = Append(roster, member_device_ids \cup {p}) /\ code /\ code' = FALSE
    BY <1>0, <1>3, PairEffect
  <2>2. member_device_ids \cup {p} \in SUBSET Phones
    BY <1>1
  <2>3. epoch' = epoch + 1 /\ Growths' \subseteq Growths \cup {epoch + 1}
    BY <1>0, <2>1, <2>2, NewEpoch
  <2>4. Growths = {}
    BY <1>0, <2>1 DEF CodeInv
  <2> QED
    BY <1>1, <2>1, <2>3, <2>4 DEF CodeInv
<1>4. ASSUME Revoke PROVE CodeInv'
  <2>1. code' = code
    BY <1>0, <1>4, RevokeEffect
  <2>2. ASSUME NEW target \in member_device_ids, roster' = Append(roster, member_device_ids \ {target})
        PROVE  CodeInv'
    <3>0. member_device_ids \ {target} \in SUBSET Phones
      BY <1>1
    <3>1. epoch' = epoch + 1 /\ Growths' = Growths
      BY <1>0, <2>2, <3>0, NewEpoch
    <3>2. \A e \in 1..epoch : e \in 1..epoch'
      BY <1>1, <3>1
    <3> QED
      BY <1>0, <2>1, <3>1, <3>2 DEF CodeInv
  <2> QED
    BY <1>0, <1>2, <1>4, <2>1, <2>2, RevokeEffect
<1>5. ASSUME Restart PROVE CodeInv'
  <2>1. roster' = << {} >> /\ code' = TRUE
    BY <1>5 DEF Restart, create
  <2>2. epoch' = 1
    BY <2>1 DEF epoch
  <2>3. Growths' = {}
    BY <2>2 DEF Growths
  <2> QED
    BY <2>1, <2>3 DEF CodeInv
<1>6. ASSUME RefusePairing \/ Ignore \/ Handle \/ RouteEnds PROVE CodeInv'
  BY <1>2, <1>6 DEF RefusePairing, Ignore, Handle, RouteEnds, host
<1>7. ASSUME NEW p \in Phones, StartPairing(p) \/ AskHost(p) \/ Complete(p) \/ Open(p) PROVE CodeInv'
  BY <1>2, <1>7 DEF StartPairing, AskHost, Complete, Open, host
<1>8. CASE UNCHANGED vars
  BY <1>2, <1>8 DEF vars
<1> QED
  BY <1>3, <1>4, <1>5, <1>6, <1>7, <1>8 DEF Next, HostStep, PhoneStep

(* A session opens only frames of its epoch, and its phone was a member in  *)
(* it, which the revoked were not; so is the phone whose request the host   *)
(* opens.                                                                   *)
LEMMA RevokedNext == Inv /\ [Next]_vars => RevokedIsCutOff'
<1> SUFFICES ASSUME Inv, [Next]_vars PROVE RevokedIsCutOff'
  OBVIOUS
<1>0. TypeOK /\ FrameInv /\ MemberInv /\ RevokedIsCutOff
  BY DEF Inv
<1>1. ASSUME UNCHANGED << read, acted >> PROVE RevokedIsCutOff'
  BY <1>0, <1>1 DEF RevokedIsCutOff
<1>2. ASSUME Handle PROVE RevokedIsCutOff'
  <2>1. Head(toHost).from \notin revoked
    BY <1>0, <1>2, OpenedIsCurrent DEF Handle
  <2>2. read' = read /\ \A a \in acted' : a \in acted \/ a.late = (Head(toHost).from \in revoked)
    BY <1>2 DEF Handle, phone
  <2> QED
    BY <1>0, <2>1, <2>2 DEF RevokedIsCutOff
<1>3. ASSUME NEW p \in Phones, Open(p) PROVE RevokedIsCutOff'
  <2> DEFINE frame == Head(toPhone[p])
  <2>1. Genuine(frame) /\ acted' = acted
    BY <1>0, <1>3, PhoneTakesOne DEF Open, FrameInv, host
  <2>2. \/ read' = read
        \/ /\ stage[p] = "joined" /\ frame.epoch = at[p] /\ frame.kind = "answer"
           /\ read' = read \cup {[by |-> p, n |-> frame.n, gone |-> frame.gone]}
    BY <1>3 DEF Open
  <2>3. ASSUME stage[p] = "joined", frame.epoch = at[p], frame.kind = "answer"
        PROVE  p \notin frame.gone
    <3>1. at[p] \in 1..epoch
      BY <2>1, <2>3 DEF Genuine
    <3>2. at[p] > 0
      BY <3>1
    <3>3. p \in roster[at[p]]
      BY <1>0, <2>3, <3>2 DEF MemberInv
    <3> QED
      BY <2>1, <2>3, <3>3 DEF Genuine
  <2> HIDE DEF frame
  <2>4. \A r \in read' : r \in read \/ (r.by = p /\ r.gone = frame.gone /\ p \notin frame.gone)
    BY <2>2, <2>3
  <2> QED
    BY <1>0, <2>1, <2>4 DEF RevokedIsCutOff
<1>4. ASSUME Pair \/ Revoke PROVE RevokedIsCutOff'
  BY <1>1, <1>4 DEF Pair, Revoke, phone
<1>5. ASSUME RefusePairing \/ Ignore \/ RouteEnds \/ Restart PROVE RevokedIsCutOff'
  BY <1>1, <1>5 DEF RefusePairing, Ignore, RouteEnds, Restart, host, phone
<1>6. ASSUME NEW p \in Phones, StartPairing(p) \/ AskHost(p) \/ Complete(p) PROVE RevokedIsCutOff'
  BY <1>1, <1>6 DEF StartPairing, AskHost, Complete, host
<1>7. CASE UNCHANGED vars
  BY <1>1, <1>7 DEF vars
<1> QED
  BY <1>2, <1>3, <1>4, <1>5, <1>6, <1>7 DEF Next, HostStep, PhoneStep

(* Nothing is done beyond a grant, and every grant that is held is one the  *)
(* classification bounds.                                                   *)
LEMMA GrantNext == Inv /\ [Next]_vars => GrantBoundsEffects'
<1> SUFFICES ASSUME Inv, [Next]_vars PROVE GrantBoundsEffects'
  OBVIOUS
<1>0. TypeOK /\ TypeOK' /\ GrantBoundsEffects
  BY TypeNext DEF Inv
<1>1. \A p \in DOMAIN grants' : \A q \in Endpoints :
        permitted(grants', p, q) => Bounded(grants'[p], q)
  <2>1. ASSUME NEW p \in DOMAIN grants', NEW q \in Endpoints, permitted(grants', p, q)
        PROVE  Bounded(grants'[p], q)
    <3>1. grants'[p].role \in Roles /\ grants'[p].capabilities \subseteq Capabilities
      BY <1>0 DEF TypeOK
    <3>2. Serves(q) /\ authorize(grants'[p].role, grants'[p].capabilities, action_for(q))
      BY <2>1 DEF permitted, Endpoints
    <3> QED
      BY <3>1, <3>2, PermittedIsBounded
  <2> QED
    BY <2>1
<1>2. ASSUME UNCHANGED acted PROVE \A a \in acted' : Bounded(a.grant, a.request)
  BY <1>0, <1>2 DEF GrantBoundsEffects
<1>3. ASSUME Handle PROVE \A a \in acted' : Bounded(a.grant, a.request)
  <2> DEFINE p == Head(toHost).from
             q == Head(toHost).body
             deed == [by |-> p, grant |-> grants[p], request |-> q, late |-> p \in revoked]
  <2>1. \/ acted' = acted
        \/ permitted(grants, p, q) /\ Dispatches(Access, q) /\ acted' = acted \cup {deed}
    BY <1>3 DEF Handle
  <2>2. ASSUME permitted(grants, p, q), Dispatches(Access, q)
        PROVE  Bounded(grants[p], q)
    <3>1. grants[p].role \in Roles /\ grants[p].capabilities \subseteq Capabilities
      BY <1>0, <2>2 DEF TypeOK, permitted
    <3>2. Serves(q) /\ authorize(grants[p].role, grants[p].capabilities, action_for(q))
      BY <2>2 DEF permitted, Dispatches
    <3> QED
      BY <3>1, <3>2, PermittedIsBounded
  <2>3. deed.request = q /\ deed.grant = grants[p]
    OBVIOUS
  <2> HIDE DEF deed, p, q
  <2> QED
    BY <1>0, <2>1, <2>2, <2>3 DEF GrantBoundsEffects
<1>4. Handle \/ UNCHANGED acted
  <2>1. Pair \/ RefusePairing \/ Ignore \/ Revoke \/ RouteEnds \/ Restart => UNCHANGED acted
    BY DEF Pair, RefusePairing, Ignore, Revoke, RouteEnds, Restart, host
  <2>2. \A p \in Phones :
          StartPairing(p) \/ AskHost(p) \/ Complete(p) \/ Open(p) => UNCHANGED acted
    BY DEF StartPairing, AskHost, Complete, Open, host
  <2> QED
    BY <2>1, <2>2 DEF Next, HostStep, PhoneStep, vars
<1> QED
  BY <1>1, <1>2, <1>3, <1>4 DEF GrantBoundsEffects

THEOREM Invariance == Spec => []Inv
<1>1. Inv /\ [Next]_vars => Inv'
  BY TypeNext, MemberNext, FrameNext, CodeNext, RevokedNext, GrantNext DEF Inv
<1> QED
  BY <1>1, InvInit, PTL DEF Spec

THEOREM TypeCorrect == Spec => []TypeOK
<1>1. Inv => TypeOK
  BY DEF Inv
<1> QED
  BY <1>1, Invariance, PTL

(* A pairing code admits at most one device, and only in the step that      *)
(* closes it (serve_route).                                                 *)
THEOREM OneDevicePerCodeHolds == Spec => []OneDevicePerCode
<1>1. ASSUME CodeInv PROVE OneDevicePerCode
  <2>1. CASE code
    BY <1>1, <2>1, FS_EmptySet DEF CodeInv, OneDevicePerCode
  <2>2. CASE ~ code
    <3>1. PICK e : Growths \subseteq {e}
      BY <1>1, <2>2 DEF CodeInv
    <3>2. IsFiniteSet({e}) /\ Cardinality({e}) = 1
      BY FS_Singleton
    <3>3. Cardinality(Growths) <= 1
      BY <3>1, <3>2, FS_Subset
    <3> QED
      BY <2>2, <3>3 DEF OneDevicePerCode
  <2> QED
    BY <2>1, <2>2
<1>2. Inv => OneDevicePerCode
  BY <1>1 DEF Inv
<1> QED
  BY <1>2, Invariance, PTL

(* A phone that was revoked reads no answer that was sealed afterwards, and *)
(* none of its requests reaches a handler (revoke, and the epochs of        *)
(* session.rs).                                                             *)
THEOREM RevokedIsCutOffHolds == Spec => []RevokedIsCutOff
<1>1. Inv => RevokedIsCutOff
  BY DEF Inv
<1> QED
  BY <1>1, Invariance, PTL

(* No handler touches what the grant of its caller excludes, but for the    *)
(* requests that are misclassified, of which a viewer has none and an       *)
(* operator only with the grant of global customization (action_for and     *)
(* authorize against the routes of build_router).                           *)
THEOREM GrantBoundsEffectsHolds == Spec => []GrantBoundsEffects
<1>1. Inv => GrantBoundsEffects
  BY DEF Inv
<1> QED
  BY <1>1, Invariance, PTL

================================================================================
