--------------------------- MODULE RelayRoutesProofs ---------------------------
(***************************************************************************)
(* Proofs about RelayRoutes, for every set of routes and connections, every *)
(* capacity of the channel and every number of frames.                      *)
(***************************************************************************)
EXTENDS RelayRoutes, TLAPS

LEMMA InvInit == Init => Inv
  BY DEF Init, Inv, TypeOK, CursorInv, UpgradeInv, GivenInv, Attached

LEMMA TypeNext == TypeOK /\ [Next]_vars => TypeOK'
<1> SUFFICES ASSUME TypeOK, [Next]_vars PROVE TypeOK'
  OBVIOUS
<1> USE RoutesAssumption DEF TypeOK, routes, cursor
<1>1. ASSUME NEW r \in Routes, Register(r) \/ AuthorizeRevocation(r) \/ Revoke(r) PROVE TypeOK'
  BY <1>1 DEF Register, AuthorizeRevocation, Revoke
<1>2. ASSUME NEW c \in Connections, NEW r \in Routes, Authorize(c, r) PROVE TypeOK'
  BY <1>2 DEF Authorize
<1>3. ASSUME NEW c \in Connections, Upgrade(c) PROVE TypeOK'
  BY <1>3 DEF Upgrade
<1>4. ASSUME NEW c \in Connections, Publish(c) PROVE TypeOK'
  BY <1>4 DEF Publish
<1>5. ASSUME NEW c \in Connections, ReaderEnds(c) PROVE TypeOK'
  BY <1>5 DEF ReaderEnds
<1>6. ASSUME NEW c \in Connections, Write(c) PROVE TypeOK'
  BY <1>6 DEF Write
<1>7. ASSUME NEW c \in Connections, WriterLags(c) \/ WriterFails(c) PROVE TypeOK'
  BY <1>7 DEF WriterLags, WriterFails
<1>8. CASE UNCHANGED vars
  BY <1>8 DEF vars
<1> QED
  BY <1>1, <1>2, <1>3, <1>4, <1>5, <1>6, <1>7, <1>8 DEF Next, WriterStep

(* A frame that is published stays at its place: what a connection has to   *)
(* be given of what its writer has passed is not changed by frames behind.  *)
LEMMA PublishedStays ==
  ASSUME TypeOK, CursorInv, NEW d \in Connections, Publish(d),
         NEW c \in Connections, Attached(c)
  PROVE  /\ Len(channel[route[c]]) <= Len(channel'[route[c]])
         /\ Foreign(c, pos[c])' = Foreign(c, pos[c])
<1> DEFINE old == channel[route[c]]
           new == channel'[route[c]]
<1>1. route[c] \in Routes /\ route[d] \in Routes
  BY DEF TypeOK, Attached, Publish
<1>2. old \in Seq(Connections) /\ channel[route[d]] \in Seq(Connections)
  BY <1>1 DEF TypeOK
<1>3. new = old \/ new = Append(old, d)
  BY <1>1 DEF TypeOK, Publish
<1>4. Len(old) <= Len(new) /\ \A i \in 1..Len(old) : new[i] = old[i]
  BY <1>2, <1>3
<1>5. start[c] \in Nat /\ pos[c] \in Nat /\ pos[c] <= Len(old)
  BY DEF TypeOK, CursorInv
<1>6. start'[c] = start[c] /\ pos'[c] = pos[c] /\ route'[c] = route[c]
  BY DEF Publish, cursor
<1>7. \A i \in (start[c] + 1)..pos[c] : new[i] = old[i]
  BY <1>2, <1>4, <1>5
<1> QED
  BY <1>4, <1>6, <1>7 DEF Foreign

(* What a writer takes is the next frame, and it is given to the peer       *)
(* unless it is the peer's own.                                             *)
LEMMA WriteGives ==
  ASSUME TypeOK, CursorInv, NEW c \in Connections, Write(c), Given(c)
  PROVE  Given(c)'
<1> DEFINE frames == channel[route[c]]
           next == pos[c] + 1
<1>1. /\ start[c] \in Nat /\ pos[c] \in Nat /\ start[c] <= pos[c]
      /\ pos'[c] = next /\ start'[c] = start[c] /\ channel' = channel /\ route' = route
  BY DEF TypeOK, CursorInv, Attached, Write
<1>2. got[c] \in Seq(Nat)
  BY DEF TypeOK
<1>3. \A i \in (start[c] + 1)..next : i = next \/ i \in (start[c] + 1)..pos[c]
  BY <1>1
<1>4. next \in (start[c] + 1)..next /\ \A i \in (start[c] + 1)..pos[c] : i < next /\ i \in (start[c] + 1)..next
  BY <1>1
<1>5. Foreign(c, pos[c])' = {i \in (start[c] + 1)..next : frames[i] # c}
  BY <1>1 DEF Foreign
<1>6. CASE frames[next] = c
  <2>1. Foreign(c, pos[c])' = Foreign(c, pos[c])
    BY <1>3, <1>4, <1>5, <1>6 DEF Foreign
  <2>2. got'[c] = got[c]
    BY <1>1, <1>6 DEF Write, TypeOK
  <2> QED
    BY <2>1, <2>2 DEF Given
<1>7. CASE frames[next] # c
  <2>1. Foreign(c, pos[c])' = Foreign(c, pos[c]) \cup {next}
    BY <1>3, <1>4, <1>5, <1>7 DEF Foreign
  <2>2. got'[c] = Append(got[c], next)
    BY <1>1, <1>7 DEF Write, TypeOK
  <2>3. /\ DOMAIN got'[c] = DOMAIN got[c] \cup {Len(got[c]) + 1}
        /\ got'[c][Len(got[c]) + 1] = next
        /\ \A k \in DOMAIN got[c] : got'[c][k] = got[c][k] /\ k < Len(got[c]) + 1
        /\ \A k \in DOMAIN got[c] : k \in Nat /\ got[c][k] \in Nat
    BY <1>2, <2>2
  <2>4. \A k \in DOMAIN got[c] : got[c][k] < next
    BY <1>4 DEF Given, Foreign
  <2>5. \A k \in DOMAIN got'[c] : got'[c][k] \in Foreign(c, pos[c])'
    BY <2>1, <2>3 DEF Given
  <2>6. \A i \in Foreign(c, pos[c])' : \E k \in DOMAIN got'[c] : got'[c][k] = i
    BY <2>1, <2>3 DEF Given
  <2>7. ASSUME NEW k \in DOMAIN got'[c], NEW l \in DOMAIN got'[c], k < l
        PROVE  got'[c][k] < got'[c][l]
    <3>1. k \in DOMAIN got[c]
      BY <1>2, <2>3, <2>7
    <3>2. CASE l \in DOMAIN got[c]
      BY <2>3, <2>7, <3>1, <3>2 DEF Given
    <3>3. CASE l = Len(got[c]) + 1
      BY <2>3, <2>4, <3>1, <3>3
    <3> QED
      BY <2>3, <3>2, <3>3
  <2> QED
    BY <2>5, <2>6, <2>7 DEF Given
<1> QED
  BY <1>6, <1>7

(* Every step keeps the invariant.  A writer that lags ends instead of      *)
(* taking a later frame, and the channel only grows.                        *)
LEMMA InvNext == Inv /\ [Next]_vars => Inv'
<1> SUFFICES ASSUME Inv, [Next]_vars PROVE Inv'
  OBVIOUS
<1>0. TypeOK /\ TypeOK' /\ CursorInv /\ UpgradeInv /\ GivenInv
  BY TypeNext DEF Inv
<1>1. ASSUME UNCHANGED << route, channel, start, pos, got >>,
             \A c \in Connections : phase'[c] \in {phase[c], "closed"}
      PROVE  CursorInv' /\ UpgradeInv' /\ GivenInv'
  BY <1>0, <1>1 DEF CursorInv, UpgradeInv, GivenInv, Given, Foreign, Attached
<1>2. ASSUME NEW r \in Routes, Register(r) \/ AuthorizeRevocation(r) \/ Revoke(r)
      PROVE  CursorInv' /\ UpgradeInv' /\ GivenInv'
  BY <1>1, <1>2 DEF Register, AuthorizeRevocation, Revoke, cursor
<1>3. ASSUME NEW c \in Connections, NEW r \in Routes, Authorize(c, r)
      PROVE  CursorInv' /\ UpgradeInv' /\ GivenInv'
  <2> USE <1>0, <1>3 DEF TypeOK, Authorize
  <2>1. CursorInv'
    BY DEF CursorInv, Attached
  <2>2. UpgradeInv'
    BY DEF UpgradeInv
  <2>3. GivenInv'
    BY DEF GivenInv, Given, Foreign
  <2> QED
    BY <2>1, <2>2, <2>3
<1>4. ASSUME NEW c \in Connections, Upgrade(c)
      PROVE  CursorInv' /\ UpgradeInv' /\ GivenInv'
  <2> USE <1>0, <1>4 DEF TypeOK, Upgrade, cursor
  <2>1. CursorInv'
    BY DEF CursorInv, Attached
  <2>2. UpgradeInv'
    BY DEF UpgradeInv
  <2>3. ASSUME NEW d \in Connections, d # c, phase'[d] = "open"
        PROVE  Given(d)'
    BY <2>3 DEF GivenInv, Given, Foreign
  <2>4. got[c] = << >> /\ pos[c] = start[c] /\ start[c] \in Nat
    BY DEF UpgradeInv
  <2>5. Given(c)'
    BY <2>4 DEF Given, Foreign
  <2> QED
    BY <2>1, <2>2, <2>3, <2>5 DEF GivenInv
<1>5. ASSUME NEW d \in Connections, Publish(d)
      PROVE  CursorInv' /\ UpgradeInv' /\ GivenInv'
  <2>1. UNCHANGED << phase, route, start, pos, got >>
    BY <1>5 DEF Publish, cursor
  <2>2. ASSUME NEW c \in Connections, Attached(c)'
        PROVE  start'[c] <= pos'[c] /\ pos'[c] <= Len(channel'[route'[c]])
    <3>1. Attached(c)
      BY <2>1, <2>2 DEF Attached
    <3>2. Len(channel[route[c]]) <= Len(channel'[route[c]])
      BY <1>0, <1>5, <3>1, PublishedStays
    <3>3. route[c] \in Routes
      BY <1>0, <3>1 DEF TypeOK, Attached
    <3>4. /\ Len(channel[route[c]]) \in Nat /\ Len(channel'[route[c]]) \in Nat
          /\ start[c] \in Nat /\ pos[c] \in Nat
      BY <1>0, <3>3 DEF TypeOK
    <3> QED
      BY <1>0, <2>1, <3>1, <3>2, <3>4 DEF CursorInv
  <2>3. UpgradeInv'
    BY <1>0, <2>1 DEF UpgradeInv
  <2>4. GivenInv'
    BY <1>0, <1>5, <2>1, PublishedStays DEF GivenInv, Given, Attached
  <2> QED
    BY <2>2, <2>3, <2>4 DEF CursorInv
<1>6. ASSUME NEW c \in Connections, ReaderEnds(c)
      PROVE  CursorInv' /\ UpgradeInv' /\ GivenInv'
  BY <1>0, <1>1, <1>6 DEF ReaderEnds, cursor, TypeOK
<1>7. ASSUME NEW c \in Connections, Write(c)
      PROVE  CursorInv' /\ UpgradeInv' /\ GivenInv'
  <2>1. UNCHANGED << phase, route, channel, start >> /\ phase[c] = "open"
    BY <1>0, <1>7 DEF Write, TypeOK
  <2>2. \A d \in Connections : d # c => pos'[d] = pos[d] /\ got'[d] = got[d]
    BY <1>0, <1>7 DEF Write, TypeOK
  <2>3. pos'[c] = pos[c] + 1 /\ pos[c] < Len(channel[route[c]])
    BY <1>0, <1>7 DEF Write, TypeOK
  <2>4. pos[c] \in Nat /\ start[c] \in Nat /\ Len(channel[route[c]]) \in Nat
    BY <1>0, <2>1 DEF TypeOK
  <2>5. CursorInv'
    BY <1>0, <2>1, <2>2, <2>3, <2>4 DEF CursorInv, Attached
  <2>6. UpgradeInv'
    BY <1>0, <2>1, <2>2 DEF UpgradeInv
  <2>7. Given(c)'
    BY <1>0, <1>7, <2>1, WriteGives DEF GivenInv
  <2>8. ASSUME NEW d \in Connections, d # c, phase'[d] = "open"
        PROVE  Given(d)'
    BY <1>0, <2>1, <2>2, <2>8 DEF GivenInv, Given, Foreign
  <2> QED
    BY <2>5, <2>6, <2>7, <2>8 DEF GivenInv
<1>8. ASSUME NEW c \in Connections, WriterLags(c) \/ WriterFails(c)
      PROVE  CursorInv' /\ UpgradeInv' /\ GivenInv'
  BY <1>1, <1>8 DEF WriterLags, WriterFails, cursor
<1>9. ASSUME UNCHANGED vars
      PROVE  CursorInv' /\ UpgradeInv' /\ GivenInv'
  BY <1>1, <1>9 DEF vars
<1> QED
  BY <1>0, <1>2, <1>3, <1>4, <1>5, <1>6, <1>7, <1>8, <1>9 DEF Inv, Next, WriterStep

(* The inductive invariant of the receivers.                                *)
THEOREM Invariance == Spec => []Inv
  BY InvInit, InvNext, PTL DEF Spec

(* Type correctness of the routes, the connections and the channels.        *)
THEOREM TypeCorrect == Spec => []TypeOK
<1>1. Inv => TypeOK
  BY DEF Inv
<1> QED
  BY <1>1, Invariance, PTL

(* A peer that keeps its connection misses no frame of another and gets all *)
(* in order (the subscription under the table's lock, and the Lagged arm of *)
(* the writer).                                                             *)
THEOREM NoGapHolds == Spec => []NoGap
<1>1. Inv => NoGap
  BY DEF Inv, GivenInv, Given, NoGap
<1> QED
  BY <1>1, Invariance, PTL

================================================================================
