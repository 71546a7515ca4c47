--------------------------- MODULE EventStreamProofs ---------------------------
(***************************************************************************)
(* Proofs about EventStream: for every ring, every limit of a page and any  *)
(* number of events, lost connections, restarts and reloads.                *)
(***************************************************************************)
EXTENDS EventStream, FiniteSetTheorems, SequenceTheorems, TLAPS

(* Sorting                                                                  *)

(* How many elements of a set come before one of them: ranks are those of   *)
(* no other element, and none is left out.                                  *)
LEMMA RanksAreUnique ==
  ASSUME NEW S \in SUBSET Nat, IsFiniteSet(S)
  PROVE  LET rank == [e \in S |-> Cardinality({d \in S : d < e}) + 1]
         IN  /\ \A e, f \in S : e < f => rank[e] < rank[f]
             /\ rank \in Surjection(S, 1..Cardinality(S))
<1> DEFINE Before(e) == {d \in S : d < e}
           rank == [e \in S |-> Cardinality(Before(e)) + 1]
           n == Cardinality(S)
<1>1. n \in Nat
  BY FS_CardinalityType
<1>2. ASSUME NEW e \in S
      PROVE  IsFiniteSet(Before(e)) /\ Cardinality(Before(e)) \in Nat
  BY FS_Subset, FS_CardinalityType
<1>3. ASSUME NEW e \in S
      PROVE  Cardinality(Before(e) \cup {e}) = Cardinality(Before(e)) + 1
  BY <1>2, FS_AddElement
<1>4. ASSUME NEW e \in S, NEW f \in S, e < f
      PROVE  rank[e] < rank[f]
  <2>1. Before(e) \cup {e} \in SUBSET Before(f)
    <3>1. \A d \in S : d < e \/ d = e => d < f
      BY <1>4
    <3> QED
      BY <3>1
  <2>2. Cardinality(Before(e) \cup {e}) <= Cardinality(Before(f))
    BY <1>2, <2>1, FS_Subset
  <2> QED
    BY <1>2, <1>3, <2>2
<1>5. ASSUME NEW e \in S
      PROVE  rank[e] \in 1..n
  <2>1. Before(e) \cup {e} \in SUBSET S
    OBVIOUS
  <2>2. Cardinality(Before(e) \cup {e}) <= n
    BY <2>1, FS_Subset
  <2> QED
    BY <1>1, <1>2, <1>3, <2>2
<1>6. rank \in [S -> 1..n]
  BY <1>5
<1>7. \A e, f \in S : rank[e] = rank[f] => e = f
  <2> SUFFICES ASSUME NEW e \in S, NEW f \in S, rank[e] = rank[f] PROVE e = f
    OBVIOUS
  <2>1. rank[e] \in Nat /\ rank[f] \in Nat
    BY <1>5, <1>1
  <2> HIDE DEF rank
  <2> QED
    BY <1>4, <2>1
<1>8. rank \in Injection(S, 1..n)
  <2> HIDE DEF rank
  <2> QED
    BY <1>6, <1>7 DEF Injection, IsInjective
<1>9. IsFiniteSet(1..n) /\ Cardinality(1..n) = n
  BY <1>1, FS_Interval
<1>10. rank \in Surjection(S, 1..n)
  <2> HIDE DEF rank
  <2> QED
    BY <1>8, <1>9, FS_Injection
<1> QED
  BY <1>4, <1>10

(* InOrder yields each element of a finite set once, the smaller ones first. *)
LEMMA Sorted ==
  ASSUME NEW S \in SUBSET Nat, IsFiniteSet(S)
  PROVE  /\ InOrder(S) \in Seq(S)
         /\ ToSet(InOrder(S)) = S
         /\ \A i, j \in DOMAIN InOrder(S) : i < j => InOrder(S)[i] < InOrder(S)[j]
<1> DEFINE rank == [e \in S |-> Cardinality({d \in S : d < e}) + 1]
           n == Cardinality(S)
           Increasing(seq) == \A i, j \in DOMAIN seq : i < j => seq[i] < seq[j]
<1>1. n \in Nat /\ IsFiniteSet(1..n) /\ Cardinality(1..n) = n
  BY FS_CardinalityType, FS_Interval
<1>2. /\ \A e, f \in S : e < f => rank[e] < rank[f]
      /\ rank \in Surjection(S, 1..n)
  BY RanksAreUnique
<1> HIDE DEF rank
<1>3. \E seq \in [1..n -> S] : Increasing(seq)
  <2> DEFINE seq == [i \in 1..n |-> CHOOSE e \in S : rank[e] = i]
  <2>1. \A i \in 1..n : seq[i] \in S /\ rank[seq[i]] = i
    BY <1>2 DEF Surjection
  <2>2. seq \in [1..n -> S]
    BY <2>1
  <2>3. ASSUME NEW i \in 1..n, NEW j \in 1..n, i < j
        PROVE  seq[i] < seq[j]
    <3> HIDE DEF seq
    <3>1. seq[i] \in Nat /\ seq[j] \in Nat
      BY <2>1
    <3>2. seq[j] < seq[i] => rank[seq[j]] < rank[seq[i]]
      BY <1>2, <2>1
    <3>3. ~ (seq[j] < seq[i])
      BY <1>1, <2>1, <2>3, <3>2
    <3>4. seq[i] # seq[j]
      BY <1>1, <2>1, <2>3
    <3> QED
      BY <3>1, <3>3, <3>4
  <2> HIDE DEF seq
  <2>4. Increasing(seq)
    BY <2>2, <2>3
  <2> QED
    BY <2>2, <2>4
<1>4. InOrder(S) \in [1..n -> S] /\ Increasing(InOrder(S))
  BY <1>3 DEF InOrder
<1> HIDE DEF n
<1>5. \A i, j \in 1..n : InOrder(S)[i] = InOrder(S)[j] => i = j
  <2> SUFFICES ASSUME NEW i \in 1..n, NEW j \in 1..n, InOrder(S)[i] = InOrder(S)[j]
               PROVE  i = j
    OBVIOUS
  <2>1. InOrder(S)[i] \in Nat
    BY <1>4
  <2> QED
    BY <1>1, <1>4, <2>1
<1>6. InOrder(S) \in Injection(1..n, S)
  BY <1>4, <1>5 DEF Injection, IsInjective
<1>7. InOrder(S) \in Surjection(1..n, S)
  BY <1>1, <1>6, FS_Injection DEF n
<1>8. ToSet(InOrder(S)) = S
  BY <1>4, <1>7 DEF Surjection, ToSet
<1>9. InOrder(S) \in Seq(S)
  BY <1>1, <1>4
<1> QED
  BY <1>4, <1>8, <1>9

LEMMA EventsSorted ==
  ASSUME NEW n \in Nat, NEW S \in SUBSET (1..n)
  PROVE  /\ InOrder(S) \in Seq(1..n)
         /\ ToSet(InOrder(S)) = S
         /\ \A i, j \in DOMAIN InOrder(S) : i < j => InOrder(S)[i] < InOrder(S)[j]
<1>1. IsFiniteSet(1..n)
  BY FS_Interval
<1>2. IsFiniteSet(S) /\ S \in SUBSET Nat
  <2>1. IsFiniteSet(S)
    BY <1>1, FS_Subset
  <2>2. S \in SUBSET Nat
    OBVIOUS
  <2> QED
    BY <2>1, <2>2
<1>3. /\ InOrder(S) \in Seq(S)
      /\ ToSet(InOrder(S)) = S
      /\ \A i, j \in DOMAIN InOrder(S) : i < j => InOrder(S)[i] < InOrder(S)[j]
  BY <1>2, Sorted
<1>4. InOrder(S) \in Seq(1..n)
  BY <1>3, SeqMonotonic
<1> QED
  BY <1>3, <1>4

-----------------------------------------------------------------------------
(* What the steps do to what is read of the state                           *)

LEMMA InvInit == Init => Inv
<1> SUFFICES ASSUME Init PROVE Inv
  OBVIOUS
<1>1. TypeOK
  <2>1. /\ sent \in Seq(1..logged) /\ page \in Seq(1..logged)
        /\ wire \in Seq(1..logged \cup {Replay})
    BY EmptySeq DEF Init
  <2>2. 0 \in 0..MaxEvents /\ 0 \in 0..MaxDrops /\ 0 \in 0..MaxReloads
    BY StreamAssumption DEF StreamAssumption
  <2> QED
    BY <2>1, <2>2 DEF Init, TypeOK
<1>2. SnapshotInv /\ PageInLogOrder /\ NoSilentLoss
  BY DEF Init, SnapshotInv, PageInLogOrder, NoSilentLoss, ToSet
<1> QED
  BY <1>1, <1>2 DEF Inv

(* A sequence of logged events stays one when the log grows. *)
LEMMA LogGrows ==
  ASSUME TypeOK, logged' \in Nat, logged <= logged'
  PROVE  /\ sent \in Seq(1..logged') /\ page \in Seq(1..logged')
         /\ wire \in Seq(1..logged' \cup {Replay})
<1>1. 1..logged \subseteq 1..logged'
  BY DEF TypeOK
<1>2. 1..logged \cup {Replay} \subseteq 1..logged' \cup {Replay}
  BY <1>1
<1>3. sent \in Seq(1..logged) /\ page \in Seq(1..logged) /\ wire \in Seq(1..logged \cup {Replay})
  BY DEF TypeOK
<1> QED
  BY <1>1, <1>2, <1>3, SeqMonotonic

LEMMA ForwardedIsLogged ==
  ASSUME TypeOK, link = "open"
  PROVE  Handed \subseteq 1..logged
<1>1. \A i \in (from + 1)..pos : i \in 1..Len(sent)
  BY DEF TypeOK
<1> QED
  BY <1>1, ElementOfSeq DEF TypeOK, Handed

LEMMA ToSetTyped ==
  ASSUME NEW S, NEW seq \in Seq(S)
  PROVE  /\ ToSet(seq) \subseteq S
         /\ \A e \in S : ToSet(Append(seq, e)) = ToSet(seq) \cup {e}
         /\ seq # << >> => ToSet(seq) = {Head(seq)} \cup ToSet(Tail(seq))
<1>1. ToSet(seq) = {seq[i] : i \in 1..Len(seq)}
  BY LenProperties DEF ToSet
<1>2. ToSet(seq) \subseteq S
  BY <1>1, ElementOfSeq
<1>3. ASSUME NEW e \in S
      PROVE  ToSet(Append(seq, e)) = ToSet(seq) \cup {e}
  <2>1. /\ Append(seq, e) \in Seq(S) /\ Len(Append(seq, e)) = Len(seq) + 1 /\ Len(seq) \in Nat
        /\ \A i \in 1..Len(seq) : Append(seq, e)[i] = seq[i]
        /\ Append(seq, e)[Len(seq) + 1] = e
    OBVIOUS
  <2>2. ToSet(Append(seq, e)) = {Append(seq, e)[i] : i \in 1..(Len(seq) + 1)}
    BY <2>1, LenProperties DEF ToSet
  <2>3. 1..(Len(seq) + 1) = 1..Len(seq) \cup {Len(seq) + 1}
    BY <2>1
  <2> QED
    BY <1>1, <2>1, <2>2, <2>3
<1>4. ASSUME seq # << >>
      PROVE  ToSet(seq) = {Head(seq)} \cup ToSet(Tail(seq))
  <2>1. /\ Tail(seq) \in Seq(S) /\ Len(Tail(seq)) = Len(seq) - 1
        /\ \A i \in 1..Len(Tail(seq)) : Tail(seq)[i] = seq[i + 1]
    BY <1>4, HeadTailProperties
  <2>2. Head(seq) = seq[1] /\ Len(seq) \in Nat \ {0}
    BY <1>4, EmptySeq
  <2>3. ToSet(Tail(seq)) = {Tail(seq)[i] : i \in 1..Len(Tail(seq))}
    BY <2>1, LenProperties DEF ToSet
  <2>4. \A i \in 1..Len(seq) : i = 1 \/ (i - 1 \in 1..Len(Tail(seq)) /\ Tail(seq)[i - 1] = seq[i])
    BY <2>1, <2>2
  <2>5. \A i \in 1..Len(Tail(seq)) : i + 1 \in 1..Len(seq)
    BY <2>1, <2>2
  <2>6. ToSet(seq) \subseteq {Head(seq)} \cup ToSet(Tail(seq))
    BY <1>1, <2>2, <2>3, <2>4
  <2>7. {Head(seq)} \cup ToSet(Tail(seq)) \subseteq ToSet(seq)
    <3>1. \A i \in 1..Len(Tail(seq)) : Tail(seq)[i] \in ToSet(seq)
      BY <1>1, <2>1, <2>5
    <3> QED
      BY <1>1, <2>2, <2>3, <3>1
  <2> QED
    BY <2>6, <2>7
<1> QED
  BY <1>2, <1>3, <1>4

(* What merging a live event does to the page. *)
LEMMA Merged ==
  ASSUME TypeOK, PageInLogOrder, NEW e \in 1..logged
  PROVE  /\ appendLiveEvent(e) \in Seq(1..logged)
         /\ ToSet(appendLiveEvent(e)) = ToSet(page) \cup {e}
         /\ \A i, j \in DOMAIN appendLiveEvent(e) :
              i < j => appendLiveEvent(e)[i] < appendLiveEvent(e)[j]
<1>1. CASE e \in ToSet(page)
  BY <1>1 DEF appendLiveEvent, TypeOK, PageInLogOrder
<1>2. CASE e \notin ToSet(page)
  <2>1. logged \in Nat /\ page \in Seq(1..logged)
    BY DEF TypeOK
  <2>2. ToSet(page) \cup {e} \in SUBSET (1..logged)
    BY <2>1, ToSetTyped
  <2>3. appendLiveEvent(e) = InOrder(ToSet(page) \cup {e})
    BY <1>2 DEF appendLiveEvent
  <2> QED
    BY <2>1, <2>2, <2>3, EventsSorted
<1> QED
  BY <1>1, <1>2

LEMMA FirstOnesAreOf == \A S : FirstOnes(S) \subseteq S
  BY DEF FirstOnes

-----------------------------------------------------------------------------
(* Types                                                                    *)

LEMMA TypeNext == Inv /\ [Next]_vars => TypeOK'
<1> SUFFICES ASSUME Inv, [Next]_vars PROVE TypeOK'
  OBVIOUS
<1>0. TypeOK /\ PageInLogOrder
  BY DEF Inv
<1> USE DEF TypeOK, host, socket, screen
<1>1. ASSUME NEW own \in BOOLEAN, AppendEvent(own)
      PROVE  TypeOK'
  <2>1. logged' = logged + 1 /\ logged' \in 0..MaxEvents /\ logged \in Nat
    BY <1>0, <1>1, StreamAssumption DEF AppendEvent, StreamAssumption
  <2>2. /\ sent' \in Seq(1..logged') /\ page' \in Seq(1..logged')
        /\ wire' \in Seq(1..logged' \cup {Replay})
    BY <1>0, <1>1, <2>1, LogGrows DEF AppendEvent
  <2>3. 1..logged' = 1..logged \cup {logged'}
    BY <2>1
  <2>4. /\ mine' \subseteq 1..logged' /\ unsent' \subseteq 1..logged'
        /\ snapshot' \subseteq 1..logged' /\ lost' \subseteq 1..logged'
    BY <1>0, <1>1, <2>3 DEF AppendEvent
  <2> QED
    BY <1>0, <1>1, <2>1, <2>2, <2>4 DEF AppendEvent
<1>2. ASSUME NEW e \in Events, Broadcast(e)
      PROVE  TypeOK'
  <2>1. sent' \in Seq(1..logged') /\ Len(sent') = Len(sent) + 1 /\ Len(sent) \in Nat
    BY <1>0, <1>2 DEF Broadcast
  <2> QED
    BY <1>0, <1>2, <2>1 DEF Broadcast
<1>3. CASE ForwardEvent
  <2>1. pos + 1 \in 1..Len(sent)
    BY <1>0, <1>3 DEF ForwardEvent
  <2>2. sent[pos + 1] \in 1..logged
    BY <1>0, <2>1, ElementOfSeq
  <2>3. wire' \in Seq(1..logged' \cup {Replay})
    BY <1>0, <1>3, <2>2 DEF ForwardEvent
  <2> QED
    BY <1>0, <1>3, <2>1, <2>3 DEF ForwardEvent
<1>4. CASE ForwardLag
  <2>1. /\ Len(sent) \in Nat /\ Ring \in Nat /\ from \in Nat /\ pos \in Nat
        /\ from <= pos /\ pos <= Len(sent) /\ Len(sent) - pos > Ring
    BY <1>0, <1>4, StreamAssumption, LenProperties DEF ForwardLag, Behind, StreamAssumption
  <2>2. pos' \in Nat /\ from <= pos' /\ pos' <= Len(sent)
    BY <1>4, <2>1 DEF ForwardLag
  <2>3. wire' \in Seq(1..logged' \cup {Replay})
    BY <1>0, <1>4 DEF ForwardLag
  <2> QED
    BY <1>0, <1>4, <2>2, <2>3 DEF ForwardLag
<1>5. CASE Connect
  <2>1. Len(sent) \in Nat
    BY <1>0, LenProperties
  <2> QED
    BY <1>0, <1>5, <2>1 DEF Connect
<1>6. ASSUME LoseLink
      PROVE  /\ drops' \in 0..MaxDrops /\ link' = "closed"
             /\ from' \in Nat /\ pos' \in Nat /\ wire' \in Seq(1..logged \cup {Replay})
  <2>1. wire' \in Seq(1..logged \cup {Replay})
    BY <1>6, EmptySeq DEF LoseLink
  <2>2. drops' \in 0..MaxDrops
    BY <1>0, <1>6, StreamAssumption DEF LoseLink, StreamAssumption
  <2> QED
    BY <1>6, <2>1, <2>2 DEF LoseLink
<1>7. CASE LinkDrops
  <2>1. LoseLink
    BY <1>7 DEF LinkDrops
  <2> QED
    BY <1>0, <1>6, <1>7, <2>1 DEF LinkDrops
<1>8. CASE HostRestarts
  <2>1. LoseLink
    BY <1>8 DEF HostRestarts
  <2>2. sent' \in Seq(1..logged')
    BY <1>8, EmptySeq DEF HostRestarts
  <2> QED
    BY <1>0, <1>6, <1>8, <2>1, <2>2 DEF HostRestarts
<1>9. ASSUME wire # << >>, wire' = Tail(wire)
      PROVE  wire' \in Seq(1..logged \cup {Replay}) /\ Head(wire) \in 1..logged \cup {Replay}
  BY <1>0, <1>9, HeadTailProperties
<1>10. CASE ReceiveEvent
  <2>1. wire' \in Seq(1..logged' \cup {Replay}) /\ Head(wire) \in 1..logged
    BY <1>9, <1>10 DEF ReceiveEvent
  <2>2. page' \in Seq(1..logged') /\ loaded' \in BOOLEAN
    <3>1. CASE Head(wire) \in mine
      BY <1>0, <1>10, <2>1, <3>1, Merged DEF ReceiveEvent
    <3>2. CASE Head(wire) \notin mine
      BY <1>0, <1>10, <3>2 DEF ReceiveEvent
    <3> QED
      BY <3>1, <3>2
  <2> QED
    BY <1>0, <1>10, <2>1, <2>2 DEF ReceiveEvent
<1>11. ASSUME Invalidate, UNCHANGED << logged, mine, sent, link, from, pos >>
       PROVE  /\ fetch' \in {"none", "asked", "answered"}
              /\ snapshot' \subseteq 1..logged' /\ lost' \subseteq 1..logged'
              /\ fetch' # "answered" => snapshot' = {}
              /\ UNCHANGED << loaded, page >>
  <2>1. \A S : Without(S) \subseteq mine
    BY DEF Without
  <2> QED
    BY <1>0, <1>11, <2>1 DEF Invalidate
<1>12. CASE ReceiveReplay
  <2>1. wire' \in Seq(1..logged' \cup {Replay})
    BY <1>9, <1>12 DEF ReceiveReplay
  <2>2. Invalidate /\ UNCHANGED << host, socket, drops, reloads >>
    BY <1>12 DEF ReceiveReplay
  <2> QED
    BY <1>0, <1>11, <2>1, <2>2
<1>13. CASE UserActed
  <2>1. Invalidate /\ UNCHANGED << host, socket, wire, drops >>
    BY <1>13 DEF UserActed
  <2>2. reloads' \in 0..MaxReloads
    BY <1>0, <1>13, StreamAssumption DEF UserActed, StreamAssumption
  <2> QED
    BY <1>0, <1>11, <2>1, <2>2
<1>14. CASE ReadPage
  BY <1>0, <1>14, FirstOnesAreOf DEF ReadPage
<1>15. CASE PageArrives
  <2>1. page' \in Seq(1..logged')
    BY <1>0, <1>15, EventsSorted DEF PageArrives
  <2>2. lost' \subseteq 1..logged'
    BY <1>0, <1>15 DEF PageArrives, Without
  <2> QED
    BY <1>0, <1>15, <2>1, <2>2 DEF PageArrives
<1>16. CASE UNCHANGED vars
  BY <1>0, <1>16 DEF vars
<1> QED
  BY <1>1, <1>2, <1>3, <1>4, <1>5, <1>7, <1>8, <1>10, <1>12, <1>13, <1>14, <1>15, <1>16
     DEF Next, Forward, Receive

-----------------------------------------------------------------------------
(* The order of the page                                                    *)

LEMMA OrderNext == Inv /\ [Next]_vars => SnapshotInv' /\ PageInLogOrder'
<1> SUFFICES ASSUME Inv, [Next]_vars PROVE SnapshotInv' /\ PageInLogOrder'
  OBVIOUS
<1>0. TypeOK /\ SnapshotInv /\ PageInLogOrder
  BY DEF Inv
<1> USE DEF SnapshotInv, host, socket, screen
<1>1. ASSUME page' = page, mine \subseteq mine', snapshot' \subseteq mine'
      PROVE  SnapshotInv' /\ PageInLogOrder'
  BY <1>0, <1>1 DEF PageInLogOrder
<1>2. ASSUME NEW own \in BOOLEAN, AppendEvent(own)
      PROVE  SnapshotInv' /\ PageInLogOrder'
  <2>1. page' = page /\ mine \subseteq mine' /\ snapshot' = snapshot
    BY <1>2 DEF AppendEvent
  <2> QED
    BY <1>0, <1>1, <2>1
<1>3. CASE \/ \E e \in Events : Broadcast(e)
           \/ ForwardEvent \/ ForwardLag \/ Connect \/ LinkDrops \/ HostRestarts
           \/ UNCHANGED vars
  <2>1. page' = page /\ mine' = mine /\ snapshot' \in {snapshot, {}}
    BY <1>3 DEF Broadcast, ForwardEvent, ForwardLag, Connect, LinkDrops, HostRestarts, vars
  <2> QED
    BY <1>0, <1>1, <2>1
<1>4. CASE ReceiveEvent
  <2>1. Head(wire) \in 1..logged
    BY <1>0, <1>4, HeadTailProperties DEF ReceiveEvent, TypeOK
  <2>2. snapshot' = snapshot /\ mine' = mine
    BY <1>4 DEF ReceiveEvent
  <2>3. CASE Head(wire) \in mine
    <3>1. page' = appendLiveEvent(Head(wire))
      BY <1>4, <2>3 DEF ReceiveEvent
    <3> QED
      BY <1>0, <2>1, <2>2, <2>3, <3>1, Merged DEF PageInLogOrder
  <2>4. CASE Head(wire) \notin mine
    BY <1>0, <1>1, <1>4, <2>2, <2>4 DEF ReceiveEvent
  <2> QED
    BY <2>3, <2>4
<1>5. CASE ReceiveReplay \/ UserActed
  <2>1. page' = page /\ mine' = mine /\ snapshot' \in {snapshot, {}}
    BY <1>5 DEF ReceiveReplay, UserActed, Invalidate
  <2> QED
    BY <1>0, <1>1, <2>1
<1>6. CASE ReadPage
  BY <1>0, <1>1, <1>6, FirstOnesAreOf DEF ReadPage
<1>7. CASE PageArrives
  <2>1. page' = InOrder(snapshot) /\ snapshot' = {} /\ mine' = mine
    BY <1>7 DEF PageArrives
  <2>2. /\ ToSet(page') = snapshot
        /\ \A i, j \in DOMAIN page' : i < j => page'[i] < page'[j]
    BY <1>0, <2>1, EventsSorted DEF TypeOK
  <2> QED
    BY <1>0, <2>1, <2>2 DEF PageInLogOrder
<1> QED
  BY <1>2, <1>3, <1>4, <1>5, <1>6, <1>7 DEF Next, Forward, Receive

-----------------------------------------------------------------------------
(* What was forwarded                                                       *)

(* What is appended now comes after the first events of the session.        *)
LEMMA FirstOnesStay ==
  ASSUME TypeOK, NEW own \in BOOLEAN, AppendEvent(own), NEW e \in mine
  PROVE  e \in FirstOnes(mine') <=> e \in FirstOnes(mine)
<1>1. e < logged + 1 /\ e \in Nat /\ logged \in Nat
  BY DEF TypeOK
<1>2. mine' \in {mine, mine \cup {logged + 1}}
  BY DEF AppendEvent
<1>3. {d \in mine' : d < e} = {d \in mine : d < e}
  BY <1>1, <1>2
<1> QED
  BY <1>2, <1>3 DEF FirstOnes

(* Where an event is that was forwarded on this connection. *)
Kept(e) ==
  \/ link = "closed"
  \/ e \in ToSet(page) \cup ToSet(wire) \cup lost
  \/ Replay \in ToSet(wire)
  \/ fetch = "asked"
  \/ fetch = "answered" /\ (e \in snapshot \/ e \notin FirstOnes(mine))

(* A reload loses nothing it does not name. *)
LEMMA InvalidateKeeps ==
  ASSUME Invalidate, UNCHANGED << mine, sent, from, pos >>, NEW e \in mine \cap Handed
  PROVE  Kept(e)'
<1>1. CASE fetch = "answered" /\ ~ loaded
  <2>1. lost' = lost \cup Without(snapshot) /\ fetch' = fetch /\ snapshot' = snapshot
    BY <1>1 DEF Invalidate
  <2>2. e \in snapshot \/ e \in ToSet(wire') \/ e \in Without(snapshot)
    BY DEF Without
  <2> QED
    BY <1>1, <2>1, <2>2 DEF Kept
<1>2. CASE ~ (fetch = "answered" /\ ~ loaded)
  BY <1>2 DEF Invalidate, Kept
<1> QED
  BY <1>1, <1>2

LEMMA LossNext == Inv /\ [Next]_vars => NoSilentLoss'
<1> SUFFICES ASSUME Inv, [Next]_vars, link' # "closed", NEW e \in (mine \cap Handed)'
             PROVE  Kept(e)'
  BY DEF NoSilentLoss, Kept
<1>0. TypeOK
  BY DEF Inv
<1>a. ASSUME e \in mine \cap Handed
      PROVE  Kept(e)
  BY <1>a DEF Inv, NoSilentLoss, Kept
<1> USE DEF host, socket, screen
<1>1. ASSUME NEW own \in BOOLEAN, AppendEvent(own)
      PROVE  Kept(e)'
  <2>1. link = "open"
    BY <1>0, <1>1 DEF TypeOK, AppendEvent
  <2>2. Handed' = Handed /\ logged + 1 \notin Handed
    BY <1>0, <1>1, <2>1, ForwardedIsLogged DEF Handed, AppendEvent, TypeOK
  <2>3. e \in mine \cap Handed
    BY <1>1, <2>2 DEF AppendEvent
  <2> QED
    BY <1>0, <1>1, <1>a, <2>3, FirstOnesStay DEF Kept, AppendEvent
<1>2. ASSUME NEW d \in Events, Broadcast(d)
      PROVE  Kept(e)'
  <2>1. link = "open" /\ from \in Nat /\ pos \in Nat /\ pos <= Len(sent) /\ Len(sent) \in Nat
    BY <1>0, <1>2, LenProperties DEF TypeOK, Broadcast
  <2>2. \A i \in (from + 1)..pos : i \in 1..Len(sent)
    BY <2>1
  <2>3. \A i \in 1..Len(sent) : sent'[i] = sent[i]
    BY <1>0, <1>2 DEF TypeOK, Broadcast
  <2>4. Handed' = Handed
    BY <1>2, <2>2, <2>3 DEF Handed, Broadcast
  <2> QED
    BY <1>2, <1>a, <2>4 DEF Kept, Broadcast
<1>3. CASE ForwardEvent
  <2>1. pos + 1 \in 1..Len(sent) /\ from \in Nat /\ pos \in Nat /\ from <= pos
    BY <1>0, <1>3 DEF TypeOK, ForwardEvent
  <2>2. sent[pos + 1] \in 1..logged \cup {Replay}
    BY <1>0, <2>1, ElementOfSeq DEF TypeOK
  <2>3. ToSet(wire') = ToSet(wire) \cup {sent[pos + 1]}
    <3>1. wire \in Seq(1..logged \cup {Replay})
      BY <1>0 DEF TypeOK
    <3>2. wire' = Append(wire, sent[pos + 1])
      BY <1>3 DEF ForwardEvent
    <3> QED
      BY <2>2, <3>1, <3>2, ToSetTyped
  <2>4. (from + 1)..(pos + 1) = ((from + 1)..pos) \cup {pos + 1}
    BY <2>1
  <2>5. Handed' = Handed \cup {sent[pos + 1]}
    BY <1>3, <2>4 DEF Handed, ForwardEvent
  <2>6. CASE e = sent[pos + 1]
    BY <2>3, <2>6 DEF Kept
  <2>7. CASE e \in mine \cap Handed
    BY <1>3, <1>a, <2>3, <2>7 DEF Kept, ForwardEvent
  <2> QED
    BY <1>3, <2>5, <2>6, <2>7 DEF ForwardEvent
<1>4. CASE ForwardLag
  <2>1. ToSet(wire') = ToSet(wire) \cup {Replay}
    BY <1>0, <1>4, ToSetTyped DEF TypeOK, ForwardLag
  <2> QED
    BY <2>1 DEF Kept
<1>5. CASE Connect
  <2>1. Len(sent) \in Nat
    BY <1>0, LenProperties DEF TypeOK
  <2>2. Handed' = {}
    BY <1>5, <2>1 DEF Handed, Connect
  <2> QED
    BY <2>2
<1>6. CASE LinkDrops \/ HostRestarts
  BY <1>6 DEF LinkDrops, HostRestarts, LoseLink
<1>7. ASSUME wire # << >>, wire' = Tail(wire)
      PROVE  ToSet(wire) = {Head(wire)} \cup ToSet(wire')
  BY <1>0, <1>7, ToSetTyped DEF TypeOK
<1>8. CASE ReceiveEvent
  <2>1. e \in mine \cap Handed /\ UNCHANGED << mine, link, fetch, snapshot, lost >>
    BY <1>8 DEF Handed, ReceiveEvent
  <2>2. ToSet(wire) = {Head(wire)} \cup ToSet(wire') /\ Head(wire) # Replay
    BY <1>7, <1>8 DEF ReceiveEvent
  <2>3. Head(wire) \in 1..logged
    BY <1>0, <1>8, HeadTailProperties DEF ReceiveEvent, TypeOK
  <2>4. CASE Head(wire) \in mine
    <3>1. ToSet(page') = ToSet(page) \cup {Head(wire)}
      BY <1>0, <1>8, <2>3, <2>4, Merged DEF ReceiveEvent, Inv
    <3> QED
      BY <1>a, <2>1, <2>2, <3>1 DEF Kept
  <2>5. CASE Head(wire) \notin mine
    <3>1. page' = page
      BY <1>8, <2>5 DEF ReceiveEvent
    <3> QED
      BY <1>a, <2>1, <2>2, <2>5, <3>1 DEF Kept
  <2> QED
    BY <2>4, <2>5
<1>9. CASE ReceiveReplay \/ UserActed
  <2>1. Invalidate /\ UNCHANGED << mine, sent, from, pos >>
    BY <1>9 DEF ReceiveReplay, UserActed
  <2>2. e \in mine \cap Handed
    BY <2>1 DEF Handed
  <2> QED
    BY <2>1, <2>2, InvalidateKeeps
<1>10. CASE ReadPage
  <2>1. mine' = mine /\ fetch' = "answered" /\ snapshot' = FirstOnes(mine)
    BY <1>10 DEF ReadPage
  <2> QED
    BY <2>1 DEF Kept
<1>11. CASE PageArrives
  <2>1. /\ page' = InOrder(snapshot) /\ lost' = lost \cup Without(snapshot)
        /\ e \in mine \cap Handed
    BY <1>11 DEF Handed, PageArrives
  <2>2. ToSet(page') = snapshot
    BY <1>0, <2>1, EventsSorted DEF TypeOK
  <2>3. e \in snapshot \/ e \in ToSet(wire') \/ e \in Without(snapshot)
    BY <2>1 DEF Without
  <2> QED
    BY <2>1, <2>2, <2>3 DEF Kept
<1>12. CASE UNCHANGED vars
  <2>1. Kept(e)' = Kept(e) /\ e \in mine \cap Handed
    BY <1>12 DEF vars, Kept, Handed
  <2> QED
    BY <1>a, <2>1
<1> QED
  BY <1>1, <1>2, <1>3, <1>4, <1>5, <1>6, <1>8, <1>9, <1>10, <1>11, <1>12
     DEF Next, Forward, Receive

-----------------------------------------------------------------------------
(* Theorems                                                                 *)

(* The inductive invariant of the log, the socket and the screen.           *)
THEOREM Invariance == Spec => []Inv
<1>1. Inv /\ [Next]_vars => Inv'
  BY TypeNext, OrderNext, LossNext DEF Inv
<1> QED
  BY InvInit, <1>1, PTL DEF Spec

(* The variables keep their types: what is on a socket, in a request or on  *)
(* the screen is within the log.                                            *)
THEOREM TypeCorrect == Spec => []TypeOK
<1>1. Inv => TypeOK
  BY DEF Inv
<1> QED
  BY Invariance, <1>1, PTL

(* Append before broadcast (publish_event): whatever restarts and drops     *)
(* come by, nothing is forwarded or shown that the log does not hold.       *)
THEOREM ShownIsLoggedHolds == Spec => []ShownIsLogged
<1>1. Inv => ShownIsLogged
  <2> SUFFICES ASSUME TypeOK PROVE ShownIsLogged
    BY DEF Inv
  <2>1. /\ ToSet(sent) \subseteq 1..logged /\ ToSet(page) \subseteq 1..logged
        /\ ToSet(wire) \subseteq 1..logged \cup {Replay}
    BY ToSetTyped DEF TypeOK
  <2> QED
    BY <2>1 DEF ShownIsLogged
<1> QED
  BY Invariance, <1>1, PTL

(* The screen shows events of its session only, each once and in the order  *)
(* of the log, in whichever order they were broadcast (appendLiveEvent).    *)
THEOREM PageInLogOrderHolds == Spec => []PageInLogOrder
<1>1. Inv => PageInLogOrder
  BY DEF Inv
<1> QED
  BY Invariance, <1>1, PTL

(* On an open connection no event of the session is lost in silence, for    *)
(* every ring and page limit (the Lagged arm of the websocket handler).     *)
THEOREM NoSilentLossHolds == Spec => []NoSilentLoss
<1>1. Inv => NoSilentLoss
  BY DEF Inv
<1> QED
  BY Invariance, <1>1, PTL

=============================================================================
