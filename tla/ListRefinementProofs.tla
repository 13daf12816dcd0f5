------------------------ MODULE ListRefinementProofs ------------------------
(***************************************************************************)
(* Proof that the subscription request list, with its ring, its mutex and  *)
(* its two pointers, implements the two replicated lists of ListReplicas.  *)
(***************************************************************************)
EXTENDS ListRefinement, SignalListProofs

(* Places in the ring *)

\* How many requests lie between two slots when one of them moves on.
LEMMA RingDistance ==
  ASSUME NEW i \in Slots, NEW j \in Slots
  PROVE  /\ Distance(i, j) \in 0..ListSize - 1
         /\ Distance(i, j) = 0 <=> i = j
         /\ i # j => Distance(NextSlot(i), j) = Distance(i, j) - 1
         /\ NextSlot(j) # i => Distance(i, NextSlot(j)) = Distance(i, j) + 1
  BY RingSize DEF Slots, NextSlot, Distance

\* The slots behind slot i, up to slot j and the one after it.
LEMMA RingPlaces ==
  ASSUME NEW i \in Slots, NEW j \in Slots, NEW k \in 1..Distance(i, j)
  PROVE  /\ SlotBehind(i, k) \in Slots
         /\ NextSlot(j) # i => SlotBehind(i, k) # NextSlot(j)
         /\ SlotBehind(NextSlot(i), k) = SlotBehind(i, k + 1)
  BY RingSize DEF Slots, NextSlot, Distance, SlotBehind

\* The first slot behind slot i, and the slot after slot j.
LEMMA RingEnds ==
  ASSUME NEW i \in Slots, NEW j \in Slots
  PROVE  /\ SlotBehind(i, 1) = NextSlot(i)
         /\ SlotBehind(i, Distance(i, j) + 1) = NextSlot(j)
  BY RingSize DEF Slots, NextSlot, Distance, SlotBehind

\* The slot the rt copy lists stand at is in the ring, and a slot Task::subscribe()
\* may write is not that slot.
LEMMA FirstSlotInRing ==
  ASSUME ListInv
  PROVE  /\ FirstSlot \in Slots
         /\ wp \in Slots
         /\ NextSlot(wp) # rp => NextSlot(wp) # FirstSlot
         /\ Distance(FirstSlot, wp) \in Nat
  <1>1. /\ rp \in Slots
        /\ wp \in Slots
        /\ applied => rp # wp
    BY DEF ListInv, ListTypeOK, RtInStep
  <1>2. FirstSlot \in Slots
    BY <1>1, NextSlotInRing DEF FirstSlot
  <1>3. NextSlot(wp) # rp => NextSlot(wp) # FirstSlot
    BY <1>1, NextSlotInRing DEF FirstSlot
  <1>4. Distance(FirstSlot, wp) \in Nat
    BY <1>1, <1>2, RingDistance
  <1> QED  BY <1>1, <1>2, <1>3, <1>4

-----------------------------------------------------------------------------
(* Steps that the replicas do not see *)

\* Nothing is pending more or less when neither the pointers nor the history
\* of the ring move and no request is being made.
LEMMA PendingKept ==
  ASSUME UNCHANGED <<rp, wp, applied, after>>, Unpublished' <=> Unpublished
  PROVE  PendingLists' = PendingLists
  BY DEF PendingLists, PendingCount, FirstSlot

\* Task::subscribe() entered, or returning without a request: a stutter.
LEMMA QuietStep ==
  ASSUME ListInv,
         \/ \E st \in SessionTask, s \in Signal :
                EnterSubscribe(st, s) \/ EnterUnsubscribe(st, s)
         \/ AlreadySubscribed
         \/ StillSubscribed
  PROVE  UNCHANGED <<signalCopyList, copyList, PendingLists>>
  <1>1. /\ UNCHANGED <<signalCopyList, copyList, rp, wp, applied, after>>
        /\ ~Unpublished
    BY DEF EnterSubscribe, EnterUnsubscribe, Enter, AlreadySubscribed,
       StillSubscribed, Waiting, rtVars, shmVars, Unpublished
  <1>2. call' = Null \/ call'.pc = "wait"
    <2>1. CASE AlreadySubscribed \/ StillSubscribed
      BY <2>1 DEF AlreadySubscribed, StillSubscribed
    <2>2. ASSUME NEW st \in SessionTask, NEW s \in Signal,
                 EnterSubscribe(st, s) \/ EnterUnsubscribe(st, s)
          PROVE  call'.pc = "wait"
      <3>1. PICK insert \in BOOLEAN :
                call' = [st |-> st, signal |-> s, insert |-> insert, pc |-> "wait"]
        BY <2>2 DEF EnterSubscribe, EnterUnsubscribe, Enter
      <3> QED  BY <3>1
    <2> QED  BY <2>1, <2>2
  <1>3. ~Unpublished'
    BY <1>2 DEF Unpublished
  <1>4. PendingLists' = PendingLists
    BY <1>1, <1>3, PendingKept
  <1> QED  BY <1>1, <1>4

\* Moving the write pointer publishes a request that is pending already.
LEMMA PublishStutters ==
  ASSUME ListInv, Publish
  PROVE  UNCHANGED <<signalCopyList, copyList, PendingLists>>
  <1>1. /\ Unpublished
        /\ wp' = NextSlot(wp)
        /\ UNCHANGED <<signalCopyList, copyList, rp, applied, after>>
    BY DEF Publish, rtVars, Unpublished
  <1>2. ~Unpublished'
    BY DEF Publish, Unpublished
  <1>3. NextSlot(wp) # rp
    BY <1>1 DEF ListInv, RingChained
  <1>4. Distance(FirstSlot, NextSlot(wp)) = Distance(FirstSlot, wp) + 1
    BY <1>3, FirstSlotInRing, RingDistance
  <1>5. FirstSlot' = FirstSlot
    BY <1>1 DEF FirstSlot
  <1>6. PendingCount' = PendingCount
    BY <1>1, <1>2, <1>4, <1>5, FirstSlotInRing DEF PendingCount
  <1>7. PendingLists' = PendingLists
    BY <1>1, <1>5, <1>6 DEF PendingLists
  <1> QED  BY <1>1, <1>7

\* Handing the slot back moves the read pointer to where the lists stand.
LEMMA ReleaseStutters ==
  ASSUME ListInv, ReleaseSlot
  PROVE  UNCHANGED <<signalCopyList, copyList, PendingLists>>
  <1>1. /\ applied /\ ~applied'
        /\ rp' = NextSlot(rp)
        /\ UNCHANGED <<signalCopyList, copyList, wp, call, after>>
    BY DEF ReleaseSlot, nrtVars
  <1>2. FirstSlot' = FirstSlot
    BY <1>1 DEF FirstSlot
  <1>3. PendingCount' = PendingCount
    BY <1>1, <1>2 DEF PendingCount, Unpublished
  <1>4. PendingLists' = PendingLists
    BY <1>1, <1>2, <1>3 DEF PendingLists
  <1> QED  BY <1>1, <1>4

-----------------------------------------------------------------------------
(* Requests *)

\* A new request puts the lists it leads to behind the pending ones.
LEMMA RequestPends ==
  ASSUME ListInv, call \in Call, call.pc = "wait", Room, NumberRequest
  PROVE  /\ PendingLists' = Append(PendingLists, signalCopyList')
         /\ copyList' = copyList
  <1>1. /\ after' = [after EXCEPT ![NextSlot(wp)] = signalCopyList']
        /\ UNCHANGED <<rp, wp, applied, copyList>>
        /\ NextSlot(wp) # rp
        /\ after \in [Slots -> [Width -> Seq(Signal)]]
    BY DEF NumberRequest, rtVars, Room, ListInv, ListTypeOK
  <1>2. ~Unpublished
    BY DEF Unpublished
  <1>3. Unpublished'
    <2>1. call' \in Call /\ call'.pc = "publish"
      BY DEF NumberRequest, Call
    <2> QED  BY <2>1, NullAssumption DEF Unpublished
  <1> DEFINE f == FirstSlot
             d == Distance(FirstSlot, wp)
  <1>4. /\ FirstSlot' = f
        /\ f \in Slots
        /\ wp \in Slots
        /\ NextSlot(wp) \in Slots
        /\ NextSlot(wp) # f
        /\ d \in Nat
    BY <1>1, FirstSlotInRing, NextSlotInRing DEF FirstSlot
  <1>5. PendingCount = d /\ PendingCount' = d + 1
    BY <1>1, <1>2, <1>3, <1>4 DEF PendingCount
  <1>6. /\ PendingLists = [k \in 1..d |-> after[SlotBehind(f, k)]]
        /\ PendingLists' = [k \in 1..(d + 1) |-> after'[SlotBehind(f, k)]]
    BY <1>4, <1>5 DEF PendingLists
  <1>7. \A k \in 1..d : after'[SlotBehind(f, k)] = after[SlotBehind(f, k)]
    BY <1>1, <1>4, RingPlaces
  <1>8. after'[SlotBehind(f, d + 1)] = signalCopyList'
    BY <1>1, <1>4, RingEnds
  <1>9. Append(PendingLists, signalCopyList') =
            [k \in 1..(d + 1) |-> IF k = d + 1 THEN signalCopyList'
                                  ELSE after[SlotBehind(f, k)]]
    <2> HIDE DEF d, f
    <2> QED  BY <1>4, <1>6
  <1>10. \A k \in 1..(d + 1) :
             after'[SlotBehind(f, k)] =
                 IF k = d + 1 THEN signalCopyList' ELSE after[SlotBehind(f, k)]
    <2> HIDE DEF d, f
    <2> QED  BY <1>4, <1>7, <1>8
  <1>11. PendingLists' = Append(PendingLists, signalCopyList')
    BY <1>6, <1>9, <1>10, Zenon
  <1> QED  BY <1>1, <1>11

\* The first subscription of a signal adds it to the lists.
LEMMA InsertAdds ==
  ASSUME ListInv, RequestInsert
  PROVE  \E x \in Signal : Replicas!Change(x)
  <1> DEFINE cs   == call.signal
             list == signalCopyList[WidthOf[cs]]
  <1>1. /\ call \in Call
        /\ call.pc = "wait"
        /\ cs \in Signal
        /\ Room
        /\ NumberRequest
        /\ sessions[cs] = {}
        /\ signalCopyList' = [signalCopyList EXCEPT ![WidthOf[cs]] =
                                  Append(@, cs)]
    BY DEF RequestInsert, Waiting, ListInv, ListTypeOK, Call
  <1>2. WidthOf[cs] \in Width
    BY <1>1, WidthAssumption DEF Width
  <1>3. cs \notin Replicas!Elements(list)
    BY <1>1, <1>2 DEF ListInv, CopyListExact, Replicas!Elements
  <1>4. Replicas!Add(cs)
    BY <1>1, <1>3 DEF Replicas!Add
  <1>5. /\ PendingLists' = Append(PendingLists, signalCopyList')
        /\ copyList' = copyList
    BY <1>1, RequestPends
  <1>6. Replicas!Change(cs)
    BY <1>4, <1>5 DEF Replicas!Change
  <1> QED  BY <1>1, <1>6

\* The last cancellation of a signal takes it, and nothing else, away.
LEMMA RemoveDrops ==
  ASSUME ListInv, RequestRemove
  PROVE  \E x \in Signal : Replicas!Change(x)
  <1> DEFINE cs   == call.signal
             w    == WidthOf[cs]
             list == signalCopyList[w]
             pos  == copyListPos[cs]
  <1>1. /\ call \in Call
        /\ call.pc = "wait"
        /\ cs \in Signal
        /\ Room
        /\ NumberRequest
        /\ sessions[cs] # {}
        /\ signalCopyList' = [signalCopyList EXCEPT ![w] =
                                  SwapRemove(list, pos + 1)]
        /\ signalCopyList \in [Width -> Seq(Signal)]
    BY DEF RequestRemove, Waiting, ListInv, ListTypeOK, Call
  <1>2. w \in Width
    BY <1>1, WidthAssumption DEF Width
  <1>3. /\ list \in Seq(Signal)
        /\ pos \in Nat
        /\ pos + 1 \in DOMAIN list
        /\ list[pos + 1] = cs
    BY <1>1, <1>2 DEF ListInv, ListTypeOK, CopyListExact
  <1>4. \A i, j \in DOMAIN list : list[i] = list[j] => i = j
    <2> SUFFICES ASSUME NEW i \in DOMAIN list, NEW j \in DOMAIN list,
                        list[i] = list[j]
                 PROVE  i = j
      OBVIOUS
    <2>1. copyListPos[list[i]] = i - 1 /\ copyListPos[list[j]] = j - 1
      BY <1>2, CopyListSignals DEF ListInv
    <2>2. i \in Int /\ j \in Int
      <3> HIDE DEF list
      <3> QED  BY <1>3
    <2> QED  BY <2>1, <2>2
  <1> DEFINE new == SwapRemove(list, pos + 1)
  <1>5. /\ Len(list) \in Nat \ {0}
        /\ DOMAIN list = 1..Len(list)
        /\ Len(new) = Len(list) - 1
        /\ DOMAIN new = 1..Len(list) - 1
        /\ \A i \in 1..Len(list) - 1 :
               new[i] = IF i = pos + 1 THEN list[Len(list)] ELSE list[i]
    <2> HIDE DEF list, pos
    <2> QED  BY <1>3, SwapRemoveList
  <1>6. {new[i] : i \in DOMAIN new} = {list[i] : i \in DOMAIN list} \ {cs}
    <2> HIDE DEF list, pos, cs, new
    <2>1. ASSUME NEW i \in DOMAIN new
          PROVE  \E j \in DOMAIN list : new[i] = list[j] /\ list[j] # cs
      <3>1. CASE i = pos + 1
        BY <1>3, <1>4, <1>5, <2>1, <3>1
      <3>2. CASE i # pos + 1
        BY <1>3, <1>4, <1>5, <2>1, <3>2
      <3> QED  BY <3>1, <3>2
    <2>2. ASSUME NEW j \in DOMAIN list, list[j] # cs
          PROVE  \E i \in DOMAIN new : new[i] = list[j]
      <3>1. CASE j = Len(list)
        <4>1. pos + 1 \in DOMAIN new
          BY <1>3, <1>5, <2>2, <3>1
        <4> QED  BY <1>5, <3>1, <4>1
      <3>2. CASE j # Len(list)
        <4>1. j \in DOMAIN new /\ j # pos + 1
          BY <1>3, <1>5, <2>2, <3>2
        <4> QED  BY <1>5, <4>1
      <3> QED  BY <3>1, <3>2
    <2> QED  BY <2>1, <2>2
  <1>7. /\ signalCopyList'[w] = new
        /\ \A v \in (0..3) \ {w} : signalCopyList'[v] = signalCopyList[v]
    BY <1>1, <1>2 DEF Width
  <1>8. cs \in {list[i] : i \in DOMAIN list}
    BY <1>3
  <1>9. Replicas!Drop(cs)
    <2>1. Replicas!Elements(list) = {list[i] : i \in DOMAIN list}
      BY DEF Replicas!Elements
    <2>2. Replicas!Elements(signalCopyList'[w]) = Replicas!Elements(list) \ {cs}
      <3> HIDE DEF new
      <3> QED  BY <1>6, <1>7, <2>1, Zenon DEF Replicas!Elements
    <2>3. Len(signalCopyList'[w]) = Len(list) - 1
      BY <1>5, <1>7
    <2> QED  BY <1>7, <1>8, <2>1, <2>2, <2>3, Zenon DEF Replicas!Drop
  <1>10. /\ PendingLists' = Append(PendingLists, signalCopyList')
         /\ copyList' = copyList
    BY <1>1, RequestPends
  <1>11. Replicas!Change(cs)
    BY <1>9, <1>10 DEF Replicas!Change
  <1> QED  BY <1>1, <1>11

\* processSignalList() takes the next version of the lists.
LEMMA ProcessFollows ==
  ASSUME ListInv, ListInv', ProcessRequest
  PROVE  Replicas!Follow
  <1>1. /\ ~applied /\ applied'
        /\ rp # wp
        /\ UNCHANGED <<signalCopyList, call, rp, wp, after>>
    BY DEF ProcessRequest, nrtVars, shmVars
  <1>2. copyList' = after[NextSlot(rp)]
    BY <1>1 DEF ListInv, RtInStep
  <1>3. /\ rp \in Slots
        /\ wp \in Slots
        /\ FirstSlot = rp
        /\ FirstSlot' = NextSlot(rp)
    BY <1>1 DEF ListInv, ListTypeOK, FirstSlot
  <1>4. /\ Distance(rp, wp) \in Nat \ {0}
        /\ Distance(NextSlot(rp), wp) = Distance(rp, wp) - 1
    BY <1>1, <1>3, RingDistance
  <1> DEFINE n == PendingCount
  <1>5. /\ n \in Nat \ {0}
        /\ n \in {Distance(rp, wp), Distance(rp, wp) + 1}
        /\ PendingCount' = n - 1
    BY <1>1, <1>3, <1>4 DEF PendingCount, Unpublished
  <1>6. /\ PendingLists = [k \in 1..n |-> after[SlotBehind(rp, k)]]
        /\ PendingLists' =
               [k \in 1..(n - 1) |-> after[SlotBehind(NextSlot(rp), k)]]
    BY <1>1, <1>3, <1>5 DEF PendingLists
  <1>7. \A k \in 1..(n - 1) :
            SlotBehind(NextSlot(rp), k) = SlotBehind(rp, k + 1)
    <2> SUFFICES ASSUME NEW k \in 1..(n - 1)
                 PROVE  SlotBehind(NextSlot(rp), k) = SlotBehind(rp, k + 1)
      OBVIOUS
    <2>1. k \in 1..Distance(rp, wp)
      <3> HIDE DEF n
      <3> QED  BY <1>4, <1>5
    <2> QED  BY <1>3, <2>1, RingPlaces
  <1>8. SlotBehind(rp, 1) = NextSlot(rp)
    BY <1>3, RingEnds
  <1> HIDE DEF n
  <1>9. /\ PendingLists # <<>>
        /\ Head(PendingLists) = after[NextSlot(rp)]
        /\ Tail(PendingLists) = [k \in 1..(n - 1) |-> after[SlotBehind(rp, k + 1)]]
    BY <1>5, <1>6, <1>8
  <1>10. PendingLists' = Tail(PendingLists)
    BY <1>6, <1>7, <1>9
  <1> QED  BY <1>1, <1>2, <1>9, <1>10 DEF Replicas!Follow

-----------------------------------------------------------------------------
(* Theorem *)

\* The ring starts as two empty lists with nothing pending.
LEMMA ReplicasStart == ListInit => Replicas!ReplicasInit
  <1> SUFFICES ASSUME ListInit PROVE Replicas!ReplicasInit
    OBVIOUS
  <1>1. PendingCount = 0
    BY DEF ListInit, PendingCount, Distance, FirstSlot, Unpublished
  <1>2. PendingLists = <<>>
    BY <1>1 DEF PendingLists
  <1> QED  BY <1>2 DEF ListInit, EmptyLists, Width, Replicas!ReplicasInit

\* Every step is a step of the replicas or not seen by them.
LEMMA ReplicasStep ==
  ListInv /\ ListInv' /\ [ListNext]_listVars
      => [Replicas!ReplicasNext]_(Replicas!replicaVars)
  <1> SUFFICES ASSUME ListInv, ListInv', [ListNext]_listVars
               PROVE  \/ Replicas!ReplicasNext
                      \/ UNCHANGED <<signalCopyList, copyList, PendingLists>>
    BY DEF Replicas!replicaVars
  <1>1. CASE \E st \in SessionTask, s \in Signal :
                 EnterSubscribe(st, s) \/ EnterUnsubscribe(st, s)
    BY <1>1, QuietStep
  <1>2. CASE AlreadySubscribed \/ StillSubscribed
    BY <1>2, QuietStep
  <1>3. CASE RequestInsert
    BY <1>3, InsertAdds DEF Replicas!ReplicasNext
  <1>4. CASE RequestRemove
    BY <1>4, RemoveDrops DEF Replicas!ReplicasNext
  <1>5. CASE Publish
    BY <1>5, PublishStutters
  <1>6. CASE ProcessRequest
    BY <1>6, ProcessFollows DEF Replicas!ReplicasNext
  <1>7. CASE ReleaseSlot
    BY <1>7, ReleaseStutters
  <1>8. CASE UNCHANGED listVars
    <2>1. UNCHANGED <<signalCopyList, copyList, rp, wp, applied, after, call>>
      BY <1>8 DEF listVars, nrtVars, shmVars, rtVars
    <2> QED  BY <2>1, PendingKept DEF Unpublished
  <1> QED
    BY <1>1, <1>2, <1>3, <1>4, <1>5, <1>6, <1>7, <1>8 DEF ListNext, SubscribeCall

\* Task::subscribe() and Task::processSignalList() implement the replicated
\* lists: whatever the number of signals and sessions, and wherever the two
\* pointers stand, the real time process goes through every version of the
\* communications process's lists, once and in order.
THEOREM RingImplementsReplicas == ListSpec => ReplicasFollow
  <1>1. ListInit => Replicas!ReplicasInit
    BY ReplicasStart
  <1>2. ListInv /\ ListInv' /\ [ListNext]_listVars
            => [Replicas!ReplicasNext]_(Replicas!replicaVars)
    BY ReplicasStep
  <1> QED
    BY <1>1, <1>2, ListInvariant, PTL DEF ListSpec, ReplicasFollow,
       Replicas!ReplicasSpec
=============================================================================
