-------------------------- MODULE PdoStreamProofs ---------------------------
(***************************************************************************)
(* Proofs about the process data stream: reading and writing PDOs does not *)
(* disturb the request list, so that what is proved of the list holds in   *)
(* the composed system; and the stream keeps its sessions in step, so that *)
(* they decode process data with the list it was written with.  At the end *)
(* the memory all this happens in: prefork_init() gives everything a place *)
(* of its own, whatever the application registers.                         *)
(***************************************************************************)
EXTENDS PdoStream, ShmemLayout, SignalListProofs, SequenceTheorems,
        WellFoundedInduction

\* Every step of rt_update(), of a session or of Task::subscribe() is a step
\* of the request list or leaves it alone.
LEMMA StreamStepIsListStep == [StreamNext]_vars => [ListNext]_listVars
  <1> SUFFICES ASSUME [StreamNext]_vars PROVE [ListNext]_listVars
    OBVIOUS
  <1>1. CASE RtUpdate
    <2>1. CASE RtProcess
      BY <2>1 DEF RtProcess, ListNext
    <2>2. CASE RtRelease
      BY <2>2 DEF RtRelease, ListNext
    <2>3. CASE RtDrained
      BY <2>3 DEF RtDrained
    <2>4. CASE RtLinkList
      BY <2>4 DEF RtLinkList
    <2>5. CASE RtLinkData
      BY <2>5 DEF RtLinkData
    <2> QED  BY <1>1, <2>1, <2>2, <2>3, <2>4, <2>5 DEF RtUpdate
  <1>2. ASSUME NEW st \in SessionTask,
               OpenSession(st) \/ CloseSession(st) \/ SyncUp(st) \/ RxPdo(st)
        PROVE  UNCHANGED listVars
    BY <1>2 DEF OpenSession, CloseSession, SyncUp, RxPdo, InitGetList, InitWait,
       InitFollow, InitDone, InitAgain, InitReused, RxSignalList, RxData, RxEnd,
       RxOutOfSync
  <1>3. ASSUME NEW st \in SessionTask, NEW s \in Signal,
               Subscribe(st, s) \/ Unsubscribe(st, s)
        PROVE  ListNext
    BY <1>3 DEF Subscribe, Unsubscribe, ListNext
  <1>4. CASE SubscribeShared
    BY <1>4 DEF SubscribeShared, SubscribeCall, ListNext
  <1>5. CASE RequestStep
    BY <1>5 DEF RequestStep, SubscribeCall, ListNext
  <1>6. CASE UNCHANGED vars
    BY <1>6 DEF vars
  <1> QED  BY <1>1, <1>2, <1>3, <1>4, <1>5, <1>6 DEF StreamNext

\* The composed system implements the specification of the request list
\* (Task::rt_update and SessionTaskData only use it as SignalList allows).
LEMMA StreamImplementsList == StreamSpec => ListSpec
  <1>1. StreamInit => ListInit
    BY DEF StreamInit
  <1> QED  BY <1>1, StreamStepIsListStep, PTL DEF StreamSpec, ListSpec

\* Hence both processes agree on the layout whenever the ring is empty, also
\* while PDOs are written and read.
THEOREM StreamListsAgree == StreamSpec => []ListInv /\ []DrainedListsAgree
  BY StreamImplementsList, ListInvariant, DrainedAgreement, PTL

-----------------------------------------------------------------------------
(* Sequence numbers, the memory and flattened lists                         *)

\* A set of numbers has a least one: the oldest PDO in use.
LEMMA LeastNumber ==
  ASSUME NEW T, T \subseteq Nat, T # {}
  PROVE  \E i \in T : \A j \in T : i <= j
  <1>1. PICK i \in T : \A j \in T : ~ (<<j, i>> \in OpToRel(<, Nat))
    BY WFMin, NatLessThanWellFounded
  <1>2. \A j \in T : <<j, i>> \in OpToRel(<, Nat) <=> j < i
    BY DEF OpToRel
  <1>3. \A j \in T : ~ (j < i)
    BY <1>1, <1>2, Zenon
  <1>4. i \in Nat /\ \A j \in T : j \in Nat
    OBVIOUS
  <1>5. \A j \in T : i <= j
    BY <1>3, <1>4
  <1> QED  BY <1>5

\* The difference of two consecutive numbers is one, across the wrap, too.
LEMMA NextSeqNoFacts ==
  ASSUME NEW n \in 0..SeqMod - 1
  PROVE  /\ NextSeqNo(n) \in 0..SeqMod - 1
         /\ (NextSeqNo(n) - n) % SeqMod = 1
  <1>1. SeqMod \in Nat /\ SeqMod > 1
    BY StreamAssumption
  <1>2. CASE n + 1 < SeqMod
    <2>1. (n + 1) % SeqMod = n + 1
      BY <1>1, <1>2
    <2>2. 1 % SeqMod = 1
      BY <1>1
    <2> QED  BY <1>1, <1>2, <2>1, <2>2 DEF NextSeqNo
  <1>3. CASE n + 1 = SeqMod
    <2>1. (n + 1) % SeqMod = 0
      BY <1>1, <1>3
    <2>2. (0 - n) % SeqMod = 1
      BY <1>1, <1>3
    <2> QED  BY <1>1, <2>1, <2>2 DEF NextSeqNo
  <1> QED  BY <1>1, <1>2, <1>3

\* What *nextTxPdo = txPdo does to the chain: the new PDO comes last, cut old
\* ones are forgotten, and none that a session in time still needs.
LEMMA LinkFacts ==
  ASSUME StreamTypeOK, NEW pdo \in Pdo, Link(pdo),
         chain[1].type = "Empty" => Len(chain) = 1
  PROVE  \E c \in Seq(Pdo), cut \in Nat :
             /\ c = IF chain[1].type = "Empty" THEN <<pdo>> ELSE Append(chain, pdo)
             /\ Len(c) = IF chain[1].type = "Empty" THEN 1 ELSE Len(chain) + 1
             /\ c[Len(c)] = pdo
             /\ \A i \in 1..Len(c) - 1 : c[i] = chain[i]
             /\ cut < Len(c)
             /\ chain' \in Seq(Pdo)
             /\ Len(chain') = Len(c) - cut
             /\ \A i \in 1..Len(c) - cut : chain'[i] = c[cut + i]
             /\ pos' = [st \in SessionTask |->
                            IF pos[st] > cut THEN pos[st] - cut ELSE 0]
             /\ pos' \in [SessionTask -> 0..Len(chain')]
             /\ \A st \in SessionTask : KeepsUp(st) => pos[st] > cut
  <1> DEFINE c    == IF chain[1].type = "Empty" THEN <<pdo>> ELSE Append(chain, pdo)
             used == {pos[st] : st \in {t \in SessionTask :
                          \/ KeepsUp(t)
                          \/ Open(t) /\ pos[t] > 0 /\ Len(c) - pos[t] < MemFrames}}
                         \cup {Len(c)}
             low  == CHOOSE i \in used : \A j \in used : i <= j
             cut  == low - 1
  <1>1. /\ chain \in Seq(Pdo) /\ Len(chain) \in Nat /\ Len(chain) > 0
        /\ pos \in [SessionTask -> 0..Len(chain)]
    BY DEF StreamTypeOK
  <1>2. /\ c \in Seq(Pdo)
        /\ Len(c) = IF chain[1].type = "Empty" THEN 1 ELSE Len(chain) + 1
        /\ Len(c) \in Nat
        /\ c[Len(c)] = pdo
        /\ \A i \in 1..Len(c) - 1 : c[i] = chain[i]
    BY <1>1
  <1> HIDE DEF c
  <1>3. Len(chain) <= Len(c)
    <2>1. CASE chain[1].type = "Empty"
      <3>1. Len(c) = 1 /\ Len(chain) = 1
        BY <1>2, <2>1, Zenon
      <3> QED  BY <3>1
    <2>2. CASE chain[1].type # "Empty"
      <3>1. Len(c) = Len(chain) + 1
        BY <1>2, <2>2, Zenon
      <3> QED  BY <1>1, <3>1
    <2> QED  BY <2>1, <2>2
  <1>4. \A t \in SessionTask : KeepsUp(t) => pos[t] > 0
    BY DEF KeepsUp
  <1>5. used \subseteq 1..Len(c)
    BY <1>1, <1>2, <1>3, <1>4
  <1>12. Len(c) \in used
    OBVIOUS
  <1> HIDE DEF used
  <1>6. low \in used /\ \A j \in used : low <= j
    <2>1. used \subseteq Nat /\ used # {}
      BY <1>2, <1>5, <1>12
    <2>2. \E i \in used : \A j \in used : i <= j
      BY <2>1, LeastNumber, Zenon
    <2> QED  BY <2>2
  <1>7. cut \in Nat /\ cut < Len(c)
    <2> HIDE DEF low
    <2> QED  BY <1>2, <1>5, <1>6
  <1>8. /\ chain' = SubSeq(c, cut + 1, Len(c))
        /\ pos' = [st \in SessionTask |->
                       IF pos[st] > cut THEN pos[st] - cut ELSE 0]
    BY DEF Link, c, used
  <1> HIDE DEF cut, low
  <1>9. /\ chain' \in Seq(Pdo)
        /\ Len(chain') = Len(c) - cut
        /\ \A i \in 1..Len(c) - cut : chain'[i] = c[cut + i]
    BY <1>2, <1>7, <1>8
  <1>10. pos' \in [SessionTask -> 0..Len(chain')]
    <2> SUFFICES ASSUME NEW st \in SessionTask
                 PROVE  (IF pos[st] > cut THEN pos[st] - cut ELSE 0) \in 0..Len(c) - cut
      BY <1>8, <1>9
    <2>1. pos[st] \in 0..Len(chain)
      BY <1>1
    <2> QED  BY <1>1, <1>2, <1>3, <1>7, <2>1
  <1>11. \A st \in SessionTask : KeepsUp(st) => pos[st] > cut
    <2> SUFFICES ASSUME NEW st \in SessionTask, KeepsUp(st) PROVE pos[st] > cut
      OBVIOUS
    <2>1. pos[st] \in used
      BY DEF used
    <2> QED  BY <1>1, <1>5, <1>6, <2>1, <1>2 DEF cut
  <1> QED  BY <1>2, <1>7, <1>8, <1>9, <1>10, <1>11 DEF c

\* A signal of one of the four lists is in the list they make together.
LEMMA FlatElements ==
  ASSUME NEW lists \in [Width -> Seq(Signal)], NEW w \in Width,
         NEW s \in Elements(lists[w])
  PROVE  s \in Elements(Flat(lists))
  <1>1. ASSUME NEW a \in Seq(Signal), NEW b \in Seq(Signal)
        PROVE  /\ a \o b \in Seq(Signal)
               /\ Elements(a) \subseteq Elements(a \o b)
               /\ Elements(b) \subseteq Elements(a \o b)
    <2>1. /\ a \o b \in Seq(Signal)
          /\ DOMAIN a = 1..Len(a) /\ DOMAIN b = 1..Len(b)
          /\ DOMAIN (a \o b) = 1..Len(a) + Len(b)
          /\ Len(a) \in Nat /\ Len(b) \in Nat
          /\ \A i \in 1..Len(a) : (a \o b)[i] = a[i]
          /\ \A i \in 1..Len(b) : (a \o b)[Len(a) + i] = b[i]
      OBVIOUS
    <2>2. \A i \in 1..Len(b) : Len(a) + i \in DOMAIN (a \o b)
      BY <2>1
    <2>3. \A i \in 1..Len(a) : i \in DOMAIN (a \o b)
      BY <2>1
    <2> QED  BY <2>1, <2>2, <2>3 DEF Elements
  <1> DEFINE l0 == lists[0]
             l1 == l0 \o lists[1]
             l2 == l1 \o lists[2]
             l3 == l2 \o lists[3]
  <1>2. /\ lists[0] \in Seq(Signal) /\ lists[1] \in Seq(Signal)
        /\ lists[2] \in Seq(Signal) /\ lists[3] \in Seq(Signal)
        /\ w \in {0, 1, 2, 3}
    BY DEF Width
  <1>3. l1 \in Seq(Signal) /\ Elements(l0) \cup Elements(lists[1]) \subseteq Elements(l1)
    BY <1>1, <1>2
  <1> HIDE DEF l1
  <1>4. l2 \in Seq(Signal) /\ Elements(l1) \cup Elements(lists[2]) \subseteq Elements(l2)
    BY <1>1, <1>2, <1>3
  <1> HIDE DEF l2
  <1>5. Elements(l2) \cup Elements(lists[3]) \subseteq Elements(l3)
    BY <1>1, <1>2, <1>4
  <1>6. s \in Elements(l3)
    BY <1>2, <1>3, <1>4, <1>5, Zenon
  <1> QED  BY <1>6 DEF l1, l2, Flat

\* The flattened copy lists are a list of signals.
LEMMA FlatType ==
  ASSUME NEW lists \in [Width -> Seq(Signal)] PROVE Flat(lists) \in Seq(Signal)
  BY DEF Flat, Width

-----------------------------------------------------------------------------
(* Ids and the lists they name                                              *)

\* The two ways Task::subscribe() makes a new list.
NewRequest == RequestInsert \/ RequestRemove

\* Moving the pointers of the ring and reading requests makes no new list.
LEMMA RingListsKept ==
  ASSUME ListInv, [ListNext]_listVars, ~NewRequest
  PROVE  /\ RingLists' \subseteq RingLists
         /\ UNCHANGED <<listIdNrt, subscriptionId, signalCopyList>>
         /\ \A s \in Signal : sessions'[s] # {} => sessions[s] # {}
  <1> USE DEF ListInv
  <1>1. UNCHANGED <<listIdNrt, subscriptionId, signalCopyList>>
    BY DEF ListNext, NewRequest, SubscribeCall, EnterSubscribe, EnterUnsubscribe,
       Enter, AlreadySubscribed, StillSubscribed, Publish, ProcessRequest,
       ReleaseSlot, listVars, nrtVars
  <1>2. \A s \in Signal : sessions'[s] # {} => sessions[s] # {}
    <2>1. CASE AlreadySubscribed \/ StillSubscribed
      <3>1. call \in Call /\ call.signal \in Signal
        BY <2>1, NullAssumption DEF AlreadySubscribed, StillSubscribed, Waiting,
           ListTypeOK, Call
      <3> QED  BY <2>1, <3>1 DEF AlreadySubscribed, StillSubscribed, ListTypeOK
    <2>2. CASE ~(AlreadySubscribed \/ StillSubscribed)
      <3>1. UNCHANGED sessions
        BY <2>2 DEF ListNext, NewRequest, SubscribeCall, EnterSubscribe,
           EnterUnsubscribe, Enter, Publish, ProcessRequest, ReleaseSlot,
           listVars, nrtVars
      <3> QED  BY <3>1
    <2> QED  BY <2>1, <2>2
  <1>3. CurrentList' = CurrentList
    BY <1>1 DEF CurrentList
  <1>4. rp \in Slots /\ wp \in Slots
    BY DEF ListTypeOK
  <1>5. CASE Publish
    <2>1. /\ NextSlot(wp) # rp
          /\ signalCopyList = after[NextSlot(wp)]
          /\ listIdNrt = slot[NextSlot(wp)].signalListId
          /\ rp' = rp /\ wp' = NextSlot(wp)
          /\ UNCHANGED <<slot, after>>
      BY <1>5 DEF Publish, RingChained, Unpublished
    <2>2. Live' = Live \cup {NextSlot(wp)}
      BY <1>4, <2>1, LivePublish
    <2>3. Flat(after[NextSlot(wp)]) = CurrentList
      BY <2>1 DEF Flat, CurrentList
    <2> QED  BY <1>1, <1>2, <1>3, <2>1, <2>2, <2>3 DEF RingLists
  <1>6. CASE ReleaseSlot
    <2>1. rp # wp /\ rp' = NextSlot(rp) /\ wp' = wp /\ UNCHANGED <<slot, after>>
      BY <1>6 DEF ReleaseSlot, RtInStep
    <2>2. Live' \subseteq Live
      BY <1>4, <2>1, LiveRelease
    <2> QED  BY <1>1, <1>2, <1>3, <2>1, <2>2 DEF RingLists
  <1>7. CASE AlreadySubscribed \/ StillSubscribed
    <2>1. /\ slot' = [slot EXCEPT ![NextSlot(wp)].signal = call.signal]
          /\ UNCHANGED <<rp, wp, after>>
      BY <1>7 DEF AlreadySubscribed, StillSubscribed
    <2>2. Live' = Live /\ Live \subseteq Slots
      BY <1>4, <2>1, LiveSlots DEF Live
    <2>3. \A i \in Live : slot'[i].signalListId = slot[i].signalListId
      BY <2>1, <2>2 DEF ListTypeOK, Request
    <2> QED  BY <1>1, <1>2, <1>3, <2>1, <2>2, <2>3 DEF RingLists
  <1>8. CASE ~(Publish \/ ReleaseSlot \/ AlreadySubscribed \/ StillSubscribed)
    <2>1. UNCHANGED <<slot, rp, wp, after>>
      BY <1>8 DEF ListNext, NewRequest, SubscribeCall, EnterSubscribe,
         EnterUnsubscribe, Enter, ProcessRequest, listVars, shmVars
    <2>2. Live' = Live
      BY <2>1 DEF Live
    <2> QED  BY <1>1, <1>2, <1>3, <2>1, <2>2 DEF RingLists
  <1> QED  BY <1>5, <1>6, <1>7, <1>8

\* A new request adds one list, under a new id.
LEMMA RingListsGrow ==
  ASSUME ListInv, NewRequest
  PROVE  /\ RingLists' \subseteq RingLists \cup {<<listIdNrt + 1, CurrentList'>>}
         /\ listIdNrt' = listIdNrt + 1
         /\ call \in Call
         /\ call.pc = "wait"
         /\ call' = [call EXCEPT !.pc = "publish"]
         /\ subscriptionId' = [subscriptionId EXCEPT ![call.signal] = listIdNrt + 1]
         /\ \A s \in Signal \ {call.signal} : sessions'[s] = sessions[s]
         /\ UNCHANGED <<subscribedSet, listIdRt, applied>>
  <1> USE DEF ListInv
  <1>1. /\ call \in Call
        /\ call.pc = "wait"
        /\ NextSlot(wp) # rp
        /\ NumberRequest
    BY DEF NewRequest, RequestInsert, RequestRemove, Waiting, ListTypeOK, Room
  <1>2. /\ rp \in Slots /\ wp \in Slots
        /\ UNCHANGED <<rp, wp>>
        /\ listIdNrt' = listIdNrt + 1
        /\ call' = [call EXCEPT !.pc = "publish"]
        /\ subscriptionId' = [subscriptionId EXCEPT ![call.signal] = listIdNrt + 1]
        /\ UNCHANGED <<subscribedSet, listIdRt, applied>>
    BY <1>1 DEF NumberRequest, ListTypeOK, rtVars
  <1>3. Live' = Live /\ Live \subseteq Slots /\ NextSlot(wp) \notin Live
    BY <1>1, <1>2, LiveSlots DEF Live
  <1>4. \A i \in Slots \ {NextSlot(wp)} : slot'[i] = slot[i] /\ after'[i] = after[i]
    BY <1>1 DEF NewRequest, RequestInsert, RequestRemove, NumberRequest, ListTypeOK
  <1>5. \A i \in Live : slot'[i] = slot[i] /\ after'[i] = after[i]
    BY <1>3, <1>4
  <1>6. \A s \in Signal \ {call.signal} : sessions'[s] = sessions[s]
    BY DEF NewRequest, RequestInsert, RequestRemove, ListTypeOK
  <1> QED  BY <1>1, <1>2, <1>3, <1>5, <1>6 DEF RingLists

\* What both processes and the ring hold has a name.
LEMMA CurrentNamed ==
  ASSUME ListInv
  PROVE  /\ <<listIdRt, RtLayout>> \in NamedLists
         /\ <<listIdNrt, CurrentList>> \in NamedLists
         /\ call = Null => CurrentListId = listIdNrt
         /\ listIdRt \in Nat /\ listIdNrt \in Nat
  <1> USE DEF ListInv
  <1> DEFINE i == IF applied THEN NextSlot(rp) ELSE rp
  <1>1. i \in Live
    <2>1. rp \in Slots /\ wp \in Slots /\ (applied => rp # wp)
      BY DEF ListTypeOK, RtInStep
    <2> QED  BY <2>1, LiveSlots
  <1>2. copyList = after[i] /\ listIdRt = slot[i].signalListId
    BY DEF RtInStep
  <1>3. RtLayout = Flat(after[i])
    BY <1>2 DEF RtLayout, Flat
  <1> HIDE DEF i
  <1>4. <<listIdRt, RtLayout>> \in RingLists
    BY <1>1, <1>2, <1>3 DEF RingLists
  <1>5. <<listIdNrt, CurrentList>> \in RingLists
    BY DEF RingLists
  <1>6. call = Null => CurrentListId = listIdNrt
    BY DEF RingChained, Unpublished, CurrentListId
  <1> QED  BY <1>4, <1>5, <1>6 DEF NamedLists, ListTypeOK

\* Handing lists on keeps their names.
LEMMA NamesKept ==
  ASSUME IdNamesList, InUseListed, NamedLists' \subseteq NamedLists,
         UNCHANGED <<listIdNrt, subscriptionId>>,
         \A s \in Signal : sessions'[s] # {} => sessions[s] # {}
  PROVE  IdNamesList' /\ InUseListed'
  BY DEF IdNamesList, InUseListed

\* A new request gives a new name to its list, which holds the signals in use.
LEMMA NamesGrow ==
  ASSUME ListInv, ListInv', IdNamesList, InUseListed, NewRequest,
         NamedLists' \subseteq NamedLists \cup {<<listIdNrt + 1, CurrentList'>>}
  PROVE  IdNamesList' /\ InUseListed'
  <1> DEFINE new == <<listIdNrt + 1, CurrentList'>>
  <1>1. /\ listIdNrt' = listIdNrt + 1
        /\ call \in Call /\ call.signal \in Signal
        /\ subscriptionId' = [subscriptionId EXCEPT ![call.signal] = listIdNrt + 1]
        /\ \A s \in Signal \ {call.signal} : sessions'[s] = sessions[s]
    BY RingListsGrow DEF Call
  <1>2. /\ listIdNrt \in Nat
        /\ subscriptionId \in [Signal -> Nat]
        /\ \A p \in NamedLists : p[1] \in 0..listIdNrt
        /\ \A s \in Signal : subscriptionId[s] <= listIdNrt
    BY DEF ListInv, ListTypeOK, InUseListed
  <1>3. \A s \in Signal : sessions'[s] # {} => s \in Elements(CurrentList')
    <2> SUFFICES ASSUME NEW s \in Signal, sessions'[s] # {}
                 PROVE  s \in Elements(CurrentList')
      OBVIOUS
    <2>1. /\ signalCopyList' \in [Width -> Seq(Signal)]
          /\ copyListPos'[s] + 1 \in DOMAIN signalCopyList'[WidthOf[s]]
          /\ signalCopyList'[WidthOf[s]][copyListPos'[s] + 1] = s
      BY DEF ListInv, ListTypeOK, CopyListExact
    <2>2. WidthOf[s] \in Width
      BY WidthAssumption DEF Width
    <2>3. s \in Elements(signalCopyList'[WidthOf[s]])
      BY <2>1 DEF Elements
    <2>4. s \in Elements(Flat(signalCopyList'))
      BY <2>1, <2>2, <2>3, FlatElements
    <2> QED  BY <2>4 DEF Flat, CurrentList
  <1>4. IdNamesList'
    <2> SUFFICES ASSUME NEW p \in NamedLists', NEW q \in NamedLists', p[1] = q[1]
                 PROVE  p[2] = q[2]
      BY DEF IdNamesList
    <2>1. p \in NamedLists \/ p = new
      OBVIOUS
    <2>2. q \in NamedLists \/ q = new
      OBVIOUS
    <2>3. \A r \in NamedLists : r[1] # listIdNrt + 1
      BY <1>2
    <2>4. new[1] = listIdNrt + 1
      OBVIOUS
    <2> HIDE DEF new
    <2> QED  BY <2>1, <2>2, <2>3, <2>4 DEF IdNamesList
  <1>5. InUseListed'
    <2>1. \A s \in Signal : subscriptionId'[s] <= listIdNrt'
      BY <1>1, <1>2
    <2> SUFFICES ASSUME NEW p \in NamedLists'
                 PROVE  /\ p[1] \in 0..listIdNrt'
                        /\ \A s \in Signal : sessions'[s] # {} /\ p[1] >= subscriptionId'[s]
                                                => s \in Elements(p[2])
      BY <2>1 DEF InUseListed
    <2>2. CASE p = new
      BY <1>1, <1>2, <1>3, <2>2
    <2>3. CASE p \in NamedLists
      <3>1. /\ p[1] \in 0..listIdNrt
            /\ \A s \in Signal : sessions[s] # {} /\ p[1] >= subscriptionId[s]
                                     => s \in Elements(p[2])
        BY <2>3 DEF InUseListed
      <3>2. p[1] \in 0..listIdNrt'
        BY <1>1, <1>2, <2>3, <3>1
      <3>3. ASSUME NEW s \in Signal, sessions'[s] # {}, p[1] >= subscriptionId'[s]
            PROVE  s \in Elements(p[2])
        <4>1. s # call.signal
          BY <1>1, <1>2, <3>1, <3>3
        <4>2. sessions'[s] = sessions[s] /\ subscriptionId'[s] = subscriptionId[s]
          BY <1>1, <1>2, <4>1
        <4> QED  BY <3>1, <3>3, <4>2
      <3> QED  BY <3>2, <3>3
    <2> QED  BY <2>2, <2>3
  <1> QED  BY <1>4, <1>5

-----------------------------------------------------------------------------
(* The invariant of the stream                                              *)

\* What a session takes for active is in the list it loaded, because the list
\* is not older than the request for the signal.
LEMMA ActiveIsTransmitted ==
  StreamTypeOK /\ InUseListed /\ ActiveCurrent => ActiveTransmitted
  <1> SUFFICES ASSUME StreamTypeOK, InUseListed, ActiveCurrent,
                      NEW st \in SessionTask, pc[st] = "value", NEW s \in activeSet[st]
               PROVE  s \in Elements(layout[st])
    BY DEF ActiveTransmitted
  <1> DEFINE p == <<sid[st], layout[st]>>
  <1>1. p \in NamedLists
    BY DEF NamedLists, LoadedLists, Reading
  <1>2. s \in Signal /\ sessions[s] # {} /\ subscriptionId[s] <= sid[st]
    BY DEF ActiveCurrent, StreamTypeOK
  <1>3. p[1] = sid[st] /\ p[2] = layout[st]
    OBVIOUS
  <1> HIDE DEF p
  <1>4. sid[st] >= subscriptionId[s]
    BY <1>2 DEF StreamTypeOK, ListTypeOK
  <1> QED  BY <1>1, <1>2, <1>3, <1>4 DEF InUseListed

\* The same after a step.
LEMMA ActiveTransmittedNext ==
  StreamTypeOK' /\ InUseListed' /\ ActiveCurrent' => ActiveTransmitted'
  BY ActiveIsTransmitted, PTL

\* A step of one session alone.
LEMMA SessionStepInv ==
  ASSUME ListInv, StreamInv, NEW st \in SessionTask,
         UNCHANGED <<listVars, rtPc, rtSeqNo, chain>>,
         StreamTypeOK',
         \A t \in SessionTask \ {st} :
             /\ pc'[t] = pc[t] /\ pos'[t] = pos[t] /\ sid'[t] = sid[t]
             /\ fetched'[t] = fetched[t] /\ layout'[t] = layout[t]
             /\ seqNo'[t] = seqNo[t] /\ activeSet'[t] = activeSet[t]
             /\ resync'[t] = resync[t],
         SessionInStep(st)',
         pc'[st] \in {"wait", "follow"} => <<sid'[st], fetched'[st]>> \in NamedLists,
         Reading(st)' => <<sid'[st], layout'[st]>> \in NamedLists,
         call # Null /\ call.st = st => pc'[st] = "idle",
         Reading(st)' /\ pos'[st] = 0 => MayLap,
         resync'[st] => MayLap,
         OneSession => \A s \in activeSet'[st] :
             /\ s \in subscribedSet[st]
             /\ st \in sessions[s]
             /\ pc'[st] # "getlist" => subscriptionId[s] <= sid'[st]
  PROVE  StreamInv'
  <1> USE DEF StreamInv
  <1>1. UNCHANGED <<sessions, subscriptionId, listIdNrt, call, subscribedSet,
                    slot, rp, wp, after, signalCopyList, listIdRt, applied>>
    BY DEF listVars, nrtVars, shmVars, rtVars
  <1>2. ChainInStep'
    <2>1. \A i \in 1..Len(chain') - 1 : Follows(i)'
      BY DEF ChainInStep, Follows
    <2>2. EndInStep'
      BY <1>1 DEF ChainInStep, EndInStep
    <2>3. ASSUME NEW t \in SessionTask \ {st} PROVE SessionInStep(t)'
      BY DEF ChainInStep, SessionInStep, Reading
    <2> QED  BY <2>1, <2>2, <2>3 DEF ChainInStep
  <1>3. NamedLists' \subseteq NamedLists
    <2>1. RingLists' = RingLists
      BY <1>1 DEF RingLists, Live, CurrentList
    <2>2. StreamLists' = StreamLists
      BY DEF StreamLists
    <2>3. FetchedLists' \subseteq NamedLists
      <3> SUFFICES ASSUME NEW t \in SessionTask, pc'[t] \in {"wait", "follow"}
                   PROVE  <<sid'[t], fetched'[t]>> \in NamedLists
        BY DEF FetchedLists
      <3>1. CASE t # st
        BY <3>1 DEF NamedLists, FetchedLists
      <3> QED  BY <3>1
    <2>4. LoadedLists' \subseteq NamedLists
      <3> SUFFICES ASSUME NEW t \in SessionTask, Reading(t)'
                   PROVE  <<sid'[t], layout'[t]>> \in NamedLists
        BY DEF LoadedLists
      <3>1. CASE t # st
        BY <3>1 DEF NamedLists, LoadedLists, Reading
      <3> QED  BY <3>1
    <2> QED  BY <2>1, <2>2, <2>3, <2>4 DEF NamedLists
  <1>4. IdNamesList' /\ InUseListed'
    BY <1>1, <1>3, NamesKept
  <1>5. CallerIdle'
    <2>1. call # Null => call.st \in SessionTask
      BY DEF StreamTypeOK, ListTypeOK, Call
    <2> QED  BY <1>1, <2>1 DEF CallerIdle
  <1>6. ResyncMeansLap'
    BY DEF ResyncMeansLap, Reading
  <1>7. OneSession => ActiveCurrent'
    BY <1>1 DEF OneSession, ActiveCurrent
  <1> QED  BY <1>2, <1>4, <1>5, <1>6, <1>7, ActiveTransmittedNext

\* init() and the life of a session preserve the invariant.
LEMMA SyncUpInv ==
  ASSUME ListInv, StreamInv, NEW st \in SessionTask,
         OpenSession(st) \/ CloseSession(st) \/ SyncUp(st)
  PROVE  StreamInv'
  <1> USE DEF StreamInv
  <1>1. /\ UNCHANGED <<listVars, rtPc, rtSeqNo, chain>>
        /\ UNCHANGED <<sessions, subscriptionId, listIdNrt, call, subscribedSet>>
        /\ ListTypeOK'
    <2>1. UNCHANGED <<listVars, rtPc, rtSeqNo, chain>>
      BY DEF OpenSession, CloseSession, SyncUp, InitGetList, InitWait, InitFollow,
         InitDone, InitAgain, InitReused
    <2> QED  BY <2>1 DEF listVars, nrtVars, shmVars, rtVars, ListInv, ListTypeOK
  <1>2. /\ chain \in Seq(Pdo) /\ Len(chain) \in Nat /\ Len(chain) > 0
        /\ pc \in [SessionTask -> {"closed", "getlist", "wait", "follow", "idle",
                                    "rx", "value"}]
        /\ pos \in [SessionTask -> 0..Len(chain)]
        /\ sid \in [SessionTask -> Nat]
        /\ fetched \in [SessionTask -> Seq(Signal)]
        /\ layout \in [SessionTask -> Seq(Signal)]
        /\ seqNo \in [SessionTask -> 0..SeqMod - 1]
        /\ activeSet \in [SessionTask -> SUBSET Signal]
        /\ signalBuffer \in [SessionTask -> Seq(Signal) \cup {Null}]
        /\ resync \in [SessionTask -> BOOLEAN]
        /\ rtPc \in {"idle", "process", "list", "data"}
        /\ rtSeqNo \in 0..SeqMod - 1
    BY DEF StreamTypeOK
  <1>3. /\ resync[st] => MayLap
        /\ OneSession => \A s \in activeSet[st] :
               /\ s \in subscribedSet[st]
               /\ st \in sessions[s]
               /\ pc[st] # "getlist" => subscriptionId[s] <= sid[st]
        /\ pc[st] # "idle" => ~(call # Null /\ call.st = st)
        /\ 0 \in 0..SeqMod - 1
    BY StreamAssumption DEF ResyncMeansLap, ActiveCurrent, CallerIdle
  <1>4. CASE OpenSession(st)
    <2>1. StreamTypeOK'
      BY <1>1, <1>2, <1>4 DEF OpenSession, StreamTypeOK
    <2>2. pc[st] = "closed" /\ pc'[st] = "getlist" /\ ~Reading(st)'
      BY <1>2, <1>4 DEF OpenSession, Reading
    <2> QED  BY <1>1, <1>2, <1>3, <1>4, <2>1, <2>2, SessionStepInv
             DEF OpenSession, SessionInStep
  <1>5. CASE CloseSession(st)
    <2>1. <<>> \in Seq(Signal)
      OBVIOUS
    <2>2. StreamTypeOK'
      BY <1>1, <1>2, <1>3, <1>5, <2>1 DEF CloseSession, StreamTypeOK
    <2>3. pc[st] = "idle" /\ pc'[st] = "closed" /\ ~Reading(st)' /\ Free(st)
      BY <1>2, <1>5 DEF CloseSession, Reading
    <2>4. OneSession => activeSet'[st] = {}
      BY <1>3, <1>5 DEF CloseSession
    <2>5. resync'[st] = FALSE
      BY <1>2, <1>5 DEF CloseSession
    <2> QED  BY <1>1, <1>2, <1>3, <1>5, <2>2, <2>3, <2>4, <2>5, SessionStepInv
             DEF CloseSession, SessionInStep, Free
  <1>6. CASE InitGetList(st)
    <2>1. /\ pc[st] = "getlist" /\ pc'[st] = "wait" /\ ~Reading(st)'
          /\ sid'[st] = listIdNrt
          /\ fetched'[st] = CurrentList
          /\ listIdNrt \in Nat
          /\ CurrentListId = listIdNrt
      BY <1>2, <1>6, CurrentNamed DEF InitGetList, Reading
    <2>2. CurrentList \in Seq(Signal)
      BY FlatType DEF ListInv, ListTypeOK, Flat, CurrentList
    <2>3. StreamTypeOK'
      BY <1>1, <1>2, <1>6, <2>1, <2>2 DEF InitGetList, StreamTypeOK
    <2>4. <<sid'[st], fetched'[st]>> \in NamedLists
      BY <2>1, CurrentNamed
    <2>5. \A s \in Signal : subscriptionId[s] <= sid'[st]
      BY <2>1 DEF InUseListed
    <2>6. activeSet'[st] = activeSet[st] /\ activeSet[st] \subseteq Signal
      BY <1>2, <1>6 DEF InitGetList
    <2> QED  BY <1>1, <1>2, <1>3, <1>6, <2>1, <2>3, <2>4, <2>5, <2>6, SessionStepInv
             DEF InitGetList, SessionInStep
  <1>7. CASE InitWait(st)
    <2>1. StreamTypeOK'
      BY <1>1, <1>2, <1>7 DEF InitWait, StreamTypeOK
    <2>2. pc[st] = "wait" /\ pc'[st] = "follow" /\ ~Reading(st)'
      BY <1>2, <1>7 DEF InitWait, Reading
    <2>3. <<sid[st], fetched[st]>> \in NamedLists
      BY <2>2 DEF NamedLists, FetchedLists
    <2> QED  BY <1>1, <1>2, <1>3, <1>7, <2>1, <2>2, <2>3, SessionStepInv
             DEF InitWait, SessionInStep
  <1>8. CASE InitFollow(st)
    <2>1. pos[st] + 1 \in 0..Len(chain)
      BY <1>2, <1>8 DEF InitFollow
    <2>2. StreamTypeOK'
      BY <1>1, <1>2, <1>8, <2>1 DEF InitFollow, StreamTypeOK
    <2>3. pc[st] = "follow" /\ pc'[st] = "wait" /\ ~Reading(st)'
      BY <1>2, <1>8 DEF InitFollow, Reading
    <2>4. <<sid[st], fetched[st]>> \in NamedLists
      BY <2>3 DEF NamedLists, FetchedLists
    <2> QED  BY <1>1, <1>2, <1>3, <1>8, <2>2, <2>3, <2>4, SessionStepInv
             DEF InitFollow, SessionInStep
  <1>9. CASE InitDone(st)
    <2> DEFINE pdo == chain[pos[st]]
    <2>1. pos[st] \in 1..Len(chain) /\ pdo \in Pdo
      BY <1>2, <1>9 DEF InitDone
    <2>2. /\ pc[st] = "wait" /\ pc'[st] \in {"value", "rx"}
          /\ pdo.type = "Data" /\ sid[st] = pdo.signalListId
          /\ pdo.seqNo \in 0..SeqMod - 1
          /\ sid'[st] = sid[st] /\ layout'[st] = fetched[st]
          /\ seqNo'[st] = pdo.seqNo /\ pos'[st] = pos[st]
          /\ activeSet'[st] = activeSet[st] \cup
                 {s \in Elements(fetched[st]) \cap subscribedSet[st] :
                      sid[st] - subscriptionId[s] >= 0}
      BY <1>2, <1>9, <2>1 DEF InitDone, ListIdMatches, LoadSignalList, Pdo
    <2>3. Elements(fetched[st]) \subseteq Signal
      BY <1>2 DEF Elements
    <2>4. activeSet' \in [SessionTask -> SUBSET Signal]
      BY <1>2, <1>9, <2>2, <2>3 DEF InitDone, LoadSignalList
    <2>5. <<>> \in Seq(Signal)
      OBVIOUS
    <2>6. StreamTypeOK'
      BY <1>1, <1>2, <1>9, <2>2, <2>4, <2>5 DEF InitDone, LoadSignalList, StreamTypeOK
    <2>7. SessionInStep(st)'
      BY <1>1, <2>2 DEF SessionInStep
    <2>8. <<sid'[st], layout'[st]>> \in NamedLists
      BY <2>2 DEF NamedLists, FetchedLists
    <2>9. OneSession => \A s \in activeSet'[st] :
             /\ s \in subscribedSet[st]
             /\ st \in sessions[s]
             /\ subscriptionId[s] <= sid'[st]
      <3> SUFFICES ASSUME OneSession, NEW s \in activeSet'[st]
                   PROVE  /\ s \in subscribedSet[st]
                          /\ st \in sessions[s]
                          /\ subscriptionId[s] <= sid'[st]
        OBVIOUS
      <3>1. CASE s \in activeSet[st]
        BY <1>3, <2>2, <3>1
      <3>2. CASE s \in Elements(fetched[st]) \cap subscribedSet[st] /\ sid[st] - subscriptionId[s] >= 0
        <4>1. s \in Signal /\ subscriptionId[s] \in Nat /\ sid[st] \in Nat
          BY <1>2, <2>3, <3>2 DEF ListInv, ListTypeOK
        <4>2. st \in sessions[s]
          BY <1>3, <2>2, <3>2, <4>1 DEF ListInv, SubscribersMatch
        <4> QED  BY <2>2, <3>2, <4>1, <4>2
      <3> QED  BY <2>2, <3>1, <3>2
    <2>10. resync'[st] = FALSE /\ ~(Reading(st)' /\ pos'[st] = 0)
      BY <1>2, <1>9, <2>1, <2>2 DEF InitDone
    <2>11. \A t \in SessionTask \ {st} :
             /\ pc'[t] = pc[t] /\ pos'[t] = pos[t] /\ sid'[t] = sid[t]
             /\ fetched'[t] = fetched[t] /\ layout'[t] = layout[t]
             /\ seqNo'[t] = seqNo[t] /\ activeSet'[t] = activeSet[t]
             /\ resync'[t] = resync[t]
      BY <1>2, <1>9 DEF InitDone, LoadSignalList
    <2> QED  BY <1>1, <1>3, <2>2, <2>6, <2>7, <2>8, <2>9, <2>10, <2>11, SessionStepInv
  <1>10. CASE InitAgain(st)
    <2>1. StreamTypeOK'
      BY <1>1, <1>2, <1>10 DEF InitAgain, StreamTypeOK
    <2>2. pc[st] = "wait" /\ pc'[st] = "getlist" /\ ~Reading(st)'
      BY <1>2, <1>10 DEF InitAgain, Reading
    <2> QED  BY <1>1, <1>2, <1>3, <1>10, <2>1, <2>2, SessionStepInv
             DEF InitAgain, SessionInStep
  <1>11. CASE InitReused(st)
    <2>1. StreamTypeOK'
      BY <1>1, <1>2, <1>11 DEF InitReused, StreamTypeOK
    <2>2. pc[st] \in {"getlist", "wait", "follow"} /\ pc' = pc /\ ~Reading(st)'
      BY <1>2, <1>11 DEF InitReused, Reading
    <2>3. pc[st] \in {"wait", "follow"} => <<sid[st], fetched[st]>> \in NamedLists
      BY <2>2 DEF NamedLists, FetchedLists
    <2> QED  BY <1>1, <1>2, <1>3, <1>11, <2>1, <2>2, <2>3, SessionStepInv
             DEF InitReused, SessionInStep
  <1> QED  BY <1>4, <1>5, <1>6, <1>7, <1>8, <1>9, <1>10, <1>11 DEF SyncUp

\* The Data PDO after the one a session has read is the one it expects.
LEMMA NextIsInSequence ==
  ASSUME StreamInv, NEW st \in SessionTask, Reading(st),
         pos[st] \in 1..Len(chain) - 1, NextPdo(st).type = "Data"
  PROVE  InSequence(st)
  <1> USE DEF StreamInv
  <1> DEFINE p == pos[st]
  <1>1. /\ Len(chain) \in Nat /\ p \in 1..Len(chain) - 1
        /\ p # Len(chain) /\ p > 0
        /\ seqNo[st] \in 0..SeqMod - 1
    BY DEF StreamTypeOK
  <1>2. Follows(p) /\ SessionInStep(st)
    BY DEF ChainInStep
  <1>3. chain[p].type \in {"Empty", "SignalList", "Data"}
    <2>1. chain[p] \in Pdo
      BY <1>1 DEF StreamTypeOK
    <2> QED  BY <2>1 DEF Pdo
  <1>4. /\ chain[p + 1].signalListId = sid[st]
        /\ chain[p + 1].seqNo = NextSeqNo(seqNo[st])
    BY <1>1, <1>2, <1>3 DEF Follows, SessionInStep, NextPdo
  <1> QED  BY <1>1, <1>4, NextSeqNoFacts DEF InSequence, NextPdo

\* rxPdo() preserves the invariant.
LEMMA RxPdoInv ==
  ASSUME ListInv, StreamInv, NEW st \in SessionTask, RxPdo(st)
  PROVE  StreamInv'
  <1> USE DEF StreamInv
  <1> DEFINE p == pos[st]
  <1>1. /\ UNCHANGED <<listVars, rtPc, rtSeqNo, chain>>
        /\ UNCHANGED <<sessions, subscriptionId, listIdNrt, call, subscribedSet>>
        /\ ListTypeOK'
    <2>1. UNCHANGED <<listVars, rtPc, rtSeqNo, chain>>
      BY DEF RxPdo, RxSignalList, RxData, RxEnd, RxOutOfSync
    <2> QED  BY <2>1 DEF listVars, nrtVars, shmVars, rtVars, ListInv, ListTypeOK
  <1>2. /\ chain \in Seq(Pdo) /\ Len(chain) \in Nat /\ Len(chain) > 0
        /\ pc \in [SessionTask -> {"closed", "getlist", "wait", "follow", "idle",
                                    "rx", "value"}]
        /\ pos \in [SessionTask -> 0..Len(chain)]
        /\ sid \in [SessionTask -> Nat]
        /\ fetched \in [SessionTask -> Seq(Signal)]
        /\ layout \in [SessionTask -> Seq(Signal)]
        /\ seqNo \in [SessionTask -> 0..SeqMod - 1]
        /\ activeSet \in [SessionTask -> SUBSET Signal]
        /\ signalBuffer \in [SessionTask -> Seq(Signal) \cup {Null}]
        /\ resync \in [SessionTask -> BOOLEAN]
        /\ rtPc \in {"idle", "process", "list", "data"}
        /\ rtSeqNo \in 0..SeqMod - 1
    BY DEF StreamTypeOK
  <1>3. Reading(st) /\ ((call # Null /\ call.st = st) => pc[st] = "idle")
    BY DEF RxPdo, RxSignalList, RxData, RxEnd, RxOutOfSync, Receiving, Reading,
       CallerIdle
  <1>4. /\ resync[st] => MayLap
        /\ p = 0 => MayLap
        /\ OneSession => \A s \in activeSet[st] :
               /\ s \in subscribedSet[st]
               /\ st \in sessions[s]
               /\ subscriptionId[s] <= sid[st]
        /\ <<sid[st], layout[st]>> \in NamedLists
        /\ SessionInStep(st)
    BY <1>3 DEF ResyncMeansLap, ActiveCurrent, NamedLists, LoadedLists, Reading, ChainInStep
  <1>5. ASSUME p \in 1..Len(chain) - 1
        PROVE  /\ p + 1 \in 1..Len(chain)
               /\ chain[p] \in Pdo
               /\ chain[p + 1] \in Pdo
               /\ Follows(p)
               /\ p + 1 < Len(chain) => Follows(p + 1)
    <2>1. /\ p \in 1..Len(chain) /\ p + 1 \in 1..Len(chain)
          /\ p + 1 < Len(chain) => p + 1 \in 1..Len(chain) - 1
      BY <1>2, <1>5
    <2> QED  BY <1>2, <1>5, <2>1 DEF ChainInStep
  <1>6. CASE RxSignalList(st)
    <2> DEFINE pdo == chain[p + 1]
    <2>1. /\ p \in 1..Len(chain) - 1 /\ p + 1 \in 1..Len(chain)
          /\ Follows(p) /\ (p + 1 < Len(chain) => Follows(p + 1))
          /\ chain[p] \in Pdo /\ pdo \in Pdo
      BY <1>5, <1>6 DEF RxSignalList
    <2>2. /\ pdo.type = "SignalList" /\ pdo.signalListId \in Nat
          /\ pdo.signals \in Seq(Signal)
          /\ pos'[st] = p + 1 /\ pc'[st] = "rx" /\ seqNo' = seqNo
          /\ sid'[st] = pdo.signalListId /\ layout'[st] = pdo.signals
          /\ activeSet'[st] = activeSet[st] \cup
                 {s \in Elements(pdo.signals) \cap subscribedSet[st] :
                      pdo.signalListId - subscriptionId[s] >= 0}
          /\ Free(st)
      BY <1>2, <1>6, <2>1 DEF RxSignalList, LoadSignalList, NextPdo, Pdo, Receiving
    <2>3. Elements(pdo.signals) \subseteq Signal
      BY <2>2 DEF Elements
    <2>4. activeSet' \in [SessionTask -> SUBSET Signal]
      BY <1>2, <1>6, <2>2, <2>3 DEF RxSignalList, LoadSignalList, NextPdo
    <2>5. StreamTypeOK'
      <3>1. pos' \in [SessionTask -> 0..Len(chain)]
        BY <1>2, <1>6, <2>1 DEF RxSignalList
      <3> QED  BY <1>1, <1>2, <1>6, <2>2, <2>4, <3>1
               DEF RxSignalList, LoadSignalList, NextPdo, StreamTypeOK
    <2>6. /\ chain[p].type = "Data" /\ seqNo[st] = chain[p].seqNo
          /\ sid[st] = chain[p].signalListId
          /\ sid[st] <= pdo.signalListId
      <3>1. chain[p].type \in {"Empty", "SignalList", "Data"}
        BY <2>1 DEF Pdo
      <3>2. /\ chain[p].type # "Empty"
            /\ chain[p].type = "SignalList" => pdo.type = "Data"
            /\ chain[p].signalListId <= pdo.signalListId
        BY <2>1 DEF Follows
      <3> QED  BY <1>2, <1>3, <1>4, <2>1, <2>2, <3>1, <3>2 DEF SessionInStep
    <2>7. NextSeqNo(seqNo[st]) = IF p + 1 = Len(chain) THEN rtSeqNo ELSE chain[p + 2].seqNo
      <3>1. CASE p + 1 = Len(chain)
        <4>1. Len(chain) > 1 /\ Len(chain) - 1 = p
          BY <1>2, <2>1, <3>1
        <4>2. EndInStep
          BY DEF ChainInStep
        <4> QED  BY <2>2, <2>6, <3>1, <4>1, <4>2 DEF EndInStep
      <3>2. CASE p + 1 # Len(chain)
        <4>1. /\ Follows(p + 1) /\ p + 1 > 1
              /\ (p + 1) + 1 = p + 2 /\ (p + 1) - 1 = p
          BY <1>2, <2>1, <3>2
        <4> QED  BY <2>2, <2>6, <3>2, <4>1 DEF Follows
      <3> QED  BY <3>1, <3>2
    <2>8. SessionInStep(st)'
      <3>1. (p + 1) + 1 = p + 2
        BY <1>2
      <3> QED  BY <1>1, <2>2, <2>7, <3>1 DEF SessionInStep
    <2>9. <<sid'[st], layout'[st]>> \in NamedLists
      BY <2>1, <2>2 DEF NamedLists, StreamLists
    <2>10. OneSession => \A s \in activeSet'[st] :
             /\ s \in subscribedSet[st]
             /\ st \in sessions[s]
             /\ subscriptionId[s] <= sid'[st]
      <3> SUFFICES ASSUME OneSession, NEW s \in activeSet'[st]
                   PROVE  /\ s \in subscribedSet[st]
                          /\ st \in sessions[s]
                          /\ subscriptionId[s] <= sid'[st]
        OBVIOUS
      <3>1. /\ s \in Signal /\ subscriptionId[s] \in Nat /\ sid[st] \in Nat
            /\ sid'[st] \in Nat
        BY <1>2, <2>2, <2>4 DEF ListInv, ListTypeOK
      <3>2. CASE s \in activeSet[st]
        BY <1>4, <2>2, <2>6, <3>1, <3>2
      <3>3. CASE s \in Elements(pdo.signals) \cap subscribedSet[st]
                     /\ pdo.signalListId - subscriptionId[s] >= 0
        <4>1. st \in sessions[s]
          BY <2>2, <3>1, <3>3 DEF ListInv, SubscribersMatch, Free
        <4> QED  BY <2>2, <3>1, <3>3, <4>1
      <3> QED  BY <2>2, <3>2, <3>3
    <2>11. /\ ~(pos'[st] = 0) /\ resync' = resync
           /\ call # Null => call.st # st
      BY <1>2, <1>6, <2>1, <2>2 DEF RxSignalList, Free
    <2>12. \A t \in SessionTask \ {st} :
             /\ pc'[t] = pc[t] /\ pos'[t] = pos[t] /\ sid'[t] = sid[t]
             /\ fetched'[t] = fetched[t] /\ layout'[t] = layout[t]
             /\ seqNo'[t] = seqNo[t] /\ activeSet'[t] = activeSet[t]
             /\ resync'[t] = resync[t]
      BY <1>2, <1>6 DEF RxSignalList, LoadSignalList
    <2> QED  BY <1>1, <1>4, <2>2, <2>5, <2>8, <2>9, <2>10, <2>11, <2>12, SessionStepInv
  <1>7. CASE RxData(st)
    <2> DEFINE pdo == chain[p + 1]
    <2>1. /\ p \in 1..Len(chain) - 1 /\ p + 1 \in 1..Len(chain) /\ pdo \in Pdo
      BY <1>5, <1>7 DEF RxData
    <2>2. /\ pdo.type = "Data" /\ pdo.signals \in Seq(Signal)
          /\ pdo.seqNo \in 0..SeqMod - 1
          /\ pos'[st] = p + 1 /\ pc'[st] = "value" /\ seqNo'[st] = pdo.seqNo
          /\ sid[st] = pdo.signalListId
          /\ Free(st)
          /\ UNCHANGED <<sid, fetched, layout, activeSet, resync>>
      BY <1>2, <1>7, <2>1 DEF RxData, InSequence, NextPdo, Pdo, Receiving
    <2>3. StreamTypeOK'
      <3>1. pos' \in [SessionTask -> 0..Len(chain)]
        BY <1>2, <1>7, <2>1 DEF RxData
      <3> QED  BY <1>1, <1>2, <1>7, <2>2, <3>1 DEF RxData, NextPdo, StreamTypeOK
    <2>4. SessionInStep(st)'
      BY <1>1, <2>2 DEF SessionInStep
    <2>5. pos'[st] # 0 /\ (call # Null => call.st # st)
      BY <1>2, <2>1, <2>2 DEF Free
    <2>6. \A t \in SessionTask \ {st} :
             pc'[t] = pc[t] /\ pos'[t] = pos[t] /\ seqNo'[t] = seqNo[t]
      BY <1>2, <1>7 DEF RxData
    <2> QED  BY <1>1, <1>4, <2>2, <2>3, <2>4, <2>5, <2>6, SessionStepInv
  <1>8. CASE RxEnd(st)
    <2>1. StreamTypeOK'
      BY <1>1, <1>2, <1>8 DEF RxEnd, StreamTypeOK
    <2>2. /\ pc[st] \in {"value", "rx"} /\ pc'[st] = "idle"
          /\ UNCHANGED <<pos, sid, fetched, layout, seqNo, activeSet, resync>>
      BY <1>2, <1>8 DEF RxEnd
    <2>3. SessionInStep(st)'
      BY <1>1, <1>3, <1>4, <2>2 DEF SessionInStep
    <2>4. \A t \in SessionTask \ {st} : pc'[t] = pc[t]
      BY <1>2, <1>8 DEF RxEnd
    <2> QED  BY <1>1, <1>4, <2>1, <2>2, <2>3, <2>4, SessionStepInv
  <1>9. CASE RxOutOfSync(st)
    <2>1. StreamTypeOK'
      BY <1>1, <1>2, <1>9 DEF RxOutOfSync, StreamTypeOK
    <2>2. /\ pc'[st] = "getlist" /\ ~Reading(st)' /\ Free(st)
          /\ UNCHANGED <<sid, fetched, layout, seqNo, activeSet>>
      BY <1>2, <1>9 DEF RxOutOfSync, Receiving, Reading
    <2>3. p = 0
      BY <1>3, <1>9, NextIsInSequence DEF RxOutOfSync
    <2>4. SessionInStep(st)'
      BY <2>2 DEF SessionInStep
    <2>5. \A t \in SessionTask \ {st} :
             pc'[t] = pc[t] /\ pos'[t] = pos[t] /\ resync'[t] = resync[t]
      BY <1>2, <1>9 DEF RxOutOfSync
    <2> QED  BY <1>1, <1>4, <2>1, <2>2, <2>3, <2>4, <2>5, SessionStepInv DEF Free
  <1> QED  BY <1>6, <1>7, <1>8, <1>9 DEF RxPdo

\* A new PDO goes on from the last one, and the sessions that still have the
\* PDO they have read stay in step.
LEMMA RtLinkInv ==
  ASSUME ListInv, ListInv', StreamInv, RtLinkList \/ RtLinkData
  PROVE  StreamInv'
  <1> USE DEF StreamInv
  <1> DEFINE L == Len(chain)
             last == chain[L]
  <1>1. PICK pdo \in Pdo :
            /\ Link(pdo)
            /\ pdo.type \in {"SignalList", "Data"}
            /\ pdo.signalListId = listIdRt
            /\ pdo.signals = RtLayout
            /\ pdo.type = "SignalList" =>
                   rtPc = "list" /\ rtPc' = "data" /\ rtSeqNo' = rtSeqNo
            /\ pdo.type = "Data" =>
                   /\ rtPc = "data" /\ rtPc' = "idle"
                   /\ pdo.seqNo = rtSeqNo /\ rtSeqNo' = NextSeqNo(rtSeqNo)
    <2>1. /\ listIdRt \in Nat /\ RtLayout \in Seq(Signal)
          /\ rtSeqNo \in 0..SeqMod - 1 /\ 0 \in 0..SeqMod - 1
      BY FlatType, StreamAssumption DEF StreamTypeOK, ListTypeOK, Flat, RtLayout
    <2>2. CASE RtLinkList
      <3> DEFINE q == [type |-> "SignalList", signalListId |-> listIdRt, seqNo |-> 0,
                       signals |-> RtLayout]
      <3>1. q \in Pdo
        BY <2>1 DEF Pdo
      <3>2. Link(q) /\ rtPc = "list" /\ rtPc' = "data" /\ rtSeqNo' = rtSeqNo
        BY <2>2 DEF RtLinkList
      <3> QED  BY <3>1, <3>2
    <2>3. CASE RtLinkData
      <3> DEFINE q == [type |-> "Data", signalListId |-> listIdRt, seqNo |-> rtSeqNo,
                       signals |-> RtLayout]
      <3>1. q \in Pdo
        BY <2>1 DEF Pdo
      <3>2. Link(q) /\ rtPc = "data" /\ rtPc' = "idle" /\ rtSeqNo' = NextSeqNo(rtSeqNo)
        BY <2>3 DEF RtLinkData
      <3> QED  BY <3>1, <3>2
    <2> QED  BY <2>2, <2>3
  <1>2. /\ UNCHANGED listVars
        /\ UNCHANGED <<sessions, subscriptionId, signalCopyList, listIdNrt, call,
                       subscribedSet, slot, rp, wp, after, listIdRt, applied>>
        /\ UNCHANGED <<pc, sid, fetched, layout, seqNo, activeSet, signalBuffer, resync>>
    <2>1. /\ UNCHANGED listVars
          /\ UNCHANGED <<pc, sid, fetched, layout, seqNo, activeSet, signalBuffer, resync>>
      BY DEF RtLinkList, RtLinkData
    <2> QED  BY <2>1 DEF listVars, nrtVars, shmVars, rtVars
  <1>3. /\ chain \in Seq(Pdo) /\ L \in Nat /\ L > 0
        /\ pos \in [SessionTask -> 0..L]
        /\ rtSeqNo \in 0..SeqMod - 1
        /\ \A i \in 1..L : chain[i] \in Pdo /\ chain[i].type \in {"Empty", "SignalList", "Data"}
        /\ listIdRt \in Nat
    <2>1. /\ chain \in Seq(Pdo) /\ L \in Nat /\ L > 0
          /\ pos \in [SessionTask -> 0..L]
          /\ rtSeqNo \in 0..SeqMod - 1
          /\ listIdRt \in Nat
      BY DEF StreamTypeOK, ListTypeOK
    <2>2. \A i \in 1..L : chain[i] \in Pdo
      BY <2>1
    <2>3. \A q \in Pdo : q.type \in {"Empty", "SignalList", "Data"}
      BY DEF Pdo
    <2> QED  BY <2>1, <2>2, <2>3, Zenon
  <1>20. L = 1 \/ L > 1
    <2>1. L \in Nat /\ L > 0
      BY <1>3
    <2>2. \A n \in Nat : n > 0 => n = 1 \/ n > 1
      OBVIOUS
    <2> QED  BY <2>1, <2>2, Zenon
  <1>4. /\ \A i \in 1..L - 1 : Follows(i)
        /\ EndInStep
        /\ \A st \in SessionTask : SessionInStep(st)
    BY DEF ChainInStep
  <1>5. chain[1].type = "Empty" => L = 1
    <2> SUFFICES ASSUME L > 1 PROVE chain[1].type # "Empty"
      BY <1>20
    <2>1. 1 \in 1..L - 1
      BY <1>3
    <2> QED  BY <1>4, <2>1 DEF Follows
  <1>6. PICK c \in Seq(Pdo), cut \in Nat :
             /\ c = IF chain[1].type = "Empty" THEN <<pdo>> ELSE Append(chain, pdo)
             /\ Len(c) = IF chain[1].type = "Empty" THEN 1 ELSE L + 1
             /\ c[Len(c)] = pdo
             /\ \A i \in 1..Len(c) - 1 : c[i] = chain[i]
             /\ cut < Len(c)
             /\ chain' \in Seq(Pdo)
             /\ Len(chain') = Len(c) - cut
             /\ \A i \in 1..Len(c) - cut : chain'[i] = c[cut + i]
             /\ pos' = [st \in SessionTask |->
                            IF pos[st] > cut THEN pos[st] - cut ELSE 0]
             /\ pos' \in [SessionTask -> 0..Len(chain')]
             /\ \A st \in SessionTask : KeepsUp(st) => pos[st] > cut
    BY <1>1, <1>5, LinkFacts
  <1> DEFINE N == Len(c)
  <1>7. /\ N \in Nat /\ N > 0 /\ Len(chain') = N - cut /\ Len(chain') \in Nat
        /\ Len(chain') > 0
        /\ N > 1 => N = L + 1
        /\ N = 1 => chain[1].type = "Empty" /\ L = 1
        /\ N > 1 => chain[1].type # "Empty"
    <2>1. /\ N \in Nat /\ Len(chain') = N - cut /\ cut < N
          /\ N = IF chain[1].type = "Empty" THEN 1 ELSE L + 1
      BY <1>6
    <2> HIDE DEF N
    <2> QED  BY <1>3, <1>5, <2>1
  <1>8. chain'[Len(chain')] = pdo
    <2>1. Len(chain') \in 1..N - cut /\ cut + Len(chain') = N
      BY <1>6, <1>7
    <2> QED  BY <1>6, <2>1
  <1>9. \A i \in 1..N - cut : i # N - cut => cut + i \in 1..L /\ chain'[i] = chain[cut + i]
    <2> SUFFICES ASSUME NEW i \in 1..N - cut, i # N - cut
                 PROVE  cut + i \in 1..L /\ chain'[i] = chain[cut + i]
      OBVIOUS
    <2>1. cut + i \in 1..N - 1 /\ cut + i \in 1..L
      BY <1>3, <1>6, <1>7
    <2> QED  BY <1>6, <2>1
  \* The PDO before the new one, when it is still there, is the last one.
  <1>10. /\ N > 1 => last.type \in {"SignalList", "Data"}
         /\ N > 1 => last.signalListId <= listIdRt
         /\ N > 1 /\ pdo.type = "Data" => last.signalListId = listIdRt
         /\ N > 1 /\ last.type = "SignalList" => pdo.type = "Data"
         /\ N > 1 /\ last.type = "Data" => rtSeqNo = NextSeqNo(last.seqNo)
         /\ N > 1 /\ last.type = "SignalList" /\ L > 1 =>
                rtSeqNo = NextSeqNo(chain[L - 1].seqNo)
         /\ ~applied
    <2>1. N > 1 => last.type # "Empty"
      <3>1. CASE L = 1
        BY <1>7, <3>1
      <3>2. CASE L > 1
        <4>1. L - 1 \in 1..L - 1 /\ (L - 1) + 1 = L
          BY <1>3, <3>2
        <4>2. Follows(L - 1)
          BY <1>4, <4>1
        <4> QED  BY <4>1, <4>2 DEF Follows
      <3> QED  BY <1>20, <3>1, <3>2
    <2>2. last.type \in {"Empty", "SignalList", "Data"}
      BY <1>3
    <2>3. /\ applied => rtPc = "process"
          /\ last.signalListId <= listIdRt
          /\ last.type = "SignalList" => rtPc = "data"
          /\ last.type # "Empty" /\ rtPc \in {"idle", "data"} =>
                 last.signalListId = listIdRt
          /\ last.type = "Data" => rtSeqNo = NextSeqNo(last.seqNo)
          /\ last.type = "SignalList" /\ L > 1 => rtSeqNo = NextSeqNo(chain[L - 1].seqNo)
      BY <1>4 DEF EndInStep
    <2> HIDE DEF last, N, L
    <2> QED  BY <1>1, <2>1, <2>2, <2>3
  <1>11. ASSUME NEW i \in 1..Len(chain') - 1 PROVE Follows(i)'
    <2>1. /\ i \in 1..N - cut /\ i # N - cut /\ i + 1 \in 1..N - cut
          /\ N > 1 /\ N = L + 1 /\ cut + i \in 1..L
          /\ chain'[i] = chain[cut + i]
      <3>1. i \in 1..N - cut /\ i # N - cut /\ i + 1 \in 1..N - cut /\ N > 1
        BY <1>6, <1>7
      <3> QED  BY <1>7, <1>9, <3>1
    <2>2. i > 1 => chain'[i - 1] = chain[(cut + i) - 1] /\ cut + i > 1
      <3> SUFFICES ASSUME i > 1 PROVE chain'[i - 1] = chain[(cut + i) - 1] /\ cut + i > 1
        OBVIOUS
      <3>1. /\ i - 1 \in 1..N - cut /\ i - 1 # N - cut
            /\ cut + (i - 1) = (cut + i) - 1 /\ cut + i > 1
        BY <1>6, <1>7, <2>1
      <3>2. chain'[i - 1] = chain[cut + (i - 1)]
        BY <1>9, <3>1
      <3> QED  BY <3>1, <3>2
    <2>3. CASE i + 1 # N - cut
      <3>1. chain'[i + 1] = chain[cut + (i + 1)]
        BY <1>9, <2>1, <2>3
      <3>2. cut + i \in 1..L - 1 /\ cut + (i + 1) = (cut + i) + 1
        BY <1>3, <1>6, <1>7, <2>1, <2>3
      <3>3. Follows(cut + i)
        BY <1>4, <3>2
      <3>4. chain'[i + 1] = chain[(cut + i) + 1]
        BY <3>1, <3>2
      <3> HIDE DEF L, N
      <3> QED  BY <2>1, <2>2, <3>3, <3>4 DEF Follows
    <2>4. CASE i + 1 = N - cut
      <3>2. chain'[i + 1] = pdo /\ cut + i = L /\ (i > 1 => L > 1 /\ chain'[i - 1] = chain[L - 1])
        <4>1. cut + i = L
          <5>1. N = L + 1 /\ L \in Nat /\ cut \in Nat /\ i \in Nat
            BY <1>3, <1>6, <2>1
          <5>2. \A l, x, k \in Nat : k + 1 = (l + 1) - x => x + k = l
            OBVIOUS
          <5> HIDE DEF N, L
          <5> QED  BY <2>4, <5>1, <5>2
        <4>2. chain'[i + 1] = pdo
          <5>1. Len(chain') = i + 1
            BY <1>7, <2>4
          <5> QED  BY <1>8, <5>1
        <4> HIDE DEF L, N
        <4> QED  BY <2>2, <4>1, <4>2
      <3>3. chain'[i] = last
        BY <2>1, <3>2
      <3> HIDE DEF last, L, N
      <3> QED  BY <1>1, <1>10, <2>1, <3>2, <3>3 DEF Follows
    <2> QED  BY <2>3, <2>4
  <1>12. EndInStep'
    <2>1. Len(chain') > 1 => N > 1 /\ chain'[Len(chain') - 1] = last
      <3> SUFFICES ASSUME Len(chain') > 1
                   PROVE  N > 1 /\ chain'[Len(chain') - 1] = last
        OBVIOUS
      <3>1. /\ Len(chain') - 1 \in 1..N - cut /\ Len(chain') - 1 # N - cut
            /\ cut + (Len(chain') - 1) = N - 1 /\ N > 1
        BY <1>6, <1>7
      <3>2. chain'[Len(chain') - 1] = chain[N - 1]
        BY <1>9, <3>1
      <3>3. N - 1 = L
        BY <1>3, <1>7, <3>1
      <3> QED  BY <3>1, <3>2, <3>3
    <2> HIDE DEF last, L, N
    <2>2. listIdRt <= listIdRt
      BY <1>3
    <2> QED  BY <1>1, <1>2, <1>8, <1>10, <2>1, <2>2 DEF EndInStep
  <1>13. ASSUME NEW st \in SessionTask PROVE SessionInStep(st)'
    <2> DEFINE p == pos[st]
    <2> SUFFICES ASSUME Reading(st), pos'[st] > 0
                 PROVE  LET q == chain'[pos'[st]]
                        IN  /\ q.type # "Empty"
                            /\ sid[st] = q.signalListId
                            /\ q.type = "Data" => seqNo[st] = q.seqNo
                            /\ q.type # "Data" => NextSeqNo(seqNo[st]) =
                                   IF pos'[st] = Len(chain') THEN rtSeqNo'
                                       ELSE chain'[pos'[st] + 1].seqNo
      BY <1>2 DEF SessionInStep, Reading
    <2>1. pos'[st] = IF p > cut THEN p - cut ELSE 0
      BY <1>6
    <2>2. p \in 0..L /\ p > cut /\ pos'[st] = p - cut /\ p > 0 /\ p \in 1..L
      BY <1>3, <1>6, <2>1
    <2>3. /\ chain[p].type # "Empty"
          /\ sid[st] = chain[p].signalListId
          /\ chain[p].type = "Data" => seqNo[st] = chain[p].seqNo
          /\ chain[p].type # "Data" => NextSeqNo(seqNo[st]) =
                 IF p = L THEN rtSeqNo ELSE chain[p + 1].seqNo
      BY <1>4, <2>2 DEF SessionInStep
    <2>4. N > 1 /\ N = L + 1
      BY <1>3, <1>7, <2>2, <2>3
    <2>5. /\ pos'[st] \in 1..N - cut /\ pos'[st] # N - cut /\ cut + pos'[st] = p
          /\ pos'[st] # Len(chain')
      BY <1>3, <1>6, <1>7, <2>2, <2>4
    <2>6. chain'[pos'[st]] = chain[p]
      BY <1>9, <2>5
    <2>7. ASSUME chain[p].type # "Data"
          PROVE  NextSeqNo(seqNo[st]) = chain'[pos'[st] + 1].seqNo
      <3>1. CASE p = L
        <4>1. chain'[pos'[st] + 1] = pdo
          BY <1>3, <1>6, <1>7, <1>8, <2>2, <2>4, <3>1
        <4>2. pdo.type = "Data"
          BY <1>10, <2>3, <2>4, <2>7, <3>1
        <4> QED  BY <1>1, <2>3, <2>7, <3>1, <4>1, <4>2
      <3>2. CASE p # L
        <4>1. /\ pos'[st] + 1 \in 1..N - cut /\ pos'[st] + 1 # N - cut
              /\ cut + (pos'[st] + 1) = p + 1
          BY <1>3, <1>6, <1>7, <2>2, <2>4, <3>2
        <4>2. chain'[pos'[st] + 1] = chain[p + 1]
          BY <1>9, <4>1
        <4> QED  BY <2>3, <2>7, <3>2, <4>2
      <3> QED  BY <3>1, <3>2
    <2> QED  BY <2>3, <2>5, <2>6, <2>7
  <1>14. ChainInStep'
    BY <1>11, <1>12, <1>13 DEF ChainInStep
  <1>15. StreamTypeOK'
    <2>1. rtSeqNo' \in 0..SeqMod - 1 /\ rtPc' \in {"idle", "process", "list", "data"}
      BY <1>1, <1>3, NextSeqNoFacts
    <2> QED  BY <1>2, <1>6, <1>7, <2>1 DEF StreamTypeOK, ListInv
  <1>16. NamedLists' \subseteq NamedLists
    <2>1. /\ RingLists' = RingLists
          /\ FetchedLists' = FetchedLists
          /\ LoadedLists' = LoadedLists
      BY <1>2 DEF RingLists, Live, CurrentList, FetchedLists, LoadedLists, Reading
    <2>2. ASSUME NEW i \in 1..Len(chain'), chain'[i].type # "Empty"
          PROVE  <<chain'[i].signalListId, chain'[i].signals>> \in NamedLists
      <3>1. CASE i = N - cut
        BY <1>1, <1>7, <1>8, <3>1, CurrentNamed
      <3>2. CASE i # N - cut
        <4>1. cut + i \in 1..L /\ chain'[i] = chain[cut + i]
          BY <1>7, <1>9, <3>2
        <4> QED  BY <2>2, <4>1 DEF NamedLists, StreamLists
      <3> QED  BY <3>1, <3>2
    <2>3. StreamLists' \subseteq NamedLists
      BY <2>2 DEF StreamLists
    <2> QED  BY <2>1, <2>3 DEF NamedLists
  <1>17. IdNamesList' /\ InUseListed'
    BY <1>2, <1>16, NamesKept
  <1>18. ResyncMeansLap'
    <2> SUFFICES ASSUME NEW st \in SessionTask, Reading(st), pos'[st] = 0, ~MayLap
                 PROVE  FALSE
      BY <1>2 DEF ResyncMeansLap, Reading
    <2>1. pos[st] # 0
      BY DEF ResyncMeansLap
    <2>2. pos[st] \in 0..L
      BY <1>3
    <2>3. KeepsUp(st)
      BY <1>3, <2>1, <2>2 DEF KeepsUp, Open, Spins, Reading
    <2> QED  BY <1>6, <2>2, <2>3
  <1>19. CallerIdle' /\ (OneSession => ActiveCurrent')
    BY <1>2 DEF CallerIdle, ActiveCurrent
  <1> QED  BY <1>14, <1>15, <1>17, <1>18, <1>19, ActiveTransmittedNext

\* A step of the request list leaves the PDOs and what sessions read of them
\* alone; it may make a new list.
LEMMA ListMoveInv ==
  ASSUME ListInv, ListInv', StreamInv, [ListNext]_listVars,
         UNCHANGED <<rtSeqNo, chain, pc, pos, sid, fetched, layout, seqNo,
                     signalBuffer, resync>>,
         rtPc' \in {"idle", "process", "list", "data"},
         activeSet' \in [SessionTask -> SUBSET Signal],
         EndInStep', CallerIdle',
         OneSession => ActiveCurrent'
  PROVE  StreamInv'
  <1> USE DEF StreamInv
  <1>1. StreamTypeOK'
    BY DEF StreamTypeOK, ListInv
  <1>2. ChainInStep'
    <2>1. \A i \in 1..Len(chain') - 1 : Follows(i)'
      BY DEF ChainInStep, Follows
    <2>2. \A st \in SessionTask : SessionInStep(st)'
      BY DEF ChainInStep, SessionInStep, Reading
    <2> QED  BY <2>1, <2>2 DEF ChainInStep
  <1>3. /\ StreamLists' = StreamLists
        /\ FetchedLists' = FetchedLists
        /\ LoadedLists' = LoadedLists
    BY DEF StreamLists, FetchedLists, LoadedLists, Reading
  <1>4. IdNamesList' /\ InUseListed'
    <2>1. CASE NewRequest
      BY <1>3, <2>1, RingListsGrow, NamesGrow DEF NamedLists
    <2>2. CASE ~NewRequest
      BY <1>3, <2>2, RingListsKept, NamesKept DEF NamedLists
    <2> QED  BY <2>1, <2>2
  <1>5. ResyncMeansLap'
    BY DEF ResyncMeansLap, Reading
  <1> QED  BY <1>1, <1>2, <1>4, <1>5, ActiveTransmittedNext

\* Taking requests and draining the ring preserve the invariant.
LEMMA RtListInv ==
  ASSUME ListInv, ListInv', StreamInv, RtProcess \/ RtRelease \/ RtDrained
  PROVE  StreamInv'
  <1> USE DEF StreamInv
  <1>1. /\ UNCHANGED <<rtSeqNo, chain, pc, pos, sid, fetched, layout, seqNo,
                       activeSet, signalBuffer, resync>>
        /\ UNCHANGED <<sessions, subscriptionId, call, subscribedSet>>
    BY DEF RtProcess, RtRelease, RtDrained, ProcessRequest, ReleaseSlot, streamVars,
       sessionVars, listVars, nrtVars
  <1>2. CallerIdle' /\ (OneSession => ActiveCurrent')
    BY <1>1 DEF CallerIdle, ActiveCurrent
  <1>3. activeSet' \in [SessionTask -> SUBSET Signal]
    BY <1>1 DEF StreamTypeOK
  <1>4. chain[Len(chain)] \in Pdo /\ listIdRt \in Nat
    BY DEF StreamTypeOK, ListTypeOK
  <1>5. EndInStep
    BY DEF ChainInStep
  <1>6. CASE RtProcess
    <2>1. /\ rtPc \in {"idle", "process"} /\ rtPc' = "process" /\ ProcessRequest
      BY <1>6 DEF RtProcess
    <2>2. listIdRt' = listIdRt + 1
      <3>1. rp \in Live \ {wp} /\ ~applied
        BY <2>1, LiveSlots DEF ListInv, ListTypeOK, ProcessRequest
      <3>2. Leads(rp, NextSlot(rp)) /\ listIdRt = slot[rp].signalListId
        BY <3>1 DEF ListInv, RingChained, RtInStep
      <3> QED  BY <2>1, <3>2 DEF Leads, ProcessRequest
    <2>3. EndInStep'
      BY <1>1, <1>4, <1>5, <2>1, <2>2 DEF EndInStep, Pdo
    <2> QED  BY <1>1, <1>2, <1>3, <2>1, <2>3, ListMoveInv DEF ListNext
  <1>7. CASE RtRelease
    <2>1. ReleaseSlot /\ rtPc' = rtPc /\ applied' = FALSE /\ listIdRt' = listIdRt
      BY <1>7 DEF RtRelease, streamVars, ReleaseSlot
    <2>2. EndInStep'
      BY <1>1, <1>5, <2>1 DEF EndInStep
    <2> QED  BY <1>1, <1>2, <1>3, <2>1, <2>2, ListMoveInv DEF ListNext, StreamTypeOK
  <1>8. CASE RtDrained
    <2>1. /\ rtPc \in {"idle", "process"}
          /\ ~applied
          /\ rtPc' = IF rtPc = "process" THEN "list" ELSE "data"
          /\ UNCHANGED listVars
          /\ UNCHANGED <<applied, listIdRt>>
      BY <1>8 DEF RtDrained, listVars, rtVars
    <2>2. EndInStep'
      BY <1>1, <1>5, <2>1 DEF EndInStep
    <2>3. rtPc' \in {"idle", "process", "list", "data"}
      BY <2>1
    <2> QED  BY <1>1, <1>2, <1>3, <2>1, <2>2, <2>3, ListMoveInv
  <1> QED  BY <1>6, <1>7, <1>8

\* subscribe() and unsubscribe() of a session preserve the invariant.
LEMMA SubscribeInv ==
  ASSUME ListInv, ListInv', StreamInv, NEW st \in SessionTask, NEW s \in Signal,
         Subscribe(st, s) \/ Unsubscribe(st, s)
  PROVE  StreamInv'
  <1> USE DEF StreamInv
  <1>1. /\ EnterSubscribe(st, s) \/ EnterUnsubscribe(st, s)
        /\ UNCHANGED <<rtPc, rtSeqNo, chain, pc, pos, sid, fetched, layout, seqNo,
                       signalBuffer, resync>>
        /\ UNCHANGED <<sessions, subscriptionId, applied, listIdRt>>
        /\ pc[st] = "idle"
        /\ call' # Null => call'.st = st
    BY DEF Subscribe, Unsubscribe, EnterSubscribe, EnterUnsubscribe, Enter,
       streamVars, rtVars
  <1>2. ListNext
    BY <1>1 DEF ListNext
  <1>3. EndInStep'
    BY <1>1 DEF ChainInStep, EndInStep
  <1>4. CallerIdle'
    BY <1>1 DEF CallerIdle
  <1>5. /\ activeSet \in [SessionTask -> SUBSET Signal]
        /\ subscribedSet \in [SessionTask -> SUBSET Signal]
    BY DEF StreamTypeOK, ListTypeOK
  <1>6. /\ activeSet' \in [SessionTask -> SUBSET Signal]
        /\ OneSession => ActiveCurrent'
    <2>1. CASE Subscribe(st, s)
      <3>1. /\ activeSet' = activeSet
            /\ subscribedSet' = [subscribedSet EXCEPT ![st] = @ \cup {s}]
        BY <2>1 DEF Subscribe, EnterSubscribe, streamVars
      <3> QED  BY <1>1, <1>5, <3>1 DEF ActiveCurrent
    <2>2. CASE Unsubscribe(st, s)
      <3>1. /\ activeSet' = [activeSet EXCEPT ![st] = @ \ {s}]
            /\ subscribedSet' = [subscribedSet EXCEPT ![st] = @ \ {s}]
        BY <2>2 DEF Unsubscribe, EnterUnsubscribe
      <3> QED  BY <1>1, <1>5, <3>1 DEF ActiveCurrent
    <2> QED  BY <2>1, <2>2
  <1> QED  BY <1>1, <1>2, <1>3, <1>4, <1>6, ListMoveInv DEF StreamTypeOK

\* The steps of Task::subscribe() preserve the invariant.
LEMMA RequestStepInv ==
  ASSUME ListInv, ListInv', StreamInv, SubscribeShared \/ RequestStep
  PROVE  StreamInv'
  <1> USE DEF StreamInv
  <1>1. /\ AlreadySubscribed \/ StillSubscribed \/ RequestInsert \/ RequestRemove \/ Publish
        /\ UNCHANGED <<rtPc, rtSeqNo, chain, pc, pos, sid, fetched, layout, seqNo,
                       signalBuffer, resync>>
    BY DEF SubscribeShared, RequestStep, streamVars
  <1>2. ListNext
    BY <1>1 DEF ListNext, SubscribeCall
  <1>3. /\ call \in Call
        /\ call.signal \in Signal /\ call.st \in SessionTask
        /\ call' = Null \/ call'.st = call.st
        /\ UNCHANGED <<applied, listIdRt, subscribedSet>>
        /\ call # Null
    BY <1>1 DEF AlreadySubscribed, StillSubscribed, RequestInsert, RequestRemove,
       NumberRequest, Publish, Waiting, rtVars, ListInv, ListTypeOK, Call
  <1>4. EndInStep'
    BY <1>1, <1>3 DEF ChainInStep, EndInStep
  <1>5. CallerIdle'
    BY <1>1, <1>3 DEF CallerIdle
  <1>6. /\ activeSet \in [SessionTask -> SUBSET Signal]
        /\ sessions \in [Signal -> SUBSET SessionTask]
        /\ subscriptionId \in [Signal -> Nat]
    BY DEF StreamTypeOK, ListTypeOK
  <1>7. activeSet' \in [SessionTask -> SUBSET Signal]
    BY <1>3, <1>6 DEF SubscribeShared, RequestStep, streamVars
  <1>8. ASSUME OneSession PROVE ActiveCurrent'
    <2>1. ActiveCurrent
      BY <1>8
    <2>2. call.pc = "wait" =>
              /\ call.signal \in subscribedSet[call.st] <=> call.insert
              /\ call.st \in sessions[call.signal] <=> ~call.insert
      BY <1>3 DEF ListInv, SubscribersMatch
    \* Nobody else holds the signal.
    <2>3. ~AlreadySubscribed
      BY <1>3, <1>6, <1>8, <2>2 DEF AlreadySubscribed, Waiting, OneSession
    <2>4. activeSet' = activeSet
      BY <2>3 DEF SubscribeShared, RequestStep, streamVars
    \* The signal of a call is not active while the call decides on it.
    <2>5. call.pc = "wait" => \A st \in SessionTask : call.signal \notin activeSet[st]
      <3> SUFFICES ASSUME call.pc = "wait", NEW st \in SessionTask,
                          call.signal \in activeSet[st]
                   PROVE  FALSE
        OBVIOUS
      <3>1. st = call.st
        BY <1>3, <1>8 DEF OneSession
      <3>2. call.signal \in subscribedSet[st] /\ st \in sessions[call.signal]
        BY <2>1 DEF ActiveCurrent
      <3>3. call.insert \in BOOLEAN
        BY <1>3 DEF Call
      <3> QED  BY <2>2, <3>1, <3>2, <3>3
    <2>6. \A x \in Signal : x # call.signal =>
              sessions'[x] = sessions[x] /\ subscriptionId'[x] = subscriptionId[x]
      <3>1. CASE NewRequest
        BY <1>3, <1>6, <3>1, RingListsGrow
      <3>2. CASE ~NewRequest
        BY <1>1, <1>3, <1>6, <3>2 DEF NewRequest, AlreadySubscribed, StillSubscribed,
           Publish
      <3> QED  BY <3>1, <3>2
    <2>7. CASE call.pc = "wait"
      <3> SUFFICES ASSUME NEW st \in SessionTask, NEW x \in activeSet[st]
                   PROVE  /\ x \in subscribedSet'[st]
                          /\ st \in sessions'[x]
                          /\ pc'[st] # "getlist" => subscriptionId'[x] <= sid'[st]
        BY <2>4 DEF ActiveCurrent
      <3>1. x \in Signal /\ x # call.signal
        BY <1>6, <2>5, <2>7
      <3> QED  BY <1>1, <1>3, <2>1, <2>6, <3>1 DEF ActiveCurrent
    <2>8. CASE call.pc # "wait"
      <3>1. UNCHANGED <<sessions, subscriptionId>>
        BY <1>1, <2>8 DEF AlreadySubscribed, StillSubscribed, RequestInsert,
           RequestRemove, Waiting, Publish
      <3> QED  BY <1>1, <1>3, <2>1, <2>4, <3>1 DEF ActiveCurrent
    <2> QED  BY <2>7, <2>8
  <1> QED  BY <1>1, <1>2, <1>4, <1>5, <1>7, <1>8, ListMoveInv DEF StreamTypeOK

\* Before the first cycle there is only the cleared memory at txMemBegin.
LEMMA StreamInitInv == StreamInit => StreamInv
  <1> SUFFICES ASSUME StreamInit PROVE StreamInv
    OBVIOUS
  <1>1. ListInv
    BY ListInitInv DEF StreamInit
  <1>2. /\ EmptyPdo \in Pdo /\ EmptyPdo.type = "Empty" /\ EmptyPdo.signalListId = 0
        /\ 0 \in 0..SeqMod - 1
    BY StreamAssumption DEF EmptyPdo, Pdo
  <1>3. chain = <<EmptyPdo>> /\ chain \in Seq(Pdo) /\ Len(chain) = 1 /\ chain[1] = EmptyPdo
    BY <1>2 DEF StreamInit
  <1>4. StreamTypeOK
    <2>1. <<>> \in Seq(Signal)
      OBVIOUS
    <2> QED  BY <1>1, <1>2, <1>3, <2>1 DEF StreamInit, StreamTypeOK, ListInv
  <1>5. ChainInStep
    <2>1. EndInStep
      BY <1>2, <1>3 DEF StreamInit, ListInit, EndInStep
    <2>2. \A st \in SessionTask : SessionInStep(st)
      BY DEF StreamInit, SessionInStep, Reading
    <2> QED  BY <1>3, <2>1, <2>2 DEF ChainInStep
  <1>6. NamedLists = {<<0, Flat(EmptyLists)>>}
    <2>1. Live = {0} /\ slot[0].signalListId = 0 /\ after[0] = EmptyLists
      <3>1. 0 \in Slots
        BY RingSize DEF Slots
      <3> QED  BY <3>1 DEF StreamInit, ListInit, Live, ZeroRequest
    <2>2. CurrentList = Flat(EmptyLists) /\ listIdNrt = 0
      BY DEF StreamInit, ListInit, CurrentList, Flat
    <2>3. RingLists = {<<0, Flat(EmptyLists)>>}
      BY <2>1, <2>2 DEF RingLists
    <2>4. StreamLists = {}
      BY <1>2, <1>3 DEF StreamLists
    <2>5. FetchedLists = {} /\ LoadedLists = {}
      BY DEF StreamInit, FetchedLists, LoadedLists, Reading
    <2> QED  BY <2>3, <2>4, <2>5 DEF NamedLists
  <1>7. IdNamesList /\ InUseListed
    BY <1>6 DEF IdNamesList, InUseListed, StreamInit, ListInit
  <1>8. CallerIdle /\ ResyncMeansLap /\ ActiveCurrent /\ ActiveTransmitted
    BY DEF StreamInit, ListInit, CallerIdle, ResyncMeansLap, ActiveCurrent,
       ActiveTransmitted, Reading
  <1> QED  BY <1>4, <1>5, <1>7, <1>8 DEF StreamInv

\* Every step of the real time task and of the sessions preserves it.
LEMMA StreamStepInv ==
  ListInv /\ ListInv' /\ StreamInv /\ [StreamNext]_vars => StreamInv'
  <1> SUFFICES ASSUME ListInv, ListInv', StreamInv, [StreamNext]_vars
               PROVE  StreamInv'
    OBVIOUS
  <1>1. CASE RtUpdate
    BY <1>1, RtListInv, RtLinkInv DEF RtUpdate
  <1>2. ASSUME NEW st \in SessionTask,
               OpenSession(st) \/ CloseSession(st) \/ SyncUp(st) \/ RxPdo(st)
        PROVE  StreamInv'
    BY <1>2, SyncUpInv, RxPdoInv
  <1>3. ASSUME NEW st \in SessionTask, NEW s \in Signal,
               Subscribe(st, s) \/ Unsubscribe(st, s)
        PROVE  StreamInv'
    BY <1>3, SubscribeInv
  <1>4. CASE SubscribeShared \/ RequestStep
    BY <1>4, RequestStepInv
  <1>5. CASE UNCHANGED vars
    <2>1. /\ UNCHANGED listVars
          /\ UNCHANGED streamVars
      BY <1>5 DEF vars
    <2>2. UNCHANGED <<call, applied, listIdRt, sessions, subscribedSet, subscriptionId>>
      BY <2>1 DEF listVars, nrtVars, rtVars
    <2>3. EndInStep' /\ CallerIdle' /\ (OneSession => ActiveCurrent')
      BY <2>1, <2>2 DEF streamVars, StreamInv, ChainInStep, EndInStep, CallerIdle,
         ActiveCurrent
    <2> QED  BY <2>1, <2>3, ListMoveInv DEF streamVars, StreamInv, StreamTypeOK
  <1> QED  BY <1>1, <1>2, <1>3, <1>4, <1>5 DEF StreamNext

\* The stream stays in step with its sessions (Task::rt_update and
\* SessionTaskData), for any number of signals, sessions and PDOs: PDOs are
\* well-formed, ids name lists, and a session that shares its signals with no
\* other finds every active signal in the frames it decodes.
THEOREM StreamInvHolds == StreamSpec => []StreamInv
  <1>1. StreamInit => StreamInv
    BY StreamInitInv
  <1>2. ListInv /\ ListInv' /\ StreamInv /\ [StreamNext]_vars => StreamInv'
    BY StreamStepInv
  <1> QED  BY <1>1, <1>2, StreamListsAgree, PTL DEF StreamSpec

\* Lists, ids and sequence numbers never throw a session out of the stream
\* (SessionTaskData::rxPdo, label out): only overwritten memory does.
THEOREM OutOfSyncMeansLappedHolds == StreamSpec => OutOfSyncMeansLapped
  <1>1. StreamInv /\ [StreamNext]_vars =>
            [\A st \in SessionTask : resync'[st] => resync[st] \/ pos[st] = 0]_vars
    <2> SUFFICES ASSUME StreamInv, [StreamNext]_vars, NEW st \in SessionTask,
                        resync'[st], ~resync[st]
                 PROVE  pos[st] = 0
      OBVIOUS
    <2>1. resync \in [SessionTask -> BOOLEAN]
      BY DEF StreamInv, StreamTypeOK
    <2>2. PICK t \in SessionTask : RxOutOfSync(t)
      BY <2>1 DEF StreamNext, RtUpdate, RtProcess, RtRelease, RtDrained, RtLinkList,
         RtLinkData, OpenSession, CloseSession, SyncUp, InitGetList, InitWait,
         InitFollow, InitDone, InitAgain, InitReused, RxPdo, RxSignalList, RxData,
         RxEnd, Subscribe, Unsubscribe, SubscribeShared, RequestStep, vars,
         streamVars, sessionVars
    <2>3. t = st
      BY <2>1, <2>2 DEF RxOutOfSync
    <2>4. Reading(st)
      BY <2>2, <2>3 DEF RxOutOfSync, Receiving, Reading
    <2> QED  BY <2>2, <2>3, <2>4, NextIsInSequence DEF RxOutOfSync
  <1> QED  BY <1>1, StreamInvHolds, PTL DEF StreamSpec, OutOfSyncMeansLapped

\* As long as no session is lapped between two calls of rxPdo(), the values it
\* decodes lie where its list says (SessionTaskData::rxPdo and loadSignalList):
\* the frame and the list bear the same id, and the id names one list.
THEOREM ValuesDecodedHolds ==
  ASSUME ~MayLap PROVE StreamSpec => []ValuesDecoded
  <1>1. StreamInit => ValuesDecoded
    BY DEF StreamInit, ValuesDecoded
  <1>2. StreamInv /\ ValuesDecoded /\ [StreamNext]_vars => ValuesDecoded'
    <2> SUFFICES ASSUME StreamInv, ValuesDecoded, [StreamNext]_vars,
                        NEW st \in SessionTask, pc'[st] = "value"
                 PROVE  signalBuffer'[st] = layout'[st]
      BY DEF ValuesDecoded
    <2> USE DEF StreamInv
    <2>1. /\ pc \in [SessionTask -> {"closed", "getlist", "wait", "follow", "idle",
                                      "rx", "value"}]
          /\ signalBuffer \in [SessionTask -> Seq(Signal) \cup {Null}]
          /\ layout \in [SessionTask -> Seq(Signal)]
          /\ pos \in [SessionTask -> 0..Len(chain)]
          /\ ~resync[st]
      BY DEF StreamTypeOK, ResyncMeansLap
    <2>2. CASE RxData(st)
      <3> DEFINE i == pos[st] + 1
                 p == <<sid[st], layout[st]>>
                 q == <<chain[i].signalListId, chain[i].signals>>
      <3>1. /\ Reading(st) /\ i \in 1..Len(chain) /\ chain[i].type = "Data"
            /\ chain[i].signalListId = sid[st]
            /\ signalBuffer'[st] = chain[i].signals /\ layout' = layout
        <4>1. /\ Reading(st) /\ pos[st] \in 1..Len(chain) - 1
              /\ NextPdo(st).type = "Data" /\ NextPdo(st).signalListId = sid[st]
              /\ signalBuffer'[st] = NextPdo(st).signals /\ layout' = layout
          BY <2>1, <2>2 DEF RxData, Receiving, Reading, InSequence
        <4>2. Len(chain) \in Nat
          BY DEF StreamTypeOK
        <4> QED  BY <4>1, <4>2 DEF NextPdo
      <3> HIDE DEF i
      <3>2. p \in NamedLists /\ q \in NamedLists
        BY <3>1 DEF NamedLists, LoadedLists, StreamLists
      <3>3. p[1] = q[1] /\ p[2] = layout[st] /\ q[2] = chain[i].signals
        BY <3>1
      <3> HIDE DEF p, q
      <3>4. p[2] = q[2]
        BY <3>2, <3>3 DEF IdNamesList
      <3> QED  BY <3>1, <3>3, <3>4
    <2>3. CASE ~RxData(st)
      <3>1. /\ pc[st] = "value"
            /\ signalBuffer'[st] = signalBuffer[st] /\ layout'[st] = layout[st]
        <4>1. CASE RtUpdate
          BY <4>1 DEF RtUpdate, RtProcess, RtRelease, RtDrained, RtLinkList,
             RtLinkData, streamVars, sessionVars
        <4>2. ASSUME NEW t \in SessionTask, OpenSession(t) \/ CloseSession(t)
              PROVE  pc[st] = "value" /\ signalBuffer'[st] = signalBuffer[st]
                         /\ layout'[st] = layout[st]
          BY <2>1, <4>2 DEF OpenSession, CloseSession
        <4>3. ASSUME NEW t \in SessionTask, SyncUp(t)
              PROVE  pc[st] = "value" /\ signalBuffer'[st] = signalBuffer[st]
                         /\ layout'[st] = layout[st]
          <5>1. CASE InitDone(t)
            <6>1. t # st
              BY <2>1, <5>1 DEF InitDone
            <6> QED  BY <2>1, <5>1, <6>1 DEF InitDone, LoadSignalList
          <5>2. CASE ~InitDone(t)
            BY <2>1, <4>3, <5>2 DEF SyncUp, InitGetList, InitWait, InitFollow,
               InitAgain, InitReused
          <5> QED  BY <5>1, <5>2
        <4>4. ASSUME NEW t \in SessionTask, RxPdo(t)
              PROVE  pc[st] = "value" /\ signalBuffer'[st] = signalBuffer[st]
                         /\ layout'[st] = layout[st]
          BY <2>1, <2>3, <4>4 DEF RxPdo, RxSignalList, RxData, RxEnd, RxOutOfSync,
             LoadSignalList
        <4>5. ASSUME NEW t \in SessionTask, NEW s \in Signal,
                     Subscribe(t, s) \/ Unsubscribe(t, s)
              PROVE  UNCHANGED <<pc, signalBuffer, layout>>
          BY <4>5 DEF Subscribe, Unsubscribe, streamVars
        <4>6. CASE SubscribeShared \/ RequestStep
          BY <4>6 DEF SubscribeShared, RequestStep, streamVars
        <4>7. CASE UNCHANGED vars
          BY <4>7 DEF vars, streamVars
        <4> QED  BY <4>1, <4>2, <4>3, <4>4, <4>5, <4>6, <4>7 DEF StreamNext
      <3> QED  BY <3>1 DEF ValuesDecoded
    <2> QED  BY <2>2, <2>3
  <1> QED  BY <1>1, <1>2, StreamInvHolds, PTL DEF StreamSpec

-----------------------------------------------------------------------------
(* The layout of shared memory.  prefork_init() adds up sizes and then hands *)
(* out addresses in a second calculation; both are sums over what was        *)
(* registered, so first the facts about sums.                                *)

\* A set of numbers that has 0 and with each number the next one has them all.
LEMMA NatsReached ==
  ASSUME NEW T, 0 \in T, \A n \in Nat : n \in T => n + 1 \in T
  PROVE  \A n \in Nat : n \in T
  <1> DEFINE B == {n \in Nat : n \notin T}
  <1> SUFFICES ASSUME B # {} PROVE FALSE
    OBVIOUS
  <1>1. PICK i \in B : \A j \in B : i <= j
    <2>1. B \subseteq Nat
      OBVIOUS
    <2> HIDE DEF B
    <2> QED  BY <2>1, LeastNumber
  <1>2. i - 1 \in Nat /\ ~ (i <= i - 1) /\ (i - 1) + 1 = i
    OBVIOUS
  <1>3. i - 1 \in T
    BY <1>1, <1>2
  <1> QED  BY <1>2, <1>3

\* s[0] .. s[n] are the sums of f so far.
Sums(s, f, n) == s = [i \in 0..n |-> IF i = 0 THEN 0 ELSE s[i - 1] + f[i]]

\* SumTo() is the last of the sums.
LEMMA SumToDef ==
  ASSUME NEW f, NEW n
  PROVE  SumTo(f, n) = (CHOOSE s : Sums(s, f, n))[n]
  BY DEF SumTo, Sums

\* The sums of a function exist, as far as one likes.
LEMMA SumsExist ==
  ASSUME NEW f
  PROVE  \A n \in Nat : \E s : Sums(s, f, n)
  <1> DEFINE T == {n \in Nat : \E s : Sums(s, f, n)}
  <1>1. 0 \in T
    <2>1. Sums([i \in 0..0 |-> 0], f, 0)
      BY DEF Sums
    <2> QED  BY <2>1
  <1>2. ASSUME NEW n \in Nat, n \in T PROVE n + 1 \in T
    <2>1. PICK s : Sums(s, f, n)
      BY <1>2
    <2> DEFINE u == [i \in 0..n + 1 |-> IF i = n + 1 THEN s[n] + f[n + 1] ELSE s[i]]
    <2>2. ASSUME NEW i \in 0..n + 1
          PROVE  u[i] = IF i = 0 THEN 0 ELSE u[i - 1] + f[i]
      <3>1. CASE i = n + 1
        <4>1. i - 1 = n /\ i - 1 \in 0..n + 1 /\ i # 0 /\ i - 1 # n + 1
          BY <3>1
        <4> QED  BY <3>1, <4>1
      <3>2. CASE i # n + 1 /\ i = 0
        <4>1. s[0] = 0
          BY <2>1 DEF Sums
        <4> QED  BY <3>2, <4>1
      <3>3. CASE i # n + 1 /\ i # 0
        <4>1. i \in 0..n /\ i - 1 \in 0..n + 1 /\ i - 1 # n + 1
          BY <3>3
        <4>2. s[i] = s[i - 1] + f[i]
          BY <2>1, <3>3, <4>1 DEF Sums
        <4> QED  BY <3>3, <4>1, <4>2
      <3> QED  BY <3>1, <3>2, <3>3
    <2>3. u = [i \in 0..n + 1 |-> u[i]]
      OBVIOUS
    <2>4. Sums(u, f, n + 1)
      <3> HIDE DEF u
      <3> QED  BY <2>2, <2>3 DEF Sums
    <2> QED  BY <2>4
  <1> HIDE DEF T
  <1>3. \A n \in Nat : n \in T
    BY <1>1, <1>2, NatsReached
  <1> QED  BY <1>3 DEF T

\* Sums of the same function agree as far as both go.
LEMMA SumsUnique ==
  ASSUME NEW f, NEW n \in Nat, NEW m \in Nat, NEW s, NEW u,
         Sums(s, f, n), Sums(u, f, m)
  PROVE  \A i \in Nat : i <= n /\ i <= m => s[i] = u[i]
  <1> DEFINE T == {i \in Nat : i <= n /\ i <= m => s[i] = u[i]}
  <1>1. 0 \in T
    BY DEF Sums
  <1>2. ASSUME NEW i \in Nat, i \in T PROVE i + 1 \in T
    <2> SUFFICES ASSUME i + 1 <= n, i + 1 <= m PROVE s[i + 1] = u[i + 1]
      OBVIOUS
    <2>1. i + 1 \in 0..n /\ i + 1 \in 0..m /\ i + 1 # 0 /\ (i + 1) - 1 = i
      OBVIOUS
    <2>2. s[i + 1] = s[i] + f[i + 1] /\ u[i + 1] = u[i] + f[i + 1]
      BY <2>1 DEF Sums
    <2>3. s[i] = u[i]
      BY <1>2
    <2> QED  BY <2>2, <2>3
  <1> HIDE DEF T
  <1>3. \A i \in Nat : i \in T
    BY <1>1, <1>2, NatsReached
  <1> QED  BY <1>3 DEF T

\* A sum of nothing is 0.
LEMMA SumToZero ==
  ASSUME NEW f
  PROVE  SumTo(f, 0) = 0
  <1>1. \E s : Sums(s, f, 0)
    BY SumsExist
  <1>2. Sums(CHOOSE s : Sums(s, f, 0), f, 0)
    BY <1>1
  <1> QED  BY <1>2, SumToDef DEF Sums

\* One more element adds to the sum.
LEMMA SumToNext ==
  ASSUME NEW f, NEW n \in Nat
  PROVE  SumTo(f, n + 1) = SumTo(f, n) + f[n + 1]
  <1> DEFINE s == CHOOSE s : Sums(s, f, n)
             u == CHOOSE u : Sums(u, f, n + 1)
  <1>1. Sums(s, f, n)
    BY SumsExist
  <1>2. Sums(u, f, n + 1)
    <2>1. \E w : Sums(w, f, n + 1)
      BY SumsExist
    <2> QED  BY <2>1
  <1>3. SumTo(f, n) = s[n] /\ SumTo(f, n + 1) = u[n + 1]
    BY SumToDef
  <1> HIDE DEF s, u
  <1>4. s[n] = u[n]
    BY <1>1, <1>2, SumsUnique
  <1>5. u[n + 1] = u[n] + f[n + 1]
    <2>1. n + 1 \in 0..n + 1 /\ n + 1 # 0 /\ (n + 1) - 1 = n
      OBVIOUS
    <2> QED  BY <1>2, <2>1 DEF Sums
  <1> QED  BY <1>3, <1>4, <1>5

\* A sum depends on the elements it adds, and on nothing else.
LEMMA SumToSame ==
  ASSUME NEW n \in Nat, NEW f, NEW g, \A i \in 1..n : f[i] = g[i]
  PROVE  SumTo(f, n) = SumTo(g, n)
  <1> DEFINE T == {i \in Nat : i <= n => SumTo(f, i) = SumTo(g, i)}
  <1>1. 0 \in T
    BY SumToZero
  <1>2. ASSUME NEW i \in Nat, i \in T PROVE i + 1 \in T
    <2> SUFFICES ASSUME i + 1 <= n PROVE SumTo(f, i + 1) = SumTo(g, i + 1)
      OBVIOUS
    <2>1. i + 1 \in 1..n /\ i <= n
      OBVIOUS
    <2>2. SumTo(f, i) = SumTo(g, i) /\ f[i + 1] = g[i + 1]
      BY <1>2, <2>1
    <2> QED  BY <2>2, SumToNext
  <1> HIDE DEF T
  <1>3. \A i \in Nat : i \in T
    BY <1>1, <1>2, NatsReached
  <1> QED  BY <1>3 DEF T

\* Sums of natural numbers are natural numbers.
LEMMA SumToNat ==
  ASSUME NEW n \in Nat, NEW f, \A i \in 1..n : f[i] \in Nat
  PROVE  \A i \in 0..n : SumTo(f, i) \in Nat
  <1> DEFINE T == {i \in Nat : i <= n => SumTo(f, i) \in Nat}
  <1>1. 0 \in T
    BY SumToZero
  <1>2. ASSUME NEW i \in Nat, i \in T PROVE i + 1 \in T
    <2> SUFFICES ASSUME i + 1 <= n PROVE SumTo(f, i + 1) \in Nat
      OBVIOUS
    <2>1. i + 1 \in 1..n /\ i <= n
      OBVIOUS
    <2>2. SumTo(f, i) \in Nat /\ f[i + 1] \in Nat
      BY <1>2, <2>1
    <2>3. SumTo(f, i + 1) = SumTo(f, i) + f[i + 1]
      BY SumToNext
    <2> QED  BY <2>2, <2>3
  <1> HIDE DEF T
  <1>3. \A i \in Nat : i \in T
    BY <1>1, <1>2, NatsReached
  <1> QED  BY <1>3 DEF T

\* They grow with every element.
LEMMA SumToGrows ==
  ASSUME NEW n \in Nat, NEW f, \A i \in 1..n : f[i] \in Nat
  PROVE  \A k, m \in 0..n : k <= m => SumTo(f, k) <= SumTo(f, m)
  <1> SUFFICES ASSUME NEW k \in 0..n
               PROVE  \A m \in 0..n : k <= m => SumTo(f, k) <= SumTo(f, m)
    OBVIOUS
  <1>0. \A i \in 0..n : SumTo(f, i) \in Nat
    BY SumToNat
  <1> DEFINE T == {i \in Nat : i <= n /\ k <= i => SumTo(f, k) <= SumTo(f, i)}
  <1>1. 0 \in T
    <2>1. k <= 0 => k = 0
      OBVIOUS
    <2>2. SumTo(f, 0) <= SumTo(f, 0)
      BY SumToZero
    <2> QED  BY <2>1, <2>2
  <1>2. ASSUME NEW i \in Nat, i \in T PROVE i + 1 \in T
    <2> SUFFICES ASSUME i + 1 <= n, k <= i + 1 PROVE SumTo(f, k) <= SumTo(f, i + 1)
      OBVIOUS
    <2>1. i + 1 \in 1..n /\ i \in 0..n /\ i + 1 \in 0..n
      OBVIOUS
    <2>2. SumTo(f, i + 1) = SumTo(f, i) + f[i + 1]
      BY SumToNext
    <2>3. SumTo(f, i) \in Nat /\ f[i + 1] \in Nat /\ SumTo(f, k) \in Nat
      BY <1>0, <2>1
    <2>4. CASE k = i + 1
      BY <1>0, <2>1, <2>4
    <2>5. CASE k # i + 1
      <3>1. k <= i /\ i <= n
        BY <2>5
      <3>2. SumTo(f, k) <= SumTo(f, i)
        BY <1>2, <3>1
      <3> QED  BY <2>2, <2>3, <3>2
    <2> QED  BY <2>4, <2>5
  <1> HIDE DEF T
  <1>3. \A i \in Nat : i \in T
    BY <1>1, <1>2, NatsReached
  <1> QED  BY <1>3 DEF T

\* Elements that are sums of two make a sum of two sums.
LEMMA SumToPlus ==
  ASSUME NEW n \in Nat, NEW f, NEW g, NEW h,
         \A i \in 1..n : f[i] \in Nat /\ g[i] \in Nat /\ h[i] = f[i] + g[i]
  PROVE  SumTo(h, n) = SumTo(f, n) + SumTo(g, n)
  <1>0. \A i \in 0..n : SumTo(f, i) \in Nat /\ SumTo(g, i) \in Nat
    BY SumToNat
  <1> DEFINE T == {i \in Nat : i <= n => SumTo(h, i) = SumTo(f, i) + SumTo(g, i)}
  <1>1. 0 \in T
    BY SumToZero
  <1>2. ASSUME NEW i \in Nat, i \in T PROVE i + 1 \in T
    <2> SUFFICES ASSUME i + 1 <= n
                 PROVE  SumTo(h, i + 1) = SumTo(f, i + 1) + SumTo(g, i + 1)
      OBVIOUS
    <2>1. i + 1 \in 1..n /\ i <= n /\ i \in 0..n
      OBVIOUS
    <2>2. SumTo(h, i) = SumTo(f, i) + SumTo(g, i)
      BY <1>2, <2>1
    <2>3. /\ SumTo(h, i + 1) = SumTo(h, i) + h[i + 1]
          /\ SumTo(f, i + 1) = SumTo(f, i) + f[i + 1]
          /\ SumTo(g, i + 1) = SumTo(g, i) + g[i + 1]
      BY SumToNext
    <2>4. /\ SumTo(f, i) \in Nat /\ SumTo(g, i) \in Nat
          /\ f[i + 1] \in Nat /\ g[i + 1] \in Nat /\ h[i + 1] = f[i + 1] + g[i + 1]
      BY <1>0, <2>1
    <2> QED  BY <2>2, <2>3, <2>4
  <1> HIDE DEF T
  <1>3. \A i \in Nat : i \in T
    BY <1>1, <1>2, NatsReached
  <1> QED  BY <1>3 DEF T

\* What adds up multiples of an alignment is aligned.
LEMMA SumToMultiple ==
  ASSUME NEW n \in Nat, NEW f, NEW d \in {1, 2, 4, 8},
         \A i \in 1..n : f[i] \in Nat /\ f[i] % d = 0
  PROVE  SumTo(f, n) % d = 0
  <1>0. \A i \in 0..n : SumTo(f, i) \in Nat
    BY SumToNat
  <1>a. \A x, y \in Nat : x % d = 0 /\ y % d = 0 => (x + y) % d = 0
    OBVIOUS
  <1> DEFINE T == {i \in Nat : i <= n => SumTo(f, i) % d = 0}
  <1>1. 0 \in T
    BY SumToZero
  <1>2. ASSUME NEW i \in Nat, i \in T PROVE i + 1 \in T
    <2> SUFFICES ASSUME i + 1 <= n PROVE SumTo(f, i + 1) % d = 0
      OBVIOUS
    <2>1. i + 1 \in 1..n /\ i <= n /\ i \in 0..n
      OBVIOUS
    <2>2. SumTo(f, i) \in Nat /\ SumTo(f, i) % d = 0
      BY <1>0, <1>2, <2>1
    <2>3. f[i + 1] \in Nat /\ f[i + 1] % d = 0
      BY <2>1
    <2>4. SumTo(f, i + 1) = SumTo(f, i) + f[i + 1]
      BY SumToNext
    <2> QED  BY <1>a, <2>2, <2>3, <2>4
  <1> HIDE DEF T
  <1>3. \A i \in Nat : i \in T
    BY <1>1, <1>2, NatsReached
  <1> QED  BY <1>3 DEF T

\* The largest of the sizes is a size, or 0.
LEMMA Max0Nat ==
  ASSUME NEW n \in Nat, NEW f, DOMAIN f = 1..n, \A i \in 1..n : f[i] \in Nat
  PROVE  Max0(f) \in Nat
  <1> DEFINE Top(i) == \E m \in {0} \cup {f[k] : k \in 1..n} :
                           \A k \in 1..i : f[k] <= m
             T == {i \in Nat : i <= n => Top(i)}
  <1>1. 0 \in T
    OBVIOUS
  <1>2. ASSUME NEW i \in Nat, i \in T PROVE i + 1 \in T
    <2> SUFFICES ASSUME i + 1 <= n PROVE Top(i + 1)
      OBVIOUS
    <2>1. i <= n /\ i + 1 \in 1..n
      OBVIOUS
    <2>2. PICK m \in {0} \cup {f[k] : k \in 1..n} : \A k \in 1..i : f[k] <= m
      BY <1>2, <2>1
    <2>3. m \in Nat /\ f[i + 1] \in Nat /\ \A k \in 1..i : k \in 1..n
      BY <2>1
    <2>4. CASE f[i + 1] <= m
      <3>1. \A k \in 1..i + 1 : k \in 1..i \/ k = i + 1
        OBVIOUS
      <3> QED  BY <2>2, <2>4, <3>1
    <2>5. CASE ~ (f[i + 1] <= m)
      <3>1. m <= f[i + 1]
        BY <2>3, <2>5
      <3>2. \A k \in 1..i + 1 : k \in 1..i \/ k = i + 1
        OBVIOUS
      <3>3. \A k \in 1..i : f[k] \in Nat /\ f[k] <= f[i + 1]
        BY <2>2, <2>3, <3>1
      <3>4. \A k \in 1..i + 1 : f[k] <= f[i + 1]
        BY <2>3, <3>2, <3>3
      <3>5. f[i + 1] \in {0} \cup {f[k] : k \in 1..n}
        BY <2>1
      <3> QED  BY <3>4, <3>5
    <2> QED  BY <2>4, <2>5
  <1> HIDE DEF T
  <1>3. Top(n)
    <2>1. n \in T
      BY <1>1, <1>2, NatsReached
    <2> QED  BY <2>1 DEF T
  <1>4. \E m \in {0} \cup {f[k] : k \in DOMAIN f} : \A k \in DOMAIN f : f[k] <= m
    BY <1>3
  <1>5. Max0(f) \in {0} \cup {f[k] : k \in DOMAIN f}
    BY <1>4 DEF Max0
  <1> QED  BY <1>5

-----------------------------------------------------------------------------
(* What is registered, and the alignment of addresses                       *)

LayoutTask == [periods : Nat, signals : Seq(VarTypes), signalMemSize : Nat,
               signalTypeCount : [0..3 -> Nat]]

LayoutTypeOK ==
    /\ tasks \in Seq(LayoutTask) /\ params \in Seq(VarTypes) /\ events \in Seq(Nat)

\* ptr_align() moves a pointer on by less than 8 bytes.
LEMMA AlignFacts ==
  ASSUME NEW n \in Nat
  PROVE  /\ Align(n) \in Nat /\ n <= Align(n) /\ Align(n) <= n + 7
         /\ Align(n) % 8 = 0 /\ (n % 8 = 0 => Align(n) = n)
  BY DEF Align

\* Every alignment has a group.
LEMMA VarFacts ==
  ASSUME NEW v \in VarTypes
  PROVE  /\ v.align \in {1, 2, 4, 8} /\ v.memSize \in Nat
         /\ Index(v.align) \in 0..3
  BY ShmemAssumption DEF Index

\* The size of a variable is a multiple of the alignment of a narrower one.
LEMMA WiderFits ==
  ASSUME NEW v \in VarTypes, NEW w \in VarTypes, Index(v.align) <= Index(w.align),
         Padded(v)
  PROVE  v.memSize % w.align = 0
  <1>1. v.align \in {1, 2, 4, 8} /\ v.memSize \in Nat /\ v.memSize % v.align = 0
    BY VarFacts DEF Padded
  <1>2. w.align \in {1, 2, 4, 8}
    BY VarFacts
  <1>3. v.align >= w.align
    BY <1>1, <1>2 DEF Index
  <1>4. \A m \in Nat : \A a, b \in {1, 2, 4, 8} :
           a >= b /\ m % a = 0 => m % b = 0
    OBVIOUS
  <1> QED  BY <1>1, <1>2, <1>3, <1>4

-----------------------------------------------------------------------------

\* The sizes of the parameters in group c, and of those in wider groups
InGroup(c) == [j \in 1..Len(params) |->
                  IF Index(params[j].align) = c THEN params[j].memSize ELSE 0]
Below(c) == [j \in 1..Len(params) |->
                  IF Index(params[j].align) < c THEN params[j].memSize ELSE 0]

\* The types of the parameters and their sizes
LEMMA GroupNat ==
  ASSUME LayoutTypeOK, NEW c \in 0..4
  PROVE  \A j \in 1..Len(params) :
            /\ params[j] \in VarTypes
            /\ InGroup(c)[j] \in Nat /\ Below(c)[j] \in Nat
            /\ Index(params[j].align) \in 0..3 /\ params[j].memSize \in Nat
  <1> SUFFICES ASSUME NEW j \in 1..Len(params)
               PROVE  /\ params[j] \in VarTypes
                      /\ InGroup(c)[j] \in Nat /\ Below(c)[j] \in Nat
                      /\ Index(params[j].align) \in 0..3 /\ params[j].memSize \in Nat
    OBVIOUS
  <1>1. params[j] \in VarTypes
    BY DEF LayoutTypeOK
  <1>2. Index(params[j].align) \in 0..3 /\ params[j].memSize \in Nat
    BY <1>1, VarFacts
  <1> QED  BY <1>1, <1>2 DEF InGroup, Below

\* parameterDataOffset[c] as a sum over all parameters
LEMMA OffsetDef ==
  ASSUME LayoutTypeOK, NEW c \in 0..4
  PROVE  ParameterDataOffset(c) = SumTo(Below(c), Len(params))
  <1>1. DOMAIN params = 1..Len(params) /\ Len(params) \in Nat
    BY DEF LayoutTypeOK
  <1>2. ParameterDataOffset(c) = Sum(Below(c))
    BY <1>1 DEF ParameterDataOffset, Below
  <1>3. Len(Below(c)) = Len(params)
    BY <1>1 DEF Below
  <1> QED  BY <1>2, <1>3 DEF Sum

\* parameterDataOffset[] holds sizes.
LEMMA OffsetNat ==
  ASSUME LayoutTypeOK, NEW c \in 0..4
  PROVE  ParameterDataOffset(c) \in Nat
  <1>1. Len(params) \in Nat
    BY DEF LayoutTypeOK
  <1>2. SumTo(Below(c), Len(params)) \in Nat
    <2>1. \A i \in 1..Len(params) : Below(c)[i] \in Nat
      BY GroupNat
    <2>2. \A i \in 0..Len(params) : SumTo(Below(c), i) \in Nat
      BY <1>1, <2>1, SumToNat
    <2> QED  BY <1>1, <2>2
  <1> QED  BY <1>2, OffsetDef

\* A group begins where the group before it ends.
LEMMA OffsetNext ==
  ASSUME LayoutTypeOK, NEW c \in 0..3
  PROVE  ParameterDataOffset(c + 1) =
            ParameterDataOffset(c) + SumTo(InGroup(c), Len(params))
  <1>1. Len(params) \in Nat /\ c \in 0..4 /\ c + 1 \in 0..4
    BY DEF LayoutTypeOK
  <1>2. ASSUME NEW i \in 1..Len(params)
        PROVE  /\ Below(c)[i] \in Nat /\ InGroup(c)[i] \in Nat
               /\ Below(c + 1)[i] = Below(c)[i] + InGroup(c)[i]
    <2>1. Below(c)[i] \in Nat /\ InGroup(c)[i] \in Nat
          /\ Index(params[i].align) \in 0..3 /\ params[i].memSize \in Nat
      BY <1>1, GroupNat
    <2> QED  BY <2>1 DEF Below, InGroup
  <1>3. SumTo(Below(c + 1), Len(params)) =
          SumTo(Below(c), Len(params)) + SumTo(InGroup(c), Len(params))
    BY <1>1, <1>2, SumToPlus
  <1> QED  BY <1>1, <1>3, OffsetDef

\* The groups of narrower parameters come later.
LEMMA OffsetGrows ==
  ASSUME LayoutTypeOK
  PROVE  \A c, e \in 0..4 : c <= e => ParameterDataOffset(c) <= ParameterDataOffset(e)
  <1>1. \A c \in 0..4 : ParameterDataOffset(c) \in Nat
    BY OffsetNat
  <1>2. \A c \in 0..3 : SumTo(InGroup(c), Len(params)) \in Nat
    <2> SUFFICES ASSUME NEW c \in 0..3
                 PROVE  SumTo(InGroup(c), Len(params)) \in Nat
      OBVIOUS
    <2>1. Len(params) \in Nat /\ c \in 0..4
      BY DEF LayoutTypeOK
    <2>2. \A i \in 1..Len(params) : InGroup(c)[i] \in Nat
      BY <2>1, GroupNat
    <2>3. \A i \in 0..Len(params) : SumTo(InGroup(c), i) \in Nat
      BY <2>1, <2>2, SumToNat
    <2> QED  BY <2>1, <2>3
  <1>3. \A c \in 0..3 : ParameterDataOffset(c) <= ParameterDataOffset(c + 1)
    <2> SUFFICES ASSUME NEW c \in 0..3
                 PROVE  ParameterDataOffset(c) <= ParameterDataOffset(c + 1)
      OBVIOUS
    <2>1. c \in 0..4 /\ c + 1 \in 0..4
      OBVIOUS
    <2>2. /\ ParameterDataOffset(c) \in Nat /\ ParameterDataOffset(c + 1) \in Nat
          /\ SumTo(InGroup(c), Len(params)) \in Nat
      BY <1>1, <1>2, <2>1
    <2>3. ParameterDataOffset(c + 1) =
            ParameterDataOffset(c) + SumTo(InGroup(c), Len(params))
      BY OffsetNext
    <2> QED  BY <2>2, <2>3
  <1>4. /\ ParameterDataOffset(0) \in Nat /\ ParameterDataOffset(1) \in Nat
        /\ ParameterDataOffset(2) \in Nat /\ ParameterDataOffset(3) \in Nat
        /\ ParameterDataOffset(4) \in Nat
    BY <1>1
  <1>5. /\ ParameterDataOffset(0) <= ParameterDataOffset(1)
        /\ ParameterDataOffset(1) <= ParameterDataOffset(2)
        /\ ParameterDataOffset(2) <= ParameterDataOffset(3)
        /\ ParameterDataOffset(3) <= ParameterDataOffset(4)
    <2>1. /\ ParameterDataOffset(0) <= ParameterDataOffset(0 + 1)
          /\ ParameterDataOffset(1) <= ParameterDataOffset(1 + 1)
          /\ ParameterDataOffset(2) <= ParameterDataOffset(2 + 1)
          /\ ParameterDataOffset(3) <= ParameterDataOffset(3 + 1)
      BY <1>3
    <2> QED  BY <2>1
  <1> SUFFICES ASSUME NEW c \in 0..4, NEW e \in 0..4, c <= e
               PROVE  ParameterDataOffset(c) <= ParameterDataOffset(e)
    OBVIOUS
  <1>6. /\ c = 0 \/ c = 1 \/ c = 2 \/ c = 3 \/ c = 4
        /\ e = 0 \/ e = 1 \/ e = 2 \/ e = 3 \/ e = 4
    OBVIOUS
  <1> QED  BY <1>4, <1>5, <1>6

\* Where a parameter lies in its group
LEMMA ParamPlace ==
  ASSUME LayoutTypeOK, NEW k \in 1..Len(params)
  PROVE  LET c == Index(params[k].align)
         IN  /\ ParamAddr(k) = ParameterDataOffset(c) + SumTo(InGroup(c), k - 1)
             /\ ParamAddr(k) + params[k].memSize =
                   ParameterDataOffset(c) + SumTo(InGroup(c), k)
  <1> DEFINE c == Index(params[k].align)
             f == [j \in 1..k - 1 |->
                      IF Index(params[j].align) = Index(params[k].align)
                        THEN params[j].memSize ELSE 0]
  <1>1. Len(params) \in Nat /\ k - 1 \in Nat /\ (k - 1) + 1 = k
        /\ \A j \in 1..k - 1 : j \in 1..Len(params)
    BY DEF LayoutTypeOK
  <1>2. c \in 0..3 /\ params[k].memSize \in Nat
    BY GroupNat
  <1>3. ParamAddr(k) = ParameterDataOffset(c) + Sum(f)
    BY DEF ParamAddr
  <1>4. Len(f) = k - 1
    BY <1>1
  <1>5. \A j \in 1..k - 1 : f[j] = InGroup(c)[j]
    BY <1>1 DEF InGroup
  <1> HIDE DEF f
  <1>6. Sum(f) = SumTo(InGroup(c), k - 1)
    <2>1. Sum(f) = SumTo(f, k - 1)
      BY <1>4 DEF Sum
    <2> HIDE DEF c
    <2>2. SumTo(f, k - 1) = SumTo(InGroup(c), k - 1)
      BY <1>1, <1>5, SumToSame
    <2> QED  BY <2>1, <2>2
  <1>7. InGroup(c)[k] = params[k].memSize
    BY DEF InGroup
  <1> HIDE DEF c
  <1>8. SumTo(InGroup(c), k) = SumTo(InGroup(c), k - 1) + params[k].memSize
    <2>1. SumTo(InGroup(c), (k - 1) + 1) =
             SumTo(InGroup(c), k - 1) + InGroup(c)[(k - 1) + 1]
      BY <1>1, SumToNext
    <2> QED  BY <1>1, <1>7, <2>1
  <1>9. ParameterDataOffset(c) \in Nat /\ SumTo(InGroup(c), k - 1) \in Nat
    <2>1. k - 1 \in 0..Len(params) /\ c \in 0..4
      BY <1>1, <1>2
    <2> QED  BY <1>1, <2>1, OffsetNat, GroupNat, SumToNat
  <1>10. ParamAddr(k) = ParameterDataOffset(c) + SumTo(InGroup(c), k - 1)
    BY <1>3, <1>6
  <1>11. ParamAddr(k) + params[k].memSize =
                   ParameterDataOffset(c) + SumTo(InGroup(c), k)
    BY <1>2, <1>8, <1>9, <1>10
  <1> QED  BY <1>10, <1>11 DEF c

\* Inside a group the addresses grow with every parameter.
LEMMA GroupSums ==
  ASSUME LayoutTypeOK, NEW c \in 0..3
  PROVE  /\ \A i \in 0..Len(params) : SumTo(InGroup(c), i) \in Nat
         /\ \A i, j \in 0..Len(params) :
               i <= j => SumTo(InGroup(c), i) <= SumTo(InGroup(c), j)
  <1>1. Len(params) \in Nat /\ c \in 0..4
    BY DEF LayoutTypeOK
  <1>2. \A i \in 1..Len(params) : InGroup(c)[i] \in Nat
    BY <1>1, GroupNat
  <1> QED  BY <1>1, <1>2, SumToNat, SumToGrows

\* A parameter lies inside its group, and in the memory of the parameters.
LEMMA ParamInside ==
  ASSUME LayoutTypeOK, NEW k \in 1..Len(params)
  PROVE  LET c == Index(params[k].align)
         IN  /\ ParamAddr(k) \in Nat /\ params[k].memSize \in Nat
             /\ ParameterDataOffset(c) <= ParamAddr(k)
             /\ ParamAddr(k) + params[k].memSize <= ParameterDataOffset(c + 1)
             /\ ParamAddr(k) + params[k].memSize <= ParameterDataOffset(4)
  <1> DEFINE c == Index(params[k].align)
             P == ParameterDataOffset(c)
             S(i) == SumTo(InGroup(c), i)
  <1>1. c \in 0..3 /\ params[k].memSize \in Nat
    BY GroupNat
  <1>2. /\ ParamAddr(k) = P + S(k - 1)
        /\ ParamAddr(k) + params[k].memSize = P + S(k)
    BY ParamPlace
  <1> HIDE DEF c
  <1>3. c \in 0..4 /\ c + 1 \in 0..4 /\ 4 \in 0..4 /\ c + 1 <= 4
        /\ k \in 0..Len(params) /\ k - 1 \in 0..Len(params)
        /\ Len(params) \in 0..Len(params) /\ k <= Len(params)
    BY <1>1 DEF LayoutTypeOK
  <1>4. /\ P \in Nat /\ ParameterDataOffset(c + 1) \in Nat
        /\ ParameterDataOffset(4) \in Nat
    BY <1>3, OffsetNat
  <1>5. /\ S(k - 1) \in Nat /\ S(k) \in Nat /\ S(Len(params)) \in Nat
        /\ S(k) <= S(Len(params))
    BY <1>1, <1>3, GroupSums
  <1>6. ParameterDataOffset(c + 1) = P + S(Len(params))
    BY <1>1, OffsetNext
  <1>7. ParameterDataOffset(c + 1) <= ParameterDataOffset(4)
    BY <1>3, OffsetGrows
  <1> HIDE DEF P, S
  <1>8. /\ ParamAddr(k) \in Nat /\ P <= ParamAddr(k)
        /\ ParamAddr(k) + params[k].memSize <= ParameterDataOffset(c + 1)
        /\ ParamAddr(k) + params[k].memSize <= ParameterDataOffset(4)
    BY <1>1, <1>2, <1>4, <1>5, <1>6, <1>7
  <1> QED  BY <1>1, <1>8 DEF c, P

\* Of two parameters one ends before the other begins.
LEMMA ParamsApart ==
  ASSUME LayoutTypeOK, NEW k \in 1..Len(params), NEW j \in 1..Len(params), k # j
  PROVE  \/ ParamAddr(k) + params[k].memSize <= ParamAddr(j)
         \/ ParamAddr(j) + params[j].memSize <= ParamAddr(k)
  <1> DEFINE c == Index(params[k].align)
             e == Index(params[j].align)
  <1>1. c \in 0..3 /\ e \in 0..3
    BY GroupNat
  <1>2. /\ ParamAddr(k) \in Nat /\ params[k].memSize \in Nat
        /\ ParameterDataOffset(c) <= ParamAddr(k)
        /\ ParamAddr(k) + params[k].memSize <= ParameterDataOffset(c + 1)
    BY ParamInside
  <1>3. /\ ParamAddr(j) \in Nat /\ params[j].memSize \in Nat
        /\ ParameterDataOffset(e) <= ParamAddr(j)
        /\ ParamAddr(j) + params[j].memSize <= ParameterDataOffset(e + 1)
    BY ParamInside
  <1>4. /\ ParamAddr(k) = ParameterDataOffset(c) + SumTo(InGroup(c), k - 1)
        /\ ParamAddr(k) + params[k].memSize =
              ParameterDataOffset(c) + SumTo(InGroup(c), k)
    BY ParamPlace
  <1>5. /\ ParamAddr(j) = ParameterDataOffset(e) + SumTo(InGroup(e), j - 1)
        /\ ParamAddr(j) + params[j].memSize =
              ParameterDataOffset(e) + SumTo(InGroup(e), j)
    BY ParamPlace
  <1> HIDE DEF c, e
  <1>6. c \in 0..4 /\ c + 1 \in 0..4 /\ e \in 0..4 /\ e + 1 \in 0..4
    BY <1>1
  <1>7. /\ ParameterDataOffset(c) \in Nat /\ ParameterDataOffset(c + 1) \in Nat
        /\ ParameterDataOffset(e) \in Nat /\ ParameterDataOffset(e + 1) \in Nat
    BY <1>6, OffsetNat
  <1>8. CASE c < e
    <2>1. ParameterDataOffset(c + 1) <= ParameterDataOffset(e)
      BY <1>1, <1>6, <1>8, OffsetGrows
    <2> QED  BY <1>2, <1>3, <1>7, <2>1
  <1>9. CASE e < c
    <2>1. ParameterDataOffset(e + 1) <= ParameterDataOffset(c)
      BY <1>1, <1>6, <1>9, OffsetGrows
    <2> QED  BY <1>2, <1>3, <1>7, <2>1
  <1>10. CASE c = e
    <2>1. /\ k \in 0..Len(params) /\ k - 1 \in 0..Len(params)
          /\ j \in 0..Len(params) /\ j - 1 \in 0..Len(params)
          /\ (k <= j - 1 \/ j <= k - 1)
      BY DEF LayoutTypeOK
    <2>2. /\ SumTo(InGroup(c), k) \in Nat /\ SumTo(InGroup(c), k - 1) \in Nat
          /\ SumTo(InGroup(c), j) \in Nat /\ SumTo(InGroup(c), j - 1) \in Nat
      BY <1>1, <2>1, GroupSums
    <2>3. \/ SumTo(InGroup(c), k) <= SumTo(InGroup(c), j - 1)
          \/ SumTo(InGroup(c), j) <= SumTo(InGroup(c), k - 1)
      BY <1>1, <2>1, GroupSums
    <2>4. /\ ParamAddr(j) = ParameterDataOffset(c) + SumTo(InGroup(c), j - 1)
          /\ ParamAddr(j) + params[j].memSize =
                ParameterDataOffset(c) + SumTo(InGroup(c), j)
      BY <1>5, <1>10
    <2> QED  BY <1>4, <1>7, <2>2, <2>3, <2>4
  <1> QED  BY <1>1, <1>8, <1>9, <1>10

\* A parameter is aligned if none is packed: all that comes before it is of its own
\* type or a wider one.
LEMMA ParamAligned ==
  ASSUME LayoutTypeOK, NEW k \in 1..Len(params),
         \A j \in 1..Len(params) : Padded(params[j])
  PROVE  ParamAddr(k) % params[k].align = 0
  <1> DEFINE c == Index(params[k].align)
             d == params[k].align
  <1>1. Len(params) \in Nat /\ k - 1 \in Nat /\ params[k] \in VarTypes
    BY DEF LayoutTypeOK
  <1>2. c \in 0..3 /\ c \in 0..4 /\ d \in {1, 2, 4, 8}
    BY <1>1, VarFacts
  <1>3. ASSUME NEW j \in 1..Len(params)
        PROVE  /\ InGroup(c)[j] \in Nat /\ Below(c)[j] \in Nat
               /\ InGroup(c)[j] % d = 0 /\ Below(c)[j] % d = 0
    <2>1. params[j] \in VarTypes /\ InGroup(c)[j] \in Nat /\ Below(c)[j] \in Nat
          /\ Index(params[j].align) \in 0..3
      BY <1>2, GroupNat
    <2>2. Index(params[j].align) <= c => params[j].memSize % d = 0
      BY <1>1, <2>1, WiderFits
    <2>3. 0 % d = 0
      BY <1>2
    <2>4. InGroup(c)[j] = IF Index(params[j].align) = c THEN params[j].memSize ELSE 0
      BY DEF InGroup
    <2>5. Below(c)[j] = IF Index(params[j].align) < c THEN params[j].memSize ELSE 0
      BY DEF Below
    <2> HIDE DEF c, d
    <2>6. InGroup(c)[j] % d = 0
      BY <1>2, <2>1, <2>2, <2>3, <2>4
    <2>7. Below(c)[j] % d = 0
      BY <1>2, <2>1, <2>2, <2>3, <2>5
    <2> QED  BY <2>1, <2>6, <2>7
  <1>4. ParamAddr(k) = ParameterDataOffset(c) + SumTo(InGroup(c), k - 1)
    BY ParamPlace
  <1> HIDE DEF c, d
  <1>5. ParameterDataOffset(c) % d = 0
    <2>1. SumTo(Below(c), Len(params)) % d = 0
      BY <1>1, <1>2, <1>3, SumToMultiple
    <2> QED  BY <1>2, <2>1, OffsetDef
  <1>6. SumTo(InGroup(c), k - 1) % d = 0
    <2>1. \A j \in 1..k - 1 : j \in 1..Len(params)
      BY <1>1
    <2>2. \A j \in 1..k - 1 : InGroup(c)[j] \in Nat /\ InGroup(c)[j] % d = 0
      BY <1>3, <2>1
    <2> QED  BY <1>1, <1>2, <2>2, SumToMultiple
  <1>7. ParameterDataOffset(c) \in Nat /\ SumTo(InGroup(c), k - 1) \in Nat
    <2>1. k - 1 \in 0..Len(params)
      BY <1>1
    <2> QED  BY <1>2, <2>1, OffsetNat, GroupSums
  <1>8. \A x, y \in Nat : x % d = 0 /\ y % d = 0 => (x + y) % d = 0
    BY <1>2
  <1>9. (ParameterDataOffset(c) + SumTo(InGroup(c), k - 1)) % d = 0
    BY <1>5, <1>6, <1>7, <1>8
  <1> QED  BY <1>4, <1>9 DEF d

-----------------------------------------------------------------------------
\* What getShmemSpace() asks for is enough for the lists and minPdoCount Pdos.
LEMMA TaskFacts ==
  ASSUME LayoutTypeOK, NEW t \in 1..Len(tasks)
  PROVE  /\ tasks[t] \in LayoutTask
         /\ Len(tasks[t].signals) \in Nat /\ tasks[t].signalMemSize \in Nat
         /\ MinPdoCount(tasks[t]) \in Nat /\ MinPdoCount(tasks[t]) >= 10
         /\ (SizeofPdo + tasks[t].signalMemSize) * MinPdoCount(tasks[t]) \in Nat
         /\ TaskMemSize(t) \in Nat /\ TaskMemSize(t) % 8 = 0
         /\ 16 + 48 * Len(tasks[t].signals)
              + (SizeofPdo + tasks[t].signalMemSize) * MinPdoCount(tasks[t])
              <= TaskMemSize(t)
  <1> DEFINE L == Len(tasks[t].signals)
             p == (SizeofPdo + tasks[t].signalMemSize) * MinPdoCount(tasks[t])
  <1>1. tasks[t] \in LayoutTask
    BY DEF LayoutTypeOK
  <1>2. L \in Nat /\ tasks[t].signalMemSize \in Nat /\ tasks[t].periods \in Nat
    BY <1>1 DEF LayoutTask
  <1>3. MinPdoCount(tasks[t]) \in Nat /\ MinPdoCount(tasks[t]) >= 10
    BY <1>2 DEF MinPdoCount
  <1>4. p \in Nat
    <2>1. \A a, b \in Nat : a * b \in Nat
      OBVIOUS
    <2>2. SizeofPdo + tasks[t].signalMemSize \in Nat
      BY <1>2 DEF SizeofPdo
    <2> QED  BY <1>3, <2>1, <2>2
  <1>5. GetShmemSpace(tasks[t]) = 8 + 8 + 2 * L * 24 + p
    BY DEF GetShmemSpace, SizeofSignalList
  <1> HIDE DEF p, L
  <1>6. GetShmemSpace(tasks[t]) \in Nat /\ GetShmemSpace(tasks[t]) = 16 + 48 * L + p
    BY <1>2, <1>4, <1>5
  <1>7. /\ TaskMemSize(t) \in Nat /\ TaskMemSize(t) % 8 = 0
        /\ 16 + 48 * L + p <= TaskMemSize(t)
    <2> DEFINE g == GetShmemSpace(tasks[t])
    <2>1. g \in Nat /\ TaskMemSize(t) = Align(g)
      BY <1>6 DEF TaskMemSize
    <2> HIDE DEF g
    <2>2. Align(g) \in Nat /\ g <= Align(g) /\ Align(g) % 8 = 0
      BY <2>1, AlignFacts
    <2> QED  BY <1>6, <2>1, <2>2 DEF g
  <1> QED  BY <1>1, <1>2, <1>3, <1>4, <1>7 DEF L, p

\* The buffer that signals are polled into has a size.
LEMMA MaxSignalSizeNat ==
  ASSUME LayoutTypeOK
  PROVE  MaxSignalSize \in Nat
  <1> DEFINE g(t) == [i \in DOMAIN tasks[t].signals |-> tasks[t].signals[i].memSize]
             f == [t \in DOMAIN tasks |-> Max0(g(t))]
  <1>1. DOMAIN f = 1..Len(tasks) /\ Len(tasks) \in Nat
    BY DEF LayoutTypeOK
  <1>2. ASSUME NEW t \in 1..Len(tasks) PROVE f[t] \in Nat
    <2>1. tasks[t].signals \in Seq(VarTypes)
      BY TaskFacts DEF LayoutTask
    <2>2. /\ DOMAIN g(t) = 1..Len(tasks[t].signals) /\ Len(tasks[t].signals) \in Nat
          /\ \A i \in 1..Len(tasks[t].signals) :
                tasks[t].signals[i] \in VarTypes /\ g(t)[i] = tasks[t].signals[i].memSize
      BY <2>1
    <2>3. \A i \in 1..Len(tasks[t].signals) : g(t)[i] \in Nat
      BY <2>2, VarFacts
    <2>4. f[t] = Max0(g(t))
      BY <1>1
    <2> HIDE DEF g, f
    <2>5. Max0(g(t)) \in Nat
      BY <2>2, <2>3, Max0Nat
    <2> QED  BY <2>4, <2>5
  <1>3. MaxSignalSize = Max0(f)
    BY DEF MaxSignalSize
  <1> HIDE DEF f
  <1>4. Max0(f) \in Nat
    BY <1>1, <1>2, Max0Nat
  <1> QED  BY <1>3, <1>4

\* taskMemSize[] of prefork_init()
TaskMem == [t \in 1..Len(tasks) |-> TaskMemSize(t)]

\* Each task begins where the task before it ends, aligned.
LEMMA TaskBufFacts ==
  ASSUME LayoutTypeOK
  PROVE  /\ \A t \in 1..Len(tasks) + 1 : TaskBuf(t) \in Nat /\ TaskBuf(t) % 8 = 0
         /\ \A t \in 1..Len(tasks) : TaskBuf(t + 1) = TaskBuf(t) + TaskMemSize(t)
         /\ \A t, u \in 1..Len(tasks) + 1 : t <= u => TaskBuf(t) <= TaskBuf(u)
         /\ TaskBuf(1) = Align(SignalData + MaxSignalSize)
         /\ TaskBuf(Len(tasks) + 1) = TaskBuf(1) + SumTo(TaskMem, Len(tasks))
  <1> DEFINE A == Align(SignalData + MaxSignalSize)
             M == TaskMem
  <1>1. Len(tasks) \in Nat
    BY DEF LayoutTypeOK
  <1>2. SignalData \in Nat
    <2>1. ParameterDataOffset(4) \in Nat
      BY OffsetNat
    <2> QED  BY <2>1, AlignFacts DEF SignalData
  <1>3. A \in Nat /\ A % 8 = 0
    <2>1. SignalData + MaxSignalSize \in Nat
      BY <1>2, MaxSignalSizeNat
    <2> QED  BY <2>1, AlignFacts
  <1>4. \A t \in 1..Len(tasks) : M[t] = TaskMemSize(t) /\ M[t] \in Nat /\ M[t] % 8 = 0
    <2>1. \A t \in 1..Len(tasks) : TaskMemSize(t) \in Nat /\ TaskMemSize(t) % 8 = 0
      BY TaskFacts
    <2>2. \A t \in 1..Len(tasks) : M[t] = TaskMemSize(t)
      BY DEF TaskMem
    <2> QED  BY <2>1, <2>2
  <1>5. ASSUME NEW t \in 1..Len(tasks) + 1
        PROVE  TaskBuf(t) = A + SumTo(M, t - 1)
    <2> DEFINE f == [j \in 1..t - 1 |-> TaskMemSize(j)]
    <2>1. t - 1 \in Nat /\ \A j \in 1..t - 1 : j \in 1..Len(tasks)
      BY <1>1
    <2>2. TaskBuf(t) = A + Sum(f) /\ Len(f) = t - 1
      BY <2>1 DEF TaskBuf
    <2>3. \A j \in 1..t - 1 : f[j] = M[j]
      BY <1>4, <2>1
    <2> HIDE DEF f, M
    <2>4. SumTo(f, t - 1) = SumTo(M, t - 1)
      BY <2>1, <2>3, SumToSame
    <2>5. Sum(f) = SumTo(f, t - 1)
      BY <2>2 DEF Sum
    <2> QED  BY <2>2, <2>4, <2>5
  <1> HIDE DEF A, M
  <1>6. /\ \A i \in 0..Len(tasks) : SumTo(M, i) \in Nat
        /\ \A i, j \in 0..Len(tasks) : i <= j => SumTo(M, i) <= SumTo(M, j)
    BY <1>1, <1>4, SumToNat, SumToGrows
  <1>7. ASSUME NEW i \in 0..Len(tasks) PROVE SumTo(M, i) % 8 = 0
    <2>1. i \in Nat /\ \A j \in 1..i : j \in 1..Len(tasks)
      BY <1>1
    <2>2. \A j \in 1..i : M[j] \in Nat /\ M[j] % 8 = 0
      BY <1>4, <2>1
    <2> QED  BY <2>1, <2>2, SumToMultiple
  <1>8. \A t \in 1..Len(tasks) + 1 : t - 1 \in 0..Len(tasks)
    BY <1>1
  <1>9. \A t \in 1..Len(tasks) + 1 : TaskBuf(t) \in Nat /\ TaskBuf(t) % 8 = 0
    <2> SUFFICES ASSUME NEW t \in 1..Len(tasks) + 1
                 PROVE  TaskBuf(t) \in Nat /\ TaskBuf(t) % 8 = 0
      OBVIOUS
    <2>1. SumTo(M, t - 1) \in Nat /\ SumTo(M, t - 1) % 8 = 0
      BY <1>6, <1>7, <1>8
    <2>2. \A x, y \in Nat : x % 8 = 0 /\ y % 8 = 0 => x + y \in Nat /\ (x + y) % 8 = 0
      OBVIOUS
    <2>3. A + SumTo(M, t - 1) \in Nat /\ (A + SumTo(M, t - 1)) % 8 = 0
      BY <1>3, <2>1, <2>2
    <2> QED  BY <1>5, <2>3
  <1>10. ASSUME NEW t \in 1..Len(tasks)
         PROVE  TaskBuf(t + 1) = TaskBuf(t) + TaskMemSize(t)
    <2>1. /\ t \in 1..Len(tasks) + 1 /\ t + 1 \in 1..Len(tasks) + 1
          /\ (t + 1) - 1 = t /\ t - 1 \in Nat /\ (t - 1) + 1 = t
          /\ t - 1 \in 0..Len(tasks)
      BY <1>1
    <2>2. TaskBuf(t) = A + SumTo(M, t - 1) /\ TaskBuf(t + 1) = A + SumTo(M, (t + 1) - 1)
      BY <1>5, <2>1
    <2>3. SumTo(M, (t - 1) + 1) = SumTo(M, t - 1) + M[(t - 1) + 1]
      BY <2>1, SumToNext
    <2>4. SumTo(M, t) = SumTo(M, t - 1) + TaskMemSize(t)
      BY <1>4, <2>1, <2>3
    <2>5. SumTo(M, t - 1) \in Nat /\ TaskMemSize(t) \in Nat
      BY <1>6, <2>1, <1>4
    <2>6. TaskBuf(t + 1) = A + SumTo(M, t)
      BY <2>1, <2>2
    <2> QED  BY <1>3, <2>2, <2>4, <2>5, <2>6
  <1>11. ASSUME NEW t \in 1..Len(tasks) + 1, NEW u \in 1..Len(tasks) + 1, t <= u
         PROVE  TaskBuf(t) <= TaskBuf(u)
    <2>1. t - 1 \in 0..Len(tasks) /\ u - 1 \in 0..Len(tasks) /\ t - 1 <= u - 1
      BY <1>1, <1>11
    <2>2. SumTo(M, t - 1) <= SumTo(M, u - 1)
          /\ SumTo(M, t - 1) \in Nat /\ SumTo(M, u - 1) \in Nat
      BY <1>6, <2>1
    <2>3. TaskBuf(t) = A + SumTo(M, t - 1) /\ TaskBuf(u) = A + SumTo(M, u - 1)
      BY <1>5
    <2> QED  BY <1>3, <2>2, <2>3
  <1>12. TaskBuf(1) = A
    <2>1. 1 \in 1..Len(tasks) + 1 /\ 1 - 1 = 0
      BY <1>1
    <2>2. TaskBuf(1) = A + SumTo(M, 0)
      BY <1>5, <2>1
    <2> QED  BY <1>3, <2>2, SumToZero
  <1>13. TaskBuf(Len(tasks) + 1) = TaskBuf(1) + SumTo(M, Len(tasks))
    <2>1. Len(tasks) + 1 \in 1..Len(tasks) + 1 /\ (Len(tasks) + 1) - 1 = Len(tasks)
      BY <1>1
    <2> QED  BY <1>5, <1>12, <2>1
  <1> QED  BY <1>9, <1>10, <1>11, <1>12, <1>13 DEF A, M

\* Task::prepare(): the parts of a task, in their order
LEMMA PreparedFacts ==
  ASSUME LayoutTypeOK, NEW t \in 1..Len(tasks)
  PROVE  LET m == PreparedTask(t)
             b == TaskBuf(t)
             L == Len(tasks[t].signals)
             p == (SizeofPdo + tasks[t].signalMemSize) * MinPdoCount(tasks[t])
         IN  /\ b \in Nat /\ b % 8 = 0 /\ L \in Nat /\ p \in Nat
             /\ m.signalListRp = b /\ m.signalList = b + 16
             /\ m.signalListEnd = b + 16 + 48 * L
             /\ m.txMemBegin = b + 16 + 48 * L
             /\ m.txMemEnd = TaskBuf(t + 1) /\ TaskBuf(t + 1) \in Nat
             /\ b + 16 + 48 * L + p <= TaskBuf(t + 1)
  <1> DEFINE m == PreparedTask(t)
             b == TaskBuf(t)
             L == Len(tasks[t].signals)
             p == (SizeofPdo + tasks[t].signalMemSize) * MinPdoCount(tasks[t])
  <1>1. t \in 1..Len(tasks) + 1 /\ t + 1 \in 1..Len(tasks) + 1
    BY DEF LayoutTypeOK
  <1>2. b \in Nat /\ b % 8 = 0 /\ TaskBuf(t + 1) \in Nat
        /\ TaskBuf(t + 1) = b + TaskMemSize(t)
    BY <1>1, TaskBufFacts
  <1>3. L \in Nat /\ p \in Nat /\ TaskMemSize(t) \in Nat
        /\ 16 + 48 * L + p <= TaskMemSize(t)
    BY TaskFacts
  <1>4. /\ m.signalListRp = b /\ m.signalList = Align(b + 8 + 8)
        /\ m.signalListEnd = Align(b + 8 + 8) + 2 * L * 24
        /\ m.txMemBegin = Align(Align(b + 8 + 8) + 2 * L * 24)
        /\ m.txMemEnd = b + TaskMemSize(t)
    BY DEF PreparedTask, SizeofSignalList
  <1> HIDE DEF b, L, p, m
  <1>5. Align(b + 8 + 8) = b + 16
    <2>1. b + 8 + 8 \in Nat /\ (b + 8 + 8) % 8 = 0 /\ b + 8 + 8 = b + 16
      BY <1>2
    <2> QED  BY <2>1, AlignFacts
  <1>6. Align(b + 16 + 48 * L) = b + 16 + 48 * L
    <2>1. b + 16 + 48 * L \in Nat /\ (b + 16 + 48 * L) % 8 = 0
      BY <1>2, <1>3
    <2> QED  BY <2>1, AlignFacts
  <1>7. b + 16 + 2 * L * 24 = b + 16 + 48 * L
    BY <1>2, <1>3
  <1>8. /\ m.signalList = b + 16 /\ m.signalListEnd = b + 16 + 48 * L
        /\ m.txMemBegin = b + 16 + 48 * L /\ m.txMemEnd = TaskBuf(t + 1)
    BY <1>2, <1>4, <1>5, <1>6, <1>7
  <1>9. b + 16 + 48 * L + p <= TaskBuf(t + 1)
    BY <1>2, <1>3
  <1> QED  BY <1>2, <1>3, <1>4, <1>8, <1>9 DEF b, L, p, m

\* The number of elements of all events
LEMMA EventsNat ==
  ASSUME LayoutTypeOK
  PROVE  Sum(events) \in Nat
  <1>1. Len(events) \in Nat /\ Len(events) \in 0..Len(events)
        /\ \A i \in 1..Len(events) : events[i] \in Nat
    BY DEF LayoutTypeOK
  <1>2. \A i \in 0..Len(events) : SumTo(events, i) \in Nat
    BY <1>1, SumToNat
  <1> QED  BY <1>1, <1>2 DEF Sum

\* The areas one behind the other, and how much memory they take.
LEMMA Places ==
  ASSUME LayoutTypeOK
  PROVE  /\ ParameterDataOffset(4) \in Nat /\ SignalData \in Nat /\ MaxSignalSize \in Nat
         /\ TaskBuf(1) \in Nat /\ TaskBuf(Len(tasks) + 1) \in Nat
         /\ EventDataStart \in Nat /\ EventDataEnd \in Nat /\ ShmemLen \in Nat
         /\ ParameterDataOffset(4) <= SignalData
         /\ SignalData + MaxSignalSize <= TaskBuf(1)
         /\ TaskBuf(1) <= TaskBuf(Len(tasks) + 1)
         /\ TaskBuf(Len(tasks) + 1) + 8 <= EventDataStart
         /\ EventDataStart <= EventDataEnd
         /\ EventDataEnd + SizeofEventData <= ShmemLen
         /\ SignalData % 8 = 0 /\ TaskBuf(Len(tasks) + 1) % 8 = 0 /\ EventDataStart % 8 = 0
  <1> DEFINE P == ParameterDataOffset(4)
             M == MaxSignalSize
             b == TaskBuf(1)
             w == TaskBuf(Len(tasks) + 1)
             T == SumTo(TaskMem, Len(tasks))
             E == Sum(events)
             n == Len(tasks)
  <1>1. P \in Nat /\ M \in Nat /\ E \in Nat /\ n \in Nat
    BY OffsetNat, MaxSignalSizeNat, EventsNat DEF LayoutTypeOK
  <1>2. /\ SignalData \in Nat /\ P <= SignalData /\ SignalData <= P + 7
        /\ SignalData % 8 = 0
    <2> HIDE DEF P
    <2>1. SignalData = Align(P)
      BY DEF SignalData, P
    <2> QED  BY <1>1, <2>1, AlignFacts
  <1>3. 1 \in 1..n + 1 /\ n + 1 \in 1..n + 1 /\ 1 <= n + 1
    BY <1>1
  <1>4. /\ b \in Nat /\ w \in Nat /\ w % 8 = 0 /\ b <= w
        /\ b = Align(SignalData + M) /\ w = b + T
    BY <1>3, TaskBufFacts
  <1>5. SignalData + M <= b /\ b <= SignalData + M + 7
    <2> HIDE DEF b, M
    <2>1. SignalData + M \in Nat
      BY <1>1, <1>2
    <2> QED  BY <1>4, <2>1, AlignFacts
  <1>6. T \in Nat
    <2>1. \A t \in 1..n : TaskMem[t] \in Nat
      <3>1. \A t \in 1..n : TaskMemSize(t) \in Nat
        BY TaskFacts
      <3> QED  BY <3>1 DEF TaskMem
    <2>2. \A i \in 0..n : SumTo(TaskMem, i) \in Nat
      BY <1>1, <2>1, SumToNat
    <2> QED  BY <1>1, <2>2
  <1>7. EventDataStart \in Nat /\ EventDataStart = w + 8 /\ EventDataStart % 8 = 0
    <2> HIDE DEF w
    <2>1. EventDataStart = Align(w + 8)
      BY DEF EventDataStart, w
    <2>2. w + 8 \in Nat /\ (w + 8) % 8 = 0
      BY <1>4
    <2> QED  BY <2>1, <2>2, AlignFacts
  <1>8. ShmemLen = M + P + 40 * 10 * E + 8 + T + (10 + n) * 8
    <2>1. DOMAIN tasks = 1..n
      BY DEF LayoutTypeOK
    <2>2. [t \in DOMAIN tasks |-> TaskMemSize(t)] = TaskMem
      BY <2>1 DEF TaskMem
    <2>3. Len(TaskMem) = n
      BY <1>1 DEF TaskMem
    <2>4. Sum([t \in DOMAIN tasks |-> TaskMemSize(t)]) = T
      BY <2>2, <2>3 DEF Sum
    <2> HIDE DEF T, P, M, E
    <2> QED  BY <2>4 DEF ShmemLen, SizeofEventData, EventLen, P, M, E
  <1>9. EventDataEnd = EventDataStart + 40 * 10 * E
    BY DEF EventDataEnd, SizeofEventData, EventLen
  <1> HIDE DEF P, M, b, w, T, E, n
  <1>10. /\ EventDataEnd \in Nat /\ ShmemLen \in Nat
         /\ EventDataStart <= EventDataEnd /\ EventDataEnd + 40 <= ShmemLen
         /\ w + 8 <= EventDataStart
    <2>1. w <= P + M + 14 + T
      BY <1>1, <1>2, <1>4, <1>5, <1>6
    <2>2. EventDataEnd = w + 8 + 400 * E
      BY <1>1, <1>4, <1>7, <1>9
    <2>3. ShmemLen = M + P + 400 * E + 88 + T + 8 * n
      BY <1>1, <1>6, <1>8
    <2> QED  BY <1>1, <1>4, <1>6, <1>7, <2>1, <2>2, <2>3
  <1> QED
    BY <1>1, <1>2, <1>4, <1>5, <1>7, <1>10 DEF SizeofEventData, P, M, b, w, n

-----------------------------------------------------------------------------
(* The parts of the invariant, of a shared memory that is laid out          *)

\* The parts of a task lie inside the memory it was given.
LEMMA TaskAreasInside ==
  ASSUME LayoutTypeOK, NEW t \in 1..Len(tasks), NEW a \in TaskAreas(PreparedTask(t))
  PROVE  /\ a[1] \in Nat /\ a[2] \in Nat /\ a[1] % 8 = 0
         /\ TaskBuf(t) <= a[1] /\ a[2] <= TaskBuf(t + 1)
  <1> DEFINE m == PreparedTask(t)
             b == TaskBuf(t)
             e == TaskBuf(t + 1)
             L == Len(tasks[t].signals)
             p == (SizeofPdo + tasks[t].signalMemSize) * MinPdoCount(tasks[t])
  <1>1. /\ b \in Nat /\ b % 8 = 0 /\ L \in Nat /\ p \in Nat
        /\ m.signalListRp = b /\ m.signalList = b + 16
        /\ m.signalListEnd = b + 16 + 48 * L
        /\ m.txMemBegin = b + 16 + 48 * L
        /\ m.txMemEnd = e /\ e \in Nat
        /\ b + 16 + 48 * L + p <= e
    BY PreparedFacts
  <1>2. \/ a = <<m.signalListRp, m.signalListRp + 16>>
        \/ a = <<m.signalList, m.signalListEnd>>
        \/ a = <<m.txMemBegin, m.txMemEnd>>
    BY DEF TaskAreas
  <1> HIDE DEF m, b, e, L, p
  <1>3. \/ a[1] = b /\ a[2] = b + 16
        \/ a[1] = b + 16 /\ a[2] = b + 16 + 48 * L
        \/ a[1] = b + 16 + 48 * L /\ a[2] = e
    BY <1>1, <1>2
  <1> DEFINE l == 48 * L
  <1>5. l \in Nat /\ l % 8 = 0
    BY <1>1
  <1> HIDE DEF l
  <1>6. \A x, y \in Nat :
           \/ x = b /\ y = b + 16
           \/ x = b + 16 /\ y = b + 16 + l
           \/ x = b + 16 + l /\ y = e
           => x % 8 = 0 /\ b <= x /\ y <= e
    BY <1>1, <1>5 DEF l
  <1>7. a[1] \in Nat /\ a[2] \in Nat
    BY <1>1, <1>3
  <1>4. a[1] \in Nat /\ a[2] \in Nat /\ a[1] % 8 = 0 /\ b <= a[1] /\ a[2] <= e
    BY <1>3, <1>6, <1>7 DEF l
  <1> QED  BY <1>4 DEF b, e

\* The parts of one task do not overlap.
LEMMA TaskAreasApart ==
  ASSUME LayoutTypeOK, NEW t \in 1..Len(tasks),
         NEW a \in TaskAreas(PreparedTask(t)), NEW c \in TaskAreas(PreparedTask(t))
  PROVE  Apart(a, c)
  <1> DEFINE m == PreparedTask(t)
             b == TaskBuf(t)
             e == TaskBuf(t + 1)
             L == Len(tasks[t].signals)
             p == (SizeofPdo + tasks[t].signalMemSize) * MinPdoCount(tasks[t])
  <1>1. /\ b \in Nat /\ b % 8 = 0 /\ L \in Nat /\ p \in Nat
        /\ m.signalListRp = b /\ m.signalList = b + 16
        /\ m.signalListEnd = b + 16 + 48 * L
        /\ m.txMemBegin = b + 16 + 48 * L
        /\ m.txMemEnd = e /\ e \in Nat
        /\ b + 16 + 48 * L + p <= e
    BY PreparedFacts
  <1>2. \A x \in TaskAreas(m) :
           \/ x = <<m.signalListRp, m.signalListRp + 16>>
           \/ x = <<m.signalList, m.signalListEnd>>
           \/ x = <<m.txMemBegin, m.txMemEnd>>
    BY DEF TaskAreas
  <1>3. a \in TaskAreas(m) /\ c \in TaskAreas(m)
    OBVIOUS
  <1> HIDE DEF m, b, e, L, p
  <1>4. \A x \in TaskAreas(m) :
           \/ x = <<b, b + 16>>
           \/ x = <<b + 16, b + 16 + 48 * L>>
           \/ x = <<b + 16 + 48 * L, e>>
    BY <1>1, <1>2
  <1>5. /\ a = <<b, b + 16>> \/ a = <<b + 16, b + 16 + 48 * L>>
            \/ a = <<b + 16 + 48 * L, e>>
        /\ c = <<b, b + 16>> \/ c = <<b + 16, b + 16 + 48 * L>>
            \/ c = <<b + 16 + 48 * L, e>>
    BY <1>3, <1>4
  <1>6. b + 16 <= b + 16 /\ b + 16 <= b + 16 + 48 * L
        /\ b + 16 + 48 * L <= b + 16 + 48 * L
    BY <1>1
  <1>7. a = c \/ a[2] <= c[1] \/ c[2] <= a[1]
    BY <1>5, <1>6
  <1> QED  BY <1>7 DEF Apart

\* An area that is not a parameter's is one of these.
LEMMA OtherAreaKinds ==
  ASSUME LayoutTypeOK, shmem = Layout, NEW a \in OtherAreas
  PROVE  \/ a = <<SignalData, SignalData + MaxSignalSize>>
         \/ \E t \in 1..Len(tasks) : a \in TaskAreas(PreparedTask(t))
         \/ a = <<TaskBuf(Len(tasks) + 1), TaskBuf(Len(tasks) + 1) + 8>>
         \/ a = <<EventDataStart, EventDataEnd>>
  <1>1. /\ shmem.signalData = SignalData
        /\ shmem.eventDataWp = TaskBuf(Len(tasks) + 1)
        /\ shmem.eventDataStart = EventDataStart /\ shmem.eventDataEnd = EventDataEnd
        /\ shmem.task = [t \in DOMAIN tasks |-> PreparedTask(t)]
    BY DEF Layout
  <1>2. DOMAIN tasks = 1..Len(tasks)
    BY DEF LayoutTypeOK
  <1>3. \A t \in DOMAIN tasks : shmem.task[t] = PreparedTask(t)
    BY <1>1
  <1>4. a \in {<<shmem.signalData, shmem.signalData + MaxSignalSize>>,
               <<shmem.eventDataWp, shmem.eventDataWp + 8>>,
               <<shmem.eventDataStart, shmem.eventDataEnd>>}
        \/ \E t \in DOMAIN tasks : a \in TaskAreas(shmem.task[t])
    BY DEF OtherAreas
  <1>5. CASE \E t \in DOMAIN tasks : a \in TaskAreas(shmem.task[t])
    BY <1>2, <1>3, <1>5
  <1>6. CASE a \in {<<shmem.signalData, shmem.signalData + MaxSignalSize>>,
                    <<shmem.eventDataWp, shmem.eventDataWp + 8>>,
                    <<shmem.eventDataStart, shmem.eventDataEnd>>}
    BY <1>1, <1>6
  <1> QED  BY <1>4, <1>5, <1>6

\* The parts of the tasks lie between the polling buffer and the events.
LEMMA TaskAreaBounds ==
  ASSUME LayoutTypeOK, NEW t \in 1..Len(tasks), NEW a \in TaskAreas(PreparedTask(t))
  PROVE  /\ a[1] \in Nat /\ a[2] \in Nat /\ a[1] % 8 = 0
         /\ TaskBuf(1) <= a[1] /\ a[2] <= TaskBuf(Len(tasks) + 1)
  <1>1. /\ t \in 1..Len(tasks) + 1 /\ t + 1 \in 1..Len(tasks) + 1
        /\ 1 \in 1..Len(tasks) + 1 /\ Len(tasks) + 1 \in 1..Len(tasks) + 1
        /\ 1 <= t /\ t + 1 <= Len(tasks) + 1
    BY DEF LayoutTypeOK
  <1>2. /\ TaskBuf(1) \in Nat /\ TaskBuf(t) \in Nat /\ TaskBuf(t + 1) \in Nat
        /\ TaskBuf(Len(tasks) + 1) \in Nat
        /\ TaskBuf(1) <= TaskBuf(t) /\ TaskBuf(t + 1) <= TaskBuf(Len(tasks) + 1)
    BY <1>1, TaskBufFacts
  <1>3. /\ a[1] \in Nat /\ a[2] \in Nat /\ a[1] % 8 = 0
        /\ TaskBuf(t) <= a[1] /\ a[2] <= TaskBuf(t + 1)
    BY TaskAreasInside
  <1> QED  BY <1>2, <1>3

\* The kind of an area says between which two places it lies.
LEMMA OtherAreaPlace ==
  ASSUME LayoutTypeOK, shmem = Layout, NEW a \in OtherAreas
  PROVE  /\ a[1] \in Nat /\ a[2] \in Nat /\ a[1] % 8 = 0
         /\ ParameterDataOffset(4) <= a[1] /\ a[2] <= ShmemLen
  <1>1. /\ ParameterDataOffset(4) \in Nat /\ SignalData \in Nat /\ MaxSignalSize \in Nat
        /\ TaskBuf(1) \in Nat /\ TaskBuf(Len(tasks) + 1) \in Nat
        /\ EventDataStart \in Nat /\ EventDataEnd \in Nat /\ ShmemLen \in Nat
        /\ ParameterDataOffset(4) <= SignalData
        /\ SignalData + MaxSignalSize <= TaskBuf(1)
        /\ TaskBuf(1) <= TaskBuf(Len(tasks) + 1)
        /\ TaskBuf(Len(tasks) + 1) + 8 <= EventDataStart
        /\ EventDataStart <= EventDataEnd
        /\ EventDataEnd + 40 <= ShmemLen
        /\ SignalData % 8 = 0 /\ TaskBuf(Len(tasks) + 1) % 8 = 0 /\ EventDataStart % 8 = 0
    BY Places DEF SizeofEventData
  <1>2. CASE a = <<SignalData, SignalData + MaxSignalSize>>
    <2>1. a[1] = SignalData /\ a[2] = SignalData + MaxSignalSize
      BY <1>2
    <2> QED  BY <1>1, <2>1
  <1>3. CASE \E t \in 1..Len(tasks) : a \in TaskAreas(PreparedTask(t))
    <2>1. /\ a[1] \in Nat /\ a[2] \in Nat /\ a[1] % 8 = 0
          /\ TaskBuf(1) <= a[1] /\ a[2] <= TaskBuf(Len(tasks) + 1)
      BY <1>3, TaskAreaBounds
    <2>2. ParameterDataOffset(4) <= TaskBuf(1) /\ TaskBuf(Len(tasks) + 1) <= ShmemLen
      BY <1>1
    <2>3. ParameterDataOffset(4) <= a[1]
      BY <1>1, <2>1, <2>2
    <2>4. a[2] <= ShmemLen
      BY <1>1, <2>1, <2>2
    <2> QED  BY <2>1, <2>3, <2>4
  <1>4. CASE a = <<TaskBuf(Len(tasks) + 1), TaskBuf(Len(tasks) + 1) + 8>>
    <2>1. a[1] = TaskBuf(Len(tasks) + 1) /\ a[2] = TaskBuf(Len(tasks) + 1) + 8
      BY <1>4
    <2> QED  BY <1>1, <2>1
  <1>5. CASE a = <<EventDataStart, EventDataEnd>>
    <2>1. a[1] = EventDataStart /\ a[2] = EventDataEnd
      BY <1>5
    <2> QED  BY <1>1, <2>1
  <1> QED  BY <1>2, <1>3, <1>4, <1>5, OtherAreaKinds

\* No two of the areas that are not parameters overlap.
LEMMA OtherAreasApart ==
  ASSUME LayoutTypeOK, shmem = Layout, NEW a \in OtherAreas, NEW c \in OtherAreas
  PROVE  Apart(a, c)
  <1> DEFINE s == <<SignalData, SignalData + MaxSignalSize>>
             w == <<TaskBuf(Len(tasks) + 1), TaskBuf(Len(tasks) + 1) + 8>>
             v == <<EventDataStart, EventDataEnd>>
             OfTask(x) == \E t \in 1..Len(tasks) : x \in TaskAreas(PreparedTask(t))
             b == TaskBuf(1)
             e == TaskBuf(Len(tasks) + 1)
  <1>1. /\ SignalData \in Nat /\ MaxSignalSize \in Nat /\ b \in Nat /\ e \in Nat
        /\ EventDataStart \in Nat /\ EventDataEnd \in Nat
        /\ SignalData + MaxSignalSize <= b /\ b <= e
        /\ e + 8 <= EventDataStart
    BY Places
  <1>2. /\ a = s \/ OfTask(a) \/ a = w \/ a = v
        /\ c = s \/ OfTask(c) \/ c = w \/ c = v
    BY OtherAreaKinds
  <1>3. \A x : OfTask(x) => /\ x[1] \in Nat /\ x[2] \in Nat /\ b <= x[1] /\ x[2] <= e
    BY TaskAreaBounds
  <1>4. ASSUME OfTask(a), OfTask(c) PROVE Apart(a, c)
    <2>1. PICK t \in 1..Len(tasks) : a \in TaskAreas(PreparedTask(t))
      BY <1>4
    <2>2. PICK u \in 1..Len(tasks) : c \in TaskAreas(PreparedTask(u))
      BY <1>4
    <2>3. /\ a[1] \in Nat /\ a[2] \in Nat /\ TaskBuf(t) <= a[1] /\ a[2] <= TaskBuf(t + 1)
      BY <2>1, TaskAreasInside
    <2>4. /\ c[1] \in Nat /\ c[2] \in Nat /\ TaskBuf(u) <= c[1] /\ c[2] <= TaskBuf(u + 1)
      BY <2>2, TaskAreasInside
    <2>5. CASE t = u
      BY <2>1, <2>2, <2>5, TaskAreasApart
    <2>6. CASE t # u
      <3>1. /\ t \in 1..Len(tasks) + 1 /\ t + 1 \in 1..Len(tasks) + 1
            /\ u \in 1..Len(tasks) + 1 /\ u + 1 \in 1..Len(tasks) + 1
            /\ t + 1 <= u \/ u + 1 <= t
        BY <2>6 DEF LayoutTypeOK
      <3>2. /\ TaskBuf(t) \in Nat /\ TaskBuf(t + 1) \in Nat
            /\ TaskBuf(u) \in Nat /\ TaskBuf(u + 1) \in Nat
            /\ TaskBuf(t + 1) <= TaskBuf(u) \/ TaskBuf(u + 1) <= TaskBuf(t)
        BY <3>1, TaskBufFacts
      <3>3. a[2] <= c[1] \/ c[2] <= a[1]
        BY <2>3, <2>4, <3>2
      <3> QED  BY <3>3 DEF Apart
    <2> QED  BY <2>5, <2>6
  <1>5. /\ s[1] = SignalData /\ s[2] = SignalData + MaxSignalSize
        /\ w[1] = e /\ w[2] = e + 8 /\ v[1] = EventDataStart /\ v[2] = EventDataEnd
    OBVIOUS
  <1>6. s[2] <= w[1] /\ s[2] <= v[1] /\ w[2] <= v[1]
    <2> HIDE DEF s, w, v, b, e
    <2> QED  BY <1>1, <1>5
  <1>7. \A x : OfTask(x) => s[2] <= x[1] /\ x[2] <= w[1] /\ x[2] <= v[1]
    <2> SUFFICES ASSUME NEW x, OfTask(x)
                 PROVE  s[2] <= x[1] /\ x[2] <= w[1] /\ x[2] <= v[1]
      OBVIOUS
    <2>1. x[1] \in Nat /\ x[2] \in Nat /\ b <= x[1] /\ x[2] <= e
      BY <1>3
    <2> HIDE DEF s, w, v, b, e, OfTask
    <2> QED  BY <1>1, <1>5, <2>1
  <1> HIDE DEF s, w, v, OfTask
  <1>8. a = c \/ (OfTask(a) /\ OfTask(c)) \/ a[2] <= c[1] \/ c[2] <= a[1]
    BY <1>2, <1>6, <1>7, Zenon
  <1> QED  BY <1>4, <1>8 DEF Apart

\* The area of a parameter is in the memory of the parameters.
LEMMA ParamAreaPlace ==
  ASSUME LayoutTypeOK, shmem = Layout, NEW a \in ParamAreas
  PROVE  \E k \in 1..Len(params) :
            /\ a = <<ParamAddr(k), ParamAddr(k) + params[k].memSize>>
            /\ a[1] \in Nat /\ a[2] \in Nat /\ a[2] <= ParameterDataOffset(4)
  <1>1. DOMAIN params = 1..Len(params)
    BY DEF LayoutTypeOK
  <1>2. \A k \in DOMAIN params : shmem.param[k] = ParamAddr(k)
    BY DEF Layout
  <1>3. PICK k \in 1..Len(params) :
           a = <<shmem.param[k], shmem.param[k] + params[k].memSize>>
    BY <1>1 DEF ParamAreas
  <1>4. a = <<ParamAddr(k), ParamAddr(k) + params[k].memSize>>
    BY <1>1, <1>2, <1>3
  <1>5. /\ ParamAddr(k) \in Nat /\ params[k].memSize \in Nat
        /\ ParamAddr(k) + params[k].memSize <= ParameterDataOffset(4)
    BY ParamInside
  <1>6. a[1] = ParamAddr(k) /\ a[2] = ParamAddr(k) + params[k].memSize
    BY <1>4
  <1> QED  BY <1>4, <1>5, <1>6

\* What prefork_init() has laid out does not overlap.
LEMMA LaidOutApart ==
  ASSUME LayoutTypeOK, shmem = Layout
  PROVE  AreasApart
  <1>0. ParameterDataOffset(4) \in Nat /\ ShmemLen \in Nat
        /\ ParameterDataOffset(4) <= ShmemLen
    <2>1. /\ ParameterDataOffset(4) \in Nat /\ SignalData \in Nat /\ MaxSignalSize \in Nat
          /\ TaskBuf(1) \in Nat /\ TaskBuf(Len(tasks) + 1) \in Nat
          /\ EventDataStart \in Nat /\ EventDataEnd \in Nat /\ ShmemLen \in Nat
          /\ ParameterDataOffset(4) <= SignalData
          /\ SignalData + MaxSignalSize <= TaskBuf(1)
          /\ TaskBuf(1) <= TaskBuf(Len(tasks) + 1)
          /\ TaskBuf(Len(tasks) + 1) + 8 <= EventDataStart
          /\ EventDataStart <= EventDataEnd /\ EventDataEnd + 40 <= ShmemLen
      BY Places DEF SizeofEventData
    <2> QED  BY <2>1
  <1>1. DOMAIN params = 1..Len(params) /\ shmem.len = ShmemLen
        /\ \A k \in DOMAIN params : shmem.param[k] = ParamAddr(k)
    BY DEF LayoutTypeOK, Layout
  <1>2. ASSUME NEW a \in ParamAreas, NEW c \in ParamAreas PROVE Apart(a, c)
    <2>1. PICK k \in 1..Len(params) : a = <<ParamAddr(k), ParamAddr(k) + params[k].memSize>>
      BY ParamAreaPlace
    <2>2. PICK j \in 1..Len(params) : c = <<ParamAddr(j), ParamAddr(j) + params[j].memSize>>
      BY ParamAreaPlace
    <2>3. CASE k = j
      BY <2>1, <2>2, <2>3 DEF Apart
    <2>4. CASE k # j
      <3>1. \/ ParamAddr(k) + params[k].memSize <= ParamAddr(j)
            \/ ParamAddr(j) + params[j].memSize <= ParamAddr(k)
        BY <2>4, ParamsApart
      <3>2. /\ a[1] = ParamAddr(k) /\ a[2] = ParamAddr(k) + params[k].memSize
            /\ c[1] = ParamAddr(j) /\ c[2] = ParamAddr(j) + params[j].memSize
        BY <2>1, <2>2
      <3>3. a[2] <= c[1] \/ c[2] <= a[1]
        BY <3>1, <3>2, Zenon
      <3> QED  BY <3>3 DEF Apart
    <2> QED  BY <2>3, <2>4
  <1>3. ASSUME NEW a \in ParamAreas, NEW c \in OtherAreas PROVE a[2] <= c[1]
    <2>1. a[2] \in Nat /\ a[2] <= ParameterDataOffset(4)
      BY ParamAreaPlace
    <2>2. c[1] \in Nat /\ ParameterDataOffset(4) <= c[1]
      BY OtherAreaPlace
    <2> QED  BY <1>0, <2>1, <2>2
  <1>4. \A a, c \in ParamAreas \cup OtherAreas : Apart(a, c)
    <2> SUFFICES ASSUME NEW a \in ParamAreas \cup OtherAreas,
                        NEW c \in ParamAreas \cup OtherAreas
                 PROVE  Apart(a, c)
      OBVIOUS
    <2>1. CASE a \in ParamAreas /\ c \in ParamAreas
      BY <1>2, <2>1
    <2>2. CASE a \in OtherAreas /\ c \in OtherAreas
      BY <2>2, OtherAreasApart
    <2>3. CASE a \in ParamAreas /\ c \in OtherAreas
      BY <1>3, <2>3 DEF Apart
    <2>4. CASE a \in OtherAreas /\ c \in ParamAreas
      BY <1>3, <2>4 DEF Apart
    <2> QED  BY <2>1, <2>2, <2>3, <2>4
  <1>5. ASSUME NEW k \in DOMAIN params, NEW j \in DOMAIN params, k # j,
               params[k].memSize # 0, params[j].memSize # 0
        PROVE  shmem.param[k] # shmem.param[j]
    <2>1. k \in 1..Len(params) /\ j \in 1..Len(params)
      BY <1>1
    <2>2. /\ ParamAddr(k) \in Nat /\ params[k].memSize \in Nat
          /\ ParamAddr(j) \in Nat /\ params[j].memSize \in Nat
      BY <2>1, ParamInside
    <2>3. \/ ParamAddr(k) + params[k].memSize <= ParamAddr(j)
          \/ ParamAddr(j) + params[j].memSize <= ParamAddr(k)
      BY <1>5, <2>1, ParamsApart
    <2>4. ParamAddr(k) # ParamAddr(j)
      BY <1>5, <2>2, <2>3
    <2> QED  BY <1>1, <2>4
  <1>6. ASSUME NEW a \in ParamAreas \cup OtherAreas
        PROVE  a[1] >= 0 /\ a[2] <= shmem.len
    <2>1. CASE a \in ParamAreas
      <3>1. a[1] \in Nat /\ a[2] \in Nat /\ a[2] <= ParameterDataOffset(4)
        BY <2>1, ParamAreaPlace
      <3> QED  BY <1>0, <1>1, <3>1
    <2>2. CASE a \in OtherAreas
      <3>1. a[1] \in Nat /\ a[2] <= ShmemLen
        BY <2>2, OtherAreaPlace
      <3> QED  BY <1>1, <3>1
    <2> QED  BY <2>1, <2>2
  <1>7. ASSUME \A j \in DOMAIN params : Padded(params[j]), NEW k \in DOMAIN params
        PROVE  shmem.param[k] % params[k].align = 0
    BY <1>1, <1>7, ParamAligned
  <1>8. ASSUME NEW a \in OtherAreas PROVE a[1] % 8 = 0
    BY OtherAreaPlace
  <1> QED  BY <1>4, <1>5, <1>6, <1>7, <1>8 DEF AreasApart

\* Every variable has at least one element.
NoEmptyVariable == \A v \in VarTypes : v.memSize # 0

\* How many of the signals are in the list of width i
WidthCount(signals, i) == Cardinality({k \in DOMAIN signals : Index(signals[k].align) = i})

\* A task has counted its signals.
Counted(t) ==
    /\ \A i \in 0..3 : t.signalTypeCount[i] = WidthCount(t.signals, i)
    /\ t.signalTypeCount[0] + t.signalTypeCount[1] + t.signalTypeCount[2]
         + t.signalTypeCount[3] = Len(t.signals)
    /\ NoEmptyVariable => Len(t.signals) <= t.signalMemSize

\* What registering and forking keep: the counters of the tasks are right, and
\* what was calculated still belongs to what was registered.
LayoutInd ==
    /\ LayoutTypeOK
    /\ \A t \in DOMAIN tasks : Counted(tasks[t])
    /\ stage \in {"register", "forked"}
    /\ stage = "register" => rt = <<>> /\ nrt = <<>>
    /\ stage = "forked" => shmem = Layout
    /\ rt = <<>> \/ rt = CopyLists
    /\ nrt = <<>> \/ nrt = SignalCopyLists

\* The room for Pdos: one Pdo takes at most what getShmemSpace() counts for it.
LEMMA LaidOutFrames ==
  ASSUME LayoutTypeOK, shmem = Layout, \A t \in DOMAIN tasks : Counted(tasks[t]),
         NoEmptyVariable
  PROVE  FramesKept
  <1> SUFFICES ASSUME NEW t \in DOMAIN tasks
               PROVE  LET m == shmem.task[t]
                          d == tasks[t].signalMemSize
                      IN  /\ ~NoRoom(m, m.txMemBegin, 8 * Len(tasks[t].signals))
                          /\ ~NoRoom(m, m.txMemBegin
                                + (MinPdoCount(tasks[t]) - 1) * Align(PdoData + d), d)
    BY DEF FramesKept
  <1> DEFINE m == PreparedTask(t)
             b == TaskBuf(t) + 16 + 48 * Len(tasks[t].signals)
             e == TaskBuf(t + 1)
             L == Len(tasks[t].signals)
             d == tasks[t].signalMemSize
             n == MinPdoCount(tasks[t])
             p == (SizeofPdo + tasks[t].signalMemSize) * MinPdoCount(tasks[t])
  <1>1. t \in 1..Len(tasks)
    BY DEF LayoutTypeOK
  <1>2. shmem.task[t] = m
    BY DEF Layout
  <1>3. /\ TaskBuf(t) \in Nat /\ L \in Nat /\ p \in Nat /\ e \in Nat
        /\ m.txMemBegin = b /\ m.txMemEnd = e /\ b + p <= e
    BY <1>1, PreparedFacts
  <1>4. d \in Nat /\ n \in Nat /\ n >= 10
    BY <1>1, TaskFacts
  <1>5. L <= d
    BY DEF Counted
  <1>6. p = (80 + d) * n
    BY DEF SizeofPdo
  <1>7. b \in Nat
    BY <1>3
  <1> HIDE DEF m, b, e, L, d, n, p
  <1>8. p = (80 + d) * (n - 1) + 80 + d
    <2>1. \A x, y \in Nat : y >= 10 => x * y = x * (y - 1) + x
      OBVIOUS
    <2>2. 80 + d \in Nat
      BY <1>4
    <2>3. (80 + d) * n = (80 + d) * (n - 1) + (80 + d)
      BY <1>4, <2>1, <2>2
    <2>4. (80 + d) * (n - 1) \in Int
      BY <1>4
    <2> QED  BY <1>4, <1>6, <2>3, <2>4
  <1>9. p >= 800 + 10 * d
    <2>1. \A x, y \in Nat : y >= 10 => x * y >= 10 * x
      OBVIOUS
    <2>2. 80 + d \in Nat
      BY <1>4
    <2>3. (80 + d) * n >= 10 * (80 + d)
      BY <1>4, <2>1, <2>2
    <2> QED  BY <1>3, <1>4, <1>6, <2>3
  <1>10. ~NoRoom(m, m.txMemBegin, 8 * L)
    <2>1. ~ (b + 72 + 8 * L >= e)
      BY <1>3, <1>4, <1>5, <1>7, <1>9
    <2> QED  BY <1>3, <2>1 DEF NoRoom, PdoData
  <1>11. /\ (n - 1) * Align(72 + d) \in Nat
         /\ (n - 1) * Align(72 + d) <= (80 + d) * (n - 1)
         /\ (80 + d) * (n - 1) \in Nat
    <2> DEFINE A == Align(72 + d)
    <2>1. A \in Nat /\ A <= 80 + d
      <3>1. 72 + d \in Nat
        BY <1>4
      <3>2. Align(72 + d) \in Nat /\ Align(72 + d) <= 72 + d + 7
        BY <3>1, AlignFacts
      <3> QED  BY <1>4, <3>2
    <2> HIDE DEF A
    <2>2. \A x, y, z \in Nat : y <= z => x * y \in Nat /\ z * x \in Nat /\ x * y <= z * x
      OBVIOUS
    <2>3. n - 1 \in Nat /\ 80 + d \in Nat
      BY <1>4
    <2>4. (n - 1) * A \in Nat /\ (80 + d) * (n - 1) \in Nat
          /\ (n - 1) * A <= (80 + d) * (n - 1)
      BY <2>1, <2>2, <2>3
    <2> QED  BY <2>4 DEF A
  <1>12. ~NoRoom(m, m.txMemBegin + (n - 1) * Align(PdoData + d), d)
    <2> DEFINE q == (n - 1) * Align(72 + d)
               r == (80 + d) * (n - 1)
    <2>1. q \in Nat /\ r \in Nat /\ q <= r /\ p = r + 80 + d
      BY <1>8, <1>11
    <2> HIDE DEF q, r
    <2>2. ~ (b + q + 72 + d >= e)
      BY <1>3, <1>4, <1>7, <2>1
    <2>3. (n - 1) * Align(PdoData + d) = q
      BY DEF PdoData, q
    <2> QED  BY <1>3, <2>2, <2>3 DEF NoRoom, PdoData
  <1> QED  BY <1>2, <1>10, <1>12 DEF L, d, n

\* Sums of the first counts
LEMMA SumOfThree ==
  ASSUME NEW f, f[1] \in Nat, f[2] \in Nat, f[3] \in Nat
  PROVE  /\ SumTo(f, 0) = 0 /\ SumTo(f, 1) = f[1] /\ SumTo(f, 2) = f[1] + f[2]
         /\ SumTo(f, 3) = f[1] + f[2] + f[3]
  <1>1. SumTo(f, 0) = 0
    BY SumToZero
  <1>2. /\ SumTo(f, 0 + 1) = SumTo(f, 0) + f[0 + 1]
        /\ SumTo(f, 1 + 1) = SumTo(f, 1) + f[1 + 1]
        /\ SumTo(f, 2 + 1) = SumTo(f, 2) + f[2 + 1]
    BY SumToNext
  <1>3. /\ SumTo(f, 1) = 0 + f[1] /\ SumTo(f, 2) = SumTo(f, 1) + f[2]
        /\ SumTo(f, 3) = SumTo(f, 2) + f[3]
    BY <1>1, <1>2
  <1> QED  BY <1>1, <1>3

\* Lists one behind the other, each with room for count[i], the last one up to
\* the size of them all
LEMMA ListRooms ==
  ASSUME NEW count, count[0] \in Nat, count[1] \in Nat, count[2] \in Nat,
         count[3] \in Nat, NEW lists,
         lists.size = count[0] + count[1] + count[2] + count[3],
         lists.list = [i \in 0..3 |-> Sum([j \in 1..i |-> count[j - 1]])]
  PROVE  \A i \in 0..3 : RoomOf(lists, i) = count[i]
  <1> DEFINE f(i) == [j \in 1..i |-> count[j - 1]]
  <1>1. ASSUME NEW i \in 0..3 PROVE lists.list[i] = SumTo(f(3), i)
    <2>1. lists.list[i] = Sum(f(i))
      OBVIOUS
    <2>2. Len(f(i)) = i /\ i \in Nat
      OBVIOUS
    <2>3. \A j \in 1..i : f(i)[j] = f(3)[j]
      OBVIOUS
    <2> HIDE DEF f
    <2>4. SumTo(f(i), i) = SumTo(f(3), i)
      BY <2>2, <2>3, SumToSame
    <2>5. Sum(f(i)) = SumTo(f(i), i)
      BY <2>2 DEF Sum
    <2> QED  BY <2>1, <2>4, <2>5
  <1>2. f(3)[1] = count[0] /\ f(3)[2] = count[1] /\ f(3)[3] = count[2]
    OBVIOUS
  <1> HIDE DEF f
  <1>3. /\ SumTo(f(3), 0) = 0 /\ SumTo(f(3), 1) = f(3)[1]
        /\ SumTo(f(3), 2) = f(3)[1] + f(3)[2]
        /\ SumTo(f(3), 3) = f(3)[1] + f(3)[2] + f(3)[3]
    BY <1>2, SumOfThree
  <1>4. /\ lists.list[0] = 0 /\ lists.list[1] = count[0]
        /\ lists.list[2] = count[0] + count[1]
        /\ lists.list[3] = count[0] + count[1] + count[2]
    BY <1>1, <1>2, <1>3
  <1>5. /\ RoomOf(lists, 0) = lists.list[0 + 1] - lists.list[0]
        /\ RoomOf(lists, 1) = lists.list[1 + 1] - lists.list[1]
        /\ RoomOf(lists, 2) = lists.list[2 + 1] - lists.list[2]
        /\ RoomOf(lists, 3) = lists.size - lists.list[3]
    BY DEF RoomOf
  <1>6. /\ RoomOf(lists, 0) = count[0] /\ RoomOf(lists, 1) = count[1]
        /\ RoomOf(lists, 2) = count[2] /\ RoomOf(lists, 3) = count[3]
    BY <1>4, <1>5
  <1>7. \A i \in 0..3 : i = 0 \/ i = 1 \/ i = 2 \/ i = 3
    OBVIOUS
  <1> QED  BY <1>6, <1>7

\* The lists of both processes have room for their signals.
LEMMA LayoutIndLists ==
  ASSUME LayoutInd
  PROVE  ListsHold
  <1>1. LayoutTypeOK /\ \A t \in DOMAIN tasks : Counted(tasks[t])
    BY DEF LayoutInd
  <1>2. ASSUME NEW t \in DOMAIN tasks
        PROVE  LET c == tasks[t].signalTypeCount
               IN  /\ c[0] \in Nat /\ c[1] \in Nat /\ c[2] \in Nat /\ c[3] \in Nat
                   /\ c[0] + c[1] + c[2] + c[3] = Len(tasks[t].signals)
                   /\ \A i \in 0..3 : c[i] = OfWidth(t, i)
    <2>1. tasks[t] \in LayoutTask
      BY <1>1 DEF LayoutTypeOK
    <2>2. tasks[t].signalTypeCount \in [0..3 -> Nat]
      BY <2>1 DEF LayoutTask
    <2> DEFINE c == tasks[t].signalTypeCount
    <2>3. c[0] \in Nat /\ c[1] \in Nat /\ c[2] \in Nat /\ c[3] \in Nat
      BY <2>2
    <2>4. c[0] + c[1] + c[2] + c[3] = Len(tasks[t].signals)
      BY <1>1 DEF Counted
    <2>5. \A i \in 0..3 : c[i] = WidthCount(tasks[t].signals, i)
      BY <1>1 DEF Counted
    <2>6. \A i \in 0..3 : c[i] = OfWidth(t, i)
      BY <2>5, Zenon DEF OfWidth, WidthCount
    <2> QED  BY <2>3, <2>4, <2>6
  <1>3. ASSUME NEW i \in 0..3, NEW t \in DOMAIN rt
        PROVE  RoomOf(rt[t], i) >= OfWidth(t, i) + 1
    <2>1. rt = CopyLists
      <3>1. rt # <<>>
        OBVIOUS
      <3> QED  BY <3>1 DEF LayoutInd
    <2>2. t \in DOMAIN tasks
      BY <2>1 DEF CopyLists
    <2> DEFINE c == tasks[t].signalTypeCount
               g == [j \in 0..3 |-> c[j] + 1]
    <2>3. /\ c[0] \in Nat /\ c[1] \in Nat /\ c[2] \in Nat /\ c[3] \in Nat
          /\ c[0] + c[1] + c[2] + c[3] = Len(tasks[t].signals)
          /\ c[i] = OfWidth(t, i)
      BY <1>2, <2>2
    <2>4. /\ g[0] = c[0] + 1 /\ g[1] = c[1] + 1 /\ g[2] = c[2] + 1 /\ g[3] = c[3] + 1
          /\ g[i] = c[i] + 1
      OBVIOUS
    <2>5. /\ rt[t].size = Len(tasks[t].signals) + 4
          /\ rt[t].list = [k \in 0..3 |-> Sum([j \in 1..k |-> c[j - 1] + 1])]
      BY <2>1, <2>2 DEF CopyLists
    <2>6. \A k \in 0..3 : [j \in 1..k |-> c[j - 1] + 1] = [j \in 1..k |-> g[j - 1]]
      OBVIOUS
    <2>7. rt[t].list = [k \in 0..3 |-> Sum([j \in 1..k |-> g[j - 1]])]
      BY <2>5, <2>6
    <2> HIDE DEF c, g
    <2>a. /\ c[0] \in Nat /\ c[1] \in Nat /\ c[2] \in Nat /\ c[3] \in Nat
          /\ rt[t].size = c[0] + c[1] + c[2] + c[3] + 4
      BY <2>3, <2>5
    <2>b. g[0] = c[0] + 1 /\ g[1] = c[1] + 1 /\ g[2] = c[2] + 1 /\ g[3] = c[3] + 1
      BY <2>4
    <2>8. rt[t].size = g[0] + g[1] + g[2] + g[3]
      BY <2>a, <2>b
    <2>9. g[0] \in Nat /\ g[1] \in Nat /\ g[2] \in Nat /\ g[3] \in Nat
      BY <2>a, <2>b
    <2>10. RoomOf(rt[t], i) = g[i]
      BY <2>7, <2>8, <2>9, ListRooms
    <2>11. c[i] \in Nat
      BY <2>3
    <2>12. c[i] + 1 >= OfWidth(t, i) + 1
      BY <2>3, <2>11
    <2> QED  BY <2>4, <2>10, <2>12
  <1>4. ASSUME NEW i \in 0..3, NEW t \in DOMAIN nrt
        PROVE  RoomOf(nrt[t], i) >= OfWidth(t, i)
    <2>1. nrt = SignalCopyLists
      <3>1. nrt # <<>>
        OBVIOUS
      <3> QED  BY <3>1 DEF LayoutInd
    <2>2. t \in DOMAIN tasks
      BY <2>1 DEF SignalCopyLists
    <2> DEFINE c == tasks[t].signalTypeCount
    <2>3. /\ c[0] \in Nat /\ c[1] \in Nat /\ c[2] \in Nat /\ c[3] \in Nat
          /\ c[0] + c[1] + c[2] + c[3] = Len(tasks[t].signals)
          /\ c[i] = OfWidth(t, i)
      BY <1>2, <2>2
    <2>4. /\ nrt[t].size = Len(tasks[t].signals)
          /\ nrt[t].list = [k \in 0..3 |-> Sum([j \in 1..k |-> c[j - 1]])]
      BY <2>1, <2>2 DEF SignalCopyLists
    <2> HIDE DEF c
    <2>5. nrt[t].size = c[0] + c[1] + c[2] + c[3]
      BY <2>3, <2>4
    <2>6. RoomOf(nrt[t], i) = c[i]
      BY <2>3, <2>4, <2>5, ListRooms
    <2>7. c[i] \in Nat
      BY <2>3
    <2> QED  BY <2>3, <2>6, <2>7
  <1> QED  BY <1>3, <1>4 DEF ListsHold

\* A new signal is one more of its width, and of no other.
LEMMA WidthAppend ==
  ASSUME NEW s \in Seq(VarTypes), NEW v \in VarTypes, NEW i \in 0..3
  PROVE  /\ WidthCount(s, i) \in Nat
         /\ WidthCount(Append(s, v), i) =
               IF Index(v.align) = i THEN WidthCount(s, i) + 1 ELSE WidthCount(s, i)
  <1> DEFINE n == Len(s)
             u == Append(s, v)
             S == {k \in DOMAIN s : Index(s[k].align) = i}
             U == {k \in DOMAIN u : Index(u[k].align) = i}
  <1>1. n \in Nat /\ DOMAIN s = 1..n /\ DOMAIN u = 1..n + 1 /\ u[n + 1] = v
        /\ \A k \in 1..n : u[k] = s[k]
    OBVIOUS
  <1>2. IsFiniteSet(S) /\ n + 1 \notin S
    <2>1. IsFiniteSet(1..n)
      BY <1>1, FS_Interval
    <2>2. S \subseteq 1..n
      BY <1>1
    <2>3. n + 1 \notin 1..n
      BY <1>1
    <2> HIDE DEF S, n
    <2> QED  BY <2>1, <2>2, <2>3, FS_Subset
  <1>3. WidthCount(s, i) = Cardinality(S) /\ WidthCount(u, i) = Cardinality(U)
    BY DEF WidthCount
  <1>4. U = IF Index(v.align) = i THEN S \cup {n + 1} ELSE S
    <2>1. \A k : k \in 1..n + 1 <=> k \in 1..n \/ k = n + 1
      BY <1>1
    <2> HIDE DEF u, n
    <2> QED  BY <1>1, <2>1
  <1> HIDE DEF S, U, u, n
  <1>5. Cardinality(S) \in Nat /\ Cardinality(S \cup {n + 1}) = Cardinality(S) + 1
    BY <1>2, FS_CardinalityType, FS_AddElement
  <1> QED  BY <1>3, <1>4, <1>5 DEF u

\* Task::addSignal() keeps the counters right.
LEMMA CountedNext ==
  ASSUME NEW t \in LayoutTask, Counted(t), NEW v \in VarTypes, NEW u,
         u = [t EXCEPT !.signals = Append(@, v), !.signalMemSize = @ + v.memSize,
                       !.signalTypeCount[Index(v.align)] = @ + 1]
  PROVE  u \in LayoutTask /\ Counted(u)
  <1> DEFINE c == t.signalTypeCount
             x == Index(v.align)
  <1>1. /\ t.periods \in Nat /\ t.signals \in Seq(VarTypes) /\ t.signalMemSize \in Nat
        /\ c \in [0..3 -> Nat]
    BY DEF LayoutTask
  <1>2. x \in 0..3 /\ v.memSize \in Nat
    BY VarFacts
  <1>3. /\ u.periods = t.periods /\ u.signals = Append(t.signals, v)
        /\ u.signalMemSize = t.signalMemSize + v.memSize
        /\ u.signalTypeCount = [c EXCEPT ![x] = @ + 1]
        /\ u = [periods |-> u.periods, signals |-> u.signals,
                signalMemSize |-> u.signalMemSize, signalTypeCount |-> u.signalTypeCount]
    BY DEF LayoutTask
  <1> HIDE DEF c, x
  <1>4. u \in LayoutTask
    <2>1. /\ u.periods \in Nat /\ u.signals \in Seq(VarTypes) /\ u.signalMemSize \in Nat
      BY <1>1, <1>2, <1>3
    <2>2. u.signalTypeCount \in [0..3 -> Nat]
      <3>1. c[x] + 1 \in Nat
        BY <1>1, <1>2
      <3>2. [c EXCEPT ![x] = c[x] + 1] \in [0..3 -> Nat]
        BY <1>1, <3>1
      <3>3. u.signalTypeCount = [c EXCEPT ![x] = c[x] + 1]
        BY <1>3
      <3> QED  BY <3>2, <3>3
    <2> QED  BY <1>3, <2>1, <2>2 DEF LayoutTask
  <1>5. ASSUME NEW i \in 0..3 PROVE u.signalTypeCount[i] = WidthCount(u.signals, i)
    <2>1. c[i] = WidthCount(t.signals, i) /\ c[i] \in Nat
      BY <1>1 DEF Counted, c
    <2>2. WidthCount(u.signals, i) = IF x = i THEN WidthCount(t.signals, i) + 1
                                         ELSE WidthCount(t.signals, i)
      BY <1>1, <1>3, WidthAppend DEF x
    <2>3. u.signalTypeCount[i] = IF x = i THEN c[i] + 1 ELSE c[i]
      BY <1>1, <1>2, <1>3
    <2> QED  BY <2>1, <2>2, <2>3
  <1>6. u.signalTypeCount[0] + u.signalTypeCount[1] + u.signalTypeCount[2]
         + u.signalTypeCount[3] = Len(u.signals)
    <2> DEFINE e == [c EXCEPT ![x] = @ + 1]
    <2>1. /\ c[0] \in Nat /\ c[1] \in Nat /\ c[2] \in Nat /\ c[3] \in Nat
          /\ c[0] + c[1] + c[2] + c[3] = Len(t.signals)
      BY <1>1 DEF Counted, c
    <2>2. Len(u.signals) = Len(t.signals) + 1
      BY <1>1, <1>3
    <2>3. x = 0 \/ x = 1 \/ x = 2 \/ x = 3
      BY <1>2
    <2>4. /\ e[0] = IF x = 0 THEN c[0] + 1 ELSE c[0]
          /\ e[1] = IF x = 1 THEN c[1] + 1 ELSE c[1]
          /\ e[2] = IF x = 2 THEN c[2] + 1 ELSE c[2]
          /\ e[3] = IF x = 3 THEN c[3] + 1 ELSE c[3]
      BY <1>1, <1>2
    <2>5. u.signalTypeCount = e
      BY <1>3
    <2> HIDE DEF e
    <2>6. e[0] + e[1] + e[2] + e[3] = c[0] + c[1] + c[2] + c[3] + 1
      <3>0. c[0] \in Nat /\ c[1] \in Nat /\ c[2] \in Nat /\ c[3] \in Nat
        BY <2>1
      <3>1. CASE x = 0
        BY <2>4, <3>0, <3>1
      <3>2. CASE x = 1
        BY <2>4, <3>0, <3>2
      <3>3. CASE x = 2
        BY <2>4, <3>0, <3>3
      <3>4. CASE x = 3
        BY <2>4, <3>0, <3>4
      <3> QED  BY <2>3, <3>1, <3>2, <3>3, <3>4
    <2> QED  BY <2>1, <2>2, <2>5, <2>6
  <1>7. NoEmptyVariable => Len(u.signals) <= u.signalMemSize
    <2> HAVE NoEmptyVariable
    <2>1. Len(t.signals) <= t.signalMemSize /\ v.memSize # 0
      BY DEF Counted, NoEmptyVariable
    <2>2. Len(u.signals) = Len(t.signals) + 1 /\ Len(t.signals) \in Nat
      BY <1>1, <1>3
    <2>3. \A l, m, k \in Nat : l <= m /\ k # 0 => l + 1 <= m + k
      OBVIOUS
    <2>4. Len(t.signals) + 1 <= t.signalMemSize + v.memSize
      BY <1>1, <1>2, <2>1, <2>2, <2>3
    <2> QED  BY <1>3, <2>2, <2>4
  <1> QED  BY <1>4, <1>5, <1>6, <1>7 DEF Counted

\* The layout depends on what is registered only.
LEMMA LayoutSame ==
  ASSUME UNCHANGED <<tasks, params, events>>
  PROVE  Layout' = Layout /\ CopyLists' = CopyLists /\ SignalCopyLists' = SignalCopyLists
  <1>1. CopyLists' = CopyLists /\ SignalCopyLists' = SignalCopyLists
    BY DEF CopyLists, SignalCopyLists
  <1>2. MaxSignalSize' = MaxSignalSize
    BY DEF MaxSignalSize
  <1>3. \A i : ParameterDataOffset(i)' = ParameterDataOffset(i)
    BY DEF ParameterDataOffset
  <1>4. \A t : TaskMemSize(t)' = TaskMemSize(t)
    BY DEF TaskMemSize
  <1>5. SignalData' = SignalData
    BY <1>3 DEF SignalData
  <1>6. \A k : ParamAddr(k)' = ParamAddr(k)
    BY DEF ParamAddr, ParameterDataOffset
  <1>7. \A t : TaskBuf(t)' = TaskBuf(t)
    BY <1>2, <1>5 DEF TaskBuf, TaskMemSize
  <1>8. \A t : PreparedTask(t)' = PreparedTask(t)
    BY <1>4, <1>7 DEF PreparedTask
  <1>9. ShmemLen' = ShmemLen
    BY <1>2, <1>3 DEF ShmemLen, TaskMemSize
  <1>10. EventDataStart' = EventDataStart /\ EventDataEnd' = EventDataEnd
    BY <1>7 DEF EventDataStart, EventDataEnd
  <1>11. TaskBuf(Len(tasks) + 1)' = TaskBuf(Len(tasks) + 1)
    BY <1>7
  <1> QED  BY <1>1, <1>5, <1>6, <1>8, <1>9, <1>10, <1>11 DEF Layout

\* Nothing is registered at first.
LEMMA LayoutIndInit == LayoutInit => LayoutInd
  BY DEF LayoutInit, LayoutInd, LayoutTypeOK

\* Registering, forking and the init functions keep the invariant.
LEMMA LayoutIndNext == LayoutInd /\ [LayoutNext]_layoutVars => LayoutInd'
  <1> SUFFICES ASSUME LayoutInd, [LayoutNext]_layoutVars PROVE LayoutInd'
    OBVIOUS
  <1> USE DEF LayoutInd
  <1>1. ASSUME UNCHANGED layoutVars PROVE LayoutInd'
    <2>1. UNCHANGED <<tasks, params, events>>
      BY <1>1 DEF layoutVars
    <2>2. Layout' = Layout /\ CopyLists' = CopyLists /\ SignalCopyLists' = SignalCopyLists
      BY <2>1, LayoutSame
    <2> QED  BY <1>1, <2>2 DEF layoutVars, LayoutTypeOK
  <1>2. ASSUME NEW p \in Periods, AddTask(p) PROVE LayoutInd'
    <2> DEFINE r == [periods |-> p, signals |-> <<>>, signalMemSize |-> 0,
                     signalTypeCount |-> [i \in 0..3 |-> 0]]
    <2>1. r \in LayoutTask
      <3>1. p \in Nat
        BY ShmemAssumption
      <3>2. <<>> \in Seq(VarTypes)
        OBVIOUS
      <3> QED  BY <3>1, <3>2 DEF LayoutTask
    <2>2. Counted(r)
      <3>1. \A i \in 0..3 : WidthCount(<<>>, i) = 0
        <4>1. \A i \in 0..3 : {k \in DOMAIN <<>> : Index(<<>>[k].align) = i} = {}
          OBVIOUS
        <4> QED  BY <4>1, FS_EmptySet DEF WidthCount
      <3>2. Len(<<>>) = 0
        OBVIOUS
      <3> QED  BY <3>1, <3>2 DEF Counted
    <2>3. tasks' = Append(tasks, r)
          /\ UNCHANGED <<params, events, stage, shmem, rt, nrt>> /\ stage = "register"
      BY <1>2 DEF AddTask
    <2> HIDE DEF r
    <2>4. LayoutTypeOK'
      BY <2>1, <2>3 DEF LayoutTypeOK
    <2>5. \A t \in DOMAIN tasks' : Counted(tasks'[t])
      <3> SUFFICES ASSUME NEW t \in DOMAIN tasks' PROVE Counted(tasks'[t])
        OBVIOUS
      <3>1. (t \in DOMAIN tasks /\ tasks'[t] = tasks[t]) \/ tasks'[t] = r
        BY <2>1, <2>3 DEF LayoutTypeOK
      <3> QED  BY <2>2, <3>1
    <2> QED  BY <2>3, <2>4, <2>5
  <1>3. ASSUME NEW v \in VarTypes, AddParameter(v) PROVE LayoutInd'
    <2>1. params' = Append(params, v)
          /\ UNCHANGED <<tasks, events, stage, shmem, rt, nrt>> /\ stage = "register"
      BY <1>3 DEF AddParameter
    <2>2. LayoutTypeOK'
      BY <2>1 DEF LayoutTypeOK
    <2> QED  BY <2>1, <2>2
  <1>4. ASSUME NEW v \in VarTypes, NEW t \in DOMAIN tasks, AddSignal(t, v)
        PROVE  LayoutInd'
    <2> DEFINE u == [tasks[t] EXCEPT !.signals = Append(@, v),
                             !.signalMemSize = @ + v.memSize,
                             !.signalTypeCount[Index(v.align)] = @ + 1]
    <2>1. tasks[t] \in LayoutTask /\ Counted(tasks[t])
      BY DEF LayoutTypeOK
    <2>2. u \in LayoutTask /\ Counted(u)
      BY <2>1, CountedNext
    <2>3. tasks' = [tasks EXCEPT ![t] = u]
      <3>1. tasks' = [tasks EXCEPT ![t].signals = Append(@, v),
                              ![t].signalMemSize = @ + v.memSize,
                              ![t].signalTypeCount[Index(v.align)] = @ + 1]
        BY <1>4 DEF AddSignal
      <3> QED  BY <2>1, <3>1 DEF LayoutTask
    <2>4. UNCHANGED <<params, events, stage, shmem, rt, nrt>> /\ stage = "register"
      BY <1>4 DEF AddSignal
    <2> HIDE DEF u
    <2>5. LayoutTypeOK'
      BY <2>2, <2>3, <2>4 DEF LayoutTypeOK
    <2>6. \A k \in DOMAIN tasks' : Counted(tasks'[k])
      BY <2>2, <2>3
    <2> QED  BY <2>4, <2>5, <2>6
  <1>5. ASSUME NEW n \in EventSizes, AddEvent(n) PROVE LayoutInd'
    <2>1. events' = Append(events, n)
          /\ UNCHANGED <<tasks, params, stage, shmem, rt, nrt>> /\ stage = "register"
      BY <1>5 DEF AddEvent
    <2>2. n \in Nat
      BY ShmemAssumption
    <2>3. LayoutTypeOK'
      BY <2>1, <2>2 DEF LayoutTypeOK
    <2> QED  BY <2>1, <2>3
  <1>6. ASSUME PreforkInit PROVE LayoutInd'
    <2>1. UNCHANGED <<tasks, params, events, rt, nrt>> /\ stage = "register"
      BY <1>6 DEF PreforkInit
    <2>2. Layout' = Layout /\ CopyLists' = CopyLists /\ SignalCopyLists' = SignalCopyLists
      BY <2>1, LayoutSame
    <2>3. shmem' = Layout
      BY <1>6, Zenon DEF PreforkInit, Layout, EventDataStart, EventDataEnd
    <2>4. stage' = "forked"
      <3>1. stage' = IF EventDataEnd + SizeofEventData > ShmemLen THEN "enomem" ELSE "forked"
        BY <1>6 DEF PreforkInit, EventDataStart, EventDataEnd
      <3>2. EventDataEnd + SizeofEventData <= ShmemLen /\ EventDataEnd \in Nat /\ ShmemLen \in Nat
        BY Places
      <3>3. ~ (EventDataEnd + SizeofEventData > ShmemLen)
        BY <3>2 DEF SizeofEventData
      <3> QED  BY <3>1, <3>3
    <2>5. LayoutTypeOK' /\ \A t \in DOMAIN tasks' : Counted(tasks'[t])
      BY <2>1 DEF LayoutTypeOK
    <2> QED  BY <2>1, <2>2, <2>3, <2>4, <2>5
  <1>7. ASSUME RtInit PROVE LayoutInd'
    <2>1. UNCHANGED <<tasks, params, events, stage, shmem, nrt>> /\ stage = "forked"
      BY <1>7 DEF RtInit
    <2>2. Layout' = Layout /\ CopyLists' = CopyLists /\ SignalCopyLists' = SignalCopyLists
      BY <2>1, LayoutSame
    <2>3. rt' = CopyLists
      BY <1>7, Zenon DEF RtInit, CopyLists
    <2>5. LayoutTypeOK' /\ \A t \in DOMAIN tasks' : Counted(tasks'[t])
      BY <2>1 DEF LayoutTypeOK
    <2> QED  BY <2>1, <2>2, <2>3, <2>5
  <1>8. ASSUME NrtInit PROVE LayoutInd'
    <2>1. UNCHANGED <<tasks, params, events, stage, shmem, rt>> /\ stage = "forked"
      BY <1>8 DEF NrtInit
    <2>2. Layout' = Layout /\ CopyLists' = CopyLists /\ SignalCopyLists' = SignalCopyLists
      BY <2>1, LayoutSame
    <2>3. nrt' = SignalCopyLists
      BY <1>8, Zenon DEF NrtInit, SignalCopyLists
    <2>5. LayoutTypeOK' /\ \A t \in DOMAIN tasks' : Counted(tasks'[t])
      BY <2>1 DEF LayoutTypeOK
    <2> QED  BY <2>1, <2>2, <2>3, <2>5
  <1> QED
    BY <1>1, <1>2, <1>3, <1>4, <1>5, <1>6, <1>7, <1>8 DEF LayoutNext

\* The invariant has what is to be shown as a consequence.
LEMMA LayoutIndInv ==
  ASSUME LayoutInd
  PROVE  /\ AreasApart /\ EnoughMemory /\ ListsHold
         /\ NoEmptyVariable => FramesKept
  <1>1. LayoutTypeOK /\ (stage = "forked" => shmem = Layout)
        /\ \A t \in DOMAIN tasks : Counted(tasks[t])
    BY DEF LayoutInd
  <1>2. AreasApart
    <2>1. CASE stage = "forked"
      BY <1>1, <2>1, LaidOutApart
    <2>2. CASE stage # "forked"
      BY <2>2 DEF AreasApart
    <2> QED  BY <2>1, <2>2
  <1>3. EnoughMemory
    BY DEF LayoutInd, EnoughMemory
  <1>4. ListsHold
    BY LayoutIndLists
  <1>5. NoEmptyVariable => FramesKept
    <2>1. CASE stage = "forked"
      BY <1>1, <2>1, LaidOutFrames
    <2>2. CASE stage # "forked"
      BY <2>2 DEF FramesKept
    <2> QED  BY <2>1, <2>2
  <1> QED  BY <1>2, <1>3, <1>4, <1>5

\* prefork_init(), rt_init() and nrt_init(): for any number of tasks, signals,
\* parameters and events, registered in any order, no two things in shared memory
\* overlap, all are aligned and inside of it, ENOMEM is never returned, and the
\* lists of both processes have room for all signals of their width.
THEOREM LayoutApart == LayoutSpec => [](AreasApart /\ EnoughMemory /\ ListsHold)
  <1>1. LayoutInd => AreasApart /\ EnoughMemory /\ ListsHold
    BY LayoutIndInv
  <1> QED  BY <1>1, LayoutIndInit, LayoutIndNext, PTL DEF LayoutSpec

\* When no signal is empty, the memory of a task also holds a list of all its
\* signals and the number of Pdos that getShmemSpace() was asked for.
THEOREM LayoutSafe ==
  ASSUME NoEmptyVariable
  PROVE  LayoutSpec => []LayoutInv
  <1>1. LayoutInd => LayoutInv
    BY LayoutIndInv DEF LayoutInv
  <1> QED  BY <1>1, LayoutIndInit, LayoutIndNext, PTL DEF LayoutSpec
=============================================================================
