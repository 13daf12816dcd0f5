-------------------------- MODULE SignalListProofs --------------------------
(***************************************************************************)
(* Proofs about the subscription request list, for every set of signals,   *)
(* sessions and widths.                                                    *)
(***************************************************************************)
EXTENDS SignalList, FiniteSetTheorems, TLAPS

(* The ring *)

\* The ring of Task::prepare has at least two slots.
LEMMA RingSize == ListSize \in Nat /\ ListSize >= 2
  <1>1. Cardinality(Signal) \in Nat
    BY SignalAssumption, FS_CardinalityType
  <1>2. Cardinality(Signal) # 0
    BY SignalAssumption, FS_EmptySet
  <1> QED  BY <1>1, <1>2, SMT DEF ListSize

\* The pointers advance inside the ring, one to one.
LEMMA NextSlotInRing ==
  ASSUME NEW i \in Slots, NEW j \in Slots
  PROVE  /\ NextSlot(i) \in Slots
         /\ NextSlot(i) # i
         /\ NextSlot(i) = NextSlot(j) => i = j
  BY RingSize DEF Slots, NextSlot

\* The slots between the two pointers.
LEMMA LiveSlots ==
  ASSUME rp \in Slots, wp \in Slots
  PROVE  /\ Live \subseteq Slots
         /\ rp \in Live
         /\ wp \in Live
         /\ \A i \in Live \ {wp} : NextSlot(i) \in Live \ {rp}
         /\ NextSlot(wp) # rp => NextSlot(wp) \notin Live
         /\ rp = wp => Live = {wp}
  BY RingSize DEF Slots, NextSlot, Live

\* Moving the write pointer adds a slot to them.
LEMMA LivePublish ==
  ASSUME rp \in Slots, wp \in Slots, NextSlot(wp) # rp,
         rp' = rp, wp' = NextSlot(wp)
  PROVE  Live' = Live \cup {NextSlot(wp)}
  BY RingSize DEF Slots, NextSlot, Live

\* Moving the read pointer takes one away.
LEMMA LiveRelease ==
  ASSUME rp \in Slots, wp \in Slots, rp # wp,
         rp' = NextSlot(rp), wp' = wp
  PROVE  Live' = Live \ {rp}
  BY RingSize DEF Slots, NextSlot, Live

(* The copy lists *)

\* What appending a signal does to a list.
LEMMA AppendList ==
  ASSUME NEW list \in Seq(Signal), NEW s \in Signal
  PROVE  /\ Append(list, s) \in Seq(Signal)
         /\ DOMAIN list = 1..Len(list)
         /\ Len(list) \in Nat
         /\ DOMAIN Append(list, s) = 1..Len(list) + 1
         /\ \A i \in 1..Len(list) : Append(list, s)[i] = list[i]
         /\ Append(list, s)[Len(list) + 1] = s
  OBVIOUS

\* What closing the gap does to a list.
LEMMA SwapRemoveList ==
  ASSUME NEW list \in Seq(Signal), NEW p \in DOMAIN list
  PROVE  /\ Len(list) \in Nat \ {0}
         /\ SwapRemove(list, p) \in Seq(Signal)
         /\ Len(SwapRemove(list, p)) = Len(list) - 1
         /\ DOMAIN list = 1..Len(list)
         /\ DOMAIN SwapRemove(list, p) = 1..Len(list) - 1
         /\ \A i \in 1..Len(list) - 1 :
                SwapRemove(list, p)[i] =
                    IF i = p THEN list[Len(list)] ELSE list[i]
  BY DEF SwapRemove

\* Applying a request that names a signal and, for a removal, a position of
\* the list yields copy lists again.
LEMMA ApplyRequestLists ==
  ASSUME NEW lists \in [Width -> Seq(Signal)], NEW r \in Request,
         r.signal \in Signal,
         r.action \in {"Insert", "Remove"},
         r.action = "Remove" =>
             r.signalPosition + 1 \in DOMAIN lists[WidthOf[r.signal]]
  PROVE  ApplyRequest(lists, r) \in [Width -> Seq(Signal)]
  <1>1. WidthOf[r.signal] \in Width
    BY WidthAssumption DEF Width
  <1>2. lists[WidthOf[r.signal]] \in Seq(Signal)
    BY <1>1
  <1>3. CASE r.action = "Insert"
    <2>1. Append(lists[WidthOf[r.signal]], r.signal) \in Seq(Signal)
      BY <1>2
    <2> QED  BY <1>1, <1>3, <2>1 DEF ApplyRequest
  <1>4. CASE r.action = "Remove"
    <2>1. SwapRemove(lists[WidthOf[r.signal]], r.signalPosition + 1)
              \in Seq(Signal)
      BY <1>2, <1>4, SwapRemoveList
    <2> QED  BY <1>1, <1>4, <2>1 DEF ApplyRequest
  <1> QED  BY <1>3, <1>4

\* The initial lists are empty, the ring holds no request.
LEMMA ListInitInv == ListInit => ListInv
  <1> SUFFICES ASSUME ListInit PROVE ListInv
    OBVIOUS
  <1>1. EmptyLists \in [Width -> Seq(Signal)]
    BY DEF EmptyLists
  <1>2. 0 \in Slots
    BY RingSize DEF Slots
  <1>3. ZeroRequest \in Request
    BY DEF ZeroRequest, Request
  <1>4. ListTypeOK
    BY <1>1, <1>2, <1>3 DEF ListInit, ListTypeOK
  <1>5. CopyListExact
    BY DEF ListInit, CopyListExact, EmptyLists
  <1>6. SubscribersMatch
    BY DEF ListInit, SubscribersMatch
  <1>7. RingChained
    <2>1. Live = {wp}
      BY <1>2, LiveSlots DEF ListInit
    <2> QED  BY <1>2, <2>1 DEF ListInit, RingChained, Unpublished, ZeroRequest
  <1>8. RtInStep
    BY <1>2 DEF ListInit, RtInStep, ZeroRequest
  <1> QED  BY <1>4, <1>5, <1>6, <1>7, <1>8 DEF ListInv

\* Locking the mutex in Task::subscribe(), after the session's own set changed.
LEMMA EnterInv ==
  ASSUME ListInv, NEW st \in SessionTask, NEW s \in Signal, NEW ins \in BOOLEAN,
         Enter(st, s, ins),
         s \in subscribedSet[st] <=> ~ins,
         subscribedSet' \in [SessionTask -> SUBSET Signal],
         \A t \in SessionTask, x \in Signal :
             x \in subscribedSet'[t] <=>
                 IF t = st /\ x = s THEN ins ELSE x \in subscribedSet[t]
  PROVE  ListInv'
  <1> USE DEF ListInv
  <1>2. /\ call = Null
        /\ call' = [st |-> st, signal |-> s, insert |-> ins, pc |-> "wait"]
        /\ call' \in Call
        /\ UNCHANGED <<sessions, copyListPos, subscriptionId, signalCopyList,
                       listIdNrt, slot, rp, wp, copyList, listIdRt, applied,
                       after>>
    BY DEF Enter, Call, shmVars, rtVars
  <1>3. call' # Null
    BY <1>2, NullAssumption
  <1>4. ListTypeOK'
    BY <1>2 DEF ListTypeOK
  <1>5. CopyListExact'
    BY <1>2 DEF CopyListExact
  <1>6. SubscribersMatch'
    BY <1>2, <1>3 DEF SubscribersMatch
  <1>7. RingChained'
    BY <1>2 DEF RingChained, Unpublished, Live, Leads
  <1>8. RtInStep'
    BY <1>2 DEF RtInStep
  <1> QED  BY <1>4, <1>5, <1>6, <1>7, <1>8

\* Writing the free slot disturbs no link of the chain.
LEMMA FreeSlotUnchained ==
  ASSUME ListTypeOK, NextSlot(wp) # rp, rp' = rp, wp' = wp,
         \A i \in Slots \ {NextSlot(wp)} : slot'[i] = slot[i] /\ after'[i] = after[i],
         NEW i \in Live \ {wp}, Leads(i, NextSlot(i))
  PROVE  Leads(i, NextSlot(i))'
  <1>1. /\ i \in Slots \ {NextSlot(wp)}
        /\ NextSlot(i) \in Slots \ {NextSlot(wp)}
    BY LiveSlots DEF ListTypeOK
  <1> QED  BY <1>1 DEF Leads

\* A signal in a copy list is a signal of the task, in the list of its width.
LEMMA CopyListSignals ==
  ASSUME ListTypeOK, CopyListExact,
         NEW w \in Width, NEW i \in DOMAIN signalCopyList[w]
  PROVE  /\ signalCopyList[w][i] \in Signal
         /\ WidthOf[signalCopyList[w][i]] = w
         /\ sessions[signalCopyList[w][i]] # {}
         /\ copyListPos[signalCopyList[w][i]] = i - 1
  BY DEF ListTypeOK, CopyListExact

\* The copy lists stay exact when the same signals are in use.
LEMMA CopyListUndisturbed ==
  ASSUME ListTypeOK, CopyListExact, UNCHANGED <<copyListPos, signalCopyList>>,
         \A s \in Signal : sessions'[s] # {} <=> sessions[s] # {}
  PROVE  CopyListExact'
  <1>1. \A s \in Signal : sessions'[s] # {} =>
            /\ copyListPos[s] + 1 \in DOMAIN signalCopyList[WidthOf[s]]
            /\ signalCopyList[WidthOf[s]][copyListPos[s] + 1] = s
    BY DEF CopyListExact
  <1>2. ASSUME NEW w \in Width, NEW i \in DOMAIN signalCopyList[w]
        PROVE  LET s == signalCopyList[w][i]
               IN  WidthOf[s] = w /\ sessions'[s] # {} /\ copyListPos[s] = i - 1
    BY CopyListSignals
  <1> QED  BY <1>1, <1>2 DEF CopyListExact

\* Leaving Task::subscribe() without a request.
LEMMA NoRequestInv ==
  ASSUME ListInv, AlreadySubscribed \/ StillSubscribed
  PROVE  ListInv'
  <1> USE DEF ListInv
  <1>1. /\ call \in Call
        /\ call.pc = "wait"
        /\ call' = Null
        /\ NextSlot(wp) # rp
        /\ NextSlot(wp) \in Slots
        /\ slot' = [slot EXCEPT ![NextSlot(wp)].signal = call.signal]
        /\ UNCHANGED <<copyListPos, subscriptionId, signalCopyList, listIdNrt,
                       subscribedSet, rp, wp, copyList, listIdRt, applied, after>>
    BY NextSlotInRing DEF ListTypeOK, AlreadySubscribed, StillSubscribed, Waiting, Room, rtVars
  <1>2. /\ call.st \in SessionTask
        /\ call.signal \in Signal
        /\ call.insert \in BOOLEAN
        /\ call # Null
    BY <1>1, NullAssumption DEF Call
  <1>3. /\ sessions' \in [Signal -> SUBSET SessionTask]
        /\ \A s \in Signal, t \in SessionTask :
               t \in sessions'[s] <=>
                   IF s = call.signal /\ t = call.st THEN call.insert
                   ELSE t \in sessions[s]
        /\ \A s \in Signal : sessions'[s] # {} <=> sessions[s] # {}
    <2>1. CASE AlreadySubscribed
      BY <1>2, <2>1 DEF ListTypeOK, AlreadySubscribed, Waiting
    <2>2. CASE StillSubscribed
      <3>1. call.st \in sessions[call.signal] /\ ~call.insert
        BY <1>1, <1>2, <2>2 DEF SubscribersMatch, StillSubscribed, Waiting
      <3>2. sessions' = [sessions EXCEPT ![call.signal] = @ \ {call.st}]
        BY <2>2 DEF StillSubscribed
      <3>3. sessions[call.signal] \ {call.st} # {}
        BY <2>2, <3>1 DEF StillSubscribed
      <3> QED  BY <1>2, <3>1, <3>2, <3>3 DEF ListTypeOK
    <2> QED  BY <2>1, <2>2
  <1>4. ListTypeOK'
    <2>1. slot' \in [Slots -> Request]
      BY <1>1, <1>2 DEF ListTypeOK, Request
    <2> QED  BY <1>1, <1>3, <2>1 DEF ListTypeOK
  <1>5. SubscribersMatch'
    <2>1. \A t \in SessionTask, s \in Signal :
              s \in subscribedSet[t] <=> t \in sessions'[s]
      BY <1>1, <1>2, <1>3 DEF SubscribersMatch
    <2> QED  BY <1>1, <2>1 DEF SubscribersMatch
  <1>6. CopyListExact'
    BY <1>1, <1>3, CopyListUndisturbed
  <1>7. RingChained'
    <2>1. \A i \in Slots \ {NextSlot(wp)} : slot'[i] = slot[i] /\ after'[i] = after[i]
      BY <1>1 DEF ListTypeOK
    <2>2. \A i \in (Live \ {wp})' : Leads(i, NextSlot(i))'
      BY <1>1, <2>1, FreeSlotUnchained DEF RingChained, Live
    <2>3. wp \in Slots \ {NextSlot(wp)}
      BY NextSlotInRing DEF ListTypeOK
    <2> QED  BY <1>1, <2>1, <2>2, <2>3 DEF RingChained, Unpublished
  <1>8. RtInStep'
    <2>1. \A i \in Slots \ {NextSlot(wp)} : slot'[i] = slot[i]
      BY <1>1 DEF ListTypeOK
    <2>2. (IF applied THEN NextSlot(rp) ELSE rp) \in Slots \ {NextSlot(wp)}
      BY <1>1, LiveSlots DEF ListTypeOK, RtInStep
    <2> QED  BY <1>1, <2>1, <2>2 DEF RtInStep
  <1> QED  BY <1>4, <1>5, <1>6, <1>7, <1>8

\* The parts of a request that do not depend on its kind.
LEMMA RequestInv ==
  ASSUME ListInv, call \in Call, call.pc = "wait", Room, NumberRequest,
         NEW r \in Request, slot' = [slot EXCEPT ![NextSlot(wp)] = r],
         r.signal = call.signal,
         r.action = IF call.insert THEN "Insert" ELSE "Remove",
         r.signalListId = listIdNrt + 1,
         r.action = "Remove" =>
             /\ r.signalPosition + 1 \in DOMAIN signalCopyList[WidthOf[r.signal]]
             /\ signalCopyList[WidthOf[r.signal]][r.signalPosition + 1] = r.signal,
         signalCopyList' = ApplyRequest(signalCopyList, r),
         copyListPos' \in [Signal -> Nat],
         sessions' \in [Signal -> SUBSET SessionTask],
         \A s \in Signal, t \in SessionTask :
             t \in sessions'[s] <=>
                 IF s = call.signal /\ t = call.st THEN call.insert
                 ELSE t \in sessions[s]
  PROVE  ListTypeOK' /\ SubscribersMatch' /\ RingChained' /\ RtInStep'
  <1> USE DEF ListInv
  <1>1. /\ call.st \in SessionTask
        /\ call.signal \in Signal
        /\ call.insert \in BOOLEAN
        /\ call # Null
    BY NullAssumption DEF Call
  <1>2. /\ call' \in Call
        /\ call'.pc = "publish"
        /\ call' # Null
    BY <1>1, NullAssumption DEF NumberRequest, Call
  <1>3. /\ NextSlot(wp) # rp
        /\ NextSlot(wp) \in Slots
        /\ wp \in Slots \ {NextSlot(wp)}
    BY NextSlotInRing DEF ListTypeOK, Room
  <1>4. /\ listIdNrt' = listIdNrt + 1
        /\ UNCHANGED <<subscribedSet, rp, wp, copyList, listIdRt, applied>>
        /\ after' = [after EXCEPT ![NextSlot(wp)] = signalCopyList']
        /\ subscriptionId' =
               [subscriptionId EXCEPT ![call.signal] = listIdNrt + 1]
    BY DEF NumberRequest, rtVars
  <1>5. signalCopyList' \in [Width -> Seq(Signal)]
    <2>1. signalCopyList \in [Width -> Seq(Signal)]
      BY DEF ListTypeOK
    <2> QED  BY <1>1, <2>1, ApplyRequestLists
  <1>6. \A i \in Slots \ {NextSlot(wp)} :
            slot'[i] = slot[i] /\ after'[i] = after[i]
    BY <1>4 DEF ListTypeOK
  <1>7. ListTypeOK'
    BY <1>1, <1>2, <1>3, <1>4, <1>5 DEF ListTypeOK
  <1>8. SubscribersMatch'
    BY <1>1, <1>2, <1>4 DEF SubscribersMatch
  <1>9. RingChained'
    <2>1. \A i \in (Live \ {wp})' : Leads(i, NextSlot(i))'
      BY <1>3, <1>4, <1>6, FreeSlotUnchained DEF RingChained, Live
    <2>2. /\ signalCopyList = after[wp]
          /\ listIdNrt = slot[wp].signalListId
      BY DEF RingChained, Unpublished
    <2>3. /\ slot'[NextSlot(wp)] = r
          /\ after'[NextSlot(wp)] = signalCopyList'
          /\ slot'[wp] = slot[wp]
          /\ after'[wp] = after[wp]
      BY <1>3, <1>4, <1>6 DEF ListTypeOK
    <2>4. Leads(wp, NextSlot(wp))'
      BY <1>1, <1>4, <2>2, <2>3 DEF Leads
    <2>5. signalCopyList' = after'[NextSlot(wp)]
      BY <2>3
    <2>6. listIdNrt' = slot'[NextSlot(wp)].signalListId
      BY <1>4, <2>3
    <2> QED  BY <1>2, <1>3, <1>4, <2>1, <2>4, <2>5, <2>6 DEF RingChained, Unpublished
  <1>10. RtInStep'
    <2>1. (IF applied THEN NextSlot(rp) ELSE rp) \in Slots \ {NextSlot(wp)}
      BY <1>3, LiveSlots DEF ListTypeOK, RtInStep
    <2> QED  BY <1>4, <1>6, <2>1 DEF RtInStep
  <1> QED  BY <1>7, <1>8, <1>9, <1>10

\* A new signal at the end of a copy list.
LEMMA RequestInsertInv == ASSUME ListInv, RequestInsert PROVE ListInv'
  <1> USE DEF ListInv
  <1> DEFINE cs   == call.signal
             list == signalCopyList[WidthOf[cs]]
             r    == [slot[NextSlot(wp)] EXCEPT
                          !.action = "Insert", !.signal = cs,
                          !.signalListId = listIdNrt + 1]
  <1>1. /\ call \in Call
        /\ call.pc = "wait"
        /\ call.insert = TRUE
        /\ cs \in Signal
        /\ call.st \in SessionTask
        /\ Room
        /\ sessions[cs] = {}
        /\ NumberRequest
    BY DEF RequestInsert, Waiting, ListTypeOK, Call
  <1>2. WidthOf[cs] \in Width /\ list \in Seq(Signal) /\ Len(list) \in Nat
    <2>1. WidthOf[cs] \in Width
      BY <1>1, WidthAssumption DEF Width
    <2> QED  BY <2>1 DEF ListTypeOK
  <1>3. r \in Request /\ r.signal = cs /\ r.action = "Insert"
            /\ r.signalListId = listIdNrt + 1
    <2>1. slot[NextSlot(wp)] \in Request
      BY NextSlotInRing DEF ListTypeOK
    <2>2. cs \in Signal /\ listIdNrt + 1 \in Nat
      BY <1>1 DEF ListTypeOK
    <2> QED  BY <2>1, <2>2 DEF Request
  <1>4. /\ slot' = [slot EXCEPT ![NextSlot(wp)] = r]
        /\ signalCopyList' = [signalCopyList EXCEPT ![WidthOf[cs]] =
                                  Append(list, cs)]
        /\ copyListPos' = [copyListPos EXCEPT ![cs] = Len(list)]
        /\ sessions' = [sessions EXCEPT ![cs] = {call.st}]
    BY NextSlotInRing, <1>2 DEF RequestInsert, ListTypeOK
  <1> HIDE DEF r
  <1>5. signalCopyList' = ApplyRequest(signalCopyList, r)
    BY <1>3, <1>4 DEF ApplyRequest
  <1>6. copyListPos' \in [Signal -> Nat]
    BY <1>2, <1>4 DEF ListTypeOK
  <1>7. /\ sessions' \in [Signal -> SUBSET SessionTask]
        /\ \A s \in Signal, t \in SessionTask :
               t \in sessions'[s] <=>
                   IF s = call.signal /\ t = call.st THEN call.insert
                   ELSE t \in sessions[s]
    BY <1>1, <1>4 DEF ListTypeOK
  <1>8. ListTypeOK' /\ SubscribersMatch' /\ RingChained' /\ RtInStep'
    BY <1>1, <1>3, <1>4, <1>5, <1>6, <1>7, RequestInv
  <1>9. CopyListExact'
    <2>1. /\ \A s \in Signal \ {cs} : /\ sessions'[s] = sessions[s]
                                      /\ copyListPos'[s] = copyListPos[s]
          /\ sessions'[cs] = {call.st}
          /\ copyListPos'[cs] = Len(list)
      BY <1>1, <1>4 DEF ListTypeOK
    <2>2. \A w \in Width \ {WidthOf[cs]} : signalCopyList'[w] = signalCopyList[w]
      BY <1>4 DEF ListTypeOK
    <2>3. /\ signalCopyList'[WidthOf[cs]] = Append(list, cs)
          /\ DOMAIN signalCopyList'[WidthOf[cs]] = 1..Len(list) + 1
          /\ \A i \in DOMAIN list :
                 signalCopyList'[WidthOf[cs]][i] = list[i]
          /\ signalCopyList'[WidthOf[cs]][Len(list) + 1] = cs
          /\ DOMAIN list = 1..Len(list)
      <3>1. signalCopyList'[WidthOf[cs]] = Append(list, cs)
        BY <1>2, <1>4 DEF ListTypeOK
      <3> QED  BY <1>1, <1>2, <3>1, AppendList
    <2>4. ASSUME NEW s \in Signal, sessions'[s] # {}
          PROVE  /\ copyListPos'[s] + 1 \in DOMAIN signalCopyList'[WidthOf[s]]
                 /\ signalCopyList'[WidthOf[s]][copyListPos'[s] + 1] = s
      <3>1. CASE s = cs
        BY <1>2, <2>1, <2>3, <3>1
      <3>2. CASE s # cs /\ WidthOf[s] = WidthOf[cs]
        <4>1. /\ copyListPos[s] + 1 \in DOMAIN list
              /\ list[copyListPos[s] + 1] = s
          BY <2>1, <2>4, <3>2 DEF CopyListExact
        <4> QED  BY <1>2, <2>1, <2>3, <3>2, <4>1
      <3>3. CASE s # cs /\ WidthOf[s] # WidthOf[cs]
        <4>1. WidthOf[s] \in Width
          BY WidthAssumption DEF Width
        <4> QED  BY <2>1, <2>2, <2>4, <3>3, <4>1 DEF CopyListExact
      <3> QED  BY <3>1, <3>2, <3>3
    <2>5. ASSUME NEW w \in Width, NEW i \in DOMAIN signalCopyList'[w]
          PROVE  LET s == signalCopyList'[w][i]
                 IN  /\ WidthOf[s] = w
                     /\ sessions'[s] # {}
                     /\ copyListPos'[s] = i - 1
      <3>1. CASE w = WidthOf[cs] /\ i = Len(list) + 1
        <4>1. signalCopyList'[w][i] = cs
          BY <2>3, <3>1
        <4>2. copyListPos'[cs] = i - 1
          BY <1>2, <2>1, <3>1
        <4>3. sessions'[cs] # {}
          BY <2>1
        <4> QED  BY <3>1, <4>1, <4>2, <4>3
      <3>2. CASE ~(w = WidthOf[cs] /\ i = Len(list) + 1)
        <4> DEFINE s == signalCopyList[w][i]
        <4>1. i \in DOMAIN signalCopyList[w] /\ signalCopyList'[w][i] = s
          BY <1>2, <2>2, <2>3, <3>2
        <4>2. s \in Signal
          BY <4>1 DEF ListTypeOK
        <4>3. WidthOf[s] = w /\ sessions[s] # {} /\ copyListPos[s] = i - 1
          BY <4>1 DEF CopyListExact
        <4>4. s # cs
          BY <1>1, <4>3
        <4> HIDE DEF s
        <4> QED  BY <2>1, <4>1, <4>2, <4>3, <4>4
      <3> QED  BY <3>1, <3>2
    <2> QED  BY <2>4, <2>5 DEF CopyListExact
  <1> QED  BY <1>8, <1>9

\* The last signal of a copy list takes the place of the removed one.
LEMMA RequestRemoveInv == ASSUME ListInv, RequestRemove PROVE ListInv'
  <1> USE DEF ListInv
  <1> DEFINE cs   == call.signal
             w    == WidthOf[cs]
             list == signalCopyList[w]
             pos  == copyListPos[cs]
             last == list[Len(list)]
             r    == [action |-> "Remove", signal |-> cs,
                      signalPosition |-> pos, signalListId |-> listIdNrt + 1]
  <1>1. /\ call \in Call
        /\ call.pc = "wait"
        /\ call.insert = FALSE
        /\ cs \in Signal
        /\ call.st \in SessionTask
        /\ Room
        /\ sessions[cs] # {}
        /\ sessions[cs] \ {call.st} = {}
        /\ NumberRequest
    BY DEF RequestRemove, Waiting, ListTypeOK, Call
  <1>2. w \in Width /\ list \in Seq(Signal) /\ Len(list) \in Nat /\ pos \in Nat
    <2>1. w \in Width
      BY <1>1, WidthAssumption DEF Width
    <2> QED  BY <1>1, <2>1 DEF ListTypeOK
  <1>3. r \in Request
    BY <1>1, <1>2 DEF ListTypeOK, Request
  <1>4. /\ slot' = [slot EXCEPT ![NextSlot(wp)] = r]
        /\ signalCopyList' = [signalCopyList EXCEPT ![w] =
                                  SwapRemove(list, pos + 1)]
        /\ copyListPos' = [copyListPos EXCEPT ![last] = pos]
        /\ sessions' = [sessions EXCEPT ![cs] = {}]
    BY <1>2 DEF RequestRemove, Repositioned, ListTypeOK
  <1>5. pos + 1 \in DOMAIN list /\ list[pos + 1] = cs
    BY <1>1 DEF CopyListExact
  <1>6. /\ Len(list) \in Nat \ {0}
        /\ DOMAIN list = 1..Len(list)
        /\ Len(SwapRemove(list, pos + 1)) = Len(list) - 1
        /\ DOMAIN SwapRemove(list, pos + 1) = 1..Len(list) - 1
        /\ \A i \in 1..Len(list) - 1 :
               SwapRemove(list, pos + 1)[i] =
                   IF i = pos + 1 THEN last ELSE list[i]
    <2> HIDE DEF list, pos
    <2> QED  BY <1>2, <1>5, SwapRemoveList
  <1>7. Len(list) \in DOMAIN list
    BY <1>6
  <1>8. /\ last \in Signal
        /\ WidthOf[last] = w
        /\ sessions[last] # {}
        /\ copyListPos[last] = Len(list) - 1
    BY <1>2, <1>7, CopyListSignals
  <1>9. signalCopyList' = ApplyRequest(signalCopyList, r)
    BY <1>4 DEF ApplyRequest
  <1>10. copyListPos' \in [Signal -> Nat]
    BY <1>2, <1>4 DEF ListTypeOK
  <1>11. /\ sessions' \in [Signal -> SUBSET SessionTask]
         /\ \A s \in Signal, t \in SessionTask :
                t \in sessions'[s] <=>
                    IF s = call.signal /\ t = call.st THEN call.insert
                    ELSE t \in sessions[s]
    BY <1>1, <1>4 DEF ListTypeOK
  <1>12. ListTypeOK' /\ SubscribersMatch' /\ RingChained' /\ RtInStep'
    <2>1. /\ r.signal = call.signal
          /\ r.action = IF call.insert THEN "Insert" ELSE "Remove"
          /\ r.signalListId = listIdNrt + 1
      BY <1>1
    <2>2. /\ r.signalPosition + 1 \in DOMAIN signalCopyList[WidthOf[r.signal]]
          /\ signalCopyList[WidthOf[r.signal]][r.signalPosition + 1] = r.signal
      BY <1>5
    <2>3. slot' = [slot EXCEPT ![NextSlot(wp)] = r]
      BY <1>4
    <2>4. call \in Call /\ call.pc = "wait" /\ Room /\ NumberRequest
      BY <1>1
    <2> HIDE DEF r
    <2> QED
      BY <1>3, <1>9, <1>10, <1>11, <2>1, <2>2, <2>3, <2>4, RequestInv
  <1>13. CopyListExact'
    <2>1. /\ \A s \in Signal \ {cs} : sessions'[s] = sessions[s]
          /\ sessions'[cs] = {}
          /\ \A s \in Signal \ {last} : copyListPos'[s] = copyListPos[s]
          /\ copyListPos'[last] = pos
      BY <1>1, <1>4, <1>8 DEF ListTypeOK
    <2>2. /\ \A v \in Width \ {w} : signalCopyList'[v] = signalCopyList[v]
          /\ signalCopyList'[w] = SwapRemove(list, pos + 1)
      BY <1>2, <1>4 DEF ListTypeOK
    <2>3. ASSUME NEW s \in Signal, sessions'[s] # {}
          PROVE  /\ copyListPos'[s] + 1 \in DOMAIN signalCopyList'[WidthOf[s]]
                 /\ signalCopyList'[WidthOf[s]][copyListPos'[s] + 1] = s
      <3>1. s # cs /\ sessions[s] # {}
        BY <2>1, <2>3
      <3>2. /\ copyListPos[s] + 1 \in DOMAIN signalCopyList[WidthOf[s]]
            /\ signalCopyList[WidthOf[s]][copyListPos[s] + 1] = s
        BY <3>1 DEF CopyListExact
      <3>3. copyListPos[s] \in Nat
        BY DEF ListTypeOK
      <3>4. CASE s = last
        <4>1. pos + 1 # Len(list)
          BY <1>5, <3>1, <3>4
        <4>2. pos + 1 \in 1..Len(list) - 1
          BY <1>2, <1>5, <1>6, <4>1
        <4>3. SwapRemove(list, pos + 1)[pos + 1] = last
          BY <1>6, <4>2
        <4> QED  BY <1>6, <1>8, <2>1, <2>2, <3>4, <4>2, <4>3
      <3>5. CASE s # last /\ WidthOf[s] = w
        <4>1. copyListPos[s] + 1 # Len(list)
          BY <3>2, <3>5
        <4>2. copyListPos[s] + 1 # pos + 1
          BY <1>5, <3>1, <3>2, <3>5
        <4>3. copyListPos[s] + 1 \in 1..Len(list) - 1
          BY <1>6, <3>2, <3>3, <3>5, <4>1
        <4>4. SwapRemove(list, pos + 1)[copyListPos[s] + 1] = s
          BY <1>6, <3>2, <3>5, <4>2, <4>3
        <4> QED  BY <1>6, <2>1, <2>2, <3>5, <4>3, <4>4
      <3>6. CASE WidthOf[s] # w
        <4>1. WidthOf[s] \in Width /\ s # last
          BY <1>8, <3>6, WidthAssumption DEF Width
        <4> QED  BY <2>1, <2>2, <3>2, <3>6, <4>1
      <3> QED  BY <3>4, <3>5, <3>6
    <2>4. ASSUME NEW v \in Width, NEW i \in DOMAIN signalCopyList'[v]
          PROVE  LET s == signalCopyList'[v][i]
                 IN  /\ WidthOf[s] = v
                     /\ sessions'[s] # {}
                     /\ copyListPos'[s] = i - 1
      <3>1. CASE v # w
        <4> DEFINE s == signalCopyList[v][i]
        <4>1. i \in DOMAIN signalCopyList[v] /\ signalCopyList'[v][i] = s
          BY <2>2, <3>1
        <4>2. /\ s \in Signal /\ WidthOf[s] = v
              /\ sessions[s] # {} /\ copyListPos[s] = i - 1
          BY <4>1, CopyListSignals
        <4>3. s # cs /\ s # last
          BY <1>8, <3>1, <4>2
        <4> HIDE DEF s
        <4> QED  BY <2>1, <4>1, <4>2, <4>3
      <3>2. CASE v = w /\ i = pos + 1
        <4>1. i \in 1..Len(list) - 1
          BY <1>6, <2>2, <3>2
        <4>2. signalCopyList'[v][i] = last
          BY <1>6, <2>2, <3>2, <4>1
        <4>3. last # cs
          BY <1>2, <1>6, <1>8, <3>2, <4>1
        <4>4. sessions'[last] # {} /\ copyListPos'[last] = pos
          BY <1>8, <2>1, <4>3
        <4>5. pos = i - 1
          BY <1>2, <3>2
        <4> HIDE DEF last, pos
        <4> QED  BY <1>8, <3>2, <4>2, <4>4, <4>5
      <3>3. CASE v = w /\ i # pos + 1
        <4> DEFINE s == list[i]
        <4>1. i \in 1..Len(list) - 1
          BY <1>6, <2>2, <3>3
        <4>2. signalCopyList'[v][i] = s
          BY <1>6, <2>2, <3>3, <4>1
        <4>3. /\ s \in Signal /\ WidthOf[s] = w
              /\ sessions[s] # {} /\ copyListPos[s] = i - 1
          <5>1. i \in DOMAIN list
            BY <1>6, <4>1
          <5> QED  BY <1>2, <5>1, CopyListSignals
        <4>4. s # cs
          BY <1>2, <3>3, <4>1, <4>3
        <4>5. s # last
          <5>1. i - 1 # Len(list) - 1
            BY <1>6, <4>1
          <5> HIDE DEF s, last, list
          <5> QED  BY <1>8, <4>3, <5>1
        <4> HIDE DEF s
        <4> QED  BY <2>1, <3>3, <4>2, <4>3, <4>4, <4>5
      <3> QED  BY <3>1, <3>2, <3>3
    <2> QED  BY <2>3, <2>4 DEF CopyListExact
  <1> QED  BY <1>12, <1>13

\* "*signalListWp = wp"
LEMMA PublishInv == ASSUME ListInv, Publish PROVE ListInv'
  <1> USE DEF ListInv
  <1>1. /\ call # Null
        /\ call.pc = "publish"
        /\ call' = Null
        /\ wp' = NextSlot(wp)
        /\ UNCHANGED <<sessions, copyListPos, subscriptionId, signalCopyList,
                       listIdNrt, subscribedSet, slot, rp, copyList, listIdRt,
                       applied, after>>
    BY DEF Publish, rtVars
  <1>2. /\ NextSlot(wp) # rp
        /\ Leads(wp, NextSlot(wp))
        /\ signalCopyList = after[NextSlot(wp)]
        /\ listIdNrt = slot[NextSlot(wp)].signalListId
    BY <1>1 DEF RingChained, Unpublished
  <1>3. ListTypeOK'
    BY <1>1, NextSlotInRing DEF ListTypeOK
  <1>4. CopyListExact'
    BY <1>1, CopyListUndisturbed
  <1>5. SubscribersMatch'
    BY <1>1 DEF SubscribersMatch
  <1>6. RingChained'
    <2>1. Live' = Live \cup {NextSlot(wp)}
      BY <1>1, <1>2, LivePublish DEF ListTypeOK
    <2>2. \A i \in Live' \ {wp'} : Leads(i, NextSlot(i))
      BY <1>1, <1>2, <2>1 DEF RingChained
    <2>3. \A i \in Live' \ {wp'} : Leads(i, NextSlot(i))'
      BY <1>1, <2>2 DEF Leads
    <2> QED  BY <1>1, <1>2, <2>3 DEF RingChained, Unpublished
  <1>7. RtInStep'
    BY <1>1, <1>2 DEF RtInStep
  <1> QED  BY <1>3, <1>4, <1>5, <1>6, <1>7

\* processSignalList() up to the barrier.
LEMMA ProcessInv == ASSUME ListInv, ProcessRequest PROVE ListInv'
  <1> USE DEF ListInv
  <1> DEFINE n == NextSlot(rp)
  <1>1. /\ ~applied /\ applied' = TRUE
        /\ rp # wp
        /\ copyList' = ApplyRequest(copyList, slot[n])
        /\ listIdRt' = slot[n].signalListId
        /\ UNCHANGED <<sessions, copyListPos, subscriptionId, signalCopyList,
                       listIdNrt, call, subscribedSet, slot, rp, wp, after>>
    BY DEF ProcessRequest, nrtVars, shmVars
  <1>2. /\ rp \in Live \ {wp}
        /\ n \in Slots
    BY <1>1, LiveSlots, NextSlotInRing DEF ListTypeOK
  <1>3. Leads(rp, n)
    BY <1>2 DEF RingChained
  <1>4. copyList' = after[n]
    BY <1>1, <1>3 DEF Leads, RtInStep
  <1>5. ListTypeOK'
    <2>1. after[n] \in [Width -> Seq(Signal)] /\ slot[n].signalListId \in Nat
      BY <1>2 DEF ListTypeOK, Request
    <2> QED  BY <1>1, <1>4, <2>1 DEF ListTypeOK
  <1>6. CopyListExact'
    BY <1>1, CopyListUndisturbed
  <1>7. SubscribersMatch'
    BY <1>1 DEF SubscribersMatch
  <1>8. RingChained'
    BY <1>1 DEF RingChained, Unpublished, Live, Leads
  <1>9. RtInStep'
    BY <1>1, <1>4 DEF RtInStep
  <1> QED  BY <1>5, <1>6, <1>7, <1>8, <1>9

\* "*signalListRp = sp"
LEMMA ReleaseInv == ASSUME ListInv, ReleaseSlot PROVE ListInv'
  <1> USE DEF ListInv
  <1>1. /\ applied /\ applied' = FALSE
        /\ rp' = NextSlot(rp)
        /\ UNCHANGED <<sessions, copyListPos, subscriptionId, signalCopyList,
                       listIdNrt, call, subscribedSet, slot, wp, copyList,
                       listIdRt, after>>
    BY DEF ReleaseSlot, nrtVars
  <1>2. rp # wp
    BY <1>1 DEF RtInStep
  <1>3. ListTypeOK'
    BY <1>1, NextSlotInRing DEF ListTypeOK
  <1>4. CopyListExact'
    BY <1>1, CopyListUndisturbed
  <1>5. SubscribersMatch'
    BY <1>1 DEF SubscribersMatch
  <1>6. RingChained'
    <2>1. Live' = Live \ {rp}
      BY <1>1, <1>2, LiveRelease DEF ListTypeOK
    <2>2. \A i \in Live' \ {wp'} : Leads(i, NextSlot(i))'
      BY <1>1, <2>1 DEF RingChained, Leads
    <2>3. NextSlot(wp) # NextSlot(rp)
      BY <1>2, NextSlotInRing DEF ListTypeOK
    <2> QED  BY <1>1, <2>2, <2>3 DEF RingChained, Unpublished, Leads
  <1>7. RtInStep'
    BY <1>1 DEF RtInStep
  <1> QED  BY <1>3, <1>4, <1>5, <1>6, <1>7

\* Every step keeps the invariant.
LEMMA ListStepInv == ListInv /\ [ListNext]_listVars => ListInv'
  <1> SUFFICES ASSUME ListInv, [ListNext]_listVars PROVE ListInv'
    OBVIOUS
  <1>1. ASSUME NEW st \in SessionTask, NEW s \in Signal, EnterSubscribe(st, s)
        PROVE  ListInv'
    <2>1. /\ s \notin subscribedSet[st]
          /\ subscribedSet' = [subscribedSet EXCEPT ![st] = @ \cup {s}]
          /\ subscribedSet \in [SessionTask -> SUBSET Signal]
      BY <1>1 DEF EnterSubscribe, ListInv, ListTypeOK
    <2>2. Enter(st, s, TRUE)
      BY <1>1 DEF EnterSubscribe
    <2>3. \A t \in SessionTask, x \in Signal :
              x \in subscribedSet'[t] <=>
                  IF t = st /\ x = s THEN TRUE ELSE x \in subscribedSet[t]
      BY <2>1
    <2> QED  BY <2>1, <2>2, <2>3, EnterInv
  <1>2. ASSUME NEW st \in SessionTask, NEW s \in Signal, EnterUnsubscribe(st, s)
        PROVE  ListInv'
    <2>1. /\ s \in subscribedSet[st]
          /\ subscribedSet' = [subscribedSet EXCEPT ![st] = @ \ {s}]
          /\ subscribedSet \in [SessionTask -> SUBSET Signal]
      BY <1>2 DEF EnterUnsubscribe, ListInv, ListTypeOK
    <2>2. Enter(st, s, FALSE)
      BY <1>2 DEF EnterUnsubscribe
    <2>3. \A t \in SessionTask, x \in Signal :
              x \in subscribedSet'[t] <=>
                  IF t = st /\ x = s THEN FALSE ELSE x \in subscribedSet[t]
      BY <2>1
    <2> QED  BY <2>1, <2>2, <2>3, EnterInv
  <1>3. CASE SubscribeCall
    BY <1>3, NoRequestInv, RequestInsertInv, RequestRemoveInv, PublishInv
       DEF SubscribeCall
  <1>4. CASE ProcessRequest
    BY <1>4, ProcessInv
  <1>5. CASE ReleaseSlot
    BY <1>5, ReleaseInv
  <1>6. CASE UNCHANGED listVars
    BY <1>6 DEF listVars, nrtVars, shmVars, rtVars, ListInv, ListTypeOK,
       CopyListExact, SubscribersMatch, RingChained, RtInStep, Unpublished,
       Live, Leads
  <1> QED  BY <1>1, <1>2, <1>3, <1>4, <1>5, <1>6 DEF ListNext

-----------------------------------------------------------------------------
(* Theorems *)

\* The requests in the ring always lead from the copy lists of the real time
\* process to those of the communications process (Task::subscribe and
\* Task::processSignalList), whatever the number of signals and sessions.
THEOREM ListInvariant == ListSpec => []ListInv
  <1>1. ListInit => ListInv
    BY ListInitInv
  <1>2. ListInv /\ [ListNext]_listVars => ListInv'
    BY ListStepInv
  <1> QED  BY <1>1, <1>2, PTL DEF ListSpec

\* Type correctness: both pointers stay in the ring and no list outgrows it.
THEOREM ListTypes == ListSpec => []ListTypeOK
  BY ListInvariant, PTL DEF ListInv

\* Task::copyListPos and the copy lists of the nrt process stay consistent
\* with the set of subscribers of every signal.
THEOREM CopyListIsExact == ListSpec => []CopyListExact
  BY ListInvariant, PTL DEF ListInv

\* When the ring is empty, both processes have the same layout.
THEOREM DrainedAgreement == ListSpec => []DrainedListsAgree
  <1>1. ListInv => DrainedListsAgree
    BY DEF ListInv, DrainedListsAgree, RingChained, RtInStep, Unpublished
  <1> QED  BY <1>1, ListInvariant, PTL

\* A Remove request finds its signal at the position it names.
THEOREM RemoveOnTarget == ListSpec => []RemoveTargetsSignal
  <1>1. ListInv => RemoveTargetsSignal
    <2> SUFFICES ASSUME ListInv, ~applied, rp # wp,
                        slot[NextSlot(rp)].action = "Remove"
                 PROVE  LET r    == slot[NextSlot(rp)]
                            list == copyList[WidthOf[r.signal]]
                        IN  /\ r.signalPosition + 1 \in DOMAIN list
                            /\ list[r.signalPosition + 1] = r.signal
      BY DEF RemoveTargetsSignal
    <2>1. rp \in Live \ {wp}
      BY LiveSlots DEF ListInv, ListTypeOK
    <2>2. Leads(rp, NextSlot(rp)) /\ copyList = after[rp]
      BY <2>1 DEF ListInv, RingChained, RtInStep
    <2> QED  BY <2>2 DEF Leads
  <1> QED  BY <1>1, ListInvariant, PTL

\* processSignalList() never skips, repeats or reorders a request.
THEOREM InOrder == ListSpec => RequestsInOrder
  <1>1. ListInv /\ [ListNext]_listVars => listIdRt' \in {listIdRt, listIdRt + 1}
    <2> SUFFICES ASSUME ListInv, [ListNext]_listVars
                 PROVE  listIdRt' \in {listIdRt, listIdRt + 1}
      OBVIOUS
    <2>1. CASE ProcessRequest
      <3>1. rp \in Live \ {wp} /\ ~applied
        BY <2>1, LiveSlots DEF ListInv, ListTypeOK, ProcessRequest
      <3>2. Leads(rp, NextSlot(rp)) /\ listIdRt = slot[rp].signalListId
        BY <3>1 DEF ListInv, RingChained, RtInStep
      <3> QED  BY <2>1, <3>2 DEF Leads, ProcessRequest
    <2>2. CASE ~ProcessRequest
      <3>1. listIdRt' = listIdRt
        BY <2>2 DEF ListNext, EnterSubscribe, EnterUnsubscribe, Enter,
           SubscribeCall, AlreadySubscribed, StillSubscribed, RequestInsert,
           RequestRemove, NumberRequest, Publish, ReleaseSlot, listVars, rtVars
      <3> QED  BY <3>1
    <2> QED  BY <2>1, <2>2
  <1>2. ListInv /\ [ListNext]_listVars =>
            [listIdRt' \in {listIdRt, listIdRt + 1}]_listVars
    BY <1>1
  <1> QED  BY <1>2, ListInvariant, PTL DEF ListSpec, RequestsInOrder
=============================================================================
