----------------------------- MODULE EventsProofs -----------------------------
(***************************************************************************)
(* Proofs about the way of an event, for every number of elements, threads *)
(* and sessions and every length of the two rings: what clients are sent   *)
(* is in order at any pace, nothing is lost unless a ring is overrun, and  *)
(* the answer to a request for the history is the last events.             *)
(***************************************************************************)
EXTENDS Events, FiniteSetTheorems, SequenceTheorems, TLAPS

(* Places in a ring of len slots *)

\* The slot after slot i: RingNext and HistoryNext.
Following(i, len) == IF i + 1 = len THEN 0 ELSE i + 1

\* The next place to write moves on; it may meet the reader.
LEMMA WriterMoves ==
  ASSUME NEW len \in Nat \ {0}, NEW from \in 0..len - 1, NEW to \in 0..len - 1,
         NEW to2, to2 = Following(to, len)
  PROVE  /\ to2 \in 0..len - 1
         /\ Lag(from, to, len) \in 0..len - 1
         /\ to2 = from => Lag(from, to2, len) = 0
         /\ to2 # from => Lag(from, to2, len) = Lag(from, to, len) + 1
         /\ \A i \in 0..len - 1 : Between(from, i, to2) <=>
               to2 # from /\ (Between(from, i, to) \/ i = to)
         /\ ~Between(from, to, to)
  BY DEF Following, Lag, Between

\* The reader moves on.
LEMMA ReaderMoves ==
  ASSUME NEW len \in Nat \ {0}, NEW from \in 0..len - 1, NEW to \in 0..len - 1,
         from # to, NEW from2, from2 = Following(from, len)
  PROVE  /\ from2 \in 0..len - 1
         /\ Lag(from, to, len) \in 1..len - 1
         /\ Lag(from2, to, len) = Lag(from, to, len) - 1
         /\ Between(from, from, to)
         /\ \A i \in 0..len - 1 : Between(from2, i, to) <=>
               Between(from, i, to) /\ i # from
         /\ Following(to, len) # from2
  BY DEF Following, Lag, Between

\* The numbers of the events in their slots stay when the next one is added.
LEMMA NumbersStay ==
  ASSUME NEW len \in Nat \ {0}, NEW ptr \in 0..len - 1, NEW n \in Int,
         NEW i \in 0..len - 1
  PROVE  /\ NumberAt(ptr, Following(ptr, len), n + 1, len) = n + 1
         /\ i # ptr => NumberAt(i, Following(ptr, len), n + 1, len)
                          = NumberAt(i, ptr, n, len)
  BY DEF Following, NumberAt

\* The numbers in the slots that the reader has still to pass.
LEMMA NumbersAhead ==
  ASSUME NEW len \in Nat \ {0}, NEW from \in 0..len - 1, NEW to \in 0..len - 1,
         NEW n \in Int, NEW i \in 0..len - 1
  PROVE  /\ NumberAt(i, to, n, len) \in Int
         /\ NumberAt(i, to, n, len) <= n
         /\ Between(from, i, to) =>
               NumberAt(i, to, n, len) >= n - Lag(from, to, len) + 1
         /\ from # to => NumberAt(from, to, n, len) = n - Lag(from, to, len) + 1
  BY DEF Lag, Between, NumberAt

\* The two rings have slots, and their pointers move to the following one.
LEMMA Rings ==
  /\ RingLen \in Nat \ {0} /\ History \in Nat \ {0} /\ MaxEvents \in Nat
  /\ \A i : RingNext(i) = Following(i, RingLen)
  /\ \A i : HistoryNext(i) = Following(i, History)
  <1>1. Cardinality(Elem) \in Nat /\ Cardinality(Elem) # 0
    BY EventAssumption, FS_CardinalityType, FS_EmptySet
  <1>2. PICK c \in Nat : c = Cardinality(Elem)
    BY <1>1
  <1>3. c # 0 /\ EventLen \in Nat \ {0}
    BY <1>1, <1>2, EventAssumption
  <1>4. EventLen * c \in Nat \ {0}
    BY <1>3
  <1>5. RingLen \in Nat \ {0}
    BY <1>2, <1>4 DEF RingLen
  <1> QED  BY <1>5, EventAssumption DEF RingNext, HistoryNext, Following

\* What the model keeps of an event.
LEMMA EventFields ==
  /\ NoEvent \notin EventData
  /\ \A d \in EventData : /\ d # NoEvent
                          /\ d.elem \in Elem /\ d.state \in BOOLEAN
                          /\ d.no \in 1..MaxEvents /\ d.no \in Nat
  <1>1. NoEvent \notin EventData
    BY EventAssumption DEF EventData
  <1> QED  BY <1>1, Rings DEF EventData

-----------------------------------------------------------------------------
(* The parts of the invariant that a step finds *)

\* The types of the pointers.
LEMMA Pointers ==
  ASSUME EventTypeOK
  PROVE  /\ eventWp \in 0..RingLen - 1 /\ rd \in 0..RingLen - 1
         /\ eventPtr \in 0..History - 1
         /\ \A s \in Session : eventId[s] \in 0..History - 1 /\ seen[s] \in 0..MaxEvents
         /\ count \in 0..MaxEvents /\ count \in Nat
         /\ Written \in Int /\ Passed \in Int
         /\ \A i \in 0..RingLen - 1 : ring[i] # NoEvent => ring[i] \in EventData
         /\ \A i \in 0..History - 1 : eventList[i] # NoEvent => eventList[i] \in EventData
         /\ recorded \subseteq 1..MaxEvents
  <1>1. /\ eventWp \in 0..RingLen - 1 /\ rd \in 0..RingLen - 1
        /\ eventPtr \in 0..History - 1
        /\ count \in 0..MaxEvents /\ count \in Nat
        /\ \A s \in Session : eventId[s] \in 0..History - 1 /\ seen[s] \in 0..MaxEvents
        /\ recorded \subseteq 1..MaxEvents
    BY Rings DEF EventTypeOK
  <1>2. Written \in Int
    BY <1>1 DEF Written
  <1>3. Lag(rd, eventWp, RingLen) \in Int
    BY <1>1, Rings DEF Lag
  <1>4. Passed \in Int
    BY <1>2, <1>3 DEF Passed
  <1>5. /\ \A i \in 0..RingLen - 1 : ring[i] # NoEvent => ring[i] \in EventData
        /\ \A i \in 0..History - 1 : eventList[i] # NoEvent => eventList[i] \in EventData
    BY DEF EventTypeOK
  <1> QED  BY <1>1, <1>2, <1>4, <1>5

\* The slots the main loop has still to read hold the events after the last one
\* it has passed, one after the other.
LEMMA UnreadSlots ==
  ASSUME EventTypeOK, RingNumbered, NEW i \in 0..RingLen - 1, Between(rd, i, eventWp)
  PROVE  /\ i # eventWp /\ ring[i] \in EventData
         /\ ring[i].no = NumberAt(i, eventWp, Written, RingLen)
         /\ ring[i].no >= Passed + 1
         /\ ring[i].no <= Written
         /\ ring[i].no \in Nat
         /\ i = rd => ring[i].no = Passed + 1
  <1>1. /\ eventWp \in 0..RingLen - 1 /\ rd \in 0..RingLen - 1
        /\ Written \in Int /\ Passed \in Int
        /\ RingLen \in Nat \ {0}
    BY Pointers, Rings
  <1>2. i # eventWp
    BY <1>1 DEF Between
  <1> DEFINE n == NumberAt(i, eventWp, Written, RingLen)
  <1>3. /\ n \in Int /\ n <= Written
        /\ n >= Written - Lag(rd, eventWp, RingLen) + 1
        /\ rd # eventWp =>
              NumberAt(rd, eventWp, Written, RingLen)
                 = Written - Lag(rd, eventWp, RingLen) + 1
    BY <1>1, NumbersAhead
  <1>4. /\ n >= Passed + 1 /\ Passed >= 0
        /\ i = rd => n = Passed + 1
    BY <1>2, <1>3 DEF Passed, RingNumbered
  <1>5. n > 0
    BY <1>1, <1>3, <1>4
  <1>6. ring[i] # NoEvent /\ ring[i].no = n
    BY <1>2, <1>5 DEF RingNumbered
  <1>7. ring[i] \in EventData
    BY <1>6, Pointers
  <1>8. n \in Nat
    BY <1>3, <1>5
  <1> QED  BY <1>2, <1>3, <1>4, <1>6, <1>7, <1>8

\* The next event the main loop reads is newer than all that it has read.
LEMMA NextToRead ==
  ASSUME EventTypeOK, RingNumbered, rd # eventWp
  PROVE  /\ ring[rd] \in EventData
         /\ ring[rd].no = Passed + 1
         /\ Passed \in Nat /\ Passed + 1 <= Written
         /\ \A n \in recorded : n \in Nat /\ n < ring[rd].no
         /\ ring[rd].no \notin recorded
  <1>1. /\ rd \in 0..RingLen - 1 /\ eventWp \in 0..RingLen - 1
        /\ RingLen \in Nat \ {0} /\ Passed \in Int
        /\ \A n \in recorded : n \in Nat
    BY Pointers, Rings
  <1>2. Between(rd, rd, eventWp)
    BY <1>1 DEF Between
  <1>3. /\ ring[rd] \in EventData /\ ring[rd].no = Passed + 1
        /\ ring[rd].no <= Written
    BY <1>1, <1>2, UnreadSlots
  <1>4. Passed \in Nat
    BY <1>1 DEF RingNumbered
  <1>5. \A n \in recorded : n <= Passed
    BY DEF RingNumbered
  <1>6. \A n \in recorded : n < Passed + 1
    BY <1>1, <1>4, <1>5
  <1>7. Passed + 1 \notin recorded
    BY <1>4, <1>6
  <1> QED  BY <1>1, <1>3, <1>4, <1>6, <1>7

\* The events read are finitely many.
LEMMA RecordedFinite ==
  ASSUME EventTypeOK
  PROVE  /\ IsFiniteSet(recorded) /\ Cardinality(recorded) \in Nat
         /\ Cardinality(recorded) = 0 <=> recorded = {}
         /\ \A n : n \notin recorded =>
               Cardinality(recorded \cup {n}) = Cardinality(recorded) + 1
  <1>1. IsFiniteSet(1..MaxEvents)
    BY Rings, FS_Interval
  <1>2. IsFiniteSet(recorded)
    BY <1>1, FS_Subset DEF EventTypeOK
  <1> QED  BY <1>2, FS_CardinalityType, FS_EmptySet, FS_AddElement

\* The slot before eventPtr holds the newest event, once there is one.
LEMMA NewestSlot ==
  ASSUME EventTypeOK, ListInOrder, recorded # {}
  PROVE  \E i \in 0..History - 1 :
            /\ HistoryNext(i) = eventPtr /\ Filled(i)
            /\ eventList[i].no = Newest
            /\ i = IF eventPtr = 0 THEN History - 1 ELSE eventPtr - 1
  <1>1. History \in Nat \ {0} /\ eventPtr \in 0..History - 1
    BY Rings, Pointers
  <1> DEFINE i == IF eventPtr = 0 THEN History - 1 ELSE eventPtr - 1
  <1>2. i \in 0..History - 1 /\ HistoryNext(i) = eventPtr
    BY <1>1 DEF HistoryNext
  <1>3. PICK N \in Nat : N = Cardinality(recorded)
    BY RecordedFinite
  <1>4. N # 0 /\ (N < History => eventPtr = N)
    BY <1>3, RecordedFinite DEF ListInOrder
  <1>5. i < N
    BY <1>1, <1>3, <1>4
  <1>6. Filled(i)
    BY <1>2, <1>3, <1>5 DEF ListInOrder
  <1>7. /\ eventList[i].no \in recorded
        /\ \A n \in recorded : n <= eventList[i].no
    BY <1>2, <1>6 DEF ListInOrder
  <1> DEFINE m == eventList[i].no
  <1>8. \A n \in recorded : n \in Nat
    BY Pointers
  <1>9. \A n \in recorded : (\A k \in recorded : k <= n) => n = m
    BY <1>7, <1>8
  <1>10. Newest = m
    BY <1>7, <1>9 DEF Newest
  <1> QED  BY <1>2, <1>6, <1>10

\* Newest is the newest event that was read, or 0.
LEMMA NewestIsMax ==
  ASSUME EventTypeOK, ListInOrder
  PROVE  /\ Newest \in recorded \cup {0} /\ Newest \in 0..MaxEvents
         /\ \A n \in recorded : n <= Newest
  <1>1. CASE recorded = {}
    BY <1>1, Rings DEF Newest
  <1>2. CASE recorded # {}
    <2>1. PICK i \in 0..History - 1 : HistoryNext(i) = eventPtr /\ Filled(i)
                                      /\ eventList[i].no = Newest
      BY <1>2, NewestSlot
    <2>2. Newest \in recorded /\ \A n \in recorded : n <= Newest
      BY <2>1 DEF ListInOrder
    <2> QED  BY <2>2, Pointers
  <1> QED  BY <1>1, <1>2

-----------------------------------------------------------------------------
(* Types *)

\* Before the first event.
LEMMA TypeInit == ASSUME EventInit PROVE EventTypeOK
  <1>1. RingLen \in Nat \ {0} /\ History \in Nat \ {0} /\ MaxEvents \in Nat
    BY Rings
  <1>2. times \in [Elem -> [set : 0..MaxEvents, reset : 0..MaxEvents]]
    BY <1>1 DEF EventInit
  <1>3. /\ ring \in [0..RingLen - 1 -> EventData \cup {NoEvent}]
        /\ eventList \in [0..History - 1 -> EventData \cup {NoEvent}]
    BY DEF EventInit
  <1>4. eventWp \in 0..RingLen - 1 /\ rd \in 0..RingLen - 1 /\ eventPtr \in 0..History - 1
    BY <1>1 DEF EventInit
  <1>5. eventId \in [Session -> 0..History - 1] /\ seen \in [Session -> 0..MaxEvents]
    BY <1>1 DEF EventInit
  <1> QED  BY <1>1, <1>2, <1>3, <1>4, <1>5 DEF EventInit, EventTypeOK

\* The real time threads.
LEMMA TypeRt ==
  ASSUME EventTypeOK, CallsInStep,
         \/ \E e \in Elem : SetState(e)
         \/ \E t \in Thread : FillSlot(t) \/ MovePtr(t)
         \/ Exit
  PROVE  EventTypeOK'
  <1> USE DEF mainVars, clientVars
  <1>1. ASSUME NEW e \in Elem, SetState(e) PROVE EventTypeOK'
    BY <1>1, EventAssumption DEF SetState, EventTypeOK
  <1>2. ASSUME NEW t \in Thread, FillSlot(t) PROVE EventTypeOK'
    <2>1. setting[t] \in Elem /\ rtState[setting[t]] \in BOOLEAN
      BY <1>2 DEF FillSlot, EventTypeOK
    <2>2. count + 1 \in 1..MaxEvents /\ count + 1 \in 0..MaxEvents
      BY <1>2, Rings DEF FillSlot, EventTypeOK
    <2>3. [elem |-> setting[t], state |-> rtState[setting[t]], no |-> count + 1]
             \in EventData
      BY <2>1, <2>2 DEF EventData
    <2>4. ring' \in [0..RingLen - 1 -> EventData \cup {NoEvent}]
      BY <1>2, <2>3 DEF FillSlot, EventTypeOK
    <2> QED  BY <1>2, <2>2, <2>4 DEF FillSlot, EventTypeOK
  <1>3. ASSUME NEW t \in Thread, MovePtr(t) PROVE EventTypeOK'
    <2>1. eventWp' \in 0..RingLen - 1
      BY <1>3, Rings DEF MovePtr, RingNext, EventTypeOK
    <2> QED  BY <1>3, <2>1 DEF MovePtr, EventTypeOK
  <1>4. CASE Exit
    BY <1>4 DEF Exit, EventTypeOK
  <1> QED  BY <1>1, <1>2, <1>3, <1>4

\* The main loop.
LEMMA TypeMain ==
  ASSUME EventTypeOK, RingNumbered, MainLoop
  PROVE  EventTypeOK'
  <1> USE DEF rtEventVars, clientVars
  <1>1. CASE NewEvent
    <2> DEFINE d == ring[rd]
    <2>1. rd # eventWp
      BY <1>1 DEF NewEvent, Unread
    <2>2. d \in EventData
      BY <2>1, NextToRead
    <2>3. d.elem \in Elem /\ d.no \in 0..MaxEvents /\ d.no \in 1..MaxEvents
      BY <2>2, EventFields, Rings
    <2>4. times' \in [Elem -> [set : 0..MaxEvents, reset : 0..MaxEvents]]
      <3>1. times' = Stamp(d)
        BY <1>1 DEF NewEvent
      <3>2. /\ times \in [Elem -> [set : 0..MaxEvents, reset : 0..MaxEvents]]
            /\ 0 \in 0..MaxEvents
        BY Rings DEF EventTypeOK
      <3> HIDE DEF d
      <3> QED  BY <2>3, <3>1, <3>2 DEF Stamp
    <2>5. eventList' \in [0..History - 1 -> EventData \cup {NoEvent}]
      BY <1>1, <2>2 DEF NewEvent, EventTypeOK
    <2>6. recorded' \subseteq 1..MaxEvents
      BY <1>1, <2>3 DEF NewEvent, EventTypeOK
    <2>7. eventPtr' \in 0..History - 1 /\ rd' \in 0..RingLen - 1
      BY <1>1, Rings DEF NewEvent, HistoryNext, RingNext, EventTypeOK
    <2> QED  BY <1>1, <2>4, <2>5, <2>6, <2>7 DEF NewEvent, EventTypeOK
  <1>2. CASE RingRead
    BY <1>2 DEF RingRead, EventTypeOK
  <1>3. CASE Select
    BY <1>3 DEF Select, EventTypeOK
  <1> QED  BY <1>1, <1>2, <1>3 DEF MainLoop

\* A session.
LEMMA TypeSession ==
  ASSUME EventTypeOK, ListInOrder, SessionsInOrder, NEW s \in Session,
         Connect(s) \/ SessionLoop(s) \/ Disconnect(s)
  PROVE  EventTypeOK'
  <1> USE DEF rtEventVars, mainVars
  <1>1. CASE Connect(s)
    BY <1>1, NewestIsMax DEF Connect, StartNext, EventTypeOK
  <1>2. CASE SendEvent(s)
    <2>1. /\ eventId[s] \in 0..History - 1 /\ eventPtr \in 0..History - 1
          /\ eventId[s] # eventPtr /\ History \in Nat \ {0}
      BY <1>2, Pointers, Rings DEF SendEvent
    <2>2. Between(eventId[s], eventId[s], eventPtr)
      BY <2>1 DEF Between
    <2>3. Connected(s)
      BY <1>2 DEF SendEvent, Connected
    <2>4. eventList[eventId[s]] \in EventData
      BY <2>1, <2>2, <2>3, Pointers DEF SessionsInOrder, Filled
    <2>5. eventList[eventId[s]].no \in 0..MaxEvents
      BY <2>4, EventFields, Rings
    <2>6. HistoryNext(eventId[s]) \in 0..History - 1
      BY <2>1 DEF HistoryNext
    <2> QED  BY <1>2, <2>5, <2>6 DEF SendEvent, EventTypeOK
  <1>3. CASE NoMoreEvents(s)
    BY <1>3 DEF NoMoreEvents, EventTypeOK
  <1>4. CASE Disconnect(s)
    BY <1>4 DEF Disconnect, EventTypeOK
  <1> QED  BY <1>1, <1>2, <1>3, <1>4 DEF SessionLoop
-----------------------------------------------------------------------------
(* The ring in shared memory *)

\* Threads set only their own elements and hold the mutex one at a time.
LEMMA CallsRt ==
  ASSUME EventTypeOK, CallsInStep,
         \/ \E e \in Elem : SetState(e)
         \/ \E t \in Thread : FillSlot(t) \/ MovePtr(t)
         \/ Exit
  PROVE  CallsInStep'
  <1>0. /\ holder \in Thread \cup {NoEvent} /\ NoEvent \notin Thread
        /\ NoEvent \notin Elem
        /\ setting \in [Thread -> Elem \cup {NoEvent}]
        /\ Owner \in [Elem -> Thread]
    BY EventAssumption DEF EventTypeOK
  <1>1. ASSUME NEW e \in Elem, SetState(e) PROVE CallsInStep'
    <2>1. holder # Owner[e]
      BY <1>0, <1>1 DEF SetState, CallsInStep
    <2> QED  BY <1>0, <1>1, <2>1 DEF SetState, CallsInStep
  <1>2. ASSUME NEW t \in Thread, FillSlot(t) PROVE CallsInStep'
    <2> DEFINE d == [elem |-> setting[t], state |-> rtState[setting[t]],
                     no |-> count + 1]
    <2>1. setting[t] \in Elem /\ rtState[setting[t]] \in BOOLEAN
      BY <1>2 DEF FillSlot, EventTypeOK
    <2>2. count \in Nat /\ count + 1 \in 1..MaxEvents
      BY <1>2, Rings DEF FillSlot, EventTypeOK
    <2>3. d \in EventData
      BY <2>1, <2>2 DEF EventData
    <2>4. ring'[eventWp] = d
      BY <1>2 DEF FillSlot, EventTypeOK
    <2>5. d # NoEvent
      BY <2>3, EventFields
    <2> QED  BY <1>0, <1>2, <2>2, <2>4, <2>5 DEF FillSlot, CallsInStep
  <1>3. ASSUME NEW t \in Thread, MovePtr(t) PROVE CallsInStep'
    BY <1>0, <1>3 DEF MovePtr, CallsInStep
  <1>4. CASE Exit
    BY <1>4 DEF Exit, CallsInStep
  <1> QED  BY <1>1, <1>2, <1>3, <1>4

\* What moving the write pointer does to the numbers of the events.
LEMMA MovePtrCounts ==
  ASSUME EventTypeOK, CallsInStep, NEW t \in Thread, MovePtr(t)
  PROVE  /\ holder # NoEvent /\ holder' = NoEvent
         /\ Written' = Written + 1 /\ Written' = count /\ Written \in Nat
         /\ eventWp' = Following(eventWp, RingLen) /\ eventWp' \in 0..RingLen - 1
         /\ UNCHANGED <<ring, rd, recorded, count>>
         /\ Passed <= Written
         /\ eventWp' = rd => Passed' = Written + 1
         /\ eventWp' # rd => Passed' = Passed
  <1>1. /\ holder # NoEvent /\ holder' = NoEvent /\ holder \in Thread
        /\ UNCHANGED <<ring, rd, recorded, count>>
        /\ eventWp' = Following(eventWp, RingLen)
    BY EventAssumption, Rings DEF MovePtr, mainVars
  <1>2. count \in Nat /\ count > 0
    BY <1>1, Pointers DEF CallsInStep
  <1>3. Written = count - 1 /\ Written' = count
    BY <1>1, <1>2 DEF Written
  <1>4. /\ eventWp' \in 0..RingLen - 1 /\ Lag(rd, eventWp, RingLen) \in Nat
        /\ eventWp' = rd => Lag(rd, eventWp', RingLen) = 0
        /\ eventWp' # rd =>
              Lag(rd, eventWp', RingLen) = Lag(rd, eventWp, RingLen) + 1
    <2>1. /\ RingLen \in Nat \ {0} /\ rd \in 0..RingLen - 1
          /\ eventWp \in 0..RingLen - 1
      BY Pointers, Rings
    <2> QED  BY <1>1, <2>1 DEF Lag, Following
  <1>5. /\ Passed = Written - Lag(rd, eventWp, RingLen)
        /\ Passed' = Written' - Lag(rd, eventWp', RingLen)
    BY <1>1 DEF Passed, RingLen
  <1> QED  BY <1>1, <1>2, <1>3, <1>4, <1>5

\* What reading an event does to them.
LEMMA NewEventCounts ==
  ASSUME EventTypeOK, RingNumbered, NewEvent
  PROVE  /\ rd # eventWp
         /\ Passed' = Passed + 1 /\ Passed \in Nat
         /\ Written' = Written
         /\ rd' = Following(rd, RingLen) /\ rd' \in 0..RingLen - 1
         /\ UNCHANGED <<ring, eventWp, count, holder, setting, rtState>>
         /\ recorded' = recorded \cup {Passed + 1}
         /\ Passed + 1 \notin recorded
  <1>1. /\ rd # eventWp /\ rd' = Following(rd, RingLen)
        /\ UNCHANGED <<ring, eventWp, count, holder, setting, rtState>>
        /\ recorded' = recorded \cup {ring[rd].no}
    BY Rings DEF NewEvent, Unread, rtEventVars
  <1>2. /\ ring[rd].no = Passed + 1 /\ Passed \in Nat
        /\ ring[rd].no \notin recorded
    BY <1>1, NextToRead
  <1>3. /\ rd' \in 0..RingLen - 1 /\ Lag(rd, eventWp, RingLen) \in Nat
        /\ Lag(rd', eventWp, RingLen) = Lag(rd, eventWp, RingLen) - 1
    BY <1>1, ReaderMoves, Pointers, Rings
  <1>4. Written' = Written /\ Written \in Int
    BY <1>1, Pointers DEF Written
  <1>5. /\ Passed = Written - Lag(rd, eventWp, RingLen)
        /\ Passed' = Written' - Lag(rd', eventWp, RingLen)
    BY <1>1 DEF Passed, RingLen
  <1>6. Passed' = Passed + 1
    BY <1>3, <1>4, <1>5
  <1> QED  BY <1>1, <1>2, <1>3, <1>4, <1>6

\* The events stay in their places, and the reader behind the writer.
LEMMA RingFill ==
  ASSUME EventTypeOK, RingNumbered, NEW t \in Thread, FillSlot(t)
  PROVE  /\ RingNumbered' /\ Written' = Written /\ Passed' = Passed
         /\ holder = NoEvent /\ holder' = t /\ t # NoEvent
         /\ UNCHANGED <<eventWp, rd, recorded, rtState, setting>>
         /\ \A i \in 0..RingLen - 1 : i # eventWp => ring'[i] = ring[i]
  <1>1. /\ holder = NoEvent /\ holder' = t /\ t # NoEvent
        /\ count' = count + 1 /\ count \in Nat
        /\ UNCHANGED <<eventWp, rd, recorded, rtState, setting>>
        /\ \A i \in 0..RingLen - 1 : i # eventWp => ring'[i] = ring[i]
    BY EventAssumption, Pointers DEF FillSlot, mainVars, EventTypeOK
  <1>2. Written' = Written
    BY <1>1 DEF Written
  <1>3. Passed' = Passed
    BY <1>1, <1>2 DEF Passed, RingLen
  <1>4. RingNumbered'
    BY <1>1, <1>2, <1>3 DEF RingNumbered, RingLen
  <1> QED  BY <1>1, <1>2, <1>3, <1>4

\* The same when the pointer moves on, and perhaps over the reader.
LEMMA RingMove ==
  ASSUME EventTypeOK, CallsInStep, RingNumbered, NEW t \in Thread, MovePtr(t)
  PROVE  RingNumbered'
  <1> DEFINE L == RingLen
             wp == eventWp
             W == Written
  <1>1. /\ holder # NoEvent /\ holder' = NoEvent
        /\ W' = W + 1 /\ W' = count /\ W \in Nat
        /\ wp' = Following(wp, L) /\ wp' \in 0..L - 1
        /\ UNCHANGED <<ring, rd, recorded, count>>
        /\ Passed <= W
        /\ wp' = rd => Passed' = W + 1
        /\ wp' # rd => Passed' = Passed
    BY MovePtrCounts
  <1>2. wp \in 0..L - 1 /\ L \in Nat \ {0} /\ Passed \in Int /\ wp <= W /\ Passed >= 0
    BY Pointers, Rings DEF RingNumbered
  <1>3. wp' <= W'
    BY <1>1, <1>2 DEF Following
  <1>4. ASSUME NEW i \in 0..L - 1, NumberAt(i, wp', W', L) > 0
        PROVE  ring[i] # NoEvent /\ ring[i].no = NumberAt(i, wp', W', L)
    <2>1. CASE i = wp
      <3>0. NumberAt(wp, Following(wp, L), W + 1, L) = W + 1
        <4>1. W \in Int
          BY <1>1
        <4> QED  BY <1>2, <4>1, NumbersStay
      <3>1. NumberAt(i, wp', W', L) = W + 1
        BY <1>1, <2>1, <3>0, Zenon
      <3>2. ring[wp] # NoEvent /\ ring[wp].no = count
        BY <1>1 DEF CallsInStep
      <3> QED  BY <1>1, <2>1, <3>1, <3>2
    <2>2. CASE i # wp
      <3>0. NumberAt(i, Following(wp, L), W + 1, L) = NumberAt(i, wp, W, L)
        <4>1. W \in Int
          BY <1>1
        <4> QED  BY <1>2, <2>2, <4>1, NumbersStay
      <3>1. NumberAt(i, wp', W', L) = NumberAt(i, wp, W, L)
        BY <1>1, <3>0, Zenon
      <3> QED  BY <1>4, <2>2, <3>1 DEF RingNumbered
    <2> QED  BY <2>1, <2>2
  <1>5. Passed' >= Passed /\ Passed' >= 0
    BY <1>1, <1>2
  <1>6. \A n \in recorded' : n <= Passed'
    <2>1. \A n \in recorded : n <= Passed /\ n \in Nat
      BY Pointers DEF RingNumbered
    <2>2. Passed' \in Int
      BY <1>1, <1>2
    <2> QED  BY <1>1, <1>2, <1>5, <2>1, <2>2
  <1>7. RingLen' = L
    BY DEF RingLen
  <1> QED  BY <1>1, <1>3, <1>4, <1>5, <1>6, <1>7 DEF RingNumbered

\* The same when an event is read.
LEMMA RingNewEvent ==
  ASSUME EventTypeOK, CallsInStep, RingNumbered, NewEvent
  PROVE  RingNumbered' /\ CallsInStep'
  <1>1. /\ Passed' = Passed + 1 /\ Passed \in Nat
        /\ Written' = Written
        /\ UNCHANGED <<ring, eventWp, count, holder, setting, rtState>>
        /\ recorded' = recorded \cup {Passed + 1}
    BY NewEventCounts
  <1>2. \A n \in recorded : n <= Passed /\ n \in Nat
    BY Pointers DEF RingNumbered
  <1>3. \A n \in recorded' : n <= Passed'
    BY <1>1, <1>2
  <1>4. Passed' >= 0
    BY <1>1
  <1>5. RingNumbered'
    BY <1>1, <1>3, <1>4 DEF RingNumbered, RingLen
  <1> QED  BY <1>1, <1>5 DEF CallsInStep

\* Steps that leave the ring alone.
LEMMA RingKept ==
  ASSUME UNCHANGED <<holder, count, ring, eventWp, rd, recorded>>
  PROVE  /\ Written' = Written /\ Passed' = Passed
         /\ RingNumbered => RingNumbered'
         /\ UNCHANGED setting /\ CallsInStep => CallsInStep'
  <1>1. Written' = Written /\ Passed' = Passed
    BY DEF Written, Passed, RingLen
  <1> QED  BY <1>1 DEF RingNumbered, RingLen, CallsInStep
-----------------------------------------------------------------------------
(* The list of the last events, and the sessions *)

\* What newEvent() does to the list.
LEMMA NewEventList ==
  ASSUME EventTypeOK, RingNumbered, NewEvent
  PROVE  /\ eventPtr' = Following(eventPtr, History) /\ eventPtr' \in 0..History - 1
         /\ eventList'[eventPtr] # NoEvent /\ eventList'[eventPtr].no = Passed + 1
         /\ \A i \in 0..History - 1 : i # eventPtr => eventList'[i] = eventList[i]
         /\ Cardinality(recorded') = Cardinality(recorded) + 1
         /\ \A n \in recorded \cup {0} : n < Passed + 1
         /\ UNCHANGED <<clientPc, eventId, seen>>
  <1>1. /\ rd # eventWp /\ Passed \in Nat
        /\ recorded' = recorded \cup {Passed + 1} /\ Passed + 1 \notin recorded
    BY NewEventCounts
  <1>2. ring[rd] \in EventData /\ ring[rd].no = Passed + 1
    BY <1>1, NextToRead
  <1>3. /\ eventList' = [eventList EXCEPT ![eventPtr] = ring[rd]]
        /\ eventPtr' = Following(eventPtr, History)
        /\ UNCHANGED <<clientPc, eventId, seen>>
    BY Rings DEF NewEvent, clientVars
  <1>4. eventPtr' \in 0..History - 1
    BY <1>3, Pointers, Rings DEF Following
  <1>5. /\ eventList'[eventPtr] = ring[rd]
        /\ \A i \in 0..History - 1 : i # eventPtr => eventList'[i] = eventList[i]
    BY <1>3, Pointers DEF EventTypeOK
  <1>6. eventList'[eventPtr] # NoEvent
    BY <1>2, <1>5, EventFields
  <1>7. Cardinality(recorded') = Cardinality(recorded) + 1
    BY <1>1, RecordedFinite
  <1>8. \A n \in recorded \cup {0} : n < Passed + 1
    <2>1. \A n \in recorded : n <= Passed /\ n \in Nat
      BY Pointers DEF RingNumbered
    <2> QED  BY <1>1, <2>1
  <1> QED  BY <1>2, <1>3, <1>4, <1>5, <1>6, <1>7, <1>8
\* The list stays in order.
LEMMA ListNewEvent ==
  ASSUME EventTypeOK, RingNumbered, ListInOrder, NewEvent
  PROVE  ListInOrder'
  <1> DEFINE H == History
             p == eventPtr
             q == eventPtr'
             m == Passed + 1
  <1>1. /\ q = Following(p, H) /\ q \in 0..H - 1
        /\ eventList'[p] # NoEvent /\ eventList'[p].no = m
        /\ \A i \in 0..H - 1 : i # p => eventList'[i] = eventList[i]
        /\ Cardinality(recorded') = Cardinality(recorded) + 1
        /\ \A n \in recorded \cup {0} : n < m
    BY NewEventList
  <1>2. recorded' = recorded \cup {m} /\ Passed \in Nat
    BY NewEventCounts
  <1>3. PICK N \in Nat : N = Cardinality(recorded)
    BY RecordedFinite
  <1>4. p \in 0..H - 1 /\ H \in Nat \ {0}
    BY Pointers, Rings
  <1>5. (N < H => p = N) /\ \A i \in 0..H - 1 : Filled(i) <=> i < N
    BY <1>3 DEF ListInOrder
  <1>6. Cardinality(recorded') = N + 1
    BY <1>1, <1>3
  <1> HIDE DEF p, q, H, m
  <1>7. \A i \in 0..H - 1 : eventList'[i] # NoEvent <=> i < N + 1
    <2> TAKE i \in 0..H - 1
    <2>1. CASE i = p
      BY <1>1, <1>4, <1>5, <2>1
    <2>2. CASE i # p
      BY <1>1, <1>4, <1>5, <2>2 DEF Filled
    <2> QED  BY <2>1, <2>2
  <1>8. N + 1 < H => q = N + 1
    BY <1>1, <1>4, <1>5 DEF Following
  <1>9. \A i \in 0..H - 1 : eventList'[i] # NoEvent => eventList'[i].no \in recorded'
    <2> SUFFICES ASSUME NEW i \in 0..H - 1, eventList'[i] # NoEvent
                 PROVE  eventList'[i].no \in recorded'
      OBVIOUS
    <2>1. CASE i = p
      BY <1>1, <1>2, <2>1
    <2>2. CASE i # p
      BY <1>1, <1>2, <2>2 DEF ListInOrder, Filled, H
    <2> QED  BY <2>1, <2>2
  <1>10. ASSUME NEW i \in 0..H - 1, NEW j \in 0..H - 1,
                eventList'[i] # NoEvent, eventList'[j] # NoEvent,
                IF i < q THEN i < j /\ j < q ELSE i < j \/ j < q
         PROVE  eventList'[i].no < eventList'[j].no
    <2>1. i # p
      BY <1>1, <1>4, <1>10 DEF Following
    <2>2. eventList'[i] = eventList[i] /\ Filled(i) /\ eventList[i].no \in recorded
      BY <1>1, <1>10, <2>1 DEF Filled, ListInOrder, H
    <2>3. CASE j = p
      BY <1>1, <2>2, <2>3
    <2>4. CASE j # p
      <3>1. eventList'[j] = eventList[j] /\ Filled(j)
        BY <1>1, <1>10, <2>4 DEF Filled
      <3>2. IF i < p THEN i < j /\ j < p ELSE i < j \/ j < p
        BY <1>1, <1>4, <1>10, <2>1, <2>4 DEF Following
      <3>3. Older(i, j)
        BY <3>2 DEF Older, p
      <3> QED  BY <2>2, <3>1, <3>3 DEF ListInOrder, H
    <2> QED  BY <2>3, <2>4
  <1>11. ASSUME NEW i \in 0..H - 1, Following(i, H) = q, NEW n \in recorded'
         PROVE  n <= eventList'[i].no
    <2>1. i = p
      BY <1>1, <1>4, <1>11 DEF Following
    <2>2. n \in recorded \/ n = m
      BY <1>2
    <2>3. m \in Nat /\ \A k \in recorded : k \in Nat
      BY <1>2, Pointers DEF m
    <2> QED  BY <1>1, <2>1, <2>2, <2>3
  <1>12. \A i \in 0..H - 1 : HistoryNext(i)' = Following(i, H)
    BY DEF HistoryNext, Following, H
  <1> QED  BY <1>6, <1>7, <1>8, <1>9, <1>10, <1>11, <1>12
           DEF ListInOrder, Filled, Older, H, q

\* Steps that leave the list alone.
LEMMA ListKept ==
  ASSUME UNCHANGED <<eventList, eventPtr, recorded>>, ListInOrder
  PROVE  ListInOrder'
  BY DEF ListInOrder, Filled, Older, HistoryNext

\* A new event is newer than what any client was sent.
LEMMA SessionsNewEvent ==
  ASSUME EventTypeOK, RingNumbered, SessionsInOrder, NewEvent
  PROVE  SessionsInOrder'
  <1>1. /\ eventPtr' = Following(eventPtr, History)
        /\ eventList'[eventPtr] # NoEvent /\ eventList'[eventPtr].no = Passed + 1
        /\ \A i \in 0..History - 1 : i # eventPtr => eventList'[i] = eventList[i]
        /\ \A n \in recorded \cup {0} : n < Passed + 1
        /\ UNCHANGED <<clientPc, eventId, seen>>
    BY NewEventList
  <1>2. recorded' = recorded \cup {Passed + 1}
    BY NewEventCounts
  <1>3. History \in Nat \ {0} /\ eventPtr \in 0..History - 1
    BY Rings, Pointers
  <1> SUFFICES ASSUME NEW s \in Session, Connected(s)
               PROVE  /\ seen[s] \in recorded' \cup {0}
                      /\ \A i \in 0..History - 1 : Between(eventId[s], i, eventPtr') =>
                            eventList'[i] # NoEvent /\ eventList'[i].no > seen[s]
    BY <1>1 DEF SessionsInOrder, Connected, Filled
  <1>4. /\ seen[s] \in recorded \cup {0}
        /\ \A i \in 0..History - 1 : Between(eventId[s], i, eventPtr) =>
              eventList[i] # NoEvent /\ eventList[i].no > seen[s]
    BY DEF SessionsInOrder, Filled
  <1>5. eventId[s] \in 0..History - 1
    BY Pointers
  <1>6. ASSUME NEW i \in 0..History - 1, Between(eventId[s], i, eventPtr')
        PROVE  eventList'[i] # NoEvent /\ eventList'[i].no > seen[s]
    <2>1. CASE i = eventPtr
      BY <1>1, <1>4, <2>1
    <2>2. CASE i # eventPtr
      <3>1. Between(eventId[s], i, eventPtr)
        BY <1>1, <1>3, <1>5, <1>6, <2>2 DEF Between, Following
      <3> QED  BY <1>1, <1>4, <2>2, <3>1
    <2> QED  BY <2>1, <2>2
  <1> QED  BY <1>2, <1>4, <1>6

\* The event that a session sends is ahead of it.
LEMMA NextToSend ==
  ASSUME EventTypeOK, SessionsInOrder, NEW s \in Session, SendEvent(s)
  PROVE  /\ eventId[s] \in 0..History - 1 /\ eventId[s] # eventPtr
         /\ Connected(s) /\ Connected(s)'
         /\ Between(eventId[s], eventId[s], eventPtr)
         /\ Filled(eventId[s])
         /\ eventList[eventId[s]].no > seen[s]
         /\ seen'[s] = eventList[eventId[s]].no
         /\ eventId'[s] = Following(eventId[s], History)
         /\ UNCHANGED <<rtEventVars, mainVars>>
         /\ \A t \in Session \ {s} :
               /\ eventId'[t] = eventId[t] /\ seen'[t] = seen[t]
               /\ Connected(t)' = Connected(t)
  <1>1. /\ eventId[s] \in 0..History - 1 /\ eventId[s] # eventPtr
        /\ eventPtr \in 0..History - 1 /\ History \in Nat \ {0}
    BY Pointers, Rings DEF SendEvent
  <1>2. Between(eventId[s], eventId[s], eventPtr)
    BY <1>1 DEF Between
  <1>3. Connected(s) /\ Connected(s)'
    BY DEF SendEvent, Connected, EventTypeOK
  <1>4. Filled(eventId[s]) /\ eventList[eventId[s]].no > seen[s]
    BY <1>1, <1>2, <1>3 DEF SessionsInOrder
  <1>5. /\ seen'[s] = eventList[eventId[s]].no
        /\ eventId'[s] = Following(eventId[s], History)
        /\ UNCHANGED <<rtEventVars, mainVars>>
    BY Rings DEF SendEvent, EventTypeOK
  <1>6. ASSUME NEW t \in Session \ {s}
        PROVE  /\ eventId'[t] = eventId[t] /\ seen'[t] = seen[t]
               /\ Connected(t)' = Connected(t)
    BY DEF SendEvent, Connected, EventTypeOK
  <1> QED  BY <1>1, <1>2, <1>3, <1>4, <1>5, <1>6

\* What is left ahead of it is newer still.
LEMMA SessionsSend ==
  ASSUME EventTypeOK, ListInOrder, SessionsInOrder, NEW s \in Session, SendEvent(s)
  PROVE  SessionsInOrder'
  <1> DEFINE k == eventId[s]
  <1>1. /\ k \in 0..History - 1 /\ k # eventPtr /\ Connected(s)
        /\ Filled(k) /\ seen'[s] = eventList[k].no
        /\ eventId'[s] = Following(k, History)
        /\ \A t \in Session \ {s} :
               /\ eventId'[t] = eventId[t] /\ seen'[t] = seen[t]
               /\ Connected(t)' = Connected(t)
    BY NextToSend
  <1>2. UNCHANGED <<recorded, eventPtr, eventList>>
    BY NextToSend DEF mainVars
  <1>3. History \in Nat \ {0} /\ eventPtr \in 0..History - 1
    BY Rings, Pointers
  <1>4. seen'[s] \in recorded
    BY <1>1 DEF ListInOrder
  <1>5. ASSUME NEW i \in 0..History - 1, Between(eventId'[s], i, eventPtr)
        PROVE  Filled(i) /\ eventList[i].no > seen'[s]
    <2>1. Between(k, i, eventPtr) /\ Older(k, i)
      BY <1>1, <1>3, <1>5 DEF Between, Following, Older
    <2>2. Filled(i)
      BY <1>1, <2>1 DEF SessionsInOrder
    <2>3. eventList[k].no < eventList[i].no
      BY <1>1, <2>1, <2>2 DEF ListInOrder
    <2>4. eventList[k].no \in Nat /\ eventList[i].no \in Nat
      BY <1>1, <2>2, Pointers, EventFields DEF Filled
    <2> QED  BY <1>1, <2>2, <2>3, <2>4
  <1>6. ASSUME NEW t \in Session, Connected(t)'
        PROVE  /\ seen'[t] \in recorded \cup {0}
               /\ \A i \in 0..History - 1 : Between(eventId'[t], i, eventPtr) =>
                     Filled(i) /\ eventList[i].no > seen'[t]
    <2>1. CASE t = s
      BY <1>4, <1>5, <2>1
    <2>2. CASE t # s
      BY <1>1, <1>6, <2>2 DEF SessionsInOrder
    <2> QED  BY <2>1, <2>2
  <1> QED  BY <1>2, <1>6 DEF SessionsInOrder, Filled

\* A session that connects has nothing ahead of it.
LEMMA SessionsOther ==
  ASSUME EventTypeOK, ListInOrder, SessionsInOrder, NEW s \in Session,
         Connect(s) \/ NoMoreEvents(s) \/ Disconnect(s)
  PROVE  SessionsInOrder'
  <1>1. UNCHANGED <<recorded, eventPtr, eventList>>
    BY DEF Connect, NoMoreEvents, Disconnect, mainVars
  <1>2. CASE Connect(s)
    <2>1. eventId'[s] = eventPtr /\ seen'[s] = Newest
      BY <1>2 DEF Connect, StartNext, EventTypeOK
    <2>2. \A t \in Session \ {s} : /\ eventId'[t] = eventId[t] /\ seen'[t] = seen[t]
                                   /\ Connected(t)' = Connected(t)
      BY <1>2 DEF Connect, Connected, EventTypeOK
    <2>3. \A i \in 0..History - 1 : ~Between(eventPtr, i, eventPtr)
      BY Pointers, Rings DEF Between
    <2>4. ASSUME NEW t \in Session, Connected(t)'
          PROVE  /\ seen'[t] \in recorded \cup {0}
                 /\ \A i \in 0..History - 1 : Between(eventId'[t], i, eventPtr) =>
                       Filled(i) /\ eventList[i].no > seen'[t]
      <3>1. CASE t = s
        BY <2>1, <2>3, <3>1, NewestIsMax
      <3>2. CASE t # s
        BY <2>2, <2>4, <3>2 DEF SessionsInOrder
      <3> QED  BY <3>1, <3>2
    <2> QED  BY <1>1, <2>4 DEF SessionsInOrder, Filled
  <1>3. CASE NoMoreEvents(s) \/ Disconnect(s)
    <2>1. UNCHANGED <<eventId, seen>>
      BY <1>3 DEF NoMoreEvents, Disconnect
    <2>2. \A t \in Session : Connected(t)' => Connected(t)
      BY <1>3 DEF NoMoreEvents, Disconnect, Connected, EventTypeOK
    <2> QED  BY <1>1, <2>1, <2>2 DEF SessionsInOrder, Filled
  <1> QED  BY <1>2, <1>3

\* Steps that leave the list and the sessions alone.
LEMMA SessionsKept ==
  ASSUME UNCHANGED <<eventList, eventPtr, recorded, clientPc, eventId, seen>>,
         SessionsInOrder
  PROVE  SessionsInOrder'
  BY DEF SessionsInOrder, Filled, Connected
-----------------------------------------------------------------------------
(* Nothing is lost unless a ring is overrun *)

\* The application waits for the main loop, and every event is read.
LEMMA AllReadRt ==
  ASSUME EventTypeOK, CallsInStep, RingNumbered, AllRead, ~MayOverrun,
         NEW t \in Thread, FillSlot(t) \/ MovePtr(t)
  PROVE  AllRead' /\ Passed' = Passed
  <1>1. UNCHANGED <<recorded, rd, eventList, eventPtr>>
    BY DEF FillSlot, MovePtr, mainVars
  <1>2. /\ Passed' = Passed
        /\ holder' # NoEvent => RingNext(eventWp') # rd
    <2>1. CASE FillSlot(t)
      BY <2>1, RingFill DEF FillSlot
    <2>2. CASE MovePtr(t)
      <3>1. eventWp' # rd
        BY <2>2, MovePtrCounts, Rings DEF AllRead
      <3> QED  BY <2>2, <3>1, MovePtrCounts
    <2> QED  BY <2>1, <2>2
  <1> QED  BY <1>1, <1>2 DEF AllRead, RingNext, RingLen, Filled

\* The main loop reads them one by one.
LEMMA AllReadNewEvent ==
  ASSUME EventTypeOK, RingNumbered, AllRead, NewEvent
  PROVE  AllRead'
  <1>1. /\ Passed' = Passed + 1 /\ Passed \in Nat /\ rd # eventWp
        /\ rd' = Following(rd, RingLen)
        /\ UNCHANGED <<eventWp, holder>>
        /\ recorded' = recorded \cup {Passed + 1}
    BY NewEventCounts
  <1>2. /\ eventPtr' = Following(eventPtr, History)
        /\ eventList'[eventPtr].no = Passed + 1
        /\ \A i \in 0..History - 1 : i # eventPtr => eventList'[i] = eventList[i]
    BY NewEventList
  <1>3. /\ eventPtr \in 0..History - 1 /\ History \in Nat \ {0}
        /\ rd \in 0..RingLen - 1 /\ eventWp \in 0..RingLen - 1
        /\ RingLen \in Nat \ {0}
    BY Pointers, Rings
  <1>4. recorded' = 1..Passed'
    <2>1. recorded = 1..Passed
      BY DEF AllRead
    <2>2. (1..Passed) \cup {Passed + 1} = 1..Passed + 1
      BY <1>1
    <2> QED  BY <1>1, <2>1, <2>2
  <1>5. RingNext(eventWp)' # rd'
    <2>1. Following(eventWp, RingLen) # Following(rd, RingLen)
      BY <1>1, <1>3 DEF Following
    <2> QED  BY <1>1, <2>1 DEF RingNext, RingLen, Following
  <1>6. ASSUME NEW i \in 0..History - 1, eventList'[i] # NoEvent
        PROVE  eventList'[i].no = NumberAt(i, eventPtr', Passed', History)
    <2>1. Passed \in Int
      BY <1>1
    <2>2. CASE i = eventPtr
      <3>1. NumberAt(eventPtr, Following(eventPtr, History), Passed + 1, History)
               = Passed + 1
        BY <1>3, <2>1, NumbersStay
      <3> QED  BY <1>1, <1>2, <2>2, <3>1, Zenon
    <2>3. CASE i # eventPtr
      <3>1. NumberAt(i, Following(eventPtr, History), Passed + 1, History)
               = NumberAt(i, eventPtr, Passed, History)
        BY <1>3, <2>1, <2>3, NumbersStay
      <3>2. eventList[i].no = NumberAt(i, eventPtr, Passed, History)
        BY <1>2, <1>6, <2>3 DEF AllRead, Filled
      <3>3. eventList'[i].no = eventList[i].no
        BY <1>2, <2>3
      <3> QED  BY <1>1, <1>2, <3>1, <3>2, <3>3, Zenon
    <2> QED  BY <2>2, <2>3
  <1> QED  BY <1>4, <1>5, <1>6 DEF AllRead, Filled

\* Steps that leave both rings alone.
LEMMA AllReadKept ==
  ASSUME UNCHANGED <<holder, count, ring, eventWp, rd, recorded, eventList, eventPtr>>,
         AllRead
  PROVE  AllRead'
  <1>1. Passed' = Passed
    BY RingKept
  <1> QED  BY <1>1 DEF AllRead, Filled, RingNext, RingLen

\* The main loop waits for a session that is about to be lapped.
LEMMA AllSentNewEvent ==
  ASSUME EventTypeOK, RingNumbered, AllSent, ~MayLapSession, NewEvent
  PROVE  AllSent'
  <1>1. Passed' = Passed + 1 /\ Passed \in Nat
    BY NewEventCounts
  <1>2. /\ eventPtr' = Following(eventPtr, History)
        /\ UNCHANGED <<clientPc, eventId, seen>>
    BY NewEventList
  <1>3. \A s \in Session : Connected(s) => eventPtr' # eventId[s]
    BY <1>2, Rings DEF NewEvent, Connected
  <1> SUFFICES ASSUME NEW s \in Session, Connected(s)
               PROVE  seen[s] = Passed' - Lag(eventId[s], eventPtr', History)
    BY <1>2 DEF AllSent, Connected
  <1>4. /\ seen[s] = Passed - Lag(eventId[s], eventPtr, History)
        /\ eventId[s] \in 0..History - 1 /\ eventPtr \in 0..History - 1
        /\ History \in Nat \ {0}
    BY Pointers, Rings DEF AllSent
  <1> QED  BY <1>1, <1>2, <1>3, <1>4 DEF Lag, Following

\* The next event of a session is the one after the last that it sent.
LEMMA NextNumber ==
  ASSUME EventTypeOK, SessionsInOrder, AllRead, AllSent, NEW s \in Session, SendEvent(s)
  PROVE  seen'[s] = seen[s] + 1
  <1>1. /\ eventId[s] \in 0..History - 1 /\ eventId[s] # eventPtr
        /\ Connected(s) /\ Filled(eventId[s])
        /\ seen'[s] = eventList[eventId[s]].no
    BY NextToSend
  <1>2. /\ eventPtr \in 0..History - 1 /\ History \in Nat \ {0} /\ Passed \in Int
    BY Pointers, Rings
  <1>3. seen'[s] = NumberAt(eventId[s], eventPtr, Passed, History)
    BY <1>1 DEF AllRead
  <1>4. seen[s] = Passed - Lag(eventId[s], eventPtr, History)
    BY <1>1 DEF AllSent
  <1> QED  BY <1>1, <1>2, <1>3, <1>4 DEF NumberAt, Lag

\* A session sends one event after the other, from the next one on.
LEMMA AllSentSession ==
  ASSUME EventTypeOK, ListInOrder, SessionsInOrder, RingNumbered, AllRead, AllSent,
         NEW s \in Session, Connect(s) \/ SessionLoop(s) \/ Disconnect(s)
  PROVE  AllSent'
  <1>1. UNCHANGED <<holder, count, ring, eventWp, rd, recorded, eventPtr>>
    BY DEF Connect, SessionLoop, SendEvent, NoMoreEvents, Disconnect, rtEventVars,
           mainVars
  <1>2. Passed' = Passed
    BY <1>1, RingKept
  <1>3. /\ eventPtr \in 0..History - 1 /\ History \in Nat \ {0} /\ Passed \in Int
    BY Pointers, Rings
  <1>4. CASE SendEvent(s)
    <2>1. /\ eventId[s] \in 0..History - 1 /\ eventId[s] # eventPtr /\ Connected(s)
          /\ eventId'[s] = Following(eventId[s], History)
          /\ \A t \in Session \ {s} :
                /\ eventId'[t] = eventId[t] /\ seen'[t] = seen[t]
                /\ Connected(t)' = Connected(t)
      BY <1>4, NextToSend
    <2>2. seen'[s] = seen[s] + 1
      BY <1>4, NextNumber
    <2>3. seen[s] = Passed - Lag(eventId[s], eventPtr, History)
      BY <2>1 DEF AllSent
    <2>4. seen'[s] = Passed - Lag(eventId'[s], eventPtr, History)
      BY <1>3, <2>1, <2>2, <2>3 DEF Lag, Following
    <2>5. ASSUME NEW t \in Session, Connected(t)'
          PROVE  seen'[t] = Passed - Lag(eventId'[t], eventPtr, History)
      <3>1. CASE t = s
        BY <2>4, <3>1
      <3>2. CASE t # s
        BY <2>1, <2>5, <3>2 DEF AllSent
      <3> QED  BY <3>1, <3>2
    <2> QED  BY <1>1, <1>2, <2>5 DEF AllSent
  <1>5. CASE Connect(s)
    <2>1. eventId'[s] = eventPtr /\ seen'[s] = Newest
      BY <1>5 DEF Connect, StartNext, EventTypeOK
    <2>2. \A t \in Session \ {s} : /\ eventId'[t] = eventId[t] /\ seen'[t] = seen[t]
                                   /\ Connected(t)' = Connected(t)
      BY <1>5 DEF Connect, Connected, EventTypeOK
    <2>3. Newest = Passed
      <3>1. recorded = 1..Passed /\ Passed >= 0
        BY DEF AllRead, RingNumbered
      <3>2. /\ Newest \in recorded \cup {0}
            /\ \A n \in recorded : n <= Newest
        BY NewestIsMax
      <3> QED  BY <1>3, <3>1, <3>2
    <2>4. Lag(eventPtr, eventPtr, History) = 0
      BY <1>3 DEF Lag
    <2>5. ASSUME NEW t \in Session, Connected(t)'
          PROVE  seen'[t] = Passed - Lag(eventId'[t], eventPtr, History)
      <3>1. CASE t = s
        BY <1>3, <2>1, <2>3, <2>4, <3>1
      <3>2. CASE t # s
        BY <2>2, <2>5, <3>2 DEF AllSent
      <3> QED  BY <3>1, <3>2
    <2> QED  BY <1>1, <1>2, <2>5 DEF AllSent
  <1>6. CASE NoMoreEvents(s) \/ Disconnect(s)
    <2>1. UNCHANGED <<eventId, seen>>
      BY <1>6 DEF NoMoreEvents, Disconnect
    <2>2. \A t \in Session : Connected(t)' => Connected(t)
      BY <1>6 DEF NoMoreEvents, Disconnect, Connected, EventTypeOK
    <2> QED  BY <1>1, <1>2, <2>1, <2>2 DEF AllSent
  <1> QED  BY <1>4, <1>5, <1>6 DEF SessionLoop

\* Steps of others.
LEMMA AllSentKept ==
  ASSUME UNCHANGED <<eventPtr, clientPc, eventId, seen>>, Passed' = Passed, AllSent
  PROVE  AllSent'
  BY DEF AllSent, Connected
-----------------------------------------------------------------------------
(* The times of an element show its state *)

\* The numbers of the events in the ring that newEvent() has not been given.
LEMMA InRingSlots ==
  ASSUME EventTypeOK, CallsInStep, RingNumbered, NEW i \in 0..RingLen - 1, InRing(i)
  PROVE  /\ ring[i] \in EventData
         /\ ring[i].elem \in Elem /\ ring[i].no \in Nat
         /\ ring[i].no >= Passed + 1
         /\ ring[i].no <= count
  <1>1. /\ count \in Nat /\ Written \in Int /\ Passed \in Int
        /\ eventWp \in 0..RingLen - 1 /\ rd \in 0..RingLen - 1
        /\ RingLen \in Nat \ {0}
    BY Pointers, Rings
  <1>2. Written <= count
    BY <1>1 DEF Written
  <1>3. CASE Between(rd, i, eventWp)
    <2>1. /\ ring[i] \in EventData /\ ring[i].no >= Passed + 1
          /\ ring[i].no <= Written /\ ring[i].no \in Nat
      BY <1>3, UnreadSlots
    <2> QED  BY <1>1, <1>2, <2>1, EventFields
  <1>4. CASE holder # NoEvent /\ i = eventWp
    <2>1. ring[i] \in EventData /\ ring[i].no = count /\ Written = count - 1
      BY <1>1, <1>4, Pointers DEF CallsInStep, Written
    <2>2. Lag(rd, eventWp, RingLen) >= 0 /\ Lag(rd, eventWp, RingLen) \in Int
      BY <1>1 DEF Lag
    <2>3. Passed <= Written
      BY <1>1, <2>2 DEF Passed
    <2> QED  BY <1>1, <2>1, <2>3, EventFields
  <1> QED  BY <1>3, <1>4 DEF InRing

\* Steps that change neither what is in the ring nor what was read.
LEMMA LastStateSame ==
  ASSUME LastStateKept, UNCHANGED <<ring, times>>,
         \A i \in 0..RingLen - 1 : InRing(i)' <=> InRing(i),
         \A e \in Elem : LastSet(e)' = LastSet(e)
  PROVE  LastStateKept'
  <1>1. \A e \in Elem : ShownSet(e)' = ShownSet(e)
    BY DEF ShownSet
  <1>2. RingLen' = RingLen
    BY DEF RingLen
  <1> QED  BY <1>1, <1>2, Zenon DEF LastStateKept

\* A call of Event::set() is under way before it reaches the ring.
LEMMA LastStateSet ==
  ASSUME EventTypeOK, CallsInStep, LastStateKept, NEW x \in Elem, SetState(x)
  PROVE  LastStateKept'
  <1>1. /\ UNCHANGED <<ring, times, holder, eventWp, rd>>
        /\ setting[Owner[x]] = NoEvent
        /\ setting' = [setting EXCEPT ![Owner[x]] = x]
        /\ rtState' = [rtState EXCEPT ![x] = ~@]
    BY DEF SetState, mainVars
  <1>2. /\ rtState \in [Elem -> BOOLEAN] /\ Owner \in [Elem -> Thread]
        /\ setting \in [Thread -> Elem \cup {NoEvent}] /\ NoEvent \notin Elem
        /\ holder \in Thread \cup {NoEvent} /\ NoEvent \notin Thread
    BY EventAssumption DEF EventTypeOK
  <1>3. holder # Owner[x]
    BY <1>1, <1>2 DEF CallsInStep
  <1>4. ASSUME NEW e \in Elem PROVE LastSet(e)' = LastSet(e)
    <2>1. CASE e = x
      <3>1. LastSet(e) = rtState[x]
        BY <1>1, <1>2, <2>1 DEF LastSet
      <3>2. LastSet(e)' = ~(~rtState[x])
        BY <1>1, <1>2, <1>3, <2>1 DEF LastSet
      <3>3. rtState[x] \in BOOLEAN
        BY <1>2
      <3> QED  BY <3>1, <3>2, <3>3
    <2>2. CASE e # x
      <3>1. rtState'[e] = rtState[e]
        BY <1>1, <1>2, <2>2
      <3>2. setting'[Owner[e]] = e <=> setting[Owner[e]] = e
        BY <1>1, <1>2, <2>2
      <3> QED  BY <1>1, <3>1, <3>2 DEF LastSet
    <2> QED  BY <2>1, <2>2
  <1>5. \A i \in 0..RingLen - 1 : InRing(i)' <=> InRing(i)
    BY <1>1 DEF InRing
  <1> QED  BY <1>1, <1>4, <1>5, LastStateSame

\* It becomes the last event of its element.
LEMMA LastStateFill ==
  ASSUME EventTypeOK, CallsInStep, RingNumbered, LastStateKept,
         NEW t \in Thread, FillSlot(t)
  PROVE  LastStateKept'
  <1> DEFINE x == setting[t]
             w == eventWp
  <1>1. /\ holder = NoEvent /\ holder' = t /\ t # NoEvent
        /\ UNCHANGED <<eventWp, rd, rtState, setting>>
        /\ \A i \in 0..RingLen - 1 : i # w => ring'[i] = ring[i]
    BY RingFill
  <1>2. /\ x \in Elem /\ Owner[x] = t /\ UNCHANGED times
        /\ w \in 0..RingLen - 1 /\ rd \in 0..RingLen - 1 /\ RingLen \in Nat \ {0}
        /\ count \in Nat
    BY Pointers, Rings DEF FillSlot, CallsInStep, EventTypeOK, mainVars
  <1>3. ring'[w].elem = x /\ ring'[w].state = rtState[x] /\ ring'[w].no = count + 1
    BY <1>2 DEF FillSlot, EventTypeOK
  <1>4. ASSUME NEW i \in 0..RingLen - 1
        PROVE  /\ InRing(i)' <=> InRing(i) \/ i = w
               /\ ~InRing(w)
    BY <1>1, <1>2 DEF InRing, Between
  <1>5. ASSUME NEW e \in Elem, e = x PROVE LastSet(e)' = rtState[x]
    BY <1>1, <1>2, <1>5 DEF LastSet
  <1>6. ASSUME NEW e \in Elem, e # x
        PROVE  LastSet(e)' = LastSet(e) /\ ShownSet(e)' = ShownSet(e)
    <2>1. setting[Owner[e]] = e => Owner[e] # t
      BY <1>6
    <2>2. t \in Thread /\ holder # Owner[e]
      BY <1>1, EventAssumption
    <2> QED  BY <1>1, <1>2, <2>1, <2>2 DEF LastSet, ShownSet
  <1>7. RingLen' = RingLen
    BY DEF RingLen
  <1> HIDE DEF x, w
  <1>8. ASSUME NEW e \in Elem, NEW i \in 0..RingLen - 1,
               InRing(i)', ring'[i].elem = e,
               \A j \in 0..RingLen - 1 :
                  InRing(j)' /\ ring'[j].elem = e => ring'[j].no <= ring'[i].no
        PROVE  ring'[i].state = LastSet(e)'
    <2>1. CASE i = w
      BY <1>3, <1>5, <1>8, <2>1
    <2>2. CASE i # w
      <3>1. ring'[i] = ring[i] /\ InRing(i)
        BY <1>1, <1>4, <1>8, <2>2
      <3>2. ring[i].no <= count /\ ring[i].no \in Nat
        BY <3>1, InRingSlots
      <3>3. e # x
        <4> SUFFICES ASSUME e = x PROVE FALSE
          OBVIOUS
        <4>1. ring'[w].no <= ring'[i].no
          BY <1>2, <1>3, <1>4, <1>8
        <4> QED  BY <1>2, <1>3, <3>1, <3>2, <4>1
      <3>4. \A j \in 0..RingLen - 1 :
               InRing(j) /\ ring[j].elem = e => ring[j].no <= ring[i].no
        BY <1>1, <1>4, <1>8, <3>1
      <3>5. ring[i].state = LastSet(e)
        BY <1>8, <3>1, <3>4 DEF LastStateKept
      <3> QED  BY <1>6, <3>1, <3>3, <3>5
    <2> QED  BY <2>1, <2>2
  <1>9. ASSUME NEW e \in Elem,
               \A i \in 0..RingLen - 1 : InRing(i)' => ring'[i].elem # e
        PROVE  ShownSet(e)' = LastSet(e)'
    <2>1. e # x
      BY <1>2, <1>3, <1>4, <1>9
    <2>2. \A i \in 0..RingLen - 1 : InRing(i) => ring[i].elem # e
      BY <1>1, <1>4, <1>9
    <2>3. ShownSet(e) = LastSet(e)
      BY <2>2 DEF LastStateKept
    <2> QED  BY <1>6, <2>1, <2>3
  <1> QED  BY <1>7, <1>8, <1>9 DEF LastStateKept

\* It stays in the ring when the pointer passes it.
LEMMA LastStateMove ==
  ASSUME EventTypeOK, CallsInStep, AllRead, LastStateKept, NEW t \in Thread, MovePtr(t)
  PROVE  LastStateKept'
  <1>1. /\ holder # NoEvent /\ holder' = NoEvent
        /\ eventWp' = Following(eventWp, RingLen)
        /\ UNCHANGED <<ring, rd>>
    BY MovePtrCounts
  <1>2. /\ eventWp \in 0..RingLen - 1 /\ rd \in 0..RingLen - 1
        /\ RingLen \in Nat \ {0} /\ eventWp' # rd
    BY <1>1, Pointers, Rings DEF AllRead
  <1>3. ASSUME NEW i \in 0..RingLen - 1 PROVE InRing(i)' <=> InRing(i)
    BY <1>1, <1>2 DEF InRing, Between, Following
  <1>4. /\ holder = t /\ UNCHANGED <<rtState, times>>
        /\ setting' = [setting EXCEPT ![t] = NoEvent]
        /\ setting \in [Thread -> Elem \cup {NoEvent}]
        /\ NoEvent \notin Elem \cup Thread /\ Owner \in [Elem -> Thread]
    BY EventAssumption DEF MovePtr, mainVars, EventTypeOK
  <1>5. ASSUME NEW e \in Elem PROVE LastSet(e)' = LastSet(e)
    <2>1. Owner[e] \in Thread /\ e # NoEvent
      BY <1>4
    <2>2. CASE Owner[e] = t
      BY <1>1, <1>4, <2>1, <2>2 DEF LastSet
    <2>3. CASE Owner[e] # t
      BY <1>1, <1>4, <2>1, <2>3 DEF LastSet
    <2> QED  BY <2>2, <2>3
  <1> QED  BY <1>1, <1>3, <1>4, <1>5, LastStateSame

\* newEvent() records the oldest event of the ring.
LEMMA LastStateNewEvent ==
  ASSUME EventTypeOK, CallsInStep, RingNumbered, LastStateKept, NewEvent
  PROVE  LastStateKept'
  <1> DEFINE d == ring[rd]
  <1>1. /\ rd # eventWp /\ rd' = Following(rd, RingLen)
        /\ UNCHANGED <<ring, eventWp, holder, setting, rtState>>
    BY NewEventCounts
  <1>2. d \in EventData /\ d.no = Passed + 1 /\ times' = Stamp(d)
    BY <1>1, NextToRead DEF NewEvent
  <1>3. d.elem \in Elem /\ d.state \in BOOLEAN /\ d.no \in Nat /\ d.no > 0
    BY <1>2, EventFields
  <1>4. /\ eventWp \in 0..RingLen - 1 /\ rd \in 0..RingLen - 1
        /\ RingLen \in Nat \ {0}
    BY Pointers, Rings
  <1>5. ASSUME NEW i \in 0..RingLen - 1
        PROVE  /\ InRing(i)' <=> InRing(i) /\ i # rd
               /\ InRing(rd)
    BY <1>1, <1>4 DEF InRing, Between, Following
  <1>6. \A e \in Elem : LastSet(e)' = LastSet(e)
    BY <1>1 DEF LastSet
  <1> HIDE DEF d
  <1>7. ASSUME NEW e \in Elem
        PROVE  /\ e = d.elem => ShownSet(e)' = d.state
               /\ e # d.elem => ShownSet(e)' = ShownSet(e)
    <2>1. times \in [Elem -> [set : 0..MaxEvents, reset : 0..MaxEvents]]
      BY DEF EventTypeOK
    <2>2. CASE d.state = TRUE
      BY <1>2, <1>3, <2>1, <2>2 DEF Stamp, ShownSet
    <2>3. CASE d.state = FALSE
      <3>1. times' = [times EXCEPT ![d.elem].reset = d.no]
        BY <1>2, <2>3 DEF Stamp
      <3>2. times'[d.elem].reset = d.no
        BY <1>3, <2>1, <3>1
      <3>3. e # d.elem => times'[e] = times[e]
        BY <1>3, <2>1, <3>1
      <3>4. e = d.elem => ~ShownSet(e)'
        BY <1>3, <3>2 DEF ShownSet
      <3>5. e # d.elem => ShownSet(e)' = ShownSet(e)
        BY <3>3 DEF ShownSet
      <3> QED  BY <2>3, <3>4, <3>5 DEF ShownSet
    <2> QED  BY <1>3, <2>2, <2>3
  <1>8. RingLen' = RingLen
    BY DEF RingLen
  <1>9. ASSUME NEW e \in Elem, NEW i \in 0..RingLen - 1,
               InRing(i)', ring'[i].elem = e,
               \A j \in 0..RingLen - 1 :
                  InRing(j)' /\ ring'[j].elem = e => ring'[j].no <= ring'[i].no
        PROVE  ring'[i].state = LastSet(e)'
    <2>1. InRing(i)
      BY <1>5, <1>9
    <2>2. ring[i].no >= Passed + 1
      BY <2>1, InRingSlots
    <2>3. \A j \in 0..RingLen - 1 :
             InRing(j) /\ ring[j].elem = e => ring[j].no <= ring[i].no
      <3> SUFFICES ASSUME NEW j \in 0..RingLen - 1, InRing(j), ring[j].elem = e
                   PROVE  ring[j].no <= ring[i].no
        OBVIOUS
      <3>1. CASE j = rd
        <4>1. ring[j].no = Passed + 1 /\ Passed \in Int /\ ring[i].no \in Nat
          BY <1>2, <2>1, <3>1, Pointers, InRingSlots DEF d
        <4> QED  BY <2>2, <4>1
      <3>2. CASE j # rd
        BY <1>1, <1>5, <1>9, <3>2
      <3> QED  BY <3>1, <3>2
    <2>4. ring[i].state = LastSet(e)
      BY <1>1, <1>9, <2>1, <2>3 DEF LastStateKept
    <2> QED  BY <1>1, <1>6, <2>4
  <1>10. ASSUME NEW e \in Elem,
                \A i \in 0..RingLen - 1 : InRing(i)' => ring'[i].elem # e
         PROVE  ShownSet(e)' = LastSet(e)'
    <2>1. CASE d.elem = e
      <3>1. \A j \in 0..RingLen - 1 : InRing(j) /\ ring[j].elem = e => j = rd
        BY <1>1, <1>5, <1>10
      <3>2. InRing(rd) /\ ring[rd].elem = e /\ ring[rd].no \in Nat
        BY <1>3, <1>4, <1>5, <2>1 DEF d
      <3>3. \A j \in 0..RingLen - 1 :
               InRing(j) /\ ring[j].elem = e => ring[j].no <= ring[rd].no
        BY <3>1, <3>2
      <3>4. ring[rd].state = LastSet(e)
        BY <1>4, <3>2, <3>3 DEF LastStateKept
      <3> QED  BY <1>6, <1>7, <2>1, <3>4 DEF d
    <2>2. CASE d.elem # e
      <3>1. \A i \in 0..RingLen - 1 : InRing(i) => ring[i].elem # e
        BY <1>1, <1>5, <1>10, <2>2 DEF d
      <3>2. ShownSet(e) = LastSet(e)
        BY <3>1 DEF LastStateKept
      <3> QED  BY <1>6, <1>7, <2>2, <3>2
    <2> QED  BY <2>1, <2>2
  <1> QED  BY <1>8, <1>9, <1>10 DEF LastStateKept

\* The ring is empty: the times show the state.
LEMMA TimesFollow ==
  ASSUME EventTypeOK, CallsInStep, LastStateKept
  PROVE  TimesShowState
  <1> SUFFICES ASSUME NEW e \in Elem, rd = eventWp, setting[Owner[e]] # e
               PROVE  ShownSet(e) = rtState[e]
    BY DEF TimesShowState
  <1>1. LastSet(e) = rtState[e]
    BY DEF LastSet
  <1>2. \A i \in 0..RingLen - 1 : ~Between(rd, i, eventWp)
    BY Pointers, Rings DEF Between
  <1>3. holder # NoEvent => ring[eventWp].elem # e
    BY DEF CallsInStep, EventTypeOK
  <1>4. \A i \in 0..RingLen - 1 : InRing(i) => ring[i].elem # e
    BY <1>2, <1>3 DEF InRing
  <1> QED  BY <1>1, <1>4 DEF LastStateKept
\* The same of the state after a step.
LEMMA TimesFollowNext ==
  (EventTypeOK /\ CallsInStep /\ LastStateKept => TimesShowState)'
  BY TimesFollow, PTL

-----------------------------------------------------------------------------
(* The answer to a request for the history *)

\* A function on 1..n is a sequence of length n.
LEMMA FunctionIsSeq ==
  ASSUME NEW S, NEW n \in Nat, NEW f \in [1..n -> S]
  PROVE  f \in Seq(S) /\ Len(f) = n
  <1>1. f \in Seq(S)
    BY SeqDef
  <1>2. Len(f) \in Nat /\ DOMAIN f = 1..Len(f) /\ DOMAIN f = 1..n
    BY <1>1, LenProperties
  <1> QED  BY <1>1, <1>2

\* The place in eventList of entry i of the answer, which starts with the la
\* entries from slot o on.
Place(o, la, i) == IF i <= la THEN o + i - 1 ELSE i - la - 1

\* The answer is made of two pieces of the list.
LEMMA HistoryPieces ==
  ASSUME EventTypeOK, NEW s \in Session, eventId[s] = eventPtr,
         NEW o, o = Oldest,
         NEW la, la = IF o >= eventPtr THEN History - o ELSE 0
  PROVE  /\ o \in 0..History - 1 /\ la \in Nat
         /\ Len(HistoryOf(s)) = la + eventPtr
         /\ \A i \in 1..la + eventPtr : HistoryOf(s)[i] = eventList[Place(o, la, i)]
  <1> DEFINE S == EventData \cup {NoEvent}
             p == eventPtr
  <1>1. /\ History \in Nat \ {0} /\ p \in 0..History - 1 /\ p \in Nat
        /\ eventList \in [0..History - 1 -> S]
    BY Rings, Pointers DEF EventTypeOK
  <1>2. o \in 0..History - 1 /\ la \in Nat
    BY <1>1 DEF Oldest
  <1>3. PICK a : a = [i \in 1..la |-> eventList[o + i - 1]]
    OBVIOUS
  <1>4. PICK b : b = [i \in 1..p |-> eventList[i - 1]]
    OBVIOUS
  <1>5. \A i \in 1..la : o + i - 1 \in 0..History - 1
    BY <1>1, <1>2
  <1>6. a \in [1..la -> S] /\ \A i \in 1..la : a[i] = eventList[o + i - 1]
    BY <1>1, <1>3, <1>5
  <1>7. \A i \in 1..p : i - 1 \in 0..History - 1
    BY <1>1
  <1>8. b \in [1..p -> S] /\ \A i \in 1..p : b[i] = eventList[i - 1]
    BY <1>1, <1>4, <1>7
  <1>9. a \in Seq(S) /\ Len(a) = la /\ b \in Seq(S) /\ Len(b) = p
    BY <1>1, <1>2, <1>6, <1>8, FunctionIsSeq
  <1>10. HistoryOf(s) = a \o b
    <2>1. CASE o >= p
      BY <1>3, <1>4, <2>1 DEF HistoryOf
    <2>2. CASE ~ (o >= p)
      <3>1. a \in Seq(S) /\ Len(a) = 0
        BY <1>9, <2>2
      <3>2. a = <<>>
        BY <3>1, EmptySeq
      <3> QED  BY <1>4, <2>2, <3>2 DEF HistoryOf
    <2> QED  BY <2>1, <2>2
  <1>11. PICK h : h = a \o b
    OBVIOUS
  <1>12. /\ Len(h) = Len(a) + Len(b)
         /\ \A i \in 1..Len(a) + Len(b) :
               h[i] = IF i <= Len(a) THEN a[i] ELSE b[i - Len(a)]
    BY <1>9, <1>11, ConcatProperties, Zenon
  <1>13. ASSUME NEW i \in 1..la + p PROVE h[i] = eventList[Place(o, la, i)]
    <2>1. CASE i <= la
      <3>1. h[i] = a[i] /\ i \in 1..la
        BY <1>2, <1>9, <1>12, <2>1
      <3> QED  BY <1>6, <2>1, <3>1 DEF Place
    <2>2. CASE ~ (i <= la)
      <3>1. h[i] = b[i - la] /\ i - la \in 1..p
        BY <1>1, <1>2, <1>9, <1>12, <2>2
      <3> QED  BY <1>8, <2>2, <3>1 DEF Place
    <2> QED  BY <2>1, <2>2
  <1>14. Len(h) = la + p
    BY <1>9, <1>12
  <1> HIDE DEF p
  <1>15. HistoryOf(s) = h
    BY <1>10, <1>11
  <1> QED  BY <1>2, <1>13, <1>14, <1>15, Zenon DEF p

\* A session that has sent everything gets the last events.
LEMMA HistoryFollows ==
  ASSUME EventTypeOK, ListInOrder
  PROVE  HistoryComplete
  <1> SUFFICES ASSUME NEW s \in Session, eventId[s] = eventPtr, NEW h, h = HistoryOf(s)
               PROVE  IF recorded = {} THEN \A i \in 1..Len(h) : h[i] = NoEvent
                      ELSE /\ Len(h) = IF Cardinality(recorded) < History
                                       THEN Cardinality(recorded) ELSE History
                           /\ \A i \in 1..Len(h) : h[i] # NoEvent
                           /\ h[Len(h)].no = Newest
                           /\ \A i \in 1..Len(h) - 1 : h[i].no < h[i + 1].no
    BY DEF HistoryComplete
  <1>1. PICK o : o = Oldest
    OBVIOUS
  <1>2. PICK la : la = IF o >= eventPtr THEN History - o ELSE 0
    OBVIOUS
  <1>3. PICK p : p = eventPtr
    OBVIOUS
  <1>4. PICK len : len = la + p
    OBVIOUS
  <1>5. /\ o \in 0..History - 1 /\ la \in Nat
        /\ Len(h) = len
        /\ \A i \in 1..len : h[i] = eventList[Place(o, la, i)]
    BY <1>1, <1>2, <1>3, <1>4, HistoryPieces
  <1>6. PICK N \in Nat : N = Cardinality(recorded)
    BY RecordedFinite
  <1>7. /\ History \in Nat \ {0} /\ p \in 0..History - 1
        /\ N = 0 <=> recorded = {}
        /\ N < History => p = N
        /\ \A i \in 0..History - 1 : Filled(i) <=> i < N
    BY <1>3, <1>6, Pointers, Rings, RecordedFinite DEF ListInOrder
  <1>8. o = IF Filled(p) THEN p ELSE 0
    BY <1>1, <1>3 DEF Oldest, Filled
  <1>9. la = IF o >= p THEN History - o ELSE 0
    BY <1>2, <1>3
  <1>10. CASE recorded = {}
    <2>1. N = 0 /\ p = 0 /\ ~Filled(p) /\ o = 0 /\ la = History /\ len = History
      BY <1>4, <1>7, <1>8, <1>9, <1>10
    <2>2. ASSUME NEW i \in 1..len PROVE h[i] = NoEvent
      <3>1. Place(o, la, i) \in 0..History - 1
        BY <1>7, <2>1 DEF Place
      <3> QED  BY <1>5, <1>7, <2>1, <3>1 DEF Filled
    <2> QED  BY <1>5, <1>10, <2>2
  <1>11. CASE recorded # {}
    <2>1. /\ N # 0 /\ len = IF N < History THEN N ELSE History
          /\ N < History => la = 0 /\ p = N
          /\ N >= History => o = p /\ la = History - p
      BY <1>4, <1>5, <1>7, <1>8, <1>9, <1>11
    <2>2. ASSUME NEW i \in 1..len
          PROVE  Place(o, la, i) \in 0..History - 1 /\ Place(o, la, i) < N
      BY <1>4, <1>5, <1>7, <2>1 DEF Place
    <2>3. \A i \in 1..len : h[i] # NoEvent
      BY <1>5, <1>7, <2>2 DEF Filled
    <2>4. h[len].no = Newest
      <3>1. PICK k \in 0..History - 1 :
                /\ eventList[k].no = Newest
                /\ k = IF p = 0 THEN History - 1 ELSE p - 1
        BY <1>3, <1>11, NewestSlot
      <3>2. len \in 1..len /\ Place(o, la, len) = k
        BY <1>4, <1>5, <1>7, <2>1, <3>1 DEF Place
      <3> QED  BY <1>5, <3>1, <3>2
    <2>5. ASSUME NEW i \in 1..len - 1 PROVE h[i].no < h[i + 1].no
      <3>1. i \in 1..len /\ i + 1 \in 1..len
        BY <1>4, <1>5, <1>7
      <3>2. PICK x \in 0..History - 1 : x = Place(o, la, i) /\ x < N
        BY <2>2, <3>1
      <3>3. PICK y \in 0..History - 1 : y = Place(o, la, i + 1) /\ y < N
        BY <2>2, <3>1
      <3>4. IF x < p THEN x < y /\ y < p ELSE x < y \/ y < p
        BY <1>4, <1>5, <1>7, <2>1, <3>1, <3>2, <3>3 DEF Place
      <3>5. Older(x, y) /\ Filled(x) /\ Filled(y)
        BY <1>3, <1>7, <3>2, <3>3, <3>4 DEF Older
      <3>6. eventList[x].no < eventList[y].no
        BY <3>5 DEF ListInOrder
      <3> QED  BY <1>5, <3>1, <3>2, <3>3, <3>6
    <2> QED  BY <1>5, <1>6, <1>11, <2>1, <2>3, <2>4, <2>5
  <1> QED  BY <1>10, <1>11
-----------------------------------------------------------------------------
(* The theorems *)

\* The invariant holds before the first event.
LEMMA EventInvInit == ASSUME EventInit PROVE EventInv
  <1>1. EventTypeOK
    BY TypeInit
  <1>2. CallsInStep
    BY DEF EventInit, CallsInStep
  <1>3. /\ eventWp = 0 /\ rd = 0 /\ eventPtr = 0 /\ count = 0 /\ holder = NoEvent
        /\ recorded = {}
    BY DEF EventInit
  <1>4. Written = 0 /\ Passed = 0
    BY <1>3, Rings DEF Written, Passed, Lag
  <1>5. RingNumbered
    <2>1. \A i \in 0..RingLen - 1 : ~ (NumberAt(i, 0, 0, RingLen) > 0)
      BY Rings DEF NumberAt
    <2> QED  BY <1>3, <1>4, <2>1 DEF RingNumbered
  <1>6. \A i \in 0..History - 1 : ~Filled(i)
    BY DEF EventInit, Filled
  <1>7. ListInOrder
    <2>1. Cardinality(recorded) = 0
      BY <1>3, FS_EmptySet
    <2>2. \A i \in 0..History - 1 : ~ (i < 0)
      BY Rings
    <2> QED  BY <1>3, <1>6, <2>1, <2>2 DEF ListInOrder
  <1>8. SessionsInOrder /\ AllSent
    BY DEF EventInit, SessionsInOrder, AllSent, Connected
  <1>9. AllRead
    BY <1>3, <1>4, <1>6 DEF AllRead
  <1>10. LastStateKept
    <2>1. \A i \in 0..RingLen - 1 : ~InRing(i)
      BY <1>3, Rings DEF InRing, Between
    <2>2. ASSUME NEW e \in Elem PROVE ShownSet(e) = LastSet(e)
      <3>1. Owner[e] \in Thread /\ e # NoEvent
        BY EventAssumption
      <3>2. LastSet(e) = FALSE
        BY <3>1 DEF EventInit, LastSet
      <3>3. ShownSet(e) = FALSE
        BY DEF EventInit, ShownSet
      <3> QED  BY <3>2, <3>3
    <2> QED  BY <2>1, <2>2 DEF LastStateKept
  <1> QED  BY <1>1, <1>2, <1>5, <1>7, <1>8, <1>9, <1>10, TimesFollow DEF EventInv

\* A step of a real time thread.
LEMMA EventInvRt ==
  ASSUME EventInv,
         \/ \E e \in Elem : SetState(e)
         \/ \E t \in Thread : FillSlot(t) \/ MovePtr(t)
         \/ Exit
  PROVE  EventInv'
  <1>1. /\ EventTypeOK /\ CallsInStep /\ RingNumbered /\ ListInOrder /\ SessionsInOrder
        /\ ~MayOverrun => AllRead /\ LastStateKept
        /\ ~MayOverrun /\ ~MayLapSession => AllSent
    BY DEF EventInv
  <1>2. EventTypeOK' /\ CallsInStep'
    BY <1>1, TypeRt, CallsRt
  <1>3. UNCHANGED <<eventList, eventPtr, recorded, clientPc, eventId, seen, rd, times>>
    BY DEF SetState, FillSlot, MovePtr, Exit, mainVars, clientVars
  <1>4. ListInOrder' /\ SessionsInOrder'
    BY <1>1, <1>3, ListKept, SessionsKept
  <1>5. ASSUME NEW t \in Thread, FillSlot(t) \/ MovePtr(t)
        PROVE  /\ RingNumbered'
               /\ ~MayOverrun => AllRead' /\ Passed' = Passed /\ LastStateKept'
    <2>1. RingNumbered'
      BY <1>1, <1>5, RingFill, RingMove
    <2>2. ~MayOverrun => AllRead' /\ Passed' = Passed
      BY <1>1, <1>5, AllReadRt
    <2>3. ~MayOverrun => LastStateKept'
      BY <1>1, <1>5, LastStateFill, LastStateMove
    <2> QED  BY <2>1, <2>2, <2>3
  <1>6. ASSUME (\E e \in Elem : SetState(e)) \/ Exit
        PROVE  /\ RingNumbered'
               /\ ~MayOverrun => AllRead' /\ Passed' = Passed /\ LastStateKept'
    <2>1. UNCHANGED <<holder, count, ring, eventWp>>
      BY <1>6 DEF SetState, Exit
    <2>2. RingNumbered' /\ Passed' = Passed
      BY <1>1, <1>3, <2>1, RingKept
    <2>3. ~MayOverrun => AllRead'
      BY <1>1, <1>3, <2>1, AllReadKept
    <2>4. ASSUME ~MayOverrun, NEW e \in Elem, SetState(e) PROVE LastStateKept'
      BY <1>1, <2>4, LastStateSet
    <2>5. ASSUME ~MayOverrun, Exit PROVE LastStateKept'
      <3>1. \A i \in 0..RingLen - 1 : InRing(i)' <=> InRing(i)
        BY <1>3, <2>1 DEF InRing
      <3>2. \A e \in Elem : LastSet(e)' = LastSet(e)
        BY <2>1, <2>5 DEF LastSet, Exit
      <3> QED  BY <1>1, <1>3, <2>1, <2>5, <3>1, <3>2, LastStateSame
    <2> QED  BY <1>6, <2>2, <2>3, <2>4, <2>5
  <1>7. /\ RingNumbered'
        /\ ~MayOverrun => AllRead' /\ Passed' = Passed /\ LastStateKept'
    BY <1>5, <1>6
  <1>8. ~MayOverrun => TimesShowState'
    BY <1>2, <1>7, TimesFollowNext
  <1>9. ~MayOverrun /\ ~MayLapSession => AllSent'
    BY <1>1, <1>3, <1>7, AllSentKept
  <1> QED  BY <1>2, <1>4, <1>7, <1>8, <1>9 DEF EventInv
\* A step of the main loop.
LEMMA EventInvMain == ASSUME EventInv, MainLoop PROVE EventInv'
  <1>1. /\ EventTypeOK /\ CallsInStep /\ RingNumbered /\ ListInOrder /\ SessionsInOrder
        /\ ~MayOverrun => AllRead /\ LastStateKept
        /\ ~MayOverrun /\ ~MayLapSession => AllSent
    BY DEF EventInv
  <1>2. EventTypeOK'
    BY <1>1, TypeMain
  <1>3. CASE NewEvent
    <2>1. CallsInStep' /\ RingNumbered' /\ ListInOrder' /\ SessionsInOrder'
      BY <1>1, <1>3, RingNewEvent, ListNewEvent, SessionsNewEvent
    <2>2. ~MayOverrun => AllRead' /\ LastStateKept'
      BY <1>1, <1>3, AllReadNewEvent, LastStateNewEvent
    <2>3. ~MayOverrun /\ ~MayLapSession => AllSent'
      BY <1>1, <1>3, AllSentNewEvent
    <2>4. ~MayOverrun => TimesShowState'
      BY <1>2, <2>1, <2>2, TimesFollowNext
    <2> QED  BY <1>2, <2>1, <2>2, <2>3, <2>4 DEF EventInv
  <1>4. CASE RingRead \/ Select
    <2>1. /\ UNCHANGED <<holder, count, ring, eventWp, rd, recorded, setting, rtState>>
          /\ UNCHANGED <<eventList, eventPtr, clientPc, eventId, seen, times>>
      BY <1>4 DEF RingRead, Select, rtEventVars, clientVars
    <2>2. CallsInStep' /\ RingNumbered' /\ Passed' = Passed
      BY <1>1, <2>1, RingKept
    <2>3. ListInOrder' /\ SessionsInOrder'
      BY <1>1, <2>1, ListKept, SessionsKept
    <2>4. ~MayOverrun => AllRead'
      BY <1>1, <2>1, AllReadKept
    <2>5. ~MayOverrun => LastStateKept'
      <3>1. \A i \in 0..RingLen - 1 : InRing(i)' <=> InRing(i)
        BY <2>1 DEF InRing
      <3>2. \A e \in Elem : LastSet(e)' = LastSet(e)
        BY <2>1 DEF LastSet
      <3> QED  BY <1>1, <2>1, <3>1, <3>2, LastStateSame
    <2>6. ~MayOverrun /\ ~MayLapSession => AllSent'
      BY <1>1, <2>1, <2>2, AllSentKept
    <2>7. ~MayOverrun => TimesShowState'
      BY <1>2, <2>2, <2>5, TimesFollowNext
    <2> QED  BY <1>2, <2>2, <2>3, <2>4, <2>5, <2>6, <2>7 DEF EventInv
  <1> QED  BY <1>3, <1>4 DEF MainLoop

\* A step of a session, and a step that changes nothing here.
LEMMA EventInvSession ==
  ASSUME EventInv,
         \/ \E s \in Session : Connect(s) \/ SessionLoop(s) \/ Disconnect(s)
         \/ UNCHANGED eventVars
  PROVE  EventInv'
  <1>1. /\ EventTypeOK /\ CallsInStep /\ RingNumbered /\ ListInOrder /\ SessionsInOrder
        /\ ~MayOverrun => AllRead /\ LastStateKept
        /\ ~MayOverrun /\ ~MayLapSession => AllSent
    BY DEF EventInv
  <1>2. /\ UNCHANGED <<holder, count, ring, eventWp, rd, recorded, setting, rtState>>
        /\ UNCHANGED <<eventList, eventPtr, times>>
    BY DEF Connect, SessionLoop, SendEvent, NoMoreEvents, Disconnect, eventVars,
           rtEventVars, mainVars
  <1>3. CallsInStep' /\ RingNumbered' /\ ListInOrder' /\ Passed' = Passed
    BY <1>1, <1>2, RingKept, ListKept
  <1>4. ~MayOverrun => AllRead'
    BY <1>1, <1>2, AllReadKept
  <1>5. ~MayOverrun => LastStateKept'
    <2>1. \A i \in 0..RingLen - 1 : InRing(i)' <=> InRing(i)
      BY <1>2 DEF InRing
    <2>2. \A e \in Elem : LastSet(e)' = LastSet(e)
      BY <1>2 DEF LastSet
    <2> QED  BY <1>1, <1>2, <2>1, <2>2, LastStateSame
  <1>6. /\ EventTypeOK' /\ SessionsInOrder'
        /\ ~MayOverrun /\ ~MayLapSession => AllSent'
    <2>1. ASSUME NEW s \in Session, Connect(s) \/ SessionLoop(s) \/ Disconnect(s)
          PROVE  /\ EventTypeOK' /\ SessionsInOrder'
                 /\ ~MayOverrun /\ ~MayLapSession => AllSent'
      <3>1. EventTypeOK'
        BY <1>1, <2>1, TypeSession
      <3>2. SessionsInOrder'
        BY <1>1, <2>1, SessionsSend, SessionsOther DEF SessionLoop
      <3>3. ~MayOverrun /\ ~MayLapSession => AllSent'
        BY <1>1, <2>1, AllSentSession
      <3> QED  BY <3>1, <3>2, <3>3
    <2>2. CASE UNCHANGED eventVars
      <3>1. UNCHANGED <<clientPc, eventId, seen, running, mainPc>>
        BY <2>2 DEF eventVars, rtEventVars, mainVars, clientVars
      <3>2. EventTypeOK'
        BY <1>1, <1>2, <3>1 DEF EventTypeOK, RingLen, EventData
      <3>3. SessionsInOrder'
        BY <1>1, <1>2, <3>1, SessionsKept
      <3>4. ~MayOverrun /\ ~MayLapSession => AllSent'
        BY <1>1, <1>2, <1>3, <3>1, AllSentKept
      <3> QED  BY <3>2, <3>3, <3>4
    <2> QED  BY <2>1, <2>2
  <1>7. ~MayOverrun => TimesShowState'
    BY <1>3, <1>5, <1>6, TimesFollowNext
  <1> QED  BY <1>3, <1>4, <1>5, <1>6, <1>7 DEF EventInv

\* What Main::newEvent() keeps, for any number of elements, threads, sessions and
\* slots: the rings and eventList hold the last events in order at any pace; and
\* if the application never overruns the ring, no event is lost and the times of
\* an element show its state.
THEOREM EventInvHolds == EventSpec => []EventInv
  <1>1. EventInv /\ [EventNext]_eventVars => EventInv'
    <2> SUFFICES ASSUME EventInv, [EventNext]_eventVars PROVE EventInv'
      OBVIOUS
    <2> QED  BY EventInvRt, EventInvMain, EventInvSession DEF EventNext
  <1> QED  BY EventInvInit, <1>1, PTL DEF EventSpec

\* getEventHistory() answers a session that has sent everything with the last
\* events, from the oldest to the newest, at any pace of the application.
THEOREM HistoryCompleteHolds == EventSpec => []HistoryComplete
  <1>1. EventInv => HistoryComplete
    BY HistoryFollows DEF EventInv
  <1> QED  BY EventInvHolds, <1>1, PTL

\* getNextEvent() sends a client events in the order in which they were set and
\* none twice, also when the application laps the main loop or that the session.
THEOREM EventsInOrderHolds == EventSpec => EventsInOrder
  <1>1. EventInv /\ [EventNext]_eventVars =>
          [\A s \in Session : SendEvent(s) => seen'[s] > seen[s]]_eventVars
    <2> SUFFICES ASSUME EventInv, NEW s \in Session, SendEvent(s)
                 PROVE  seen'[s] > seen[s]
      OBVIOUS
    <2> QED  BY NextToSend DEF EventInv
  <1> QED  BY EventInvHolds, <1>1, PTL DEF EventSpec, EventsInOrder

\* If neither the ring nor eventList is overrun, a client is sent the very next
\* event every time: none is skipped between setEvent() and getNextEvent().
THEOREM NoEventSkippedHolds ==
  ~MayOverrun /\ ~MayLapSession => (EventSpec => NoEventSkipped)
  <1> SUFFICES ASSUME ~MayOverrun, ~MayLapSession PROVE EventSpec => NoEventSkipped
    OBVIOUS
  <1>1. EventInv /\ [EventNext]_eventVars =>
          [\A s \in Session : SendEvent(s) => seen'[s] = seen[s] + 1]_eventVars
    <2> SUFFICES ASSUME EventInv, NEW s \in Session, SendEvent(s)
                 PROVE  seen'[s] = seen[s] + 1
      OBVIOUS
    <2> QED  BY NextNumber DEF EventInv
  <1> QED  BY EventInvHolds, <1>1, PTL DEF EventSpec, NoEventSkipped
=============================================================================
