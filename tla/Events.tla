------------------------------- MODULE Events -------------------------------
(***************************************************************************)
(* The way of an event from the real time application to the clients.      *)
(*                                                                         *)
(* Event::set() (lib/Event.cpp) drops calls that do not change the state   *)
(* and hands the others to lib Main::setEvent(), which writes them to a    *)
(* ring in shared memory.  Once a second the main loop of the              *)
(* communications process (lib Main::setup) reads the ring and calls       *)
(* Main::newEvent(), which logs the event and keeps it in eventList, a     *)
(* ring of its own.  Session threads read eventList every 40 ms            *)
(* (Main::getNextEvent) and on request of the client                       *)
(* (Main::getEventHistory).                                                *)
(*                                                                         *)
(* Neither ring is ever checked for overrun.  What the application and the *)
(* scheduler may do is a parameter.                                        *)
(***************************************************************************)
EXTENDS Integers, Sequences, FiniteSets

CONSTANTS
    Elem,           \* the elements of all events
    Thread,         \* the real time threads
    Owner,          \* Owner[e]: the thread that sets e
    Session,        \* the client sessions
    EventLen,       \* ring slots for each element (10 in the code)
    History,        \* configuration value eventhistory
    NoEvent,        \* a null pointer
    MaxEvents,      \* bound: number of events set in a behaviour
    MayOverrun,     \* may the application fill the ring between two readings?
    MayLapSession,  \* may eventList be filled between two polls of a session?
    MayExit         \* may the application exit?

ASSUME EventAssumption ==
    /\ IsFiniteSet(Elem)
    /\ Elem # {}
    /\ Owner \in [Elem -> Thread]
    /\ EventLen \in Nat \ {0}
    /\ History \in Nat \ {0}
    /\ MaxEvents \in Nat
    /\ {MayOverrun, MayLapSession, MayExit} \subseteq BOOLEAN
    /\ NoEvent \notin Thread \cup Elem
    /\ NoEvent \notin [elem : Elem, state : BOOLEAN, no : 1..MaxEvents]

VARIABLES
    (* real time process *)
    rtState,        \* Event::rt_state
    setting,        \* the Event::set() call of each thread, or NoEvent
    holder,         \* the thread that holds lib Main::eventMutex, or NoEvent
    count,          \* number of events set so far; stands for the time, too
    running,        \* the application has not exited
    (* shared memory *)
    ring,           \* eventDataStart[]
    eventWp,        \* *eventDataWp
    (* main thread of the communications process *)
    mainPc,         \* position in the loop of lib Main::setup
    rd,             \* the local eventData
    times,          \* Event::setTime and Event::resetTime
    eventList,      \* Main::eventList
    eventPtr,       \* Main::eventPtr
    recorded,       \* history variable: the events given to newEvent()
    (* session threads *)
    clientPc,       \* position of the session
    eventId,        \* Session::eventId
    seen            \* history variable: the last event sent to the client

rtEventVars  == <<rtState, setting, holder, count, running, ring, eventWp>>
mainVars     == <<mainPc, rd, times, eventList, eventPtr, recorded>>
clientVars   == <<clientPc, eventId, seen>>
eventVars    == <<rtEventVars, mainVars, clientVars>>

-----------------------------------------------------------------------------
RingLen == EventLen * Cardinality(Elem)

RingNext(i) == IF i + 1 = RingLen THEN 0 ELSE i + 1

\* "if (++eventPtr == eventList.end()) eventPtr = eventList.begin()"
HistoryNext(i) == IF i + 1 = History THEN 0 ELSE i + 1

EventData == [elem : Elem, state : BOOLEAN, no : 1..MaxEvents]

Newest == IF recorded = {} THEN 0
          ELSE CHOOSE n \in recorded : \A m \in recorded : m <= n

EventInit ==
    /\ rtState = [e \in Elem |-> FALSE]
    /\ setting = [t \in Thread |-> NoEvent]
    /\ holder = NoEvent
    /\ count = 0
    /\ running = TRUE
    /\ ring = [i \in 0..RingLen - 1 |-> NoEvent]
    /\ eventWp = 0
    /\ mainPc = "read"
    /\ rd = 0
    /\ times = [e \in Elem |-> [set |-> 0, reset |-> 0]]
    /\ eventList = [i \in 0..History - 1 |-> NoEvent]
    /\ eventPtr = 0
    /\ recorded = {}
    /\ clientPc = [s \in Session |-> "closed"]
    /\ eventId = [s \in Session |-> 0]
    /\ seen = [s \in Session |-> 0]

-----------------------------------------------------------------------------
(* Real time threads                                                        *)

\* Event::set() up to the mutex; a call with the same state returns at once.
SetState(e) ==
    /\ running
    /\ setting[Owner[e]] = NoEvent
    /\ rtState' = [rtState EXCEPT ![e] = ~@]
    /\ setting' = [setting EXCEPT ![Owner[e]] = e]
    /\ UNCHANGED <<holder, count, running, ring, eventWp, mainVars, clientVars>>

\* lib Main::setEvent(): the fields of the slot at *eventDataWp.
FillSlot(t) ==
    /\ running
    /\ setting[t] # NoEvent
    /\ holder = NoEvent
    /\ count < MaxEvents
    /\ MayOverrun \/ RingNext(eventWp) # rd
    /\ holder' = t
    /\ count' = count + 1
    /\ ring' = [ring EXCEPT ![eventWp] = [elem |-> setting[t],
                                     state |-> rtState[setting[t]],
                                     no |-> count + 1]]
    /\ UNCHANGED <<rtState, setting, running, eventWp, mainVars, clientVars>>

\* Mistake: an event that comes after the end of the ring is dropped.
MovePtrStuck(t) ==
    /\ running
    /\ holder = t
    /\ eventWp' = IF eventWp + 1 = RingLen THEN eventWp ELSE eventWp + 1
    /\ holder' = NoEvent
    /\ setting' = [setting EXCEPT ![t] = NoEvent]
    /\ UNCHANGED <<rtState, count, running, ring, mainVars, clientVars>>

\* lib Main::setEvent(): *eventDataWp moves on and the mutex is released.
MovePtr(t) ==
    /\ running
    /\ holder = t
    /\ eventWp' = RingNext(eventWp)
    /\ holder' = NoEvent
    /\ setting' = [setting EXCEPT ![t] = NoEvent]
    /\ UNCHANGED <<rtState, count, running, ring, mainVars, clientVars>>

\* The application ends after its calls have returned; terminatePipe becomes
\* readable.
Exit ==
    /\ MayExit
    /\ running
    /\ \A t \in Thread : setting[t] = NoEvent
    /\ running' = FALSE
    /\ UNCHANGED <<rtState, setting, holder, count, ring, eventWp, mainVars,
                   clientVars>>

-----------------------------------------------------------------------------
(* Main thread of the communications process                                *)

\* Mistake: a new occurrence keeps the time at which the last one ended.
StampKept(d) ==
    IF d.state THEN [times EXCEPT ![d.elem].set = d.no]
    ELSE [times EXCEPT ![d.elem].reset = d.no]

\* "event->setTime[index] = *time; event->resetTime[index] = zero"
Stamp(d) ==
    IF d.state THEN [times EXCEPT ![d.elem] = [set |-> d.no, reset |-> 0]]
    ELSE [times EXCEPT ![d.elem].reset = d.no]

\* Mistake: the ring is taken for a plain array.
UnreadLinear == rd < eventWp

\* "while (eventData != *eventDataWp)"
Unread == rd # eventWp

\* Main::newEvent() for the next event of the ring.
NewEvent ==
    /\ mainPc = "read"
    /\ Unread
    /\ MayLapSession \/ \A s \in Session :
           clientPc[s] # "closed" => HistoryNext(eventPtr) # eventId[s]
    /\ LET d == ring[rd]
       IN  /\ times' = Stamp(d)
           /\ eventList' = [eventList EXCEPT ![eventPtr] = d]
           /\ recorded' = recorded \cup {d.no}
    /\ eventPtr' = HistoryNext(eventPtr)
    /\ rd' = RingNext(rd)
    /\ UNCHANGED <<mainPc, rtEventVars, clientVars>>

\* The loop falls asleep in select() for up to a second.
RingRead ==
    /\ mainPc = "read"
    /\ ~Unread
    /\ mainPc' = "select"
    /\ UNCHANGED <<rd, times, eventList, eventPtr, recorded, rtEventVars,
                   clientVars>>

\* select() times out, or it reports terminatePipe and the servers are stopped.
Select ==
    /\ mainPc = "select"
    /\ mainPc' = IF running THEN "read" ELSE "stopped"
    /\ UNCHANGED <<rd, times, eventList, eventPtr, recorded, rtEventVars,
                   clientVars>>

-----------------------------------------------------------------------------
(* Session threads                                                          *)

\* Mistake: the session starts at the beginning of the list.
StartFirst == 0

\* "eventId = ~0U": getNextEvent() starts with the next event.
StartNext == eventPtr

\* Session::Session()
Connect(s) ==
    /\ mainPc # "stopped"
    /\ clientPc[s] = "closed"
    /\ clientPc' = [clientPc EXCEPT ![s] = "command"]
    /\ eventId' = [eventId EXCEPT ![s] = StartNext]
    /\ seen' = [seen EXCEPT ![s] = Newest]
    /\ UNCHANGED <<rtEventVars, mainVars>>

\* Mistake: an entry that holds an event is taken for a new one.
SendAnyEvent(s) ==
    /\ clientPc[s] \in {"command", "events"}
    /\ eventList[eventId[s]] # NoEvent
    /\ seen' = [seen EXCEPT ![s] = eventList[eventId[s]].no]
    /\ eventId' = [eventId EXCEPT ![s] = HistoryNext(@)]
    /\ clientPc' = [clientPc EXCEPT ![s] = "events"]
    /\ UNCHANGED <<rtEventVars, mainVars>>

\* Main::getNextEvent() returns an event, which is sent to the client.
SendEvent(s) ==
    /\ clientPc[s] \in {"command", "events"}
    /\ eventId[s] # eventPtr
    /\ seen' = [seen EXCEPT ![s] = eventList[eventId[s]].no]
    /\ eventId' = [eventId EXCEPT ![s] = HistoryNext(@)]
    /\ clientPc' = [clientPc EXCEPT ![s] = "events"]
    /\ UNCHANGED <<rtEventVars, mainVars>>

\* Main::getNextEvent() returns none; Session::run() goes round.
NoMoreEvents(s) ==
    /\ clientPc[s] = "events"
    /\ eventId[s] = eventPtr
    /\ clientPc' = [clientPc EXCEPT ![s] = "command"]
    /\ UNCHANGED <<rtEventVars, mainVars, eventId, seen>>

\* The client disconnects, or the server stops.
Disconnect(s) ==
    /\ clientPc[s] = "command"
    /\ clientPc' = [clientPc EXCEPT ![s] = "closed"]
    /\ UNCHANGED <<rtEventVars, mainVars, eventId, seen>>

\* Mistake: the oldest entry is taken for the place of the next event.
OldestSkipped == IF eventList[eventPtr] # NoEvent THEN eventPtr + 1 ELSE 0

\* "eventPtr->event ? eventPtr : eventList.begin()"
Oldest == IF eventList[eventPtr] # NoEvent THEN eventPtr ELSE 0

\* Main::getEventHistory(): the older part of the list, once it has been
\* filled, and then what the session has read.  An entry without an event adds
\* nothing to the answer.
HistoryOf(s) ==
    LET older == IF Oldest >= eventPtr
                 THEN [i \in 1..History - Oldest |-> eventList[Oldest + i - 1]]
                 ELSE <<>>
    IN  older \o [i \in 1..eventId[s] |-> eventList[i - 1]]

-----------------------------------------------------------------------------
MainLoop == NewEvent \/ RingRead \/ Select

SessionLoop(s) == SendEvent(s) \/ NoMoreEvents(s)

EventNext ==
    \/ \E e \in Elem : SetState(e)
    \/ \E t \in Thread : FillSlot(t) \/ MovePtr(t)
    \/ Exit
    \/ MainLoop
    \/ \E s \in Session : Connect(s) \/ SessionLoop(s) \/ Disconnect(s)

EventSpec == EventInit /\ [][EventNext]_eventVars

\* Threads keep running; nobody has to set events, to connect or to exit.
EventFairSpec ==
    /\ EventSpec
    /\ \A t \in Thread : WF_eventVars(MovePtr(t))
    /\ WF_eventVars(MainLoop)
    /\ \A s \in Session : WF_eventVars(SessionLoop(s))

-----------------------------------------------------------------------------
(* Properties                                                               *)

Connected(s) == clientPc[s] # "closed"

\* Types; the pointers into the two rings never leave them.
EventTypeOK ==
    /\ rtState \in [Elem -> BOOLEAN]
    /\ setting \in [Thread -> Elem \cup {NoEvent}]
    /\ holder \in Thread \cup {NoEvent}
    /\ count \in 0..MaxEvents
    /\ running \in BOOLEAN
    /\ ring \in [0..RingLen - 1 -> EventData \cup {NoEvent}]
    /\ eventWp \in 0..RingLen - 1
    /\ mainPc \in {"read", "select", "stopped"}
    /\ rd \in 0..RingLen - 1
    /\ times \in [Elem -> [set : 0..MaxEvents, reset : 0..MaxEvents]]
    /\ eventList \in [0..History - 1 -> EventData \cup {NoEvent}]
    /\ eventPtr \in 0..History - 1
    /\ recorded \subseteq 1..MaxEvents
    /\ clientPc \in [Session -> {"closed", "command", "events"}]
    /\ eventId \in [Session -> 0..History - 1]
    /\ seen \in [Session -> 0..MaxEvents]

\* A client is sent events in the order in which they were set and none twice,
\* whatever the pace: also when the application laps the main loop or the main
\* loop laps the session (setEvent, newEvent, getNextEvent).
EventsInOrder ==
    [][\A s \in Session : SendEvent(s) => seen'[s] > seen[s]]_eventVars

\* A client whose session keeps up is sent every event: nothing between
\* setEvent() and getNextEvent() loses one unless a ring is overrun.
NoEventSkipped ==
    [][\A s \in Session : SendEvent(s) => seen'[s] = seen[s] + 1]_eventVars

\* Does slot i of a ring lie from slot "from" on and before slot "to"?
Between(from, i, to) ==
    IF from <= to THEN from <= i /\ i < to ELSE from <= i \/ i < to

\* The number of these slots, in a ring of len slots.
Lag(from, to, len) == IF from <= to THEN to - from ELSE to - from + len

\* The number of the event in slot i of a ring of len slots in which event n was
\* the last and the next goes to slot ptr.
NumberAt(i, ptr, n, len) == IF i < ptr THEN n - ptr + i + 1
                                       ELSE n - ptr + i + 1 - len

\* The last event that *eventDataWp has passed, and the last one before rd.
Written == IF holder = NoEvent THEN count ELSE count - 1
Passed == Written - Lag(rd, eventWp, RingLen)

\* Main::setEvent() runs for an element of its thread, and its slot holds that
\* element's event.
CallsInStep ==
    /\ \A t \in Thread : setting[t] # NoEvent => Owner[setting[t]] = t
    /\ holder # NoEvent =>
          /\ setting[holder] # NoEvent
          /\ count > 0
          /\ ring[eventWp] # NoEvent
          /\ ring[eventWp].elem = setting[holder]
          /\ ring[eventWp].no = count

\* The ring holds the last events, each in its place, also after it was overrun;
\* the main loop has only been given events before the place it reads.
RingNumbered ==
    /\ eventWp <= Written
    /\ \A i \in 0..RingLen - 1 :
          LET n == NumberAt(i, eventWp, Written, RingLen)
          IN  n > 0 /\ ~ (holder # NoEvent /\ i = eventWp) =>
                  ring[i] # NoEvent /\ ring[i].no = n
    /\ Passed >= 0
    /\ \A n \in recorded : n <= Passed

\* eventList is filled from its beginning, holds events that were read, older
\* ones before newer ones, and has the newest before eventPtr.
Filled(i) == eventList[i] # NoEvent
Older(i, j) == IF i < eventPtr THEN i < j /\ j < eventPtr
                               ELSE i < j \/ j < eventPtr
ListInOrder ==
    /\ \A i \in 0..History - 1 : Filled(i) <=> i < Cardinality(recorded)
    /\ Cardinality(recorded) < History => eventPtr = Cardinality(recorded)
    /\ \A i \in 0..History - 1 : Filled(i) => eventList[i].no \in recorded
    /\ \A i, j \in 0..History - 1 :
          Filled(i) /\ Filled(j) /\ Older(i, j) => eventList[i].no < eventList[j].no
    /\ \A i \in 0..History - 1 : Filled(i) /\ HistoryNext(i) = eventPtr =>
          \A n \in recorded : n <= eventList[i].no

\* What lies ahead of a session is newer than all that its client was sent.
SessionsInOrder ==
    \A s \in Session : Connected(s) =>
        /\ seen[s] \in recorded \cup {0}
        /\ \A i \in 0..History - 1 : Between(eventId[s], i, eventPtr) =>
              Filled(i) /\ eventList[i].no > seen[s]

\* Unless the ring is overrun every event before rd was read, and eventList
\* holds the last of them.
AllRead ==
    /\ recorded = 1..Passed
    /\ holder # NoEvent => RingNext(eventWp) # rd
    /\ \A i \in 0..History - 1 :
          Filled(i) => eventList[i].no = NumberAt(i, eventPtr, Passed, History)

\* Unless a session is lapped, too, its client was sent all before its place.
AllSent ==
    \A s \in Session : Connected(s) =>
        seen[s] = Passed - Lag(eventId[s], eventPtr, History)

\* The last event of an element, in the ring or read, has the state in which the
\* application has the element, but for a call that is yet to fill its slot.
ShownSet(e) == times[e].set > 0 /\ times[e].reset = 0
LastSet(e) == IF setting[Owner[e]] = e /\ holder # Owner[e]
              THEN ~rtState[e] ELSE rtState[e]
InRing(i) == Between(rd, i, eventWp) \/ (holder # NoEvent /\ i = eventWp)
LastStateKept ==
    \A e \in Elem :
        /\ \A i \in 0..RingLen - 1 :
              /\ InRing(i) /\ ring[i].elem = e
              /\ \A j \in 0..RingLen - 1 :
                    InRing(j) /\ ring[j].elem = e => ring[j].no <= ring[i].no
              => ring[i].state = LastSet(e)
        /\ (\A i \in 0..RingLen - 1 : InRing(i) => ring[i].elem # e) =>
              ShownSet(e) = LastSet(e)

\* When the main loop has read the ring, the times kept by newEvent() show an
\* element as set exactly if the application has it set (rt_state).
TimesShowState ==
    \A e \in Elem :
        rd = eventWp /\ setting[Owner[e]] # e => ShownSet(e) = rtState[e]

\* What newEvent() keeps of the events is right, and nothing leaves its ring:
\* events stay in order at any pace, and none is lost and no time is wrong unless
\* a ring is overrun.
EventInv ==
    /\ EventTypeOK
    /\ CallsInStep /\ RingNumbered /\ ListInOrder /\ SessionsInOrder
    /\ ~MayOverrun => AllRead /\ LastStateKept /\ TimesShowState
    /\ ~MayOverrun /\ ~MayLapSession => AllSent

\* What getEventHistory() returns to a client that has been sent all events:
\* the last events, as many as are kept, from the oldest to the newest, or no
\* event before the first.  For a session that is behind by more than the end of
\* the list it does not hold.
HistoryComplete ==
    \A s \in Session :
        clientPc[s] = "command" /\ eventId[s] = eventPtr =>
            LET h == HistoryOf(s)
            IN  IF recorded = {} THEN \A i \in 1..Len(h) : h[i] = NoEvent
                ELSE /\ Len(h) = IF Cardinality(recorded) < History
                                 THEN Cardinality(recorded) ELSE History
                     /\ \A i \in 1..Len(h) : h[i] # NoEvent
                     /\ h[Len(h)].no = Newest
                     /\ \A i \in 1..Len(h) - 1 : h[i].no < h[i + 1].no

\* "Setting the event causes the corresponding message to be printed to log
\* and all clients" (pdserv.h), first half: the main loop gets every event.
EventsLogged ==
    \A n \in 1..MaxEvents : count >= n ~> n \in recorded

\* The second half: every client is sent the event, or a later one, unless it
\* disconnects.
EventsReachClients ==
    \A n \in 1..MaxEvents, s \in Session :
        count >= n /\ Connected(s) ~> seen[s] >= n \/ ~Connected(s)
=============================================================================
