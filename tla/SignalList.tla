----------------------------- MODULE SignalList -----------------------------
(***************************************************************************)
(* The subscription request list of one Task (lib/Task.cpp).               *)
(*                                                                         *)
(* After Main::setup() has forked there are two copies of every Task: one  *)
(* in the real time process and one in the communications (nrt) process.   *)
(* They share a ring of 2*n requests in shared memory.  Session threads of *)
(* the nrt process call Task::subscribe(), which appends a request under   *)
(* the Task's mutex and moves *signalListWp; the real time task consumes   *)
(* requests in Task::processSignalList() and moves *signalListRp.  Both    *)
(* sides keep a list of the transferred signals for every data width; the  *)
(* order of these lists is the layout of the process data, so the two      *)
(* sides must agree on it although neither ever reads the other's list.    *)
(***************************************************************************)
EXTENDS Integers, Sequences, FiniteSets

CONSTANTS
    Signal,         \* the signals of the task
    SessionTask,    \* the SessionTaskData objects, one per client session
    WidthOf,        \* WidthOf[s]: index of the copy list s belongs to
    Null,           \* a null pointer
    MaxListId       \* bound: number of requests made in a behaviour

ASSUME SignalAssumption ==
    /\ IsFiniteSet(Signal)
    /\ Signal # {}

ASSUME WidthAssumption == WidthOf \in [Signal -> 0..3]

ASSUME BoundAssumption == MaxListId \in Nat

VARIABLES
    (* private to the nrt process, guarded by Task::mutex *)
    sessions,       \* Signal::sessions
    copyListPos,    \* Signal::copyListPos
    subscriptionId, \* Signal::subscriptionId
    signalCopyList, \* Task::signalCopyList, signalTypeCount is its length
    listIdNrt,      \* Task::signalListId of the nrt copy
    call,           \* the Task::subscribe() call that holds the mutex, or Null
    (* private to a session thread *)
    subscribedSet,  \* SessionTaskData::subscribedSet
    (* shared memory *)
    slot,           \* signalList[0 .. 2n-1]
    rp, wp,         \* *signalListRp and *signalListWp, as indices
    (* private to the real time process *)
    copyList,       \* Task::copyList, signalTypeCount is its length
    listIdRt,       \* Task::signalListId of the rt copy
    applied,        \* processSignalList() stands between list and read pointer
    (* history variable *)
    after           \* after[i]: signalCopyList once request slot[i] was made

nrtVars  == <<sessions, copyListPos, subscriptionId, signalCopyList,
              listIdNrt, call, subscribedSet>>
shmVars  == <<slot, rp, wp>>
rtVars   == <<copyList, listIdRt, applied>>
listVars == <<nrtVars, shmVars, rtVars, after>>

-----------------------------------------------------------------------------
Width == 0..3

\* The ring holds two requests for every signal (Task::prepare).
ListSize == 2 * Cardinality(Signal)

Slots == 0..ListSize - 1

\* "if (++wp == signalListEnd) wp = signalList"
NextSlot(i) == IF i + 1 = ListSize THEN 0 ELSE i + 1

\* The last signal of the list takes the place of the removed one.
SwapRemove(list, p) ==
    [i \in 1..Len(list) - 1 |-> IF i = p THEN list[Len(list)] ELSE list[i]]

\* Mistake: the tail is shifted down instead.
ShiftRemove(list, p) ==
    [i \in 1..Len(list) - 1 |-> IF i < p THEN list[i] ELSE list[i + 1]]

EmptyLists == [w \in Width |-> <<>>]

Request == [action : {"None", "Insert", "Remove"}, signal : Signal \cup {Null},
            signalPosition : Nat, signalListId : Nat]

\* Shared memory is cleared before the fork (Main::prefork_init).
ZeroRequest == [action |-> "None", signal |-> Null,
                signalPosition |-> 0, signalListId |-> 0]

Call == [st : SessionTask, signal : Signal, insert : BOOLEAN,
         pc : {"wait", "publish"}]

ASSUME NullAssumption == Null \notin Signal /\ Null \notin Call

ListInit ==
    /\ sessions = [s \in Signal |-> {}]
    /\ copyListPos = [s \in Signal |-> 0]
    /\ subscriptionId = [s \in Signal |-> 0]
    /\ signalCopyList = EmptyLists
    /\ listIdNrt = 0
    /\ call = Null
    /\ subscribedSet = [st \in SessionTask |-> {}]
    /\ slot = [i \in Slots |-> ZeroRequest]
    /\ rp = 0
    /\ wp = 0
    /\ copyList = EmptyLists
    /\ listIdRt = 0
    /\ applied = FALSE
    /\ after = [i \in Slots |-> EmptyLists]

-----------------------------------------------------------------------------
(* Session threads: Task::subscribe().  The mutex is held from Enter to the *)
(* return, also while the call sleeps because the ring is full.             *)

\* MutexLock lock(mutex)
Enter(st, s, insert) ==
    /\ call = Null
    /\ listIdNrt < MaxListId
    /\ call' = [st |-> st, signal |-> s, insert |-> insert, pc |-> "wait"]
    /\ UNCHANGED <<sessions, copyListPos, subscriptionId, signalCopyList,
                   listIdNrt, shmVars, rtVars, after>>

\* subscribedSet.insert(s).second and task->subscribe(s, this, true)
EnterSubscribe(st, s) ==
    /\ s \notin subscribedSet[st]
    /\ subscribedSet' = [subscribedSet EXCEPT ![st] = @ \cup {s}]
    /\ Enter(st, s, TRUE)

\* subscribedSet.erase(s) and task->subscribe(s, this, false)
EnterUnsubscribe(st, s) ==
    /\ s \in subscribedSet[st]
    /\ subscribedSet' = [subscribedSet EXCEPT ![st] = @ \ {s}]
    /\ Enter(st, s, FALSE)

\* Mistake: the ring is never considered full.
RoomAlways == TRUE

\* "while (wp == *signalListRp) sleep": one slot always stays free.
Room == NextSlot(wp) # rp

Waiting(insert) == call # Null /\ call.pc = "wait" /\ call.insert = insert

\* The signal is transferred for another session already: no request is made,
\* but wp->signal has been written into the free slot.  Returns true.
AlreadySubscribed ==
    /\ Waiting(TRUE)
    /\ Room
    /\ sessions[call.signal] # {}
    /\ sessions' = [sessions EXCEPT ![call.signal] = @ \cup {call.st}]
    /\ slot' = [slot EXCEPT ![NextSlot(wp)].signal = call.signal]
    /\ call' = Null
    /\ UNCHANGED <<copyListPos, subscriptionId, signalCopyList, listIdNrt,
                   subscribedSet, rp, wp, rtVars, after>>

\* The signal was not subscribed, or another session still needs it.  Returns
\* true.
StillSubscribed ==
    /\ Waiting(FALSE)
    /\ Room
    /\ sessions[call.signal] = {} \/ sessions[call.signal] \ {call.st} # {}
    /\ sessions' = [sessions EXCEPT ![call.signal] = @ \ {call.st}]
    /\ slot' = [slot EXCEPT ![NextSlot(wp)].signal = call.signal]
    /\ call' = Null
    /\ UNCHANGED <<copyListPos, subscriptionId, signalCopyList, listIdNrt,
                   subscribedSet, rp, wp, rtVars, after>>

\* Common tail of both requests up to the memory barrier.
NumberRequest ==
    /\ listIdNrt' = listIdNrt + 1
    /\ subscriptionId' = [subscriptionId EXCEPT ![call.signal] = listIdNrt + 1]
    /\ call' = [call EXCEPT !.pc = "publish"]
    /\ after' = [after EXCEPT ![NextSlot(wp)] = signalCopyList']
    /\ UNCHANGED <<subscribedSet, rp, wp, rtVars>>

\* First subscriber: the signal is appended to the list of its width.
RequestInsert ==
    /\ Waiting(TRUE)
    /\ Room
    /\ sessions[call.signal] = {}
    /\ sessions' = [sessions EXCEPT ![call.signal] = {call.st}]
    /\ copyListPos' = [copyListPos EXCEPT ![call.signal] =
                           Len(signalCopyList[WidthOf[call.signal]])]
    /\ signalCopyList' = [signalCopyList EXCEPT ![WidthOf[call.signal]] =
                              Append(@, call.signal)]
    /\ slot' = [slot EXCEPT ![NextSlot(wp)] =
                    [@ EXCEPT !.action = "Insert", !.signal = call.signal,
                              !.signalListId = listIdNrt + 1]]
    /\ NumberRequest

\* Mistake: the signal that fills the gap keeps its old position.
NotRepositioned(s, pos) == copyListPos

\* "signals[cs->index]->copyListPos = signal->copyListPos"
Repositioned(s, pos) == [copyListPos EXCEPT ![s] = pos]

\* Last subscriber gone: the last signal of the list moves to its position.
RequestRemove ==
    /\ Waiting(FALSE)
    /\ Room
    /\ sessions[call.signal] # {}
    /\ sessions[call.signal] \ {call.st} = {}
    /\ sessions' = [sessions EXCEPT ![call.signal] = {}]
    /\ LET w    == WidthOf[call.signal]
           pos  == copyListPos[call.signal]
           last == signalCopyList[w][Len(signalCopyList[w])]
       IN  /\ signalCopyList' = [signalCopyList EXCEPT ![w] =
                                     SwapRemove(@, pos + 1)]
           /\ copyListPos' = Repositioned(last, pos)
           /\ slot' = [slot EXCEPT ![NextSlot(wp)] =
                           [action |-> "Remove", signal |-> call.signal,
                            signalPosition |-> pos,
                            signalListId |-> listIdNrt + 1]]
    /\ NumberRequest

\* "*signalListWp = wp" after the barrier.  Returns false.
Publish ==
    /\ call # Null
    /\ call.pc = "publish"
    /\ wp' = NextSlot(wp)
    /\ call' = Null
    /\ UNCHANGED <<sessions, copyListPos, subscriptionId, signalCopyList,
                   listIdNrt, subscribedSet, slot, rp, rtVars, after>>

\* Task::getSignalList(), called with the mutex free: the copy list flattened
\* from width 0 to 3 and the id of the last published request.
CurrentList ==
    signalCopyList[0] \o signalCopyList[1] \o signalCopyList[2]
                      \o signalCopyList[3]

CurrentListId == slot[wp].signalListId

-----------------------------------------------------------------------------
(* Real time task: processSignalList()                                      *)

\* Mistake: the rt side closes the gap in another way than the nrt side.
ApplyShifted(lists, r) ==
    LET w == WidthOf[r.signal]
    IN  IF r.action = "Insert"
        THEN [lists EXCEPT ![w] = Append(@, r.signal)]
        ELSE [lists EXCEPT ![w] = ShiftRemove(@, r.signalPosition + 1)]

\* Effect of one request on the rt copy lists.
ApplyRequest(lists, r) ==
    LET w == WidthOf[r.signal]
    IN  IF r.action = "Insert"
        THEN [lists EXCEPT ![w] = Append(@, r.signal)]
        ELSE [lists EXCEPT ![w] = SwapRemove(@, r.signalPosition + 1)]

\* Mistake: the rt task waits for the Task's mutex.
ProcessLocked ==
    /\ call = Null
    /\ ~applied
    /\ rp # wp
    /\ copyList' = ApplyRequest(copyList, slot[NextSlot(rp)])
    /\ listIdRt' = slot[NextSlot(rp)].signalListId
    /\ applied' = TRUE
    /\ UNCHANGED <<nrtVars, shmVars, after>>

\* Up to the memory barrier.
ProcessRequest ==
    /\ ~applied
    /\ rp # wp
    /\ copyList' = ApplyRequest(copyList, slot[NextSlot(rp)])
    /\ listIdRt' = slot[NextSlot(rp)].signalListId
    /\ applied' = TRUE
    /\ UNCHANGED <<nrtVars, shmVars, after>>

\* Mistake: the read pointer jumps to the write pointer of the moment, past
\* requests published since the one just applied.
ReleaseAll ==
    /\ applied
    /\ rp' = wp
    /\ applied' = FALSE
    /\ UNCHANGED <<nrtVars, slot, wp, copyList, listIdRt, after>>

\* "*signalListRp = sp" hands the slot back.
ReleaseSlot ==
    /\ applied
    /\ rp' = NextSlot(rp)
    /\ applied' = FALSE
    /\ UNCHANGED <<nrtVars, slot, wp, copyList, listIdRt, after>>

-----------------------------------------------------------------------------
SubscribeCall ==
    AlreadySubscribed \/ StillSubscribed \/ RequestInsert \/ RequestRemove
                      \/ Publish

ListNext ==
    \/ \E st \in SessionTask, s \in Signal :
           EnterSubscribe(st, s) \/ EnterUnsubscribe(st, s)
    \/ SubscribeCall
    \/ ProcessRequest
    \/ ReleaseSlot

ListSpec == ListInit /\ [][ListNext]_listVars

\* The real time task calls pdserv_update() again and again and a thread that
\* holds the mutex keeps running; nothing obliges a client to (un)subscribe.
ListFairSpec ==
    /\ ListSpec
    /\ WF_listVars(ProcessRequest)
    /\ WF_listVars(ReleaseSlot)
    /\ WF_listVars(SubscribeCall)

-----------------------------------------------------------------------------
(* Properties                                                               *)

\* Types; the two ring pointers of Task::prepare never leave the ring.
ListTypeOK ==
    /\ sessions \in [Signal -> SUBSET SessionTask]
    /\ copyListPos \in [Signal -> Nat]
    /\ subscriptionId \in [Signal -> Nat]
    /\ signalCopyList \in [Width -> Seq(Signal)]
    /\ listIdNrt \in Nat
    /\ call \in Call \cup {Null}
    /\ subscribedSet \in [SessionTask -> SUBSET Signal]
    /\ slot \in [Slots -> Request]
    /\ rp \in Slots
    /\ wp \in Slots
    /\ copyList \in [Width -> Seq(Signal)]
    /\ listIdRt \in Nat
    /\ applied \in BOOLEAN
    /\ after \in [Slots -> [Width -> Seq(Signal)]]

\* Once the real time task has consumed every published request, both
\* processes hold the same copy lists in the same order under the same id:
\* SessionTaskData::init() decodes process data laid out by the rt copyList
\* with the nrt signalCopyList, and nothing else keeps the two in step.
DrainedListsAgree ==
    (rp = wp /\ (call = Null \/ call.pc = "wait"))
        => copyList = signalCopyList /\ listIdRt = listIdNrt

\* The position in a Remove request is the one computed by the nrt process
\* when it made the request; when the rt task gets to it, the signal at that
\* position of its own list is the one to remove (processSignalList).
RemoveTargetsSignal ==
    (~applied /\ rp # wp /\ slot[NextSlot(rp)].action = "Remove")
        => LET r    == slot[NextSlot(rp)]
               list == copyList[WidthOf[r.signal]]
           IN  /\ r.signalPosition + 1 \in DOMAIN list
               /\ list[r.signalPosition + 1] = r.signal

\* A signal occurs in the nrt copy lists, exactly once and where copyListPos
\* says, if and only if some session holds it: signalCopyList was sized for
\* one entry per signal, and a later removal relies on the position.
CopyListExact ==
    /\ \A s \in Signal : sessions[s] # {} =>
           /\ copyListPos[s] + 1 \in DOMAIN signalCopyList[WidthOf[s]]
           /\ signalCopyList[WidthOf[s]][copyListPos[s] + 1] = s
    /\ \A w \in Width : \A i \in DOMAIN signalCopyList[w] :
           LET s == signalCopyList[w][i]
           IN  /\ WidthOf[s] = w
               /\ sessions[s] # {}
               /\ copyListPos[s] = i - 1

\* The real time task takes every request once and in the order of their
\* ids, whatever the two pointers do at the end of the ring.
RequestsInOrder == [][listIdRt' \in {listIdRt, listIdRt + 1}]_listVars

\* Task::subscribe() sleeps with the mutex held while the ring is full; it
\* gets its slot and gives the mutex back, provided the real time task keeps
\* calling rt_update().
SubscribeReturns == (call # Null) ~> (call = Null)

-----------------------------------------------------------------------------
(* The inductive invariant                                                  *)

\* Task::subscribe() is between the barrier and the move of the write pointer.
Unpublished == call # Null /\ call.pc = "publish"

\* Slots from the read to the write pointer, both included: the last request
\* the rt task has finished with and those it still has to read.
Live == IF rp <= wp THEN rp..wp ELSE (rp..ListSize - 1) \cup (0..wp)

\* Request slot[j] leads from the lists after[i] to the lists after[j].
Leads(i, j) ==
    LET r == slot[j]
    IN  /\ r.signal \in Signal
        /\ r.action \in {"Insert", "Remove"}
        /\ r.action = "Remove" =>
               /\ r.signalPosition + 1 \in DOMAIN after[i][WidthOf[r.signal]]
               /\ after[i][WidthOf[r.signal]][r.signalPosition + 1] = r.signal
        /\ after[j] = ApplyRequest(after[i], r)
        /\ r.signalListId = slot[i].signalListId + 1

\* Sessions and signals know of each other, except in the call under way.
SubscribersMatch ==
    \A st \in SessionTask, s \in Signal :
        IF call # Null /\ call.pc = "wait" /\ call.st = st /\ call.signal = s
        THEN /\ s \in subscribedSet[st] <=> call.insert
             /\ st \in sessions[s] <=> ~call.insert
        ELSE s \in subscribedSet[st] <=> st \in sessions[s]

\* Following the requests from the read pointer to the write pointer one gets
\* to the lists of the nrt process; a request that is written but not yet
\* published is one more link of the chain.
RingChained ==
    /\ \A i \in Live \ {wp} : Leads(i, NextSlot(i))
    /\ IF Unpublished
       THEN /\ NextSlot(wp) # rp
            /\ Leads(wp, NextSlot(wp))
            /\ signalCopyList = after[NextSlot(wp)]
            /\ listIdNrt = slot[NextSlot(wp)].signalListId
       ELSE /\ signalCopyList = after[wp]
            /\ listIdNrt = slot[wp].signalListId

\* The rt lists are those after the last request processSignalList() finished.
RtInStep ==
    LET i == IF applied THEN NextSlot(rp) ELSE rp
    IN  /\ applied => rp # wp
        /\ copyList = after[i]
        /\ listIdRt = slot[i].signalListId

\* What Task::subscribe() and Task::processSignalList() keep together: the
\* requests in the ring lead from the rt copy lists to the nrt copy lists.
ListInv ==
    ListTypeOK /\ CopyListExact /\ SubscribersMatch /\ RingChained /\ RtInStep

=============================================================================
