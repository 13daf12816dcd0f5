----------------------------- MODULE PdoStream ------------------------------
(***************************************************************************)
(* The process data stream of one Task: the chain of PDOs that             *)
(* Task::rt_update() writes into shared memory and SessionTaskData follows *)
(* without any lock.  A PDO is either the list of transferred signals      *)
(* (calculateCopyList) or the values of one cycle (copyData), laid out in  *)
(* the order of that list.  The module composes the stream with the        *)
(* request list of SignalList: a session decodes a Data PDO with the list  *)
(* it loaded last, so stream and request list must stay in step.           *)
(*                                                                         *)
(* The PDO memory is the sequence chain of the PDOs that some session can  *)
(* still reach, oldest first; it holds at most MemFrames of them.  A PDO   *)
(* appears in it when *nextTxPdo is assigned, after the memory barrier.    *)
(* What happens when the real time task laps a session is a parameter.     *)
(***************************************************************************)
EXTENDS SignalList

CONSTANTS
    MemFrames,      \* bound: PDOs the shared memory holds
    SeqMod,         \* PDO sequence numbers wrap around here (2^32 in the code)
    MayLap          \* may the memory wrap between two calls of rxPdo()?

ASSUME StreamAssumption ==
    /\ MemFrames \in Nat \ {0}
    /\ SeqMod \in Nat
    /\ SeqMod > 1
    /\ MayLap \in BOOLEAN

VARIABLES
    (* real time process *)
    rtPc,           \* position in Task::rt_update()
    rtSeqNo,        \* Task::seqNo
    (* shared memory *)
    chain,          \* the PDOs from the oldest one in use to the last one
    (* SessionTaskData of each session *)
    pc,             \* position of the session's thread
    pos,            \* pdo, as a position in chain; 0: the PDO was overwritten
    sid,            \* signalListId
    fetched,        \* the local signals[] of init()
    layout,         \* signalPosition; its range is transferredSet
    seqNo,          \* seqNo
    activeSet,      \* activeSet
    signalBuffer,   \* layout of the PDO signalBuffer points to, or Null
    resync          \* init() was called by rxPdo(), not by the constructor

streamVars == <<rtPc, rtSeqNo, chain, pc, pos, sid, fetched, layout, seqNo,
                activeSet, signalBuffer, resync>>
sessionVars == <<pc, pos, sid, fetched, layout, seqNo, activeSet,
                 signalBuffer, resync>>
vars == <<listVars, streamVars>>

-----------------------------------------------------------------------------
Pdo == [type : {"Empty", "SignalList", "Data"}, signalListId : Nat,
        seqNo : 0..SeqMod - 1, signals : Seq(Signal)]

\* The cleared memory at txMemBegin, which the first PDO will take.
EmptyPdo == [type |-> "Empty", signalListId |-> 0, seqNo |-> 0, signals |-> <<>>]

Elements(list) == {list[i] : i \in DOMAIN list}

StreamInit ==
    /\ ListInit
    /\ rtPc = "idle"
    /\ rtSeqNo = 0
    /\ chain = <<EmptyPdo>>
    /\ pc = [st \in SessionTask |-> "closed"]
    /\ pos = [st \in SessionTask |-> 0]
    /\ sid = [st \in SessionTask |-> 0]
    /\ fetched = [st \in SessionTask |-> <<>>]
    /\ layout = [st \in SessionTask |-> <<>>]
    /\ seqNo = [st \in SessionTask |-> 0]
    /\ activeSet = [st \in SessionTask |-> {}]
    /\ signalBuffer = [st \in SessionTask |-> Null]
    /\ resync = [st \in SessionTask |-> FALSE]

-----------------------------------------------------------------------------
(* Real time task: Task::rt_update()                                        *)

\* "while (*signalListRp != *signalListWp) processSignalList()"
RtProcess ==
    /\ rtPc \in {"idle", "process"}
    /\ rtPc' = "process"
    /\ ProcessRequest
    /\ UNCHANGED <<rtSeqNo, chain, sessionVars>>

RtRelease ==
    /\ ReleaseSlot
    /\ UNCHANGED streamVars

\* Mistake: a changed list is not announced.
RtDrainedSilent ==
    /\ rtPc \in {"idle", "process"}
    /\ ~applied
    /\ rp = wp
    /\ rtPc' = "data"
    /\ UNCHANGED <<listVars, rtSeqNo, chain, sessionVars>>

\* No more requests: a new list is announced before its first data.
RtDrained ==
    /\ rtPc \in {"idle", "process"}
    /\ ~applied
    /\ rp = wp
    /\ rtPc' = IF rtPc = "process" THEN "list" ELSE "data"
    /\ UNCHANGED <<listVars, rtSeqNo, chain, sessionVars>>

RtLayout == copyList[0] \o copyList[1] \o copyList[2] \o copyList[3]

Open(st) == pc[st] # "closed"

\* init() goes round on a Data PDO with another signalListId.
Spins(st) ==
    /\ pc[st] = "wait"
    /\ pos[st] > 0
    /\ chain[pos[st]].type = "Data"
    /\ chain[pos[st]].signalListId # sid[st]

\* The session sleeps: the ring is full or the mutex is taken.
Blocked(st) ==
    /\ call # Null
    /\ pc[st] = "getlist" \/ (call.st = st /\ call.pc = "wait" /\ ~Room)

\* The timing the code relies on: the memory is good for two seconds or ten
\* PDOs and a session reads it every 40 ms, so that a session which goes on
\* whenever it runs is not lapped.  It does not help one that spins, and with
\* MayLap a session may be held up for longer between two calls of rxPdo().
KeepsUp(st) ==
    /\ Open(st)
    /\ pos[st] > 0
    /\ ~Spins(st)
    /\ MayLap => pc[st] \in {"getlist", "wait", "follow"}

\* *nextTxPdo = txPdo.  The PDOs that no session can reach any more are
\* forgotten, and those MemFrames behind are overwritten.  The cleared PDO at
\* txMemBegin is the first one to be written.
Link(pdo) ==
    LET c    == IF chain[1].type = "Empty" THEN <<pdo>> ELSE Append(chain, pdo)
        used == {pos[st] : st \in {t \in SessionTask :
                     \/ KeepsUp(t)
                     \/ Open(t) /\ pos[t] > 0 /\ Len(c) - pos[t] < MemFrames}}
                    \cup {Len(c)}
        cut  == (CHOOSE i \in used : \A j \in used : i <= j) - 1
    IN  /\ \A st \in SessionTask :
               KeepsUp(st) /\ ~Blocked(st) => Len(c) - pos[st] < MemFrames
        /\ chain' = SubSeq(c, cut + 1, Len(c))
        /\ pos' = [st \in SessionTask |->
                       IF pos[st] > cut THEN pos[st] - cut ELSE 0]

\* calculateCopyList()
RtLinkList ==
    /\ rtPc = "list"
    /\ rtPc' = "data"
    /\ Link([type |-> "SignalList", signalListId |-> listIdRt, seqNo |-> 0,
             signals |-> RtLayout])
    /\ UNCHANGED <<listVars, rtSeqNo, pc, sid, fetched, layout, seqNo,
                   activeSet, signalBuffer, resync>>

\* seqNo++ of an unsigned int
NextSeqNo(n) == (n + 1) % SeqMod

\* copyData()
RtLinkData ==
    /\ rtPc = "data"
    /\ rtPc' = "idle"
    /\ rtSeqNo' = NextSeqNo(rtSeqNo)
    /\ Link([type |-> "Data", signalListId |-> listIdRt, seqNo |-> rtSeqNo,
             signals |-> RtLayout])
    /\ UNCHANGED <<listVars, pc, sid, fetched, layout, seqNo, activeSet,
                   signalBuffer, resync>>

-----------------------------------------------------------------------------
(* Session threads                                                          *)

\* The session is not inside Task::subscribe().
Free(st) == call # Null => call.st # st

\* SubscriptionManager and SessionTaskData are constructed; init() follows
\* the chain to its end first.
OpenSession(st) ==
    /\ pc[st] = "closed"
    /\ pc' = [pc EXCEPT ![st] = "getlist"]
    /\ pos' = [pos EXCEPT ![st] = Len(chain)]
    /\ UNCHANGED <<listVars, rtPc, rtSeqNo, chain, sid, fetched, layout,
                   seqNo, activeSet, signalBuffer, resync>>

\* The session ends after SubscriptionManager::clear() has unsubscribed from
\* every signal; its data is deleted.
CloseSession(st) ==
    /\ pc[st] = "idle"
    /\ Free(st)
    /\ subscribedSet[st] = {}
    /\ pc' = [pc EXCEPT ![st] = "closed"]
    /\ pos' = [pos EXCEPT ![st] = 0]
    /\ sid' = [sid EXCEPT ![st] = 0]
    /\ layout' = [layout EXCEPT ![st] = <<>>]
    /\ seqNo' = [seqNo EXCEPT ![st] = 0]
    /\ signalBuffer' = [signalBuffer EXCEPT ![st] = Null]
    /\ resync' = [resync EXCEPT ![st] = FALSE]
    /\ UNCHANGED <<listVars, rtPc, rtSeqNo, chain, fetched, activeSet>>

\* init(): "task->getSignalList(signals, &nelem, &signalListId)"
InitGetList(st) ==
    /\ pc[st] = "getlist"
    /\ call = Null
    /\ fetched' = [fetched EXCEPT ![st] = CurrentList]
    /\ sid' = [sid EXCEPT ![st] = CurrentListId]
    /\ pc' = [pc EXCEPT ![st] = "wait"]
    /\ UNCHANGED <<listVars, rtPc, rtSeqNo, chain, pos, layout, seqNo,
                   activeSet, signalBuffer, resync>>

\* init(): "while (pdo->type != Pdo::Data)" is entered.
InitWait(st) ==
    /\ pc[st] = "wait"
    /\ pos[st] > 0
    /\ chain[pos[st]].type # "Data"
    /\ pc' = [pc EXCEPT ![st] = "follow"]
    /\ UNCHANGED <<listVars, rtPc, rtSeqNo, chain, pos, sid, fetched, layout,
                   seqNo, activeSet, signalBuffer, resync>>

\* init(): "while (!pdo->next) sleep; pdo = pdo->next"
InitFollow(st) ==
    /\ pc[st] = "follow"
    /\ pos[st] \in 1..Len(chain) - 1
    /\ pos' = [pos EXCEPT ![st] = @ + 1]
    /\ pc' = [pc EXCEPT ![st] = "wait"]
    /\ UNCHANGED <<listVars, rtPc, rtSeqNo, chain, sid, fetched, layout,
                   seqNo, activeSet, signalBuffer, resync>>

\* Mistake: signals of another subscription are taken for this one.
LoadAnyId(st, list, id) ==
    /\ layout' = [layout EXCEPT ![st] = list]
    /\ sid' = [sid EXCEPT ![st] = id]
    /\ activeSet' = [activeSet EXCEPT ![st] =
                         @ \cup (Elements(list) \cap subscribedSet[st])]

\* loadSignalList(): subscribed signals become active, but not by a list that
\* is older than the request that inserted them.
LoadSignalList(st, list, id) ==
    /\ layout' = [layout EXCEPT ![st] = list]
    /\ sid' = [sid EXCEPT ![st] = id]
    /\ activeSet' = [activeSet EXCEPT ![st] = @ \cup
                         {s \in Elements(list) \cap subscribedSet[st] :
                              id - subscriptionId[s] >= 0}]

\* Mistake: any data frame ends init().
ListIdIgnored(st) == TRUE

\* "while (pdo->signalListId != signalListId)"
ListIdMatches(st) == chain[pos[st]].signalListId = sid[st]

\* init(): a Data PDO with the right list.  The constructor of
\* SubscriptionManager goes on with rxPdo(); in rxPdo() itself, true is
\* returned without a new signalBuffer.
InitDone(st) ==
    /\ pc[st] = "wait"
    /\ pos[st] > 0
    /\ chain[pos[st]].type = "Data"
    /\ ListIdMatches(st)
    /\ seqNo' = [seqNo EXCEPT ![st] = chain[pos[st]].seqNo]
    /\ LoadSignalList(st, fetched[st], sid[st])
    /\ fetched' = [fetched EXCEPT ![st] = <<>>]
    /\ pc' = [pc EXCEPT ![st] = IF resync[st] THEN "value" ELSE "rx"]
    /\ resync' = [resync EXCEPT ![st] = FALSE]
    /\ UNCHANGED <<listVars, rtPc, rtSeqNo, chain, pos, signalBuffer>>

\* init(): the list is fetched again, pdo stays where it is.
InitAgain(st) ==
    /\ pc[st] = "wait"
    /\ pos[st] > 0
    /\ chain[pos[st]].type = "Data"
    /\ ~ListIdMatches(st)
    /\ pc' = [pc EXCEPT ![st] = "getlist"]
    /\ UNCHANGED <<listVars, rtPc, rtSeqNo, chain, pos, sid, fetched, layout,
                   seqNo, activeSet, signalBuffer, resync>>

\* The memory under init()'s pdo has been written again by the last PDO.
InitReused(st) ==
    /\ pc[st] \in {"getlist", "wait", "follow"}
    /\ pos[st] = 0
    /\ pos' = [pos EXCEPT ![st] = Len(chain)]
    /\ UNCHANGED <<listVars, rtPc, rtSeqNo, chain, pc, sid, fetched, layout,
                   seqNo, activeSet, signalBuffer, resync>>

\* The session calls or is inside rxPdo().
Receiving(st) == pc[st] \in {"idle", "value", "rx"} /\ Free(st)

NextPdo(st) == chain[pos[st] + 1]

\* rxPdo(): a SignalList PDO
RxSignalList(st) ==
    /\ Receiving(st)
    /\ pos[st] \in 1..Len(chain) - 1
    /\ NextPdo(st).type = "SignalList"
    /\ pos' = [pos EXCEPT ![st] = @ + 1]
    /\ LoadSignalList(st, NextPdo(st).signals, NextPdo(st).signalListId)
    /\ pc' = [pc EXCEPT ![st] = "rx"]
    /\ UNCHANGED <<listVars, rtPc, rtSeqNo, chain, fetched, seqNo,
                   signalBuffer, resync>>

InSequence(st) ==
    /\ NextPdo(st).signalListId = sid[st]
    /\ (NextPdo(st).seqNo - seqNo[st]) % SeqMod = 1

\* rxPdo(): the Data PDO that follows the last one; returns true.
RxData(st) ==
    /\ Receiving(st)
    /\ pos[st] \in 1..Len(chain) - 1
    /\ NextPdo(st).type = "Data"
    /\ InSequence(st)
    /\ pos' = [pos EXCEPT ![st] = @ + 1]
    /\ seqNo' = [seqNo EXCEPT ![st] = NextPdo(st).seqNo]
    /\ signalBuffer' = [signalBuffer EXCEPT ![st] = NextPdo(st).signals]
    /\ pc' = [pc EXCEPT ![st] = "value"]
    /\ UNCHANGED <<listVars, rtPc, rtSeqNo, chain, sid, fetched, layout,
                   activeSet, resync>>

\* rxPdo(): "pdo->next" is null; returns false.  A PDO that was overwritten
\* may read so, too.
RxEnd(st) ==
    /\ pc[st] \in {"value", "rx"}
    /\ pos[st] \in {0, Len(chain)}
    /\ pc' = [pc EXCEPT ![st] = "idle"]
    /\ UNCHANGED <<listVars, rtPc, rtSeqNo, chain, pos, sid, fetched, layout,
                   seqNo, activeSet, signalBuffer, resync>>

\* rxPdo(), label out: what follows is not the expected PDO, or the session's
\* own PDO has been overwritten.  init() starts again from the end.
RxOutOfSync(st) ==
    /\ Receiving(st)
    /\ \/ pos[st] = 0
       \/ /\ pos[st] \in 1..Len(chain) - 1
          /\ NextPdo(st).type = "Data"
          /\ ~InSequence(st)
    /\ pos' = [pos EXCEPT ![st] = Len(chain)]
    /\ pc' = [pc EXCEPT ![st] = "getlist"]
    /\ resync' = [resync EXCEPT ![st] = TRUE]
    /\ UNCHANGED <<listVars, rtPc, rtSeqNo, chain, sid, fetched, layout,
                   seqNo, activeSet, signalBuffer>>

\* subscribe() up to Task::subscribe(); an active signal needs no request.
Subscribe(st, s) ==
    /\ pc[st] = "idle"
    /\ s \notin activeSet[st]
    /\ EnterSubscribe(st, s)
    /\ UNCHANGED streamVars

\* unsubscribe(): the signal is inactive before the request is made.
Unsubscribe(st, s) ==
    /\ pc[st] = "idle"
    /\ EnterUnsubscribe(st, s)
    /\ activeSet' = [activeSet EXCEPT ![st] = @ \ {s}]
    /\ UNCHANGED <<rtPc, rtSeqNo, chain, pc, pos, sid, fetched, layout, seqNo,
                   signalBuffer, resync>>

\* Mistake: newSignal() is left to the next SignalList PDO.
SubscribeSharedSilent ==
    /\ AlreadySubscribed
    /\ UNCHANGED streamVars

\* Task::subscribe() returned true: the signal is active at once when it is
\* in the list the session loaded last.
SubscribeShared ==
    /\ AlreadySubscribed
    /\ activeSet' = [activeSet EXCEPT ![call.st] =
                         @ \cup ({call.signal} \cap Elements(layout[call.st]))]
    /\ UNCHANGED <<rtPc, rtSeqNo, chain, pc, pos, sid, fetched, layout, seqNo,
                   signalBuffer, resync>>

RequestStep ==
    /\ StillSubscribed \/ RequestInsert \/ RequestRemove \/ Publish
    /\ UNCHANGED streamVars

-----------------------------------------------------------------------------
RtUpdate ==
    RtProcess \/ RtRelease \/ RtDrained \/ RtLinkList \/ RtLinkData

SyncUp(st) ==
    InitGetList(st) \/ InitWait(st) \/ InitFollow(st) \/ InitDone(st)
                    \/ InitAgain(st) \/ InitReused(st)

RxPdo(st) == RxSignalList(st) \/ RxData(st) \/ RxEnd(st) \/ RxOutOfSync(st)

StreamNext ==
    \/ RtUpdate
    \/ \E st \in SessionTask :
           OpenSession(st) \/ CloseSession(st) \/ SyncUp(st) \/ RxPdo(st)
    \/ \E st \in SessionTask, s \in Signal :
           Subscribe(st, s) \/ Unsubscribe(st, s)
    \/ SubscribeShared
    \/ RequestStep

StreamSpec == StreamInit /\ [][StreamNext]_vars

\* The real time task cycles for ever and waits for no session (strong
\* fairness, because KeepsUp comes and goes with the sessions' positions);
\* session threads keep running, Session::run() reads the stream after every
\* command, and getting the mutex is fair to a thread that asks again and again.
StreamFairSpec ==
    /\ StreamSpec
    /\ SF_vars(RtUpdate)
    /\ WF_vars(SubscribeShared \/ RequestStep)
    /\ \A st \in SessionTask : SF_vars(SyncUp(st)) /\ SF_vars(RxPdo(st))

-----------------------------------------------------------------------------
(* Properties                                                               *)

\* Types of the stream; pdo never points behind the end of the chain.
StreamTypeOK ==
    /\ ListTypeOK
    /\ rtPc \in {"idle", "process", "list", "data"}
    /\ rtSeqNo \in 0..SeqMod - 1
    /\ chain \in Seq(Pdo)
    /\ Len(chain) > 0
    /\ pc \in [SessionTask -> {"closed", "getlist", "wait", "follow", "idle",
                               "rx", "value"}]
    /\ pos \in [SessionTask -> 0..Len(chain)]
    /\ sid \in [SessionTask -> Nat]
    /\ fetched \in [SessionTask -> Seq(Signal)]
    /\ layout \in [SessionTask -> Seq(Signal)]
    /\ seqNo \in [SessionTask -> 0..SeqMod - 1]
    /\ activeSet \in [SessionTask -> SUBSET Signal]
    /\ signalBuffer \in [SessionTask -> Seq(Signal) \cup {Null}]
    /\ resync \in [SessionTask -> BOOLEAN]

\* When rxPdo() returns true, the values in signalBuffer lie where
\* signalPosition says: the layout a session loaded from a SignalList PDO, or
\* from the nrt process in init(), is the one the real time task wrote with.
ValuesDecoded ==
    \A st \in SessionTask : pc[st] = "value" => signalBuffer[st] = layout[st]

\* A signal the session was told of by newSignal() is in every Data PDO the
\* session decodes: "Inform the class that a new variable is being transmitted
\* from the application" (SessionTask.h).
ActiveTransmitted ==
    \A st \in SessionTask :
        pc[st] = "value" => activeSet[st] \subseteq Elements(layout[st])

\* The PDOs in the order rt_update() writes them: a list is followed by its
\* first data, data has the list before it, and numbers go up one by one.
Follows(i) ==
    /\ chain[i].type # "Empty"
    /\ chain[i + 1].type # "Empty"
    /\ chain[i].signalListId <= chain[i + 1].signalListId
    /\ chain[i].type = "SignalList" => chain[i + 1].type = "Data"
    /\ chain[i + 1].type = "Data" =>
           /\ chain[i + 1].signalListId = chain[i].signalListId
           /\ chain[i].type = "Data" =>
                  chain[i + 1].seqNo = NextSeqNo(chain[i].seqNo)
           /\ i > 1 /\ chain[i - 1].type = "Data" /\ chain[i].type # "Data" =>
                  chain[i + 1].seqNo = NextSeqNo(chain[i - 1].seqNo)

\* What rt_update() writes next goes on from the last PDO.
EndInStep ==
    LET last == chain[Len(chain)]
    IN  /\ applied => rtPc = "process"
        /\ last.signalListId <= listIdRt
        /\ last.type = "SignalList" => rtPc = "data"
        /\ last.type # "Empty" /\ rtPc \in {"idle", "data"} =>
               last.signalListId = listIdRt
        /\ last.type = "Data" => rtSeqNo = NextSeqNo(last.seqNo)
        /\ last.type = "SignalList" /\ Len(chain) > 1 =>
               rtSeqNo = NextSeqNo(chain[Len(chain) - 1].seqNo)

\* The session has loaded a list and reads the stream.
Reading(st) == pc[st] \in {"idle", "rx", "value"}

\* signalListId and seqNo of a session that reads the stream are those of the
\* PDO it has read, and of the last Data PDO up to there.
SessionInStep(st) ==
    Reading(st) /\ pos[st] > 0 =>
        LET pdo == chain[pos[st]]
        IN  /\ pdo.type # "Empty"
            /\ sid[st] = pdo.signalListId
            /\ pdo.type = "Data" => seqNo[st] = pdo.seqNo
            /\ pdo.type # "Data" => NextSeqNo(seqNo[st]) =
                   IF pos[st] = Len(chain) THEN rtSeqNo
                                           ELSE chain[pos[st] + 1].seqNo

ChainInStep ==
    /\ \A i \in 1..Len(chain) - 1 : Follows(i)
    /\ EndInStep
    /\ \A st \in SessionTask : SessionInStep(st)

Flat(lists) == lists[0] \o lists[1] \o lists[2] \o lists[3]

\* The lists of signals in the system, with the ids they go by: those of the
\* nrt process and of the requests in the ring, those in the stream, and those
\* that sessions fetched in init() or loaded.
RingLists ==
    {<<slot[i].signalListId, Flat(after[i])>> : i \in Live}
        \cup {<<listIdNrt, CurrentList>>}

StreamLists ==
    {<<chain[i].signalListId, chain[i].signals>> :
        i \in {j \in 1..Len(chain) : chain[j].type # "Empty"}}

FetchedLists ==
    {<<sid[st], fetched[st]>> :
        st \in {t \in SessionTask : pc[t] \in {"wait", "follow"}}}

LoadedLists ==
    {<<sid[st], layout[st]>> : st \in {t \in SessionTask : Reading(t)}}

NamedLists == RingLists \cup StreamLists \cup FetchedLists \cup LoadedLists

\* The id names the list: a session that compares ids compares layouts.
IdNamesList ==
    \A p, q \in NamedLists : p[1] = q[1] => p[2] = q[2]

\* A signal in use is in every list since the request that inserted it.
InUseListed ==
    /\ \A s \in Signal : subscriptionId[s] <= listIdNrt
    /\ \A p \in NamedLists :
           /\ p[1] \in 0..listIdNrt
           /\ \A s \in Signal : sessions[s] # {} /\ p[1] >= subscriptionId[s]
                                    => s \in Elements(p[2])

\* The session inside Task::subscribe() reads no PDO meanwhile.
CallerIdle == call # Null => pc[call.st] = "idle"

\* rxPdo() goes through its out: path only after the memory wrapped.
ResyncMeansLap ==
    \A st \in SessionTask :
        /\ Reading(st) /\ pos[st] = 0 => MayLap
        /\ resync[st] => MayLap

OneSession == \A st, t \in SessionTask : st = t

\* What is active was subscribed to before the list the session goes by.
ActiveCurrent ==
    \A st \in SessionTask : \A s \in activeSet[st] :
        /\ s \in subscribedSet[st]
        /\ st \in sessions[s]
        /\ pc[st] # "getlist" => subscriptionId[s] <= sid[st]

\* The stream and its sessions (Task.cpp, SessionTaskData.cpp): types, PDOs
\* and sessions in step, ids that name lists and, as long as no other session
\* shares its signals, what a session takes for active is in every frame it
\* decodes.
StreamInv ==
    /\ StreamTypeOK
    /\ ChainInStep
    /\ IdNamesList
    /\ InUseListed
    /\ CallerIdle
    /\ ResyncMeansLap
    /\ OneSession => ActiveCurrent /\ ActiveTransmitted

\* A session is thrown out of the stream (rxPdo takes its out: path) only when
\* its PDO was overwritten, whatever the sessions subscribe to: lists, their ids
\* and the sequence numbers alone never do it, before or after a new start.
OutOfSyncMeansLapped ==
    [][\A st \in SessionTask :
           resync'[st] => resync[st] \/ pos[st] = 0]_vars

\* init() "points to the end of the pdo list" (SessionTaskData.cpp): a session
\* that waits there for its data frame follows the list and is not still on
\* the same PDO when the real time task overwrites it.
InitKeepsUp ==
    \A st \in SessionTask :
        pc[st] \in {"getlist", "wait", "follow"} => pos[st] > 0

\* "The value of signal is stored to the db" (pdserv.conf): Task::Persistent is
\* a session that subscribes once; as soon as nrt_update() has polled it,
\* getPersistentValue() returns true.  The signal is active then, and
\* signalBuffer holds its value where signalPosition says.
PersistentValueValid ==
    \A st \in SessionTask : \A s \in subscribedSet[st] :
        pc[st] = "idle" /\ Free(st) =>
            s \in activeSet[st] /\ signalBuffer[st] = layout[st]

\* A signal a session subscribes to becomes active, unless it is given up:
\* either by a SignalList PDO or at once, when others use the signal already
\* (SessionTaskData::subscribe and loadSignalList).
SubscribedBecomesActive ==
    \A st \in SessionTask, s \in Signal :
        s \in subscribedSet[st] ~>
            s \in activeSet[st] \/ s \notin subscribedSet[st]
=============================================================================
