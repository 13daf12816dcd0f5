----------------------------- MODULE ShmemLayout ----------------------------
(***************************************************************************)
(* The application registers its tasks, signals, parameters and events     *)
(* through the C interface; prefork_init() then adds up how much shared    *)
(* memory they need, and lays it out in a second calculation.              *)
(*                                                                         *)
(* Addresses are bytes from the beginning of the shared memory, which      *)
(* mmap() aligns; sizes are those of a machine with 64 bit.  A variable is *)
(* its memSize and the align() of its data type.                           *)
(***************************************************************************)
EXTENDS Integers, Sequences, FiniteSets

CONSTANTS
    VarTypes,       \* variables an application may have: [memSize, align]
    Periods,        \* bufferTime / sampleTime of a task, rounded
    EventSizes,     \* nelem of an event
    MaxTasks, MaxSignals, MaxParams, MaxEvents      \* bounds

ASSUME ShmemAssumption ==
    /\ \A v \in VarTypes : v.align \in {1, 2, 4, 8} /\ v.memSize \in Nat
    /\ Periods \subseteq Nat /\ EventSizes \subseteq Nat

VARIABLES
    tasks,          \* what was registered of each task
    params, events, \* the parameters, and nelem of the events
    stage,          \* "register", "forked" or "enomem"
    shmem,          \* the layout
    rt, nrt         \* copyList and signalCopyList of each task, by process

layoutVars == <<tasks, params, events, stage, shmem, rt, nrt>>

\* f[1] + ... + f[n]; the sum, and the largest element, of a sequence
SumTo(f, n) ==
    LET s[i \in 0..n] == IF i = 0 THEN 0 ELSE s[i - 1] + f[i] IN s[n]
Sum(seq) == SumTo(seq, Len(seq))
Max0(seq) ==
    CHOOSE m \in {0} \cup {seq[i] : i \in DOMAIN seq} :
        \A i \in DOMAIN seq : seq[i] <= m

\* ptr_align()
Align(n) == 8 * ((n + 7) \div 8)

\* dataTypeIndex
Index(align) == CASE align = 8 -> 0 [] align = 4 -> 1 [] align = 2 -> 2
                  [] OTHER -> 3

\* sizeof(Pdo), the offset of its data; sizeof(SignalList), sizeof(EventData)
SizeofPdo == 80
PdoData == 72
SizeofSignalList == 24
SizeofEventData == 40
EventLen == 10

-----------------------------------------------------------------------------
(* Registration                                                             *)

LayoutInit ==
    /\ tasks = <<>> /\ params = <<>> /\ events = <<>>
    /\ stage = "register"
    /\ shmem = <<>> /\ rt = <<>> /\ nrt = <<>>

AddTask(periods) ==
    /\ stage = "register" /\ Len(tasks) < MaxTasks
    /\ tasks' = Append(tasks, [periods |-> periods, signals |-> <<>>,
                               signalMemSize |-> 0,
                               signalTypeCount |-> [i \in 0..3 |-> 0]])
    /\ UNCHANGED <<params, events, stage, shmem, rt, nrt>>

AddSignal(t, v) ==
    /\ stage = "register" /\ Len(tasks[t].signals) < MaxSignals
    /\ tasks' = [tasks EXCEPT ![t].signals = Append(@, v),
                              ![t].signalMemSize = @ + v.memSize,
                              ![t].signalTypeCount[Index(v.align)] = @ + 1]
    /\ UNCHANGED <<params, events, stage, shmem, rt, nrt>>

AddParameter(v) ==
    /\ stage = "register" /\ Len(params) < MaxParams
    /\ params' = Append(params, v)
    /\ UNCHANGED <<tasks, events, stage, shmem, rt, nrt>>

AddEvent(n) ==
    /\ stage = "register" /\ Len(events) < MaxEvents
    /\ events' = Append(events, n)
    /\ UNCHANGED <<tasks, params, stage, shmem, rt, nrt>>

-----------------------------------------------------------------------------
(* The memory that is needed                                                *)

MaxSignalSize ==
    Max0([t \in DOMAIN tasks |->
             Max0([i \in DOMAIN tasks[t].signals |-> tasks[t].signals[i].memSize])])

\* parameterDataOffset[i] before the parameters get their addresses: all
\* parameters of the wider types come first.
ParameterDataOffset(i) ==
    Sum([k \in DOMAIN params |->
            IF Index(params[k].align) < i THEN params[k].memSize ELSE 0])

MinPdoCount(t) == IF t.periods < 10 THEN 10 ELSE t.periods

\* Task::getShmemSpace()
GetShmemSpace(t) ==
    8 + 8 + 2 * Len(t.signals) * SizeofSignalList
      + (SizeofPdo + t.signalMemSize) * MinPdoCount(t)

TaskMemSize(t) == Align(GetShmemSpace(tasks[t]))

\* Mistake: no allowance for what aligning costs.
ShmemLenNoFudge ==
    MaxSignalSize + ParameterDataOffset(4)
      + SizeofEventData * EventLen * Sum(events) + 8
      + Sum([t \in DOMAIN tasks |-> TaskMemSize(t)])

ShmemLen ==
    MaxSignalSize + ParameterDataOffset(4)
      + SizeofEventData * EventLen * Sum(events) + 8
      + Sum([t \in DOMAIN tasks |-> TaskMemSize(t)])
      + (10 + Len(tasks)) * 8                           \* fudge factor

-----------------------------------------------------------------------------
(* How it is laid out                                                       *)

\* shmAddr: behind the earlier parameters of the same group
ParamAddr(k) ==
    LET Same(j) == Index(params[j].align) = Index(params[k].align)
    IN  ParameterDataOffset(Index(params[k].align))
          + Sum([j \in 1..k - 1 |-> IF Same(j) THEN params[j].memSize ELSE 0])

SignalData == Align(ParameterDataOffset(4))

\* buf of task t; of the task behind the last one: eventDataWp
TaskBuf(t) ==
    Align(SignalData + MaxSignalSize) + Sum([j \in 1..t - 1 |-> TaskMemSize(j)])

\* Task::prepare()
PreparedTask(t) ==
    LET signalList == Align(TaskBuf(t) + 8 + 8)
        listEnd    == signalList + 2 * Len(tasks[t].signals) * SizeofSignalList
        end        == TaskBuf(t) + TaskMemSize(t)
    IN  [signalListRp |-> TaskBuf(t), signalList |-> signalList,
         signalListEnd |-> listEnd, txMemBegin |-> Align(listEnd),
         txMemEnd |-> end, nextTxPdo |-> Align(end) - 16]

\* The ring of events is behind the tasks.
EventDataStart == Align(TaskBuf(Len(tasks) + 1) + 8)
EventDataEnd == EventDataStart + SizeofEventData * EventLen * Sum(events)

\* prefork_init(): where everything is
Layout ==
    [len |-> ShmemLen,
     param |-> [k \in DOMAIN params |-> ParamAddr(k)],
     signalData |-> SignalData,
     task |-> [t \in DOMAIN tasks |-> PreparedTask(t)],
     eventDataWp |-> TaskBuf(Len(tasks) + 1),
     eventDataStart |-> EventDataStart, eventDataEnd |-> EventDataEnd]

PreforkInit ==
    /\ stage = "register"
    /\ shmem' = Layout
    /\ stage' = IF EventDataEnd + SizeofEventData > ShmemLen
                  THEN "enomem" ELSE "forked"
    /\ UNCHANGED <<tasks, params, events, rt, nrt>>

\* rt_init() of all tasks: where the four lists begin in the array
CopyLists ==
    [t \in DOMAIN tasks |->
        [size |-> Len(tasks[t].signals) + 4,
         list |-> [i \in 0..3 |->
             Sum([j \in 1..i |-> tasks[t].signalTypeCount[j - 1] + 1])]]]

RtInit ==
    /\ stage = "forked" /\ rt = <<>> /\ tasks # <<>>
    /\ rt' = CopyLists
    /\ UNCHANGED <<tasks, params, events, stage, shmem, nrt>>

\* nrt_init() of all tasks; this list has no end marks.
SignalCopyLists ==
    [t \in DOMAIN tasks |->
        [size |-> Len(tasks[t].signals),
         list |-> [i \in 0..3 |->
             Sum([j \in 1..i |-> tasks[t].signalTypeCount[j - 1]])]]]

NrtInit ==
    /\ stage = "forked" /\ nrt = <<>> /\ tasks # <<>>
    /\ nrt' = SignalCopyLists
    /\ UNCHANGED <<tasks, params, events, stage, shmem, rt>>

LayoutNext ==
    \/ \E p \in Periods : AddTask(p)
    \/ \E v \in VarTypes : AddParameter(v) \/ \E t \in DOMAIN tasks : AddSignal(t, v)
    \/ \E n \in EventSizes : AddEvent(n)
    \/ PreforkInit \/ RtInit \/ NrtInit

LayoutSpec == LayoutInit /\ [][LayoutNext]_layoutVars

-----------------------------------------------------------------------------
(* Properties                                                               *)

\* The areas that are in use, as sets of pairs <<first byte, byte behind>>
ParamAreas == {<<shmem.param[k], shmem.param[k] + params[k].memSize>> :
                  k \in DOMAIN params}
TaskAreas(t) ==
    {<<t.signalListRp, t.signalListRp + 16>>, <<t.signalList, t.signalListEnd>>,
     <<t.txMemBegin, t.txMemEnd>>}
OtherAreas ==
    {<<shmem.signalData, shmem.signalData + MaxSignalSize>>,
     <<shmem.eventDataWp, shmem.eventDataWp + 8>>,
     <<shmem.eventDataStart, shmem.eventDataEnd>>}
    \cup UNION {TaskAreas(shmem.task[t]) : t \in DOMAIN tasks}
Apart(a, b) == a = b \/ a[2] <= b[1] \/ b[2] <= a[1]

\* A variable whose size is a multiple of its alignment: every one but a compound
\* that is packed
Padded(v) == v.memSize % v.align = 0

\* What is in shared memory lies inside of it, no two things overlap, and
\* everything is aligned, whatever the application registers in which order; the
\* parameters are if none of them is packed.
AreasApart ==
    stage = "forked" =>
        /\ \A a, b \in ParamAreas \cup OtherAreas : Apart(a, b)
        /\ \A k, j \in DOMAIN params :
              k # j /\ params[k].memSize # 0 /\ params[j].memSize # 0
                 => shmem.param[k] # shmem.param[j]
        /\ \A a \in ParamAreas \cup OtherAreas : a[1] >= 0 /\ a[2] <= shmem.len
        /\ (\A k \in DOMAIN params : Padded(params[k]))
              => \A k \in DOMAIN params : shmem.param[k] % params[k].align = 0
        /\ \A a \in OtherAreas : a[1] % 8 = 0

\* prefork_init() never runs out of the memory it has asked for.
EnoughMemory == stage # "enomem"

\* A Pdo of that many bytes of data at pos makes rt_update() start again at the
\* beginning.
NoRoom(t, pos, bytes) == pos + PdoData + bytes >= t.txMemEnd

\* The memory of a task holds a list of all its signals, and as many Pdos with
\* all of them as were asked for: a session has that much time to read them.
FramesKept ==
    stage = "forked" =>
        \A t \in DOMAIN tasks :
            LET m == shmem.task[t]
                d == tasks[t].signalMemSize
            IN  /\ ~NoRoom(m, m.txMemBegin, 8 * Len(tasks[t].signals))
                /\ ~NoRoom(m, m.txMemBegin
                              + (MinPdoCount(tasks[t]) - 1) * Align(PdoData + d), d)

\* Each of the four lists of a process has room for all signals of its width,
\* those of the real time process for an end mark as well.
RoomOf(lists, i) == (IF i = 3 THEN lists.size ELSE lists.list[i + 1]) - lists.list[i]
OfWidth(t, i) ==
    Cardinality({k \in DOMAIN tasks[t].signals :
                    Index(tasks[t].signals[k].align) = i})
ListsHold ==
    \A i \in 0..3 :
        /\ \A t \in DOMAIN rt : RoomOf(rt[t], i) >= OfWidth(t, i) + 1
        /\ \A t \in DOMAIN nrt : RoomOf(nrt[t], i) >= OfWidth(t, i)

\* prefork_init() and the init functions of the tasks: what they put into shared
\* memory has its own, sufficient room.
LayoutInv == AreasApart /\ EnoughMemory /\ FramesKept /\ ListsHold
=============================================================================
