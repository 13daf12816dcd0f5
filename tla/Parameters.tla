----------------------------- MODULE Parameters -----------------------------
(***************************************************************************)
(* Parameters: a client sets a value, the session thread carries it through *)
(* shared memory and a pair of pipes to the real time process, the other    *)
(* clients are told to read it again, and persistent ones are saved.        *)
(*                                                                          *)
(* A parameter is a vector of parts; a command sets an interval of them,    *)
(* and may run on into the memory behind.                                   *)
(* Session threads are serialised by the parameter's read/write lock and by *)
(* sdoMutex.  The main thread saves parameter-signal pairs meanwhile.       *)
(***************************************************************************)
EXTENDS Integers, Sequences, FiniteSets

CONSTANTS
    Param,        \* parameters (class Parameter)
    Part,         \* elements of a parameter
    ShmBehind,    \* the parameter behind each one in shared memory, or Null
    AppBehind,    \* the same among the variables of the application
    Val,          \* values of an element
    Session,      \* client connections
    Persistent,   \* parameters under "persistent: variables:"
    Paired,       \* the ones configured with a signal
    AicRounds,    \* rounds of Session::run() an aic notice is held back, 5
    MaxCalls,     \* bound: set and poll commands
    MayRestart,   \* may the application end and be started again?
    Null

ASSUME ParamAssumption ==
    /\ Paired \subseteq Persistent
    /\ Persistent \subseteq Param
    /\ Part # {} /\ IsFiniteSet(Part) /\ Part \subseteq Int
    /\ Val # {}
    /\ ShmBehind \in [Param -> Param \cup {Null}]
    /\ AppBehind \in [Param -> Param \cup {Null}]
    /\ \A p \in Param : p \notin {ShmBehind[p], AppBehind[p]}
    /\ AicRounds \in Nat \ {0}
    /\ MaxCalls \in Nat
    /\ MayRestart \in BOOLEAN
    /\ Null \notin Val \cup Session \cup Param

VARIABLES
    app,          \* parameter values in the real time process (addr)
    version,      \* history: number of changes the application accepted
    rtAlive,      \* the real time process runs
    shm,          \* the copy in shared memory (shmAddr)
    mtime,        \* Parameter::mtime, as the version it belongs to
    lock,         \* holder of the write lock ProcessParameter::mutex
    sdoMutex,     \* holder of Main::sdoMutex
    reqPipe,      \* nrt to rt: struct SDO
    ackPipe,      \* rt to nrt
    call,         \* the set or poll command each session is executing
    calls,        \* number of commands so far
    sess,         \* Server::sessions, with the session's flags
    changed,      \* Session::changedParameter
    aic,          \* Session::aic
    aicDelay,     \* Session::aicDelay
    pu,           \* "pu" notices on their way to the client
    seen,         \* what a client that relies on notices displays
    db,           \* the data base
    coupled,      \* persistentMap entries that still have a signal
    saver,        \* savePersistent() of the main thread
    overrun       \* history: parameters that a vector for another one ran into

rtVars    == <<app, version, rtAlive>>
shmVars   == <<shm, mtime>>
lockVars  == <<lock, sdoMutex>>
pipeVars  == <<reqPipe, ackPipe>>
callVars  == <<call, calls>>
noteVars  == <<changed, aic, aicDelay>>
clientVars == <<pu, seen>>
saveVars  == <<db, coupled, saver>>
paramVars == <<rtVars, shmVars, lockVars, pipeVars, callVars, sess, noteVars,
               clientVars, saveVars, overrun>>

Value == [Part -> Val]

\* offset and count: consecutive elements of the vector.
Interval == {{x \in Part : a <= x /\ x <= b} : a \in Part, b \in Part} \ {{}}

\* What startindex and the list of values may ask for: up to as many elements as
\* the parameter has, from any of them on.  The ones that do not fit go over its
\* end, to the first elements of what lies behind.
Fitting == {[parts |-> parts, over |-> {}] : parts \in Interval}

Overrunning ==
    {w \in [parts : Interval, over : SUBSET Part] :
        \E start, last \in Part :
            /\ last < start
            /\ w.parts = {x \in Part : x >= start}
            /\ w.over = {x \in Part : x <= last}}

Vector == Fitting \cup Overrunning

\* An element of a parameter; msrproto has a Parameter for each of them.
Node == Param \X Part

Nodes(p, parts) == {p} \X parts

\* struct SDO
SDO == [type : {"ParamChange"}, parameter : Param, parts : Interval,
        over : SUBSET Part]
         \cup [type : {"PollSignal"}]

Ack == [type : {"ParamChange"}, parameter : Param, parts : Interval,
        rv : BOOLEAN, time : Nat]
         \cup [type : {"PollSignal"}]

\* The elements a request reaches in a memory where behind[p] comes after p.
Reach(behind, r) ==
    Nodes(r.parameter, r.parts) \cup Nodes(behind[r.parameter], r.over)

\* A command: backup is the copy of the old elements on the stack, of which those
\* the request reaches are used.
Command ==
    [pc : {"lock", "sdo", "ack", "inform", "save", "uncouple"},
     sdo : SDO, value : Val, backup : [Param -> Value]]

\* remote_host's answers of a session
Flags == [polite : BOOLEAN, writeAccess : BOOLEAN]

\* savePersistent() in the loop: entries left, the parameter whose signal it has
\* fetched, and the signal's value
SaveLoop ==
    [todo : SUBSET Persistent, param : Persistent \cup {Null}, value : Value]

\* "There is none" is told apart from everything there may be.
ASSUME NullAssumption ==
    Null \notin Command \cup Flags \cup SaveLoop \cup Value

\* The application's compiled in value.
Default == [x \in Part |-> CHOOSE v \in Val : TRUE]

NoBackup == [p \in Param |-> Default]

\* setupPersistent(): the value of a persistent parameter is read back.
Restored ==
    [p \in Param |-> IF p \in Persistent /\ db[p] # Null THEN db[p]
                                                         ELSE Default]

\* Main::setup() with the data base left by earlier runs; prefork_init() copies
\* the values to shared memory.
ParamInit ==
    /\ db \in {base \in [Param -> Value \cup {Null}] :
                  \A p \in Param \ Persistent : base[p] = Null}
    /\ calls = 0
    /\ app = Restored
    /\ version = [p \in Param |-> 0]
    /\ rtAlive = TRUE
    /\ shm = Restored
    /\ mtime = [p \in Param |-> 0]
    /\ lock = [p \in Param |-> Null]
    /\ sdoMutex = Null
    /\ reqPipe = <<>>
    /\ ackPipe = <<>>
    /\ call = [s \in Session |-> Null]
    /\ sess = [s \in Session |-> Null]
    /\ changed = [s \in Session |-> {}]
    /\ aic = [s \in Session |-> {}]
    /\ aicDelay = [s \in Session |-> 0]
    /\ pu = [s \in Session |-> {}]
    /\ seen = [s \in Session |-> [n \in Node |-> Null]]
    /\ coupled = Paired
    /\ saver = Null
    /\ overrun = {}

-----------------------------------------------------------------------------
(* Sessions: connections, commands and the loop of Session::run()           *)

Connected(s) == sess[s] # Null
Idle(s) == Connected(s) /\ call[s] = Null

\* Server::run() accepts a client.
Connect(s) ==
    /\ ~Connected(s)
    /\ sess' = [sess EXCEPT ![s] = [polite |-> FALSE, writeAccess |-> FALSE]]
    /\ UNCHANGED <<rtVars, shmVars, lockVars, pipeVars, callVars, noteVars,
                   clientVars, saveVars, overrun>>

\* Session::~Session() and Server::sessionClosed()
Disconnect(s) ==
    /\ Idle(s)
    /\ sess' = [sess EXCEPT ![s] = Null]
    /\ changed' = [changed EXCEPT ![s] = {}]
    /\ aic' = [aic EXCEPT ![s] = {}]
    /\ aicDelay' = [aicDelay EXCEPT ![s] = 0]
    /\ pu' = [pu EXCEPT ![s] = {}]
    /\ seen' = [seen EXCEPT ![s] = [n \in Node |-> Null]]
    /\ UNCHANGED <<rtVars, shmVars, lockVars, pipeVars, callVars, saveVars, overrun>>

\* remote_host: a polite client gets no notices and polls instead, so what it
\* displays is its own business.
RemoteHost(s, polite, access) ==
    /\ Idle(s)
    /\ sess' = [sess EXCEPT ![s] = [polite |-> polite, writeAccess |-> access]]
    /\ IF polite
       THEN /\ changed' = [changed EXCEPT ![s] = {}]
            /\ aic' = [aic EXCEPT ![s] = {}]
            /\ pu' = [pu EXCEPT ![s] = {}]
            /\ seen' = [seen EXCEPT ![s] = [n \in Node |-> Null]]
       ELSE UNCHANGED <<changed, aic, pu, seen>>
    /\ UNCHANGED <<rtVars, shmVars, lockVars, pipeVars, callVars, aicDelay,
                   saveVars, overrun>>

\* Mistake: the value is read while a set command is under way.
ReadableAlways(p) == TRUE

\* The read lock of ProcessParameter::getValue(), held for the copy only.
Readable(p) == lock[p] = Null

\* read_parameter: the client reads a parameter, on its own or after a notice.
ReadParameter(s, p) ==
    /\ Idle(s)
    /\ ~sess[s].polite
    /\ Readable(p)
    /\ seen' = [seen EXCEPT ![s] =
                    [n \in Node |-> IF n[1] = p THEN shm[p][n[2]] ELSE @[n]]]
    /\ pu' = [pu EXCEPT ![s] = @ \ Nodes(p, Part)]
    /\ UNCHANGED <<rtVars, shmVars, lockVars, pipeVars, callVars, sess,
                   noteVars, saveVars, overrun>>

\* The display shows what the user typed.
Typed(s, p, parts, v) ==
    IF sess[s].polite THEN seen
    ELSE [seen EXCEPT ![s] =
              [n \in Node |-> IF n \in Nodes(p, parts) THEN v ELSE @[n]]]

\* Server::setAic() and Session::setAIC()
SetAic(p) ==
    /\ aic' = [s \in Session |-> IF Connected(s) /\ ~sess[s].polite
                                 THEN aic[s] \cup {p} ELSE aic[s]]
    /\ aicDelay' = [s \in Session |-> IF Connected(s) /\ aicDelay[s] = 0
                                      THEN AicRounds ELSE aicDelay[s]]

\* Session::parameterChanged() for the nodes of one parameter.
Notified(s, p, parts) ==
    [changed EXCEPT ![s] =
         IF sess[s].polite THEN @ ELSE @ \cup Nodes(p, parts)]

\* Server::parameterChanged() and Parameter::inform().  Each session is told
\* under its own mutex, so the order among the sessions shows nowhere.
AllNotified(p, parts) ==
    [s \in Session |-> IF Connected(s) /\ ~sess[s].polite
                       THEN changed[s] \cup Nodes(p, parts) ELSE changed[s]]

\* write_parameter with a value that can be parsed.
WriteParameter(s, p, w, v, isAic) ==
    /\ Idle(s)
    /\ sess[s].writeAccess
    /\ calls < MaxCalls
    /\ calls' = calls + 1
    /\ call' = [call EXCEPT ![s] =
                    [pc |-> "lock", value |-> v, backup |-> NoBackup,
                     sdo |-> [type |-> "ParamChange", parameter |-> p,
                              parts |-> w.parts, over |-> w.over]]]
    /\ seen' = Typed(s, p, w.parts, v)
    /\ IF isAic THEN SetAic(p) ELSE UNCHANGED <<aic, aicDelay>>
    /\ UNCHANGED <<rtVars, shmVars, lockVars, pipeVars, sess, changed, pu,
                   saveVars, overrun>>

\* write_parameter with a value that cannot be parsed: -EINVAL, "tell this
\* client to reread the value".
WriteInvalid(s, p, w, v, isAic) ==
    /\ Idle(s)
    /\ sess[s].writeAccess
    /\ calls < MaxCalls
    /\ calls' = calls + 1
    /\ seen' = Typed(s, p, w.parts, v)
    /\ IF isAic THEN SetAic(p) ELSE UNCHANGED <<aic, aicDelay>>
    /\ changed' = Notified(s, p, w.parts)
    /\ UNCHANGED <<rtVars, shmVars, lockVars, pipeVars, call, sess, pu,
                   saveVars, overrun>>

\* A client reads a signal that is not subscribed to: Main::getValue().
PollSignal(s) ==
    /\ Idle(s)
    /\ calls < MaxCalls
    /\ calls' = calls + 1
    /\ call' = [call EXCEPT ![s] =
                    [pc |-> "sdo", value |-> CHOOSE v \in Val : TRUE,
                     backup |-> NoBackup, sdo |-> [type |-> "PollSignal"]]]
    /\ UNCHANGED <<rtVars, shmVars, lockVars, pipeVars, sess, noteVars,
                   clientVars, saveVars, overrun>>

\* "if (aicDelay) --aicDelay"
CountDown(n) == IF n > 0 THEN n - 1 ELSE 0

\* Mistake: the delay is not looked at.
HeldForever(s, p) == p \in aic[s]

\* Is a notice for p held back in this round?
Held(s, p) == CountDown(aicDelay[s]) # 0 /\ p \in aic[s]

\* The locked section of Session::run() and the notices written after it.
CollectNotices(s) ==
    /\ Idle(s)
    /\ aicDelay' = [aicDelay EXCEPT ![s] = CountDown(@)]
    /\ LET cp == {n \in changed[s] : ~Held(s, n[1])}
       IN  /\ changed' = [changed EXCEPT ![s] = @ \ cp]
           /\ pu' = [pu EXCEPT ![s] = @ \cup cp]
    /\ UNCHANGED <<rtVars, shmVars, lockVars, pipeVars, callVars, sess, aic,
                   seen, saveVars, overrun>>

-----------------------------------------------------------------------------
(* setValue() in a session thread, run() in the real time process           *)

At(s, pc) == call[s] # Null /\ call[s].pc = pc
Target(s) == call[s].sdo.parameter
Goto(s, pc) == call' = [call EXCEPT ![s].pc = pc]
IsSet(s) == call[s].sdo.type = "ParamChange"

\* ProcessParameter::setValue(): the write lock is held to the end.
LockParameter(s) ==
    /\ At(s, "lock")
    /\ lock[Target(s)] = Null
    /\ lock' = [lock EXCEPT ![Target(s)] = s]
    /\ Goto(s, "sdo")
    /\ UNCHANGED <<rtVars, shmVars, sdoMutex, pipeVars, calls, sess, noteVars,
                   clientVars, saveVars, overrun>>

\* Mistake: two threads use the pipes at the same time.
SdoNoMutex == TRUE

SdoFree == sdoMutex = Null

\* The new elements in shared memory, when the command is a set command.  Nobody
\* looks whether they fit, and the lock is that of the command's parameter only.
NewShm(s) ==
    IF ~IsSet(s) THEN shm
    ELSE [p \in Param |-> [x \in Part |->
              IF <<p, x>> \in Reach(ShmBehind, call[s].sdo) THEN call[s].value
                                                           ELSE shm[p][x]]]

\* The parameters that the command runs into.
RunInto(s) ==
    IF IsSet(s) /\ call[s].sdo.over # {}
    THEN {ShmBehind[Target(s)], AppBehind[Target(s)]} \ {Null} ELSE {}

\* The command ends: everything it holds is released and an error tells the
\* client to read the parameter again.
CallFails(s) ==
    /\ call' = [call EXCEPT ![s] = Null]
    /\ lock' = [p \in Param |-> IF IsSet(s) /\ p = Target(s) THEN Null
                                                             ELSE lock[p]]
    /\ changed' = IF IsSet(s) THEN Notified(s, Target(s), call[s].sdo.parts)
                              ELSE changed

\* lib/Main: setValue() or getValue() up to the blocking read.
SendRequest(s) ==
    /\ At(s, "sdo")
    /\ SdoFree
    /\ rtAlive
    /\ sdoMutex' = s
    /\ shm' = NewShm(s)
    /\ reqPipe' = Append(reqPipe, call[s].sdo)
    /\ call' = [call EXCEPT ![s].pc = "ack",
                            ![s].backup = IF IsSet(s) THEN shm ELSE @]
    /\ overrun' = overrun \cup RunInto(s)
    /\ UNCHANGED <<rtVars, mtime, lock, ackPipe, calls, sess, noteVars,
                   clientVars, saveVars>>

\* The pipe is broken: -EIO, and the new elements stay in shared memory.
SendFails(s) ==
    /\ At(s, "sdo")
    /\ SdoFree
    /\ ~rtAlive
    /\ shm' = NewShm(s)
    /\ overrun' = overrun \cup RunInto(s)
    /\ CallFails(s)
    /\ UNCHANGED <<rtVars, mtime, sdoMutex, pipeVars, calls, sess, aic,
                   aicDelay, clientVars, saveVars>>

\* The elements in shared memory from a request's offset on.  A command sets all
\* of its elements alike, so those behind the parameter are like those in it.
Source(r, n) ==
    IF n[1] = r.parameter THEN shm[n[1]][n[2]]
                          ELSE shm[r.parameter][CHOOSE x \in r.parts : TRUE]

\* Main::run() in the real time process: the application's write_cb takes the
\* elements over, or refuses and leaves its variable alone; read_cb fetches a
\* signal.
ServeChange(accept) ==
    /\ rtAlive
    /\ reqPipe # <<>>
    /\ Head(reqPipe).type = "ParamChange"
    /\ LET r == Head(reqPipe)
           p == r.parameter
       IN  /\ app' = IF ~accept THEN app
                     ELSE [q \in Param |-> [x \in Part |->
                               IF <<q, x>> \in Reach(AppBehind, r)
                               THEN Source(r, <<q, x>>) ELSE app[q][x]]]
           /\ version' = IF accept THEN [version EXCEPT ![p] = @ + 1]
                                   ELSE version
           /\ ackPipe' = Append(ackPipe,
                  [type |-> "ParamChange", parameter |-> p, parts |-> r.parts,
                   rv |-> ~accept, time |-> version'[p]])
    /\ reqPipe' = Tail(reqPipe)
    /\ UNCHANGED <<rtAlive, shmVars, lockVars, callVars, sess, noteVars,
                   clientVars, saveVars, overrun>>

ServePoll ==
    /\ rtAlive
    /\ reqPipe # <<>>
    /\ Head(reqPipe).type = "PollSignal"
    /\ ackPipe' = Append(ackPipe, [type |-> "PollSignal"])
    /\ reqPipe' = Tail(reqPipe)
    /\ UNCHANGED <<rtVars, shmVars, lockVars, callVars, sess, noteVars,
                   clientVars, saveVars, overrun>>

\* getValue(): signalData is copied, the mutex released.
PollDone(s) ==
    /\ At(s, "ack") /\ ~IsSet(s)
    /\ ackPipe # <<>>
    /\ ackPipe' = Tail(ackPipe)
    /\ sdoMutex' = Null
    /\ call' = [call EXCEPT ![s] = Null]
    /\ UNCHANGED <<rtVars, shmVars, lock, reqPipe, calls, sess, noteVars,
                   clientVars, saveVars, overrun>>

\* setValue(): rv is zero, mtime is taken over.
ChangeAccepted(s) ==
    /\ At(s, "ack") /\ IsSet(s)
    /\ ackPipe # <<>>
    /\ ~Head(ackPipe).rv
    /\ ackPipe' = Tail(ackPipe)
    /\ mtime' = [mtime EXCEPT ![Target(s)] = Head(ackPipe).time]
    /\ sdoMutex' = Null
    /\ Goto(s, "inform")
    /\ UNCHANGED <<rtVars, shm, lock, reqPipe, calls, sess, noteVars,
                   clientVars, saveVars, overrun>>

\* Mistake: the refused elements stay in shared memory.
RestoreNothing(s) == shm

\* "Write failure. Restore data"
Restore(s) ==
    [p \in Param |-> [x \in Part |->
        IF <<p, x>> \in Reach(ShmBehind, call[s].sdo) THEN call[s].backup[p][x]
                                                     ELSE shm[p][x]]]

ChangeRefused(s) ==
    /\ At(s, "ack") /\ IsSet(s)
    /\ ackPipe # <<>>
    /\ Head(ackPipe).rv
    /\ ackPipe' = Tail(ackPipe)
    /\ shm' = Restore(s)
    /\ sdoMutex' = Null
    /\ CallFails(s)
    /\ UNCHANGED <<rtVars, mtime, reqPipe, calls, sess, aic, aicDelay,
                   clientVars, saveVars, overrun>>

\* The real time process ended before it answered: -EIO.
AckFails(s) ==
    /\ At(s, "ack")
    /\ ~rtAlive
    /\ ackPipe = <<>>
    /\ sdoMutex' = Null
    /\ CallFails(s)
    /\ UNCHANGED <<rtVars, shmVars, pipeVars, calls, sess, aic, aicDelay,
                   clientVars, saveVars, overrun>>

\* The write lock is released and the command ends.
CallDone(s) ==
    /\ lock' = [lock EXCEPT ![Target(s)] = Null]
    /\ call' = [call EXCEPT ![s] = Null]

\* Main::setValue(): all sessions are informed.
Inform(s) ==
    /\ At(s, "inform")
    /\ changed' = AllNotified(Target(s), call[s].sdo.parts)
    /\ IF Target(s) \in Persistent THEN Goto(s, "save") /\ UNCHANGED lock
                                   ELSE CallDone(s)
    /\ UNCHANGED <<rtVars, shmVars, sdoMutex, pipeVars, calls, sess, aic,
                   aicDelay, clientVars, saveVars, overrun>>

\* Main::setValue(): "Save persistent parameter"
SaveParameter(s) ==
    /\ At(s, "save")
    /\ db' = [db EXCEPT ![Target(s)] = shm[Target(s)]]
    /\ Goto(s, "uncouple")
    /\ UNCHANGED <<rtVars, shmVars, lockVars, pipeVars, calls, sess, noteVars,
                   clientVars, coupled, saver, overrun>>

\* Main::setValue(): "it->second = 0"
Uncouple(s) ==
    /\ At(s, "uncouple")
    /\ coupled' = coupled \ {Target(s)}
    /\ CallDone(s)
    /\ UNCHANGED <<rtVars, shmVars, sdoMutex, pipeVars, calls, sess, noteVars,
                   clientVars, db, saver, overrun>>

-----------------------------------------------------------------------------
(* The main thread: savePersistent()                                        *)

SaveStart ==
    /\ saver = Null
    /\ Persistent # {}
    /\ saver' = [todo |-> Persistent, param |-> Null, value |-> Default]
    /\ UNCHANGED <<rtVars, shmVars, lockVars, pipeVars, callVars, sess,
                   noteVars, clientVars, db, coupled, overrun>>

\* Mistake: parameters without a signal are saved as well, from the buffer.
HasSignalAlways(p) == TRUE

\* "const Signal* signal = it->second; if (!signal) continue;"
HasSignal(p) == p \in coupled

\* The loop ends after the last entry.
Rest(todo) == IF todo = {} THEN Null
              ELSE [todo |-> todo, param |-> Null, value |-> Default]

SaveSkip(p) ==
    /\ saver # Null /\ saver.param = Null
    /\ p \in saver.todo
    /\ ~HasSignal(p)
    /\ saver' = Rest(saver.todo \ {p})
    /\ UNCHANGED <<rtVars, shmVars, lockVars, pipeVars, callVars, sess,
                   noteVars, clientVars, db, coupled, overrun>>

\* The signal has been looked up and has some value.
SaveFetch(p, value) ==
    /\ saver # Null /\ saver.param = Null
    /\ p \in saver.todo
    /\ HasSignal(p)
    /\ saver' = [saver EXCEPT !.param = p, !.value = value]
    /\ UNCHANGED <<rtVars, shmVars, lockVars, pipeVars, callVars, sess,
                   noteVars, clientVars, db, coupled, overrun>>

\* Database::save()
SaveWrite ==
    /\ saver # Null /\ saver.param # Null
    /\ db' = [db EXCEPT ![saver.param] = saver.value]
    /\ saver' = Rest(saver.todo \ {saver.param})
    /\ UNCHANGED <<rtVars, shmVars, lockVars, pipeVars, callVars, sess,
                   noteVars, clientVars, coupled, overrun>>

-----------------------------------------------------------------------------
(* End and restart                                                          *)

\* The application ends; the communications process has not noticed yet.
RtEnd ==
    /\ MayRestart
    /\ rtAlive
    /\ rtAlive' = FALSE
    /\ UNCHANGED <<app, version, shmVars, lockVars, pipeVars, callVars, sess,
                   noteVars, clientVars, saveVars, overrun>>

\* Both processes are gone, at any point of what they were doing, and the
\* application is started again with the data base they left.
Restart ==
    /\ MayRestart
    /\ ~rtAlive
    /\ UNCHANGED <<db, calls>>
    /\ app' = Restored
    /\ version' = [p \in Param |-> 0]
    /\ rtAlive' = TRUE
    /\ shm' = Restored
    /\ mtime' = [p \in Param |-> 0]
    /\ lock' = [p \in Param |-> Null]
    /\ sdoMutex' = Null
    /\ reqPipe' = <<>>
    /\ ackPipe' = <<>>
    /\ call' = [s \in Session |-> Null]
    /\ sess' = [s \in Session |-> Null]
    /\ changed' = [s \in Session |-> {}]
    /\ aic' = [s \in Session |-> {}]
    /\ aicDelay' = [s \in Session |-> 0]
    /\ pu' = [s \in Session |-> {}]
    /\ seen' = [s \in Session |-> [n \in Node |-> Null]]
    /\ coupled' = Paired
    /\ saver' = Null
    /\ overrun' = {}

-----------------------------------------------------------------------------
ParamCommand(s) ==
    \/ \E p \in Param, w \in Vector, v \in Val, isAic \in BOOLEAN :
           \/ WriteParameter(s, p, w, v, isAic)
           \/ WriteInvalid(s, p, w, v, isAic)
    \/ PollSignal(s)

ParamCall(s) ==
    \/ LockParameter(s)
    \/ SendRequest(s)
    \/ SendFails(s)
    \/ PollDone(s)
    \/ ChangeAccepted(s)
    \/ ChangeRefused(s)
    \/ AckFails(s)
    \/ Inform(s)
    \/ SaveParameter(s)
    \/ Uncouple(s)

Supervisor == ServePoll \/ \E accept \in BOOLEAN : ServeChange(accept)

Saver ==
    \/ SaveStart
    \/ \E p \in Persistent :
           SaveSkip(p) \/ \E value \in Value : SaveFetch(p, value)
    \/ SaveWrite

ParamNext ==
    \/ \E s \in Session :
           \/ Connect(s)
           \/ Disconnect(s)
           \/ \E polite, access \in BOOLEAN : RemoteHost(s, polite, access)
           \/ \E p \in Param : ReadParameter(s, p)
           \/ ParamCommand(s)
           \/ ParamCall(s)
           \/ CollectNotices(s)
    \/ Supervisor
    \/ Saver
    \/ RtEnd
    \/ Restart

ParamSpec == ParamInit /\ [][ParamNext]_paramVars

\* The client reads again what it was told has changed.
FollowNotice(s) ==
    \E p \in Param : pu[s] \cap Nodes(p, Part) # {} /\ ReadParameter(s, p)

\* The real time process answers, a thread inside a call runs on (and gets the
\* locks it waits for), Session::run() goes round every 40 ms, and a client
\* follows notices.  Nobody is obliged to send commands.
ParamFairSpec ==
    /\ ParamSpec
    /\ WF_paramVars(Supervisor)
    /\ \A s \in Session :
           /\ WF_paramVars(ParamCall(s))
           /\ WF_paramVars(CollectNotices(s))
           /\ WF_paramVars(FollowNotice(s))

-----------------------------------------------------------------------------
(* Properties                                                               *)

\* Types; aicDelay, an unsigned int, is not counted down below zero.
ParamTypeOK ==
    /\ app \in [Param -> Value]
    /\ version \in [Param -> Nat]
    /\ rtAlive \in BOOLEAN
    /\ shm \in [Param -> Value]
    /\ mtime \in [Param -> Nat]
    /\ lock \in [Param -> Session \cup {Null}]
    /\ sdoMutex \in Session \cup {Null}
    /\ reqPipe \in Seq(SDO)
    /\ ackPipe \in Seq(Ack)
    /\ call \in [Session -> Command \cup {Null}]
    /\ calls \in Nat
    /\ sess \in [Session -> Flags \cup {Null}]
    /\ changed \in [Session -> SUBSET Node]
    /\ aic \in [Session -> SUBSET Param]
    /\ aicDelay \in [Session -> Nat]
    /\ pu \in [Session -> SUBSET Node]
    /\ seen \in [Session -> [Node -> Val \cup {Null}]]
    /\ db \in [Param -> Value \cup {Null}]
    /\ coupled \in SUBSET Persistent
    /\ saver \in SaveLoop \cup {Null}
    /\ overrun \in SUBSET Param

\* A thread holds a parameter's lock for its own set command, from the request to
\* the end of it, and sdoMutex while it waits for the answer.
Holds(s, p) ==
    /\ call[s] # Null /\ call[s].pc # "lock"
    /\ IsSet(s) /\ Target(s) = p

LocksHeld ==
    /\ \A s \in Session, p \in Param : lock[p] = s <=> Holds(s, p)
    /\ \A s \in Session :
          /\ sdoMutex = s <=> At(s, "ack")
          /\ call[s] # Null =>
                /\ Connected(s)
                /\ IsSet(s) \/ call[s].pc \in {"sdo", "ack"}
                /\ call[s].pc \in {"save", "uncouple"} => Target(s) \in Persistent

\* The pipes carry one request or its answer, the one of the thread that waits, and
\* nothing when nobody does.
Answers(ack, sdo) ==
    /\ ack.type = sdo.type
    /\ sdo.type = "ParamChange" =>
          ack.parameter = sdo.parameter /\ ack.parts = sdo.parts

OneRequest ==
    /\ sdoMutex = Null => ackPipe = <<>> /\ (rtAlive => reqPipe = <<>>)
    /\ \A s \in Session : sdoMutex = s =>
          \/ reqPipe = <<call[s].sdo>> /\ ackPipe = <<>>
          \/ reqPipe = <<>> /\ Len(ackPipe) = 1 /\ Answers(ackPipe[1], call[s].sdo)

\* A request to change p is with the application; it has taken the value over.
Asked(p) == lock[p] # Null /\ At(lock[p], "ack")
Taken == ackPipe # <<>> /\ ~Head(ackPipe).rv

\* Whenever a client can read a parameter, shared memory holds what the
\* application uses, with the time of that change: a refused value is never
\* visible, nor a new one that the application has not seen (lib/Main.cpp,
\* setValue, relies on the locks of two layers for this).  While the application
\* is asked, the backup is what it uses.  Only a vector that was too long for
\* another parameter breaks this (Parameter.cpp does not look where it ends).
ValueAgreed ==
    \A p \in Param \ overrun : rtAlive =>
        /\ ~Asked(p) => shm[p] = app[p] /\ mtime[p] = version[p]
        /\ Asked(p) /\ Taken => shm[p] = app[p] /\ Head(ackPipe).time = version[p]
        /\ Asked(p) /\ ~Taken =>
              /\ call[lock[p]].backup[p] = app[p] /\ mtime[p] = version[p]
              /\ \A x \in Part \ call[lock[p]].sdo.parts : shm[p][x] = app[p][x]

\* What the request under way runs into is known to be hit.
OverrunKnown == \A s \in Session : At(s, "ack") => RunInto(s) \subseteq overrun

\* The locks and the pipes are used as they should, so that what the two sides of
\* lib/Main.cpp hold of the parameters agrees.
ParamInv == ParamTypeOK /\ LocksHeld /\ OneRequest /\ OverrunKnown /\ ValueAgreed

\* The answer a thread is about to take from the pipe belongs to its own
\* request: parameters and polls share the pipes, and the ack is not checked.
AckMatchesRequest ==
    \A s \in Session : (At(s, "ack") /\ ackPipe # <<>>)
        => /\ Head(ackPipe).type = call[s].sdo.type
           /\ IsSet(s) => /\ Head(ackPipe).parameter = Target(s)
                          /\ Head(ackPipe).parts = call[s].sdo.parts

\* Is a change of p on its way to Server::parameterChanged()?
BeingSet(p) ==
    lock[p] # Null /\ call[lock[p]].pc \in {"sdo", "ack", "inform"}

\* A client that shows something else than the parameter's value has a notice
\* coming, or the change is still being made: no interleaving of set commands,
\* refusals, connects, delays and logins loses the last notice.  There is none for
\* a parameter that somebody else's vector ran into.
StaleHasNotice ==
    \A s \in Session, n \in Node :
        (/\ rtAlive /\ n[1] \notin overrun
         /\ seen[s][n] # Null /\ seen[s][n] # shm[n[1]][n[2]])
            => \/ n \in changed[s] \cup pu[s]
               \/ BeingSet(n[1])
               \/ At(s, "lock") /\ n \in Nodes(Target(s), call[s].sdo.parts)

\* The same against the value the application uses: a client differs from it only in
\* elements that it has a notice for, that it is setting itself, or that the holder
\* of the lock is about to tell it of.  A client without notices displays nothing.
Follows(s) == Connected(s) /\ ~sess[s].polite

SettingNode(s, n) ==
    /\ call[s] # Null /\ IsSet(s) /\ call[s].pc \in {"lock", "sdo", "ack"}
    /\ n \in Nodes(Target(s), call[s].sdo.parts)

ToInform(p) ==
    lock[p] # Null /\ (At(lock[p], "inform") \/ (At(lock[p], "ack") /\ Taken))

InformingNode(n) == ToInform(n[1]) /\ n[2] \in call[lock[n[1]]].sdo.parts

NoticeOk(s, n) ==
    \/ seen[s][n] \in {Null, app[n[1]][n[2]]}
    \/ n \in changed[s] \cup pu[s]
    \/ SettingNode(s, n)
    \/ InformingNode(n)

NoticeInv ==
    \A s \in Session, n \in Node :
        /\ Follows(s) \/ seen[s][n] = Null
        /\ rtAlive /\ n[1] \notin overrun => NoticeOk(s, n)

\* A client that relies on notices comes to show the right value after another
\* one's change, also when notices are held back for asynchronous input, unless a
\* vector for another parameter has run into this one.
ClientsConverge ==
    \A s \in Session, n \in Node :
        (seen[s][n] # Null /\ seen[s][n] # shm[n[1]][n[2]])
            ~> \/ ~rtAlive \/ n[1] \in overrun
               \/ seen[s][n] \in {Null, shm[n[1]][n[2]]}

\* A persistent parameter without a signal that was set, in this or an earlier
\* run of the application, is in the data base with its present value unless
\* it is just being set: a crash at any other moment does not lose it.  The
\* elements that another parameter's vector ran into are not saved.
PersistentSaved ==
    \A p \in Persistent \ (Paired \cup overrun) :
        (rtAlive /\ lock[p] = Null /\ (version[p] > 0 \/ db[p] # Null))
            => db[p] = app[p]

\* The same at every point of a set command, and savePersistent() keeps off the
\* parameters without a signal.
NotSaved(p) == ToInform(p) \/ (lock[p] # Null /\ At(lock[p], "save"))

SavedOk(p) ==
    (rtAlive /\ ~NotSaved(p) /\ (version[p] > 0 \/ db[p] # Null)) => db[p] = app[p]

SavedInv ==
    /\ coupled \subseteq Paired
    /\ saver # Null => saver.param \in Paired \cup {Null}
    /\ \A p \in Persistent \ (Paired \cup overrun) : SavedOk(p)

\* A parameter whose coupling was removed by setting it is treated "as if it
\* had no signal" (pdserv.conf): its saved value is the one that was set.
UncoupledStaysSaved ==
    \A p \in Paired \ coupled :
        (rtAlive /\ lock[p] = Null) => db[p] = app[p]
=============================================================================
