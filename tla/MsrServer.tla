------------------------------ MODULE MsrServer -----------------------------
(***************************************************************************)
(* The processes and the threads of the MSR server: the application, which *)
(* forks the server process and may die at any time; the accept loop that  *)
(* creates sessions; the sessions, which start to run inside their own     *)
(* constructor, end when they like and delete themselves; the broadcasts   *)
(* they send each other; and the main thread that stops all of them.       *)
(***************************************************************************)
EXTENDS Integers, Sequences, Functions, FiniteSets

CONSTANTS
    SessionObj,     \* session objects; one may be allocated again
    MaxConnections, \* maxConnections
    MaxBroadcasts,  \* bound: broadcasts
    MaxSessions,    \* bound: sessions created
    None            \* nobody holds the mutex

ASSUME MsrServerAssumption ==
    /\ MaxConnections \in Nat /\ MaxBroadcasts \in Nat /\ MaxSessions \in Nat
    /\ None \notin SessionObj \cup {"server"}
    /\ "server" \notin SessionObj

VARIABLES
    parent,         \* the real time process: "setup", "forked", "run", "gone"
    main,           \* main thread of the server process: "none", "wait" (for its
                    \* pid), "up", "stop" (in ~Server), "done"
    server,         \* server thread: where it is
    creating,       \* the session it creates
    isActive,       \* _active
    mutex,          \* who holds Server::mutex
    sessions,       \* sessions
    at,             \* where each session's thread is; "none": no such object
    polite,         \* polite
    broadcastList,  \* broadcastList
    written,        \* the broadcasts written to the client
    left,           \* sessions Server::broadcast() has yet to visit
    posted,         \* broadcasts so far
    due,            \* the broadcasts a session that was never polite is to get
    created         \* sessions created so far

serverVars == <<parent, main, server, creating, isActive, mutex, sessions, at, polite,
                broadcastList, written, left, posted, due, created>>

ServerInit ==
    /\ parent = "setup" /\ main = "none"
    /\ server = "none" /\ creating = None
    /\ isActive \in BOOLEAN                     \* not initialised
    /\ mutex = None
    /\ sessions = {} /\ left = {}
    /\ at = [s \in SessionObj |-> "none"]
    /\ polite = [s \in SessionObj |-> FALSE]
    /\ broadcastList = [s \in SessionObj |-> <<>>]
    /\ written = [s \in SessionObj |-> <<>>]
    /\ due = [s \in SessionObj |-> <<>>]
    /\ posted = 0 /\ created = 0

\* Nothing of the server but the main thread's state changes.
OnlyMain == UNCHANGED <<creating, isActive, mutex, sessions, at, polite, broadcastList,
                        written, left, posted, due, created>>

-----------------------------------------------------------------------------
(* The two processes                                                        *)

\* setup() up to fork()
Fork ==
    /\ parent = "setup"
    /\ parent' = "forked" /\ main' = "wait"
    /\ UNCHANGED server /\ OnlyMain

\* prefork_init(), a pipe or fork() fails: the application has no server.
ForkFails ==
    /\ parent = "setup"
    /\ parent' = "gone"
    /\ UNCHANGED <<main, server>> /\ OnlyMain

\* The parent sends the child its pid, prepares its tasks and goes on; frames are
\* written from now on.
RtSetup ==
    /\ parent = "forked"
    /\ parent' = "run"
    /\ UNCHANGED <<main, server>> /\ OnlyMain

\* The application calls pdserv_exit() or dies; the pipes close.
AppEnds ==
    /\ parent \in {"forked", "run"}
    /\ parent' = "gone"
    /\ UNCHANGED <<main, server>> /\ OnlyMain

\* The child reads its pid, or the end of the pipe: runtime_error() is called but
\* not thrown.  startServers() starts a server, unless TLS cannot be set up.
NrtSetup ==
    /\ main = "wait"
    /\ parent # "forked"
    /\ main' = "up"
    /\ server' \in {"initial", "ended"}
    /\ UNCHANGED parent /\ OnlyMain

-----------------------------------------------------------------------------
(* The server thread                                                        *)

\* initial(), and the listening socket of run()
ServerStart ==
    /\ server = "initial"
    /\ isActive' = TRUE
    /\ server' = "accept"
    /\ UNCHANGED <<parent, main, creating, mutex, sessions, at, polite, broadcastList,
                   written, left, posted, due, created>>

\* run() has no socket: it returns and the thread ends.
ServerNoSocket ==
    /\ server = "initial"
    /\ isActive' = TRUE
    /\ server' = "final"
    /\ UNCHANGED <<parent, main, creating, mutex, sessions, at, polite, broadcastList,
                   written, left, posted, due, created>>

\* A client connects, and the thread has not been cancelled; the number of sessions
\* is read without the mutex.  There is always memory for another object.
Accept ==
    /\ server = "accept" /\ main # "stop"
    /\ created < MaxSessions /\ \E s \in SessionObj : at[s] = "none"
    /\ Cardinality(sessions) # MaxConnections   \* else reject()
    /\ server' = "lock"
    /\ UNCHANGED <<parent, main, creating, isActive, mutex, sessions, at, polite,
                   broadcastList, written, left, posted, due, created>>

\* Mistake: the mutex is taken for the insertion only.
AcceptNoLock ==
    /\ server = "lock"
    /\ \E s \in SessionObj : at[s] = "none" /\ creating' = s
    /\ server' = "construct"
    /\ UNCHANGED <<parent, main, isActive, mutex, sessions, at, polite, broadcastList,
                   written, left, posted, due, created>>

AcceptLock ==
    /\ server = "lock"
    /\ mutex = None
    /\ mutex' = "server"
    /\ \E s \in SessionObj : at[s] = "none" /\ creating' = s
    /\ server' = "construct"
    /\ UNCHANGED <<parent, main, isActive, sessions, at, polite, broadcastList, written,
                   left, posted, due, created>>

\* new Session(): prepare() waits for a frame of the real time task; detach()
\* starts the session's thread before the constructor has returned.
Construct ==
    /\ server = "construct"
    /\ parent = "run"
    /\ at' = [at EXCEPT ![creating] = "run"]
    /\ polite' = [polite EXCEPT ![creating] = FALSE]
    /\ broadcastList' = [broadcastList EXCEPT ![creating] = <<>>]
    /\ written' = [written EXCEPT ![creating] = <<>>]
    /\ due' = [due EXCEPT ![creating] = <<>>]
    /\ created' = created + 1
    /\ server' = "insert"
    /\ UNCHANGED <<parent, main, creating, isActive, mutex, sessions, left, posted>>

Insert ==
    /\ server = "insert"
    /\ sessions' = sessions \cup {creating}
    /\ mutex' = None
    /\ server' = "accept" /\ creating' = None
    /\ UNCHANGED <<parent, main, isActive, at, polite, broadcastList, written, left, posted,
                   due, created>>

\* new Session() throws, the socket being gone: the mutex is released.
ConstructFails ==
    /\ server = "construct"
    /\ mutex' = None
    /\ server' = "accept" /\ creating' = None
    /\ UNCHANGED <<parent, main, isActive, sessions, at, polite, broadcastList, written,
                   left, posted, due, created>>

\* terminate() cancels the thread where it waits: for a client, or for a frame
\* with the mutex held, which is then released.
Cancelled ==
    /\ main = "stop"
    /\ server \in {"accept", "construct"}
    /\ mutex' = IF server = "construct" THEN None ELSE mutex
    /\ server' = "final" /\ creating' = None
    /\ UNCHANGED <<parent, main, isActive, sessions, at, polite, broadcastList, written,
                   left, posted, due, created>>


\* final()
Final ==
    /\ server = "final"
    /\ isActive' = FALSE
    /\ server' = "drain"
    /\ UNCHANGED <<parent, main, creating, mutex, sessions, at, polite, broadcastList,
                   written, left, posted, due, created>>

\* final() goes on when no session is left; it looks without the mutex.
Drain ==
    /\ server = "drain"
    /\ sessions = {}
    /\ server' = "ended"
    /\ UNCHANGED <<parent, main, creating, isActive, mutex, sessions, at, polite,
                   broadcastList, written, left, posted, due, created>>

-----------------------------------------------------------------------------
(* The main thread                                                          *)

\* The pipe ends with the application, or the loop of setup() fails;
\* stopServers() deletes the server.
Stop ==
    /\ main = "up"
    /\ main' = "stop"
    /\ UNCHANGED <<parent, server>> /\ OnlyMain

\* terminate() returns; savePersistent() and exit() follow.
Stopped ==
    /\ main = "stop"
    /\ server = "ended"
    /\ main' = "done"
    /\ UNCHANGED <<parent, server>> /\ OnlyMain

-----------------------------------------------------------------------------
(* A session's thread                                                       *)

\* Once around run(): what others left in broadcastList is written.
Collect(s) ==
    /\ at[s] = "run" /\ isActive
    /\ broadcastList[s] # <<>>
    /\ written' = [written EXCEPT ![s] = @ \o broadcastList[s]]
    /\ broadcastList' = [broadcastList EXCEPT ![s] = <<>>]
    /\ UNCHANGED <<parent, main, server, creating, isActive, mutex, sessions, at, polite,
                   left, posted, due, created>>

\* <remote_host polite=...>
RemoteHostPolite(s, p) ==
    /\ at[s] = "run" /\ isActive
    /\ polite[s] # p
    /\ polite' = [polite EXCEPT ![s] = p]
    /\ broadcastList' = IF p THEN [broadcastList EXCEPT ![s] = <<>>] ELSE broadcastList
    /\ due' = [due EXCEPT ![s] = <<>>]
    /\ written' = [written EXCEPT ![s] = <<>>]
    /\ UNCHANGED <<parent, main, server, creating, isActive, mutex, sessions, at, left,
                   posted, created>>

\* Mistake: the sender is left out.
PostToOthers(s) ==
    /\ at[s] = "run" /\ isActive /\ posted < MaxBroadcasts
    /\ mutex = None
    /\ mutex' = s
    /\ posted' = posted + 1
    /\ left' = sessions \ {s}
    /\ due' = [t \in SessionObj |->
                  IF t \in sessions /\ ~polite[t] THEN Append(due[t], posted') ELSE due[t]]
    /\ at' = [at EXCEPT ![s] = "broadcast"]
    /\ UNCHANGED <<parent, main, server, creating, isActive, sessions, polite, broadcastList,
                   written, created>>

\* <broadcast>: Server::broadcast() takes the mutex ...
Post(s) ==
    /\ at[s] = "run" /\ isActive /\ posted < MaxBroadcasts
    /\ mutex = None
    /\ mutex' = s
    /\ posted' = posted + 1
    /\ left' = sessions
    /\ due' = [t \in SessionObj |->
                  IF t \in sessions /\ ~polite[t] THEN Append(due[t], posted') ELSE due[t]]
    /\ at' = [at EXCEPT ![s] = "broadcast"]
    /\ UNCHANGED <<parent, main, server, creating, isActive, sessions, polite, broadcastList,
                   written, created>>

\* ... hands the message to one session after another, each under its own mutex ...
Deliver(s) ==
    /\ at[s] = "broadcast"
    /\ \E t \in left :
          /\ left' = left \ {t}
          /\ broadcastList' = IF polite[t] THEN broadcastList
                              ELSE [broadcastList EXCEPT ![t] = Append(@, posted)]
          \* a session that has just stopped being polite gets this one as well
          /\ due' = IF ~polite[t] /\ posted \notin Range(due[t])
                    THEN [due EXCEPT ![t] = Append(@, posted)] ELSE due
    /\ UNCHANGED <<parent, main, server, creating, isActive, mutex, sessions, at, polite,
                   written, posted, created>>

\* ... and releases the mutex.
PostEnd(s) ==
    /\ at[s] = "broadcast"
    /\ left = {}
    /\ mutex' = None
    /\ at' = [at EXCEPT ![s] = "run"]
    /\ UNCHANGED <<parent, main, server, creating, isActive, sessions, polite, broadcastList,
                   written, left, posted, due, created>>

\* <xsad>, <xsod> or the next frame: Task::subscribe() finds the ring of requests
\* full, or its mutex held by a session that does; rxPdo() starts over in init(),
\* which needs a frame that has not been written.  The session sleeps and looks again.
AwaitRt(s) ==
    /\ at[s] = "run" /\ isActive
    /\ at' = [at EXCEPT ![s] = "wait"]
    /\ UNCHANGED <<parent, main, server, creating, isActive, mutex, sessions, polite,
                   broadcastList, written, left, posted, due, created>>

\* The real time process has taken a request or written a frame.
RtAnswers(s) ==
    /\ at[s] = "wait"
    /\ at' = [at EXCEPT ![s] = "run"]
    /\ UNCHANGED <<parent, main, server, creating, isActive, mutex, sessions, polite,
                   broadcastList, written, left, posted, due, created>>

\* run() returns: the client is gone, the stream is bad, or the server stops.
Leave(s) ==
    /\ at[s] = "run"
    /\ at' = [at EXCEPT ![s] = "final"]
    /\ UNCHANGED <<parent, main, server, creating, isActive, mutex, sessions, polite,
                   broadcastList, written, left, posted, due, created>>

\* ~Session(): sessionClosed()
SessionClosed(s) ==
    /\ at[s] = "final"
    /\ mutex = None
    /\ sessions' = sessions \ {s}
    /\ at' = [at EXCEPT ![s] = "cleanup"]
    /\ UNCHANGED <<parent, main, server, creating, isActive, mutex, polite, broadcastList,
                   written, left, posted, due, created>>

\* The rest of the destructors: the object is gone.  They take the subscriptions
\* back, which waits for ever when the real time process is gone and the ring full.
Destroyed(s) ==
    /\ at[s] = "cleanup"
    /\ at' = [at EXCEPT ![s] = "none"]
    /\ UNCHANGED <<parent, main, server, creating, isActive, mutex, sessions, polite,
                   broadcastList, written, left, posted, due, created>>

SessionStep(s) ==
    \/ Collect(s) \/ (\E p \in BOOLEAN : RemoteHostPolite(s, p))
    \/ Post(s) \/ Deliver(s) \/ PostEnd(s) \/ AwaitRt(s) \/ RtAnswers(s)
    \/ Leave(s) \/ SessionClosed(s) \/ Destroyed(s)

ServerStep ==
    \/ ServerStart \/ ServerNoSocket \/ Accept \/ AcceptLock \/ Construct
    \/ ConstructFails \/ Insert \/ Cancelled \/ Final \/ Drain

ProcessStep == Fork \/ ForkFails \/ RtSetup \/ AppEnds \/ NrtSetup

ServerNext ==
    \/ ProcessStep \/ ServerStep \/ Stop \/ Stopped
    \/ \E s \in SessionObj : SessionStep(s)

\* What the threads do without waiting for a client or a mutex
ServerRuns ==
    \/ ServerStart \/ ServerNoSocket \/ Construct \/ Insert
    \/ Cancelled \/ Final \/ Drain
SessionRuns(s) == Collect(s) \/ Deliver(s) \/ PostEnd(s)

ServerSpec == ServerInit /\ [][ServerNext]_serverVars

\* The main thread when it has to act
MainRuns == NrtSetup \/ (parent = "gone" /\ Stop) \/ Stopped

\* Every thread runs, a mutex that is free again and again is obtained, and the real
\* time process calls pdserv_update() for as long as there is one.  A session leaves
\* run() only because it must: when the server is not active.
ServerFairSpec ==
    /\ ServerSpec
    /\ WF_serverVars(ServerRuns)
    /\ SF_serverVars(AcceptLock)
    /\ WF_serverVars(MainRuns)
    /\ \A s \in SessionObj :
          /\ WF_serverVars(SessionRuns(s))
          /\ WF_serverVars(parent = "run" /\ RtAnswers(s))
          /\ WF_serverVars(~isActive /\ Leave(s))
          /\ SF_serverVars(SessionClosed(s))

-----------------------------------------------------------------------------
(* Properties                                                               *)

ServerTypeOK ==
    /\ parent \in {"setup", "forked", "run", "gone"}
    /\ main \in {"none", "wait", "up", "stop", "done"}
    /\ server \in {"none", "initial", "accept", "lock", "construct", "insert", "final",
                   "drain", "ended"}
    /\ creating \in SessionObj \cup {None}
    /\ isActive \in BOOLEAN
    /\ mutex \in SessionObj \cup {None, "server"}
    /\ sessions \subseteq SessionObj /\ left \subseteq sessions
    /\ at \in [SessionObj -> {"none", "run", "broadcast", "wait", "final", "cleanup"}]
    /\ polite \in [SessionObj -> BOOLEAN]
    /\ broadcastList \in [SessionObj -> Seq(Nat)]
    /\ written \in [SessionObj -> Seq(Nat)]
    /\ due \in [SessionObj -> Seq(Nat)]
    /\ posted \in 0..MaxBroadcasts /\ created \in 0..MaxSessions

\* Every session the server may call is an object whose destructor has not passed
\* sessionClosed(), and every running one is or will be registered: a client that
\* leaves at once does not leave its session behind in the set.
RegisteredAlive ==
    /\ \A s \in sessions : at[s] \in {"run", "broadcast", "wait", "final"}
    /\ \A s \in SessionObj : at[s] \in {"run", "broadcast", "wait", "final"} =>
          s \in sessions \/ (server = "insert" /\ creating = s)

\* Server::mutex is held by the server thread exactly while it creates a session,
\* and by the session whose broadcast is under way.  Until it is registered, a new
\* session does not get past sessionClosed().
MutexHeld ==
    /\ mutex = "server" <=> server \in {"construct", "insert"}
    /\ creating # None <=> server \in {"construct", "insert"}
    /\ server = "construct" => at[creating] = "none"
    /\ server = "insert" => at[creating] \in {"run", "wait", "final"}
    /\ \A s \in SessionObj : at[s] = "broadcast" <=> mutex = s
    /\ mutex \notin SessionObj => left = {}

\* There are never more sessions than maxConnections, although their number is
\* read without the mutex, before the new session is made.
WithinLimit ==
    /\ IsFiniteSet(sessions)
    /\ Cardinality(sessions) <= MaxConnections
    /\ server \in {"lock", "construct", "insert"} => Cardinality(sessions) < MaxConnections
    /\ server \in {"lock", "construct"} => created < MaxSessions

\* The main thread starts the server thread once and outlives it, and there are no
\* sessions before that thread listens and after it has ended: ~Server() pulls the
\* server from under none of them.
ThreadOrder ==
    /\ parent = "setup" => main = "none"
    /\ main \in {"none", "wait"} <=> server = "none"
    /\ main = "done" => server = "ended"
    /\ server \in {"none", "initial", "ended"} => sessions = {}

\* The set of sessions under the server's mutex is right, and within its limit.
ServerInv == ServerTypeOK /\ RegisteredAlive /\ MutexHeld /\ WithinLimit /\ ThreadOrder

\* A session gets each broadcast that is posted while it is registered, its own
\* included, once and in the order of posting; a polite one has none waiting.
BroadcastsComplete ==
    \A s \in sessions :
        /\ polite[s] => broadcastList[s] = <<>>
        /\ ~polite[s] /\ s \notin left => written[s] \o broadcastList[s] = due[s]

\* The same for every session from its construction on, with what holds of one
\* that Server::broadcast() has yet to visit: it lacks the last message, or it has
\* stopped being polite since the posting and does not count on it.
Visited(s) == due[s] = written[s] \o broadcastList[s]
Unvisited(s) ==
    \/ Visited(s) /\ posted \notin Range(due[s])
    \/ due[s] = Append(written[s] \o broadcastList[s], posted)

DeliveryOk(s) ==
    /\ polite[s] => broadcastList[s] = <<>>
    /\ Range(due[s]) \subseteq 0..posted
    /\ ~polite[s] => IF s \in left THEN Unvisited(s) ELSE Visited(s)

\* A session's thread is between its start and sessionClosed().
Alive(s) == at[s] \in {"run", "broadcast", "wait", "final"}

DeliveryInv == \A s \in SessionObj : Alive(s) => DeliveryOk(s)

\* A session that is still registered waits for an application that is gone.
Stuck == parent = "gone" /\ \E s \in sessions : at[s] = "wait"

=============================================================================
