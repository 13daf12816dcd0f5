-------------------------- MODULE MsrServerProofs ---------------------------
(***************************************************************************)
(* Proofs about the MSR server: the set of sessions is right whatever the  *)
(* threads do, no broadcast is lost, repeated or reordered, and what a     *)
(* session's subscription manager keeps and prints is right whenever       *)
(* channels join and leave.                                                *)
(***************************************************************************)
EXTENDS MsrServer, Subscriptions, FiniteSetTheorems, SequenceTheorems, TLAPS

-----------------------------------------------------------------------------
(* The set of sessions and the mutex                                        *)

\* At the start there is no process but the application.
LEMMA ServerInitInv == ServerInit => ServerInv
  BY FS_EmptySet, MsrServerAssumption
     DEF ServerInit, ServerInv, ServerTypeOK, RegisteredAlive, MutexHeld, WithinLimit,
         ThreadOrder

\* The processes and the main thread touch nothing of the sessions.
LEMMA ProcessStepInv ==
  ASSUME ServerInv, ProcessStep \/ Stop \/ Stopped
  PROVE  ServerInv'
  <1>1. /\ parent' \in {"setup", "forked", "run", "gone"}
        /\ main' \in {"none", "wait", "up", "stop", "done"}
        /\ server' = server \/ (server' \in {"initial", "ended"} /\ server = "none")
        /\ parent' = "setup" => main' = "none"
        /\ main' \in {"none", "wait"} <=> server' = "none"
        /\ main' = "done" => server' = "ended"
        /\ OnlyMain
    BY DEF ProcessStep, Fork, ForkFails, RtSetup, AppEnds, NrtSetup, Stop, Stopped,
       ServerInv, ServerTypeOK, ThreadOrder
  <1>2. ServerTypeOK'
    BY <1>1 DEF OnlyMain, ServerInv, ServerTypeOK
  <1>3. RegisteredAlive'
    BY <1>1 DEF OnlyMain, ServerInv, RegisteredAlive, MutexHeld
  <1>4. MutexHeld'
    BY <1>1 DEF OnlyMain, ServerInv, MutexHeld
  <1>5. WithinLimit' /\ ThreadOrder'
    BY <1>1 DEF OnlyMain, ServerInv, WithinLimit, ThreadOrder, ServerTypeOK
  <1> QED  BY <1>2, <1>3, <1>4, <1>5 DEF ServerInv

\* The server thread: a session is created under the mutex, which no other thread
\* takes until it is registered.
LEMMA ServerStepInv ==
  ASSUME ServerInv, ServerStep
  PROVE  ServerInv'
  <1> USE MsrServerAssumption
  <1>1. CASE ServerStart \/ ServerNoSocket \/ Accept \/ Final \/ Drain
    <2>1. Cardinality(sessions) \in Nat
      BY FS_CardinalityType DEF ServerInv, WithinLimit
    <2>5. ServerTypeOK'
      BY <1>1, <2>1 DEF ServerStart, ServerNoSocket, Accept, Final, Drain, ServerInv, ServerTypeOK, MutexHeld, WithinLimit
    <2>6. RegisteredAlive'
      BY <1>1, <2>1 DEF ServerStart, ServerNoSocket, Accept, Final, Drain, ServerInv, ServerTypeOK, RegisteredAlive, MutexHeld
    <2>7. MutexHeld'
      BY <1>1, <2>1 DEF ServerStart, ServerNoSocket, Accept, Final, Drain, ServerInv, ServerTypeOK, RegisteredAlive, MutexHeld
    <2>8. WithinLimit' /\ ThreadOrder'
      BY <1>1, <2>1 DEF ServerStart, ServerNoSocket, Accept, Final, Drain, ServerInv, ServerTypeOK, WithinLimit, ThreadOrder
    <2> QED  BY <2>5, <2>6, <2>7, <2>8 DEF ServerInv
  <1>2. CASE AcceptLock
    BY <1>2 DEF AcceptLock, ServerInv, ServerTypeOK, RegisteredAlive, MutexHeld,
       WithinLimit, ThreadOrder
  <1>3. CASE Construct
    BY <1>3 DEF Construct, ServerInv, ServerTypeOK, RegisteredAlive, MutexHeld,
       WithinLimit, ThreadOrder
  <1>4. CASE ConstructFails \/ Cancelled
    BY <1>4 DEF ConstructFails, Cancelled, ServerInv, ServerTypeOK, RegisteredAlive,
       MutexHeld, WithinLimit, ThreadOrder
  <1>5. CASE Insert
    <2>1. creating \in SessionObj
      BY <1>5 DEF Insert, ServerInv, ServerTypeOK, MutexHeld
    <2>2. /\ IsFiniteSet(sessions \cup {creating})
          /\ Cardinality(sessions \cup {creating}) <= MaxConnections
      <3>1. IsFiniteSet(sessions) /\ Cardinality(sessions) < MaxConnections
        BY <1>5 DEF Insert, ServerInv, WithinLimit
      <3>2. Cardinality(sessions) \in Nat
        BY <3>1, FS_CardinalityType
      <3>3. /\ IsFiniteSet(sessions \cup {creating})
            /\ \/ Cardinality(sessions \cup {creating}) = Cardinality(sessions)
               \/ Cardinality(sessions \cup {creating}) = Cardinality(sessions) + 1
        BY <3>1, FS_AddElement
      <3> QED  BY <3>1, <3>2, <3>3
    <2>5. ServerTypeOK'
      BY <1>5, <2>1, <2>2 DEF Insert, ServerInv, ServerTypeOK, MutexHeld, WithinLimit
    <2>6. RegisteredAlive'
      BY <1>5, <2>1, <2>2 DEF Insert, ServerInv, ServerTypeOK, RegisteredAlive, MutexHeld
    <2>7. MutexHeld'
      BY <1>5, <2>1, <2>2 DEF Insert, ServerInv, ServerTypeOK, RegisteredAlive, MutexHeld
    <2>8. WithinLimit' /\ ThreadOrder'
      BY <1>5, <2>1, <2>2 DEF Insert, ServerInv, ServerTypeOK, WithinLimit, ThreadOrder
    <2> QED  BY <2>5, <2>6, <2>7, <2>8 DEF ServerInv
  <1> QED  BY <1>1, <1>2, <1>3, <1>4, <1>5 DEF ServerStep

\* A session's thread: it changes the set only when nobody holds the mutex.
LEMMA SessionStepInv ==
  ASSUME ServerInv, NEW s \in SessionObj, SessionStep(s)
  PROVE  ServerInv'
  <1> USE MsrServerAssumption
  <1>1. CASE Collect(s) \/ \E p \in BOOLEAN : RemoteHostPolite(s, p)
    <2>5. ServerTypeOK'
      <3>1. CASE Collect(s)
        <4>1. broadcastList[s] \in Seq(Nat) /\ written[s] \in Seq(Nat)
          BY DEF ServerInv, ServerTypeOK
        <4>2. written[s] \o broadcastList[s] \in Seq(Nat)
          BY <4>1
        <4> QED  BY <3>1, <4>2 DEF Collect, ServerInv, ServerTypeOK
      <3>2. CASE \E p \in BOOLEAN : RemoteHostPolite(s, p)
        BY <3>2 DEF RemoteHostPolite, ServerInv, ServerTypeOK
      <3> QED  BY <1>1, <3>1, <3>2
    <2>6. RegisteredAlive'
      BY <1>1 DEF Collect, RemoteHostPolite, ServerInv, ServerTypeOK, RegisteredAlive, MutexHeld
    <2>7. MutexHeld'
      BY <1>1 DEF Collect, RemoteHostPolite, ServerInv, ServerTypeOK, RegisteredAlive, MutexHeld
    <2>8. WithinLimit' /\ ThreadOrder'
      BY <1>1 DEF Collect, RemoteHostPolite, ServerInv, ServerTypeOK, WithinLimit, ThreadOrder
    <2> QED  BY <2>5, <2>6, <2>7, <2>8 DEF ServerInv
  <1>2. CASE Post(s)
    <2>5. ServerTypeOK'
      BY <1>2 DEF Post, ServerInv, ServerTypeOK, MutexHeld, WithinLimit
    <2>6. RegisteredAlive'
      BY <1>2 DEF Post, ServerInv, ServerTypeOK, RegisteredAlive, MutexHeld
    <2>7. MutexHeld'
      BY <1>2 DEF Post, ServerInv, ServerTypeOK, RegisteredAlive, MutexHeld
    <2>8. WithinLimit' /\ ThreadOrder'
      BY <1>2 DEF Post, ServerInv, ServerTypeOK, WithinLimit, ThreadOrder
    <2> QED  BY <2>5, <2>6, <2>7, <2>8 DEF ServerInv
  <1>3. CASE Deliver(s)
    <2>5. ServerTypeOK'
      BY <1>3 DEF Deliver, ServerInv, ServerTypeOK, MutexHeld, WithinLimit
    <2>6. RegisteredAlive'
      BY <1>3 DEF Deliver, ServerInv, ServerTypeOK, RegisteredAlive, MutexHeld
    <2>7. MutexHeld'
      BY <1>3 DEF Deliver, ServerInv, ServerTypeOK, RegisteredAlive, MutexHeld
    <2>8. WithinLimit' /\ ThreadOrder'
      BY <1>3 DEF Deliver, ServerInv, ServerTypeOK, WithinLimit, ThreadOrder
    <2> QED  BY <2>5, <2>6, <2>7, <2>8 DEF ServerInv
  <1>4. CASE PostEnd(s)
    BY <1>4 DEF PostEnd, ServerInv, ServerTypeOK, RegisteredAlive, MutexHeld, WithinLimit,
       ThreadOrder
  <1>5. CASE Leave(s) \/ Destroyed(s)
    <2>1. CASE Leave(s)
      BY <2>1 DEF Leave, ServerInv, ServerTypeOK, RegisteredAlive, MutexHeld, WithinLimit,
         ThreadOrder
    <2>2. CASE Destroyed(s)
      BY <2>2 DEF Destroyed, ServerInv, ServerTypeOK, RegisteredAlive, MutexHeld,
         WithinLimit, ThreadOrder
    <2> QED  BY <1>5, <2>1, <2>2
  <1>6. CASE SessionClosed(s)
    <2>1. /\ IsFiniteSet(sessions \ {s})
          /\ Cardinality(sessions \ {s}) <= Cardinality(sessions)
          /\ Cardinality(sessions \ {s}) \in Nat /\ Cardinality(sessions) \in Nat
      <3>1. IsFiniteSet(sessions)
        BY DEF ServerInv, WithinLimit
      <3>2. Cardinality(sessions) \in Nat
        BY <3>1, FS_CardinalityType
      <3>3. /\ IsFiniteSet(sessions \ {s})
            /\ \/ Cardinality(sessions \ {s}) = Cardinality(sessions)
               \/ s \in sessions /\ Cardinality(sessions \ {s}) = Cardinality(sessions) - 1
        BY <3>1, FS_RemoveElement
      <3>4. Cardinality(sessions \ {s}) \in Nat
        BY <3>3, FS_CardinalityType
      <3> QED  BY <3>2, <3>3, <3>4
    <2>5. ServerTypeOK'
      BY <1>6, <2>1 DEF SessionClosed, ServerInv, ServerTypeOK, MutexHeld, WithinLimit
    <2>6. RegisteredAlive'
      BY <1>6, <2>1 DEF SessionClosed, ServerInv, ServerTypeOK, RegisteredAlive, MutexHeld
    <2>7. MutexHeld'
      BY <1>6, <2>1 DEF SessionClosed, ServerInv, ServerTypeOK, RegisteredAlive, MutexHeld
    <2>8. WithinLimit' /\ ThreadOrder'
      BY <1>6, <2>1 DEF SessionClosed, ServerInv, ServerTypeOK, WithinLimit, ThreadOrder
    <2> QED  BY <2>5, <2>6, <2>7, <2>8 DEF ServerInv
  <1>7. CASE AwaitRt(s) \/ RtAnswers(s)
    <2>1. CASE AwaitRt(s)
      BY <2>1 DEF AwaitRt, ServerInv, ServerTypeOK, RegisteredAlive, MutexHeld,
         WithinLimit, ThreadOrder
    <2>2. CASE RtAnswers(s)
      BY <2>2 DEF RtAnswers, ServerInv, ServerTypeOK, RegisteredAlive, MutexHeld,
         WithinLimit, ThreadOrder
    <2> QED  BY <1>7, <2>1, <2>2
  <1> QED  BY <1>1, <1>2, <1>3, <1>4, <1>5, <1>6, <1>7 DEF SessionStep

\* Whatever the sessions, their number and the limit: the server calls only sessions
\* that exist, registers every one that runs, exceeds maxConnections never, although
\* the limit is tested before the mutex is taken, and ends after the last of them.
THEOREM ServerInvHolds == ServerSpec => []ServerInv
  <1>1. ServerInv /\ UNCHANGED serverVars => ServerInv'
    BY DEF serverVars, ServerInv, ServerTypeOK, RegisteredAlive, MutexHeld, WithinLimit,
       ThreadOrder
  <1>2. ServerInv /\ [ServerNext]_serverVars => ServerInv'
    BY <1>1, ProcessStepInv, ServerStepInv, SessionStepInv DEF ServerNext
  <1> QED  BY ServerInitInv, <1>2, PTL DEF ServerSpec

-----------------------------------------------------------------------------
(* The broadcasts                                                           *)

\* What a list of messages holds after one more
LEMMA RangeAppend ==
  ASSUME NEW q \in Seq(Nat), NEW x \in Nat
  PROVE  Range(Append(q, x)) = Range(q) \cup {x}
  <1>1. /\ DOMAIN q = 1..Len(q) /\ Len(q) \in Nat
        /\ DOMAIN Append(q, x) = 1..Len(q) + 1
        /\ \A i \in 1..Len(q) : Append(q, x)[i] = q[i]
        /\ Append(q, x)[Len(q) + 1] = x
    OBVIOUS
  <1>2. \A i \in 1..Len(q) + 1 : Append(q, x)[i] \in Range(q) \cup {x}
    BY <1>1 DEF Range
  <1>3. \A i \in 1..Len(q) : q[i] \in Range(Append(q, x))
    BY <1>1 DEF Range
  <1>4. x \in Range(Append(q, x))
    BY <1>1 DEF Range
  <1> QED  BY <1>1, <1>2, <1>3, <1>4 DEF Range

\* A message put on the list comes last of what the client gets.
LEMMA AppendLast ==
  ASSUME NEW w \in Seq(Nat), NEW b \in Seq(Nat), NEW x \in Nat
  PROVE  w \o Append(b, x) = Append(w \o b, x)
  OBVIOUS

\* A list that has been written out is empty.
LEMMA ConcatEmpty ==
  ASSUME NEW w \in Seq(Nat)
  PROVE  w \o <<>> = w
  OBVIOUS

\* An empty list holds nothing.
LEMMA EmptyRange == Range(<<>>) = {}
  BY DEF Range

\* A step that leaves the messages alone and creates no session
LEMMA DeliveryUnchanged ==
  ASSUME DeliveryInv,
         UNCHANGED <<polite, broadcastList, written, due, posted, left>>,
         \A s \in SessionObj : Alive(s)' => Alive(s)
  PROVE  DeliveryInv'
  BY DEF DeliveryInv, DeliveryOk, Alive, Unvisited, Visited

\* The server thread: a new session has got nothing and has nothing to come.
LEMMA DeliveryServerStep ==
  ASSUME ServerInv, DeliveryInv, ServerStep
  PROVE  DeliveryInv'
  <1>1. CASE Construct
    <2>1. creating \in SessionObj /\ left = {} /\ posted \in Nat
      BY <1>1, MsrServerAssumption DEF Construct, ServerInv, MutexHeld, ServerTypeOK
    <2> SUFFICES ASSUME NEW s \in SessionObj, Alive(s)'
                 PROVE  DeliveryOk(s)'
      BY DEF DeliveryInv, Alive, DeliveryOk
    <2>2. CASE s = creating
      <3>1. /\ broadcastList'[s] = <<>> /\ written'[s] = <<>> /\ due'[s] = <<>>
            /\ left' = {}
        BY <1>1, <2>1, <2>2 DEF Construct, ServerInv, ServerTypeOK
      <3>2. <<>> \o <<>> = <<>>
        BY ConcatEmpty
      <3> QED  BY <3>1, <3>2, EmptyRange DEF DeliveryOk, Visited
    <2>3. CASE s # creating
      BY <1>1, <2>1, <2>3 DEF Construct, ServerInv, ServerTypeOK, DeliveryInv, Alive,
         DeliveryOk, Visited, Unvisited
    <2> QED  BY <2>2, <2>3
  <1>2. CASE ~Construct
    BY <1>2, DeliveryUnchanged
       DEF ServerStep, ServerStart, ServerNoSocket, Accept, AcceptLock, ConstructFails,
           Insert, Cancelled, Final, Drain, Alive
  <1> QED  BY <1>1, <1>2

\* The sessions: a message is missing from the posting to the visit, and then it is
\* the last.
LEMMA DeliverySessionStep ==
  ASSUME ServerInv, DeliveryInv, NEW r \in SessionObj, SessionStep(r)
  PROVE  DeliveryInv'
  <1> USE MsrServerAssumption
  <1>0. /\ posted \in Nat /\ left \subseteq SessionObj
        /\ \A s \in SessionObj :
              /\ polite[s] \in BOOLEAN
              /\ broadcastList[s] \in Seq(Nat) /\ written[s] \in Seq(Nat)
              /\ due[s] \in Seq(Nat)
              /\ written[s] \o broadcastList[s] \in Seq(Nat)
    BY DEF ServerInv, ServerTypeOK
  <1>1. CASE Collect(r)
    <2> SUFFICES ASSUME NEW s \in SessionObj, Alive(s)'
                 PROVE  DeliveryOk(s)'
      BY DEF DeliveryInv, Alive, DeliveryOk
    <2>1. CASE s = r
      <3>1. /\ broadcastList'[s] = <<>> /\ due'[s] = due[s] /\ polite'[s] = polite[s]
            /\ written'[s] = written[s] \o broadcastList[s]
            /\ left' = left /\ posted' = posted
        BY <1>1, <2>1 DEF Collect, ServerInv, ServerTypeOK
      <3>2. (written[s] \o broadcastList[s]) \o <<>> = written[s] \o broadcastList[s]
        BY <1>0, ConcatEmpty
      <3>3. DeliveryOk(s)
        BY <1>1, <2>1 DEF Collect, DeliveryInv, DeliveryOk, Alive
      <3> QED  BY <3>1, <3>2, <3>3 DEF DeliveryOk, Visited, Unvisited
    <2>2. CASE s # r
      BY <1>1, <2>2 DEF Collect, DeliveryInv, DeliveryOk, Alive, Visited, Unvisited,
         ServerInv, ServerTypeOK
    <2> QED  BY <2>1, <2>2
  <1>2. ASSUME NEW p \in BOOLEAN, RemoteHostPolite(r, p) PROVE DeliveryInv'
    <2> SUFFICES ASSUME NEW s \in SessionObj, Alive(s)'
                 PROVE  DeliveryOk(s)'
      BY DEF DeliveryInv, Alive, DeliveryOk
    <2>1. CASE s = r
      <3>1. DeliveryOk(s)
        BY <1>2, <2>1 DEF RemoteHostPolite, DeliveryInv, DeliveryOk, Alive
      <3>2. broadcastList'[s] = <<>>
        BY <1>2, <2>1, <3>1, <1>0 DEF RemoteHostPolite, DeliveryOk, ServerInv, ServerTypeOK
      <3>3. due'[s] = <<>> /\ written'[s] = <<>>
        BY <1>2, <2>1 DEF RemoteHostPolite, ServerInv, ServerTypeOK
      <3>4. <<>> \o <<>> = <<>>
        BY ConcatEmpty
      <3> QED  BY <3>2, <3>3, <3>4, EmptyRange DEF DeliveryOk, Visited, Unvisited
    <2>2. CASE s # r
      BY <1>2, <2>2 DEF RemoteHostPolite, DeliveryInv, DeliveryOk, Alive, Visited,
         Unvisited, ServerInv, ServerTypeOK
    <2> QED  BY <2>1, <2>2
  <1>3. CASE Post(r)
    <2>0. left = {} /\ posted' = posted + 1 /\ left' = sessions
      BY <1>3 DEF Post, ServerInv, MutexHeld
    <2> SUFFICES ASSUME NEW s \in SessionObj, Alive(s)'
                 PROVE  DeliveryOk(s)'
      BY DEF DeliveryInv, Alive, DeliveryOk
    <2>1. Alive(s)
      BY <1>3 DEF Post, Alive, ServerInv, ServerTypeOK
    <2>2. s \in sessions
      BY <2>1, <1>3 DEF Alive, Post, ServerInv, RegisteredAlive, MutexHeld
    <2>3. /\ polite'[s] = polite[s] /\ broadcastList'[s] = broadcastList[s]
          /\ written'[s] = written[s]
          /\ due'[s] = IF polite[s] THEN due[s] ELSE Append(due[s], posted')
      BY <1>3, <2>2, <1>0 DEF Post
    <2>4. DeliveryOk(s)
      BY <2>1 DEF DeliveryInv, DeliveryOk, Alive
    <2>5. 0..posted \subseteq 0..posted' /\ posted' \in 0..posted' /\ posted' \in Nat
      BY <2>0, <1>0
    <2>6. CASE polite[s]
      BY <2>3, <2>4, <2>5, <2>6 DEF DeliveryOk
    <2>7. CASE ~polite[s]
      <3>1. Range(due'[s]) \subseteq 0..posted'
        <4>1. Range(Append(due[s], posted')) = Range(due[s]) \cup {posted'}
          BY <1>0, <2>5, RangeAppend, Zenon
        <4>2. due'[s] = Append(due[s], posted')
          BY <2>3, <2>7
        <4>3. Range(due[s]) \subseteq 0..posted
          BY <2>4 DEF DeliveryOk
        <4> QED  BY <4>1, <4>2, <4>3, <2>5
      <3>2. due[s] = written[s] \o broadcastList[s]
        BY <2>0, <2>4, <2>7 DEF DeliveryOk, Visited
      <3>3. due'[s] = Append(written'[s] \o broadcastList'[s], posted')
        BY <2>3, <2>7, <3>2
      <3>4. s \in left' /\ ~polite'[s]
        BY <2>0, <2>2, <2>3, <2>7
      <3> QED  BY <3>1, <3>3, <3>4 DEF DeliveryOk, Unvisited
    <2> QED  BY <2>6, <2>7, <1>0
  <1>4. CASE Deliver(r)
    <2>1. PICK t \in left :
             /\ left' = left \ {t}
             /\ broadcastList' = IF polite[t] THEN broadcastList
                                 ELSE [broadcastList EXCEPT ![t] = Append(@, posted)]
             /\ due' = IF ~polite[t] /\ posted \notin Range(due[t])
                       THEN [due EXCEPT ![t] = Append(@, posted)] ELSE due
      BY <1>4 DEF Deliver
    <2>2. /\ UNCHANGED <<at, polite, written, posted>>
          /\ t \in SessionObj
      BY <1>4, <1>0 DEF Deliver
    <2> SUFFICES ASSUME NEW s \in SessionObj, Alive(s)'
                 PROVE  DeliveryOk(s)'
      BY DEF DeliveryInv, Alive, DeliveryOk
    <2>3. DeliveryOk(s)
      BY <2>2 DEF DeliveryInv, DeliveryOk, Alive
    <2>4. CASE s # t \/ polite[t]
      <3>1. /\ broadcastList'[s] = broadcastList[s] /\ due'[s] = due[s]
            /\ s # t => (s \in left' <=> s \in left)
        BY <2>1, <2>2, <2>4 DEF ServerInv, ServerTypeOK
      <3> QED  BY <2>2, <2>3, <2>4, <3>1 DEF DeliveryOk, Visited, Unvisited
    <2>5. CASE s = t /\ ~polite[t]
      <3>1. /\ broadcastList'[s] = Append(broadcastList[s], posted)
            /\ due'[s] = IF posted \in Range(due[s]) THEN due[s] ELSE Append(due[s], posted)
            /\ s \notin left'
        BY <2>1, <2>2, <2>5 DEF ServerInv, ServerTypeOK
      <3>2. Unvisited(s)
        BY <2>3, <2>5, <2>1 DEF DeliveryOk
      <3>3. due'[s] = Append(written[s] \o broadcastList[s], posted)
        <4>1. CASE Visited(s) /\ posted \notin Range(due[s])
          BY <3>1, <4>1 DEF Visited
        <4>2. CASE due[s] = Append(written[s] \o broadcastList[s], posted)
          <5>1. Range(due[s]) = Range(written[s] \o broadcastList[s]) \cup {posted}
            BY <1>0, <4>2, RangeAppend, Zenon
          <5>2. posted \in Range(due[s])
            BY <5>1
          <5> QED  BY <3>1, <4>2, <5>2
        <4> QED  BY <3>2, <4>1, <4>2 DEF Unvisited
      <3>4. due'[s] = written[s] \o broadcastList'[s]
        <4>1. written[s] \o Append(broadcastList[s], posted)
                = Append(written[s] \o broadcastList[s], posted)
          BY <1>0, AppendLast, Zenon
        <4> QED  BY <3>1, <3>3, <4>1, Zenon
      <3>5. Range(due'[s]) \subseteq 0..posted
        BY <3>1, <2>3, <1>0, RangeAppend DEF DeliveryOk
      <3> QED  BY <2>2, <2>5, <3>1, <3>4, <3>5 DEF DeliveryOk, Visited
    <2> QED  BY <2>4, <2>5
  <1>5. CASE PostEnd(r) \/ Leave(r) \/ SessionClosed(r) \/ Destroyed(r)
    BY <1>5, DeliveryUnchanged
       DEF PostEnd, Leave, SessionClosed, Destroyed, Alive, ServerInv, ServerTypeOK
  <1>6. CASE AwaitRt(r) \/ RtAnswers(r)
    BY <1>6, DeliveryUnchanged DEF AwaitRt, RtAnswers, Alive, ServerInv, ServerTypeOK
  <1> QED  BY <1>1, <1>2, <1>3, <1>4, <1>5, <1>6 DEF SessionStep

\* For any number of sessions and broadcasts: a session gets each broadcast that is
\* posted while it is registered, its own included, once and in the order of posting.
THEOREM BroadcastsCompleteHolds == ServerSpec => []BroadcastsComplete
  <1>1. ServerInit => DeliveryInv
    BY DEF ServerInit, DeliveryInv, Alive
  <1>2. ServerInv /\ DeliveryInv /\ [ServerNext]_serverVars => DeliveryInv'
    <2>1. DeliveryInv /\ (ProcessStep \/ Stop \/ Stopped) => DeliveryInv'
      BY DeliveryUnchanged DEF ProcessStep, Fork, ForkFails, RtSetup, AppEnds, NrtSetup,
         Stop, Stopped, OnlyMain, Alive
    <2>2. DeliveryInv /\ UNCHANGED serverVars => DeliveryInv'
      BY DeliveryUnchanged DEF serverVars, Alive
    <2> QED  BY <2>1, <2>2, DeliveryServerStep, DeliverySessionStep DEF ServerNext
  <1>3. ServerInv /\ DeliveryInv => BroadcastsComplete
    BY DEF ServerInv, ServerTypeOK, RegisteredAlive, DeliveryInv, DeliveryOk, Alive,
       Visited, BroadcastsComplete
  <1> QED  BY ServerInvHolds, <1>1, <1>2, <1>3, PTL DEF ServerSpec

-----------------------------------------------------------------------------
(* Subscriptions                                                            *)

\* SubscriptionManager as a record, in a state that SubInv allows.
Stamps == Seq(0..TimeMod - 1)

Active == [sets : [SetId -> [subs : SUBSET Key, time : Stamps]],
           counter : [Group \X Decimations -> 0..SizeMod - 1]]

ManagerType == [sub : [Key -> Subscription \cup {NoSub}], active : Active,
                signal : [Source -> {"idle", "requested", "active"}]]

\* The subscriptions that belong into a set.
Members(m, i) == {k \in Key : /\ m.sub[k] # NoSub
                              /\ m.signal[SignalOf[k[1]]] = "active"
                              /\ SetOf(k, m.sub[k]) = i}

InUse(m, s) == \E k \in Key : m.sub[k] # NoSub /\ SignalOf[k[1]] = s

\* The values blocks are those of the last time stamps.
IsTail(blocks, time) ==
    /\ Len(blocks) <= Len(time)
    /\ \A n \in 1..Len(blocks) : blocks[n] = time[Len(time) - Len(blocks) + n]

ManagerInv(m) ==
    /\ m \in ManagerType
    /\ \A i \in SetId : m.active.sets[i].subs = Members(m, i)
    /\ \A s \in Source : m.signal[s] = "idle" <=> ~InUse(m, s)
    /\ \A i \in SetId : i[3] > 0 => Len(m.active.sets[i].time) < i[3]
    /\ \A i \in SetId : \A k \in m.active.sets[i].subs :
           i[3] > 0 => IsTail(m.sub[k].blocks, m.active.sets[i].time)
    /\ \A k \in Key : m.sub[k] # NoSub /\ m.signal[SignalOf[k[1]]] # "active"
                        => m.sub[k].blocks = <<>>

\* The invariant of the module says this of its manager.
LEMMA SubInvManager ==
  SubInv <=> /\ ManagerInv(Manager)
             /\ quiet \in BOOLEAN
             /\ value \in [Source -> Value]
             /\ clock \in 0..TimeMod - 1
             /\ BlocksAligned
  <1>1. /\ Manager.sub = sub /\ Manager.active = active /\ Manager.signal = signal
        /\ Manager \in ManagerType <=> /\ sub \in [Key -> Subscription \cup {NoSub}]
                                       /\ active \in Active
                                       /\ signal \in [Source -> {"idle", "requested", "active"}]
    BY DEF Manager, ManagerType
  <1>2. SubTypeOK <=> /\ Manager \in ManagerType /\ quiet \in BOOLEAN
                      /\ value \in [Source -> Value] /\ clock \in 0..TimeMod - 1
    BY <1>1 DEF SubTypeOK, Active, Stamps
  <1>3. ActiveExact <=> /\ \A i \in SetId : active.sets[i].subs = Members(Manager, i)
                        /\ \A s \in Source : signal[s] = "idle" <=> ~InUse(Manager, s)
    BY <1>1 DEF ActiveExact, Members, InUse
  <1>4. BlocksFit <=>
          /\ \A i \in SetId : i[3] > 0 => Len(active.sets[i].time) < i[3]
          /\ \A i \in SetId : \A k \in active.sets[i].subs :
                 i[3] > 0 => IsTail(sub[k].blocks, active.sets[i].time)
          /\ \A k \in Key : sub[k] # NoSub /\ signal[SignalOf[k[1]]] # "active"
                              => sub[k].blocks = <<>>
    BY Zenon DEF BlocksFit, IsTail
  <1> QED  BY <1>1, <1>2, <1>3, <1>4 DEF SubInv, ManagerInv

\* What commands make of their attributes is in range.
LEMMA Decimals ==
  /\ Blocksizes \subseteq Nat
  /\ Decimations \subseteq Nat
  /\ 0 \in Blocksizes
  /\ 1 \in Decimations
  /\ \A r \in Reduction : Max1(r) \in Decimations
  /\ \A b \in Blocksize \cup {1} : Max1(b) \in Blocksizes \ {0}
  /\ \A b \in Blocksizes \ {0} : BlockReduction(b) \in Decimations
  <1>1. \A n \in Nat : Max1(n) \in Nat \ {0}
    BY DEF Max1
  <1>2. Blocksizes \subseteq Nat /\ \A b \in Blocksize \cup {1} : Max1(b) \in Blocksizes \ {0}
    BY <1>1, SubAssumption DEF Blocksizes
  <1>3. \A b \in Nat \ {0} : BlockReduction(b) \in Nat
    BY SubAssumption DEF BlockReduction
  <1>4. Decimations \subseteq Nat
    BY <1>1, <1>2, <1>3, SubAssumption DEF Decimations
  <1> QED  BY <1>2, <1>4 DEF Blocksizes, Decimations

\* The set of a subscription.
LEMMA SetOfType ==
  ASSUME NEW k \in Key, NEW s \in Subscription
  PROVE  /\ SetOf(k, s) \in SetId
         /\ SetOf(k, s)[3] = s.blocksize
         /\ <<k[2], s.decimation>> \in Group \X Decimations
         /\ SignalOf[k[1]] \in Source
         /\ s # NoSub
         /\ s.blocksize \in Nat
  <1>1. k[1] \in Channel /\ k[2] \in Group
    BY DEF Key
  <1>2. s.decimation \in Decimations /\ s.blocksize \in Blocksizes /\ s.blocksize \in Nat
    BY Decimals DEF Subscription
  <1>3. NoSub.blocksize = -1
    BY DEF NoSub
  <1> QED  BY <1>1, <1>2, <1>3, SubAssumption DEF SetOf, SetId

\* remove() takes the subscription out of its set; the time stamps go with the
\* last member.
LEMMA RemoveFacts ==
  ASSUME NEW a \in Active, NEW k \in Key, NEW s \in Subscription
  PROVE  /\ RemoveSub(a, k, s) \in Active
         /\ \A i \in SetId :
                LET r == RemoveSub(a, k, s).sets[i]
                IN  /\ r.subs = IF i = SetOf(k, s) THEN a.sets[i].subs \ {k}
                                                   ELSE a.sets[i].subs
                    /\ r.time = a.sets[i].time \/ (r.time = <<>> /\ r.subs = {})
  <1> DEFINE id   == SetOf(k, s)
             old  == a.sets[id].subs
             sets == [a.sets EXCEPT ![id] = IF old \subseteq {k} THEN EmptySet
                                            ELSE [@ EXCEPT !.subs = old \ {k}]]
             r    == RemoveSub(a, k, s)
  <1>1. /\ a.sets \in [SetId -> [subs : SUBSET Key, time : Stamps]]
        /\ a.counter \in [Group \X Decimations -> 0..SizeMod - 1]
    BY DEF Active
  <1>2. id \in SetId /\ <<k[2], s.decimation>> \in Group \X Decimations
    BY SetOfType
  <1>3. EmptySet \in [subs : SUBSET Key, time : Stamps] /\ EmptySet.subs = {}
            /\ EmptySet.time = <<>>
    BY DEF EmptySet, Stamps
  <1>4. sets \in [SetId -> [subs : SUBSET Key, time : Stamps]]
    BY <1>1, <1>2, <1>3
  <1>5. /\ r.sets = sets
        /\ r.counter \in [Group \X Decimations -> 0..SizeMod - 1]
        /\ r = [sets |-> r.sets, counter |-> r.counter]
    <2>1. 0 \in 0..SizeMod - 1
      BY SubAssumption
    <2> QED  BY <1>1, <1>2, <2>1 DEF RemoveSub
  <1>6. r \in Active
    BY <1>4, <1>5 DEF Active
  <1>7. ASSUME NEW i \in SetId
        PROVE  /\ sets[i].subs = IF i = id THEN a.sets[i].subs \ {k} ELSE a.sets[i].subs
               /\ sets[i].time = a.sets[i].time \/ (sets[i].time = <<>> /\ sets[i].subs = {})
    <2>1. CASE i # id
      BY <1>1, <1>2, <2>1
    <2>2. CASE i = id /\ old \subseteq {k}
      BY <1>1, <1>2, <1>3, <2>2
    <2>3. CASE i = id /\ ~(old \subseteq {k})
      BY <1>1, <1>2, <2>3
    <2> QED  BY <2>1, <2>2, <2>3
  <1> QED  BY <1>5, <1>6, <1>7

\* newSignal() adds the subscriptions of the signal to their sets.
LEMMA NewSignalFacts ==
  ASSUME NEW a \in Active, NEW subs, NEW sig
  PROVE  /\ NewSignal(a, subs, sig) \in Active
         /\ \A i \in SetId :
                LET r == NewSignal(a, subs, sig).sets[i]
                IN  /\ r.subs = a.sets[i].subs \cup
                           {k \in Key : /\ subs[k] # NoSub
                                        /\ SignalOf[k[1]] = sig
                                        /\ SetOf(k, subs[k]) = i}
                    /\ r.time = a.sets[i].time
  <1>1. /\ a.sets \in [SetId -> [subs : SUBSET Key, time : Stamps]]
        /\ a.counter \in [Group \X Decimations -> 0..SizeMod - 1]
    BY DEF Active
  <1> QED  BY <1>1 DEF NewSignal, Active

\* The members of the sets of a manager, one by one.
LEMMA MembersKnown ==
  ASSUME NEW m, ManagerInv(m), NEW i \in SetId, NEW k \in Key
  PROVE  /\ k \in m.active.sets[i].subs <=>
                /\ m.sub[k] # NoSub
                /\ m.signal[SignalOf[k[1]]] = "active"
                /\ SetOf(k, m.sub[k]) = i
         /\ m.sub[k] # NoSub => m.sub[k] \in Subscription
         /\ SignalOf[k[1]] \in Source
         /\ m.active \in Active
         /\ m.sub \in [Key -> Subscription \cup {NoSub}]
         /\ m.signal \in [Source -> {"idle", "requested", "active"}]
  <1>1. /\ m.sub \in [Key -> Subscription \cup {NoSub}]
        /\ m.signal \in [Source -> {"idle", "requested", "active"}]
        /\ m.active \in Active
    BY DEF ManagerInv, ManagerType
  <1>2. SignalOf[k[1]] \in Source
    BY SubAssumption DEF Key
  <1> QED  BY <1>1, <1>2 DEF ManagerInv, Members

\* What changes the manager: the subscription of one channel becomes new or
\* goes, its old one leaves its set, others that join a set were waiting for
\* their signal.
LEMMA ManagerChange ==
  ASSUME NEW m, ManagerInv(m), NEW n \in ManagerType, NEW key \in Key,
         \A k \in Key \ {key} : n.sub[k] = m.sub[k],
         n.sub[key] # NoSub => n.sub[key].blocks = <<>>,
         \A i \in SetId : n.active.sets[i].subs = Members(n, i),
         \A s \in Source : n.signal[s] = "idle" <=> ~InUse(n, s),
         \A s \in Source : n.signal[s] # "active" =>
             m.signal[s] # "active" \/ ~InUse(n, s),
         \A i \in SetId : \/ n.active.sets[i].time = m.active.sets[i].time
                          \/ /\ n.active.sets[i].time = <<>>
                             /\ n.active.sets[i].subs \subseteq
                                    {key} \cup (Key \ m.active.sets[i].subs)
  PROVE  ManagerInv(n)
  <1>1. /\ m \in ManagerType
        /\ \A i \in SetId : /\ m.active.sets[i].time \in Stamps
                            /\ n.active.sets[i].time \in Stamps
                            /\ n.active.sets[i].subs \subseteq Key
        /\ Blocksizes \subseteq Nat
    BY Decimals DEF ManagerInv, ManagerType, Active
  <1>2. Len(<<>>) = 0 /\ <<>> \in Stamps
    BY DEF Stamps
  <1>3. ASSUME NEW i \in SetId, i[3] > 0 PROVE Len(n.active.sets[i].time) < i[3]
    <2>1. Len(m.active.sets[i].time) < i[3]
      BY <1>3 DEF ManagerInv
    <2> QED  BY <1>2, <1>3, <2>1
  <1>4. ASSUME NEW k \in Key, n.sub[k] # NoSub, n.signal[SignalOf[k[1]]] # "active"
        PROVE  n.sub[k].blocks = <<>>
    <2>1. CASE k # key
      <3>1. SignalOf[k[1]] \in Source
        BY SubAssumption DEF Key
      <3>2. InUse(n, SignalOf[k[1]])
        BY <1>4 DEF InUse
      <3>3. m.signal[SignalOf[k[1]]] # "active" /\ n.sub[k] = m.sub[k]
        BY <1>4, <2>1, <3>1, <3>2
      <3> QED  BY <1>4, <3>3 DEF ManagerInv
    <2> QED  BY <1>4, <2>1
  <1>5. ASSUME NEW time \in Stamps PROVE IsTail(<<>>, time)
    BY DEF IsTail, Stamps
  <1>6. ASSUME NEW i \in SetId, NEW k \in n.active.sets[i].subs, i[3] > 0
        PROVE  IsTail(n.sub[k].blocks, n.active.sets[i].time)
    <2>1. /\ k \in Key /\ n.sub[k] # NoSub /\ SetOf(k, n.sub[k]) = i
          /\ n.active.sets[i].time \in Stamps
      BY <1>1, <1>6 DEF Members
    <2>2. CASE k = key
      BY <1>5, <2>1, <2>2
    <2>3. CASE k # key /\ k \in m.active.sets[i].subs
      <3>1. IsTail(m.sub[k].blocks, m.active.sets[i].time)
        BY <1>6, <2>3 DEF ManagerInv
      <3>2. n.active.sets[i].time = m.active.sets[i].time
        BY <1>6, <2>3
      <3> QED  BY <2>1, <2>3, <3>1, <3>2
    <2>4. CASE k # key /\ k \notin m.active.sets[i].subs
      <3>1. m.sub[k] = n.sub[k] /\ m.signal[SignalOf[k[1]]] # "active"
        BY <2>1, <2>4, MembersKnown
      <3>2. m.sub[k].blocks = <<>>
        BY <2>1, <3>1 DEF ManagerInv
      <3> QED  BY <1>5, <2>1, <3>1, <3>2
    <2> QED  BY <2>2, <2>3, <2>4
  <1> QED  BY <1>3, <1>4, <1>6 DEF ManagerInv

\* subscribe() keeps the manager right.
LEMMA SubscribeKeeps ==
  ASSUME NEW m, ManagerInv(m), NEW key \in Key, NEW new \in Subscription,
         new.blocks = <<>>, NEW atOnce
  PROVE  ManagerInv(SubscribeChannel(m, key, new, atOnce))
  <1> DEFINE n    == SubscribeChannel(m, key, new, atOnce)
             sig  == SignalOf[key[1]]
             subs == [m.sub EXCEPT ![key] = new]
             rest == IF m.sub[key] = NoSub THEN m.active
                     ELSE RemoveSub(m.active, key, m.sub[key])
             now  == m.signal[sig] = "active" \/ (m.signal[sig] = "idle" /\ sig \in atOnce)
             act  == IF now THEN NewSignal(rest, subs, sig) ELSE rest
             sgn  == [m.signal EXCEPT ![sig] = IF now THEN "active" ELSE "requested"]
  <1>1. n = [sub |-> subs, active |-> act, signal |-> sgn]
    BY DEF SubscribeChannel
  <1>2. /\ m.sub \in [Key -> Subscription \cup {NoSub}]
        /\ m.signal \in [Source -> {"idle", "requested", "active"}]
        /\ m.active \in Active
        /\ sig \in Source
        /\ \A k \in Key : SignalOf[k[1]] \in Source
        /\ new # NoSub
    BY SubAssumption, SetOfType DEF ManagerInv, ManagerType, Key
  <1>3. /\ subs \in [Key -> Subscription \cup {NoSub}]
        /\ subs[key] = new
        /\ \A k \in Key \ {key} : subs[k] = m.sub[k]
        /\ sgn \in [Source -> {"idle", "requested", "active"}]
        /\ sgn[sig] = IF now THEN "active" ELSE "requested"
        /\ \A x \in Source \ {sig} : sgn[x] = m.signal[x]
    BY <1>2
  <1>4. /\ rest \in Active
        /\ \A i \in SetId : /\ rest.sets[i].subs = m.active.sets[i].subs \ {key}
                            /\ \/ rest.sets[i].time = m.active.sets[i].time
                               \/ rest.sets[i].time = <<>> /\ rest.sets[i].subs = {}
    <2>1. CASE m.sub[key] = NoSub
      BY <1>2, <2>1, MembersKnown
    <2>2. CASE m.sub[key] # NoSub
      <3>1. m.sub[key] \in Subscription
        BY <1>2, <2>2
      <3>2. \A i \in SetId : key \in m.active.sets[i].subs => i = SetOf(key, m.sub[key])
        BY MembersKnown
      <3> DEFINE r == RemoveSub(m.active, key, m.sub[key])
      <3>3. /\ r \in Active
            /\ \A i \in SetId :
                   /\ r.sets[i].subs = IF i = SetOf(key, m.sub[key])
                                       THEN m.active.sets[i].subs \ {key}
                                       ELSE m.active.sets[i].subs
                   /\ \/ r.sets[i].time = m.active.sets[i].time
                      \/ r.sets[i].time = <<>> /\ r.sets[i].subs = {}
        BY <1>2, <3>1, RemoveFacts
      <3>4. rest = r
        BY <2>2
      <3> HIDE DEF r, rest
      <3>5. \A i \in SetId : r.sets[i].subs = m.active.sets[i].subs \ {key}
        BY <3>2, <3>3
      <3> QED  BY <3>3, <3>4, <3>5
    <2> QED  BY <2>1, <2>2
  <1> HIDE DEF rest, subs, sgn
  <1>5. /\ act \in Active
        /\ \A i \in SetId :
               /\ act.sets[i].subs = rest.sets[i].subs \cup
                      {k \in Key : now /\ subs[k] # NoSub /\ SignalOf[k[1]] = sig
                                       /\ SetOf(k, subs[k]) = i}
               /\ act.sets[i].time = rest.sets[i].time
    <2>1. CASE now
      BY <1>4, <2>1, NewSignalFacts
    <2>2. CASE ~now
      BY <1>4, <2>2
    <2> QED  BY <2>1, <2>2
  <1> HIDE DEF act, n
  <1>6. n.sub = subs /\ n.active = act /\ n.signal = sgn /\ n \in ManagerType
    BY <1>1, <1>3, <1>5 DEF ManagerType
  <1>7. ASSUME NEW i \in SetId, NEW k \in Key
        PROVE  k \in act.sets[i].subs <=> /\ subs[k] # NoSub
                                          /\ sgn[SignalOf[k[1]]] = "active"
                                          /\ SetOf(k, subs[k]) = i
    <2>1. k \in act.sets[i].subs <=>
              \/ k # key /\ k \in m.active.sets[i].subs
              \/ now /\ subs[k] # NoSub /\ SignalOf[k[1]] = sig /\ SetOf(k, subs[k]) = i
      BY <1>4, <1>5
    <2>2. k \in m.active.sets[i].subs <=>
              /\ m.sub[k] # NoSub
              /\ m.signal[SignalOf[k[1]]] = "active"
              /\ SetOf(k, m.sub[k]) = i
      BY MembersKnown
    <2>3. k # key => subs[k] = m.sub[k]
      BY <1>3
    <2>4. SignalOf[k[1]] # sig => sgn[SignalOf[k[1]]] = m.signal[SignalOf[k[1]]]
      BY <1>2, <1>3
    <2>5. CASE SignalOf[k[1]] = sig
      <3>1. sgn[sig] = "active" <=> now
        BY <1>3
      <3>2. m.signal[sig] = "active" => now
        OBVIOUS
      <3> HIDE DEF now, sig
      <3> QED  BY <2>1, <2>2, <2>3, <2>5, <3>1, <3>2
    <2>6. CASE SignalOf[k[1]] # sig
      <3>1. k # key
        BY <2>6
      <3> QED  BY <2>1, <2>2, <2>3, <2>4, <2>6, <3>1
    <2> QED  BY <2>5, <2>6
  <1>8. \A i \in SetId : n.active.sets[i].subs = Members(n, i)
    <2>1. \A i \in SetId : act.sets[i].subs \subseteq Key
      BY <1>5 DEF Active
    <2> QED  BY <1>6, <1>7, <2>1 DEF Members
  <1>9. ASSUME NEW s \in Source PROVE n.signal[s] = "idle" <=> ~InUse(n, s)
    <2>1. CASE s = sig
      BY <1>2, <1>3, <1>6, <2>1 DEF InUse
    <2>2. CASE s # sig
      <3>1. InUse(n, s) <=> InUse(m, s)
        BY <1>3, <1>6, <2>2 DEF InUse
      <3>2. n.signal[s] = m.signal[s]
        BY <1>3, <1>6, <2>2
      <3> QED  BY <3>1, <3>2 DEF ManagerInv
    <2> QED  BY <2>1, <2>2
  <1>10. ASSUME NEW s \in Source, n.signal[s] # "active" PROVE m.signal[s] # "active"
    BY <1>3, <1>6, <1>10
  <1>11. ASSUME NEW i \in SetId
         PROVE  \/ n.active.sets[i].time = m.active.sets[i].time
                \/ /\ n.active.sets[i].time = <<>>
                   /\ n.active.sets[i].subs \subseteq {key} \cup (Key \ m.active.sets[i].subs)
    <2>1. \/ act.sets[i].time = m.active.sets[i].time
          \/ act.sets[i].time = <<>> /\ rest.sets[i].subs = {}
      BY <1>4, <1>5
    <2>2. rest.sets[i].subs = {} => m.active.sets[i].subs \subseteq {key}
      BY <1>4
    <2>3. act.sets[i].subs \subseteq Key
      BY <1>5 DEF Active
    <2> QED  BY <1>6, <2>1, <2>2, <2>3
  <1>12. ManagerInv(n)
    BY <1>3, <1>6, <1>8, <1>9, <1>10, <1>11, ManagerChange
  <1> QED  BY <1>12 DEF n

\* unsubscribe() keeps the manager right.
LEMMA UnsubscribeKeeps ==
  ASSUME NEW m, ManagerInv(m), NEW key \in Key
  PROVE  ManagerInv(UnsubscribeChannel(m, key))
  <1>1. CASE m.sub[key] = NoSub
    BY <1>1 DEF UnsubscribeChannel
  <1>2. CASE m.sub[key] # NoSub
    <2> DEFINE n    == UnsubscribeChannel(m, key)
               sig  == SignalOf[key[1]]
               subs == [m.sub EXCEPT ![key] = NoSub]
               used == \E j \in Key : subs[j] # NoSub /\ SignalOf[j[1]] = sig
               act  == RemoveSub(m.active, key, m.sub[key])
               sgn  == IF used THEN m.signal ELSE [m.signal EXCEPT ![sig] = "idle"]
    <2>1. n = [sub |-> subs, active |-> act, signal |-> sgn]
      BY <1>2 DEF UnsubscribeChannel
    <2>2. /\ m.sub \in [Key -> Subscription \cup {NoSub}]
          /\ m.signal \in [Source -> {"idle", "requested", "active"}]
          /\ m.active \in Active
          /\ sig \in Source
          /\ \A k \in Key : SignalOf[k[1]] \in Source
          /\ m.sub[key] \in Subscription
      BY <1>2, SubAssumption DEF ManagerInv, ManagerType, Key
    <2>3. /\ subs \in [Key -> Subscription \cup {NoSub}]
          /\ subs[key] = NoSub
          /\ \A k \in Key \ {key} : subs[k] = m.sub[k]
      BY <2>2
    <2> HIDE DEF subs
    <2>4. /\ sgn \in [Source -> {"idle", "requested", "active"}]
          /\ sgn[sig] = IF used THEN m.signal[sig] ELSE "idle"
          /\ \A x \in Source \ {sig} : sgn[x] = m.signal[x]
      BY <2>2
    <2> HIDE DEF sgn
    <2>5. /\ act \in Active
          /\ \A i \in SetId :
                 /\ act.sets[i].subs = IF i = SetOf(key, m.sub[key])
                                       THEN m.active.sets[i].subs \ {key}
                                       ELSE m.active.sets[i].subs
                 /\ \/ act.sets[i].time = m.active.sets[i].time
                    \/ act.sets[i].time = <<>> /\ act.sets[i].subs = {}
      BY <2>2, RemoveFacts
    <2> HIDE DEF act
    <2>6. \A i \in SetId : act.sets[i].subs = m.active.sets[i].subs \ {key}
      <3>1. \A i \in SetId : key \in m.active.sets[i].subs => i = SetOf(key, m.sub[key])
        BY MembersKnown
      <3> QED  BY <2>5, <3>1
    <2> HIDE DEF n
    <2>7. n.sub = subs /\ n.active = act /\ n.signal = sgn /\ n \in ManagerType
      BY <2>1, <2>3, <2>4, <2>5 DEF ManagerType
    <2>8. used <=> InUse(n, sig)
      BY <2>7 DEF InUse
    <2> HIDE DEF used
    <2>9. ASSUME NEW i \in SetId, NEW k \in Key
          PROVE  k \in act.sets[i].subs <=> /\ subs[k] # NoSub
                                            /\ sgn[SignalOf[k[1]]] = "active"
                                            /\ SetOf(k, subs[k]) = i
      <3>1. k \in m.active.sets[i].subs <=>
                /\ m.sub[k] # NoSub
                /\ m.signal[SignalOf[k[1]]] = "active"
                /\ SetOf(k, m.sub[k]) = i
        BY MembersKnown
      <3>2. CASE k = key
        BY <2>3, <2>6, <3>2
      <3>3. CASE k # key
        <4>1. subs[k] = m.sub[k] /\ (k \in act.sets[i].subs <=> k \in m.active.sets[i].subs)
          BY <2>3, <2>6, <3>3
        <4>2. subs[k] # NoSub => sgn[SignalOf[k[1]]] = m.signal[SignalOf[k[1]]]
          BY <2>2, <2>4, <2>7, <2>8 DEF InUse
        <4> QED  BY <3>1, <4>1, <4>2
      <3> QED  BY <3>2, <3>3
    <2>10. \A i \in SetId : n.active.sets[i].subs = Members(n, i)
      <3>1. \A i \in SetId : act.sets[i].subs \subseteq Key
        BY <2>5 DEF Active
      <3> QED  BY <2>7, <2>9, <3>1 DEF Members
    <2>11. ASSUME NEW s \in Source PROVE n.signal[s] = "idle" <=> ~InUse(n, s)
      <3>1. CASE s = sig
        <4>1. InUse(m, sig) /\ m.signal[sig] # "idle"
          BY <1>2, <2>2 DEF ManagerInv, InUse
        <4> QED  BY <2>4, <2>7, <2>8, <3>1, <4>1
      <3>2. CASE s # sig
        <4>1. InUse(n, s) <=> InUse(m, s)
          BY <2>3, <2>7, <3>2 DEF InUse
        <4>2. n.signal[s] = m.signal[s]
          BY <2>4, <2>7, <3>2
        <4> QED  BY <4>1, <4>2 DEF ManagerInv
      <3> QED  BY <3>1, <3>2
    <2>12. ASSUME NEW s \in Source, n.signal[s] # "active"
           PROVE  m.signal[s] # "active" \/ ~InUse(n, s)
      BY <2>4, <2>7, <2>8, <2>12
    <2>13. ASSUME NEW i \in SetId
           PROVE  \/ n.active.sets[i].time = m.active.sets[i].time
                  \/ /\ n.active.sets[i].time = <<>>
                     /\ n.active.sets[i].subs \subseteq {key} \cup (Key \ m.active.sets[i].subs)
      BY <2>5, <2>7
    <2>14. ManagerInv(n)
      BY <2>3, <2>7, <2>10, <2>11, <2>12, <2>13, ManagerChange
    <2> QED  BY <2>14 DEF n
  <1> QED  BY <1>1, <1>2

\* sync() keeps the manager right.
LEMMA SyncKeeps ==
  ASSUME NEW m, ManagerInv(m)
  PROVE  ManagerInv(Sync(m))
  <1> DEFINE n == Sync(m)
  <1>1. /\ m.sub \in [Key -> Subscription \cup {NoSub}]
        /\ m.signal \in [Source -> {"idle", "requested", "active"}]
        /\ m.active \in Active
        /\ m.active.sets \in [SetId -> [subs : SUBSET Key, time : Stamps]]
    BY DEF ManagerInv, ManagerType, Active
  <1>2. <<>> \in Stamps /\ Len(<<>>) = 0 /\ IsTail(<<>>, <<>>)
    BY DEF Stamps, IsTail
  <1>3. ASSUME NEW k \in Key
        PROVE  /\ n.sub[k] = IF \E i \in SetId : k \in m.active.sets[i].subs
                             THEN [m.sub[k] EXCEPT !.blocks = <<>>] ELSE m.sub[k]
               /\ n.sub[k] \in Subscription \cup {NoSub}
               /\ n.sub[k] # NoSub <=> m.sub[k] # NoSub
               /\ m.sub[k] # NoSub => SetOf(k, n.sub[k]) = SetOf(k, m.sub[k])
    <2>1. n.sub[k] = IF \E i \in SetId : k \in m.active.sets[i].subs
                     THEN [m.sub[k] EXCEPT !.blocks = <<>>] ELSE m.sub[k]
      BY DEF Sync
    <2>2. CASE \E i \in SetId : k \in m.active.sets[i].subs
      <3>1. m.sub[k] \in Subscription
        BY <2>2, MembersKnown
      <3>2. n.sub[k] \in Subscription /\ n.sub[k].decimation = m.sub[k].decimation
                /\ n.sub[k].blocksize = m.sub[k].blocksize
        BY <1>2, <2>1, <2>2, <3>1 DEF Subscription, Stamps
      <3> QED  BY <2>1, <3>1, <3>2, SetOfType DEF SetOf
    <2>3. CASE ~\E i \in SetId : k \in m.active.sets[i].subs
      BY <1>1, <2>1, <2>3
    <2> QED  BY <2>2, <2>3
  <1>4. /\ n.signal = m.signal
        /\ n.active.counter = m.active.counter
        /\ \A i \in SetId : n.active.sets[i].subs = m.active.sets[i].subs
                              /\ n.active.sets[i].time = <<>>
        /\ n.active \in Active
    <2> DEFINE sets == [i \in SetId |-> [m.active.sets[i] EXCEPT !.time = <<>>]]
    <2>1. n.signal = m.signal /\ n.active = [sets |-> sets, counter |-> m.active.counter]
      BY DEF Sync
    <2>2. ASSUME NEW i \in SetId
          PROVE  /\ sets[i].subs = m.active.sets[i].subs
                 /\ sets[i].time = <<>>
                 /\ sets[i] \in [subs : SUBSET Key, time : Stamps]
      BY <1>1, <1>2
    <2>3. sets \in [SetId -> [subs : SUBSET Key, time : Stamps]]
      BY <2>2
    <2> HIDE DEF sets, n
    <2>4. n.active.sets = sets /\ n.active.counter = m.active.counter
      BY <2>1
    <2>5. m.active.counter \in [Group \X Decimations -> 0..SizeMod - 1]
      BY <1>1 DEF Active
    <2>6. n.active \in Active
      BY <2>1, <2>3, <2>5 DEF Active
    <2> QED  BY <2>1, <2>2, <2>4, <2>6
  <1>5. n \in ManagerType
    <2>1. n = [sub |-> n.sub, active |-> n.active, signal |-> n.signal]
              /\ n.sub \in [Key -> Subscription \cup {NoSub}]
      BY <1>3 DEF Sync
    <2> HIDE DEF n
    <2> QED  BY <1>1, <1>4, <2>1 DEF ManagerType
  <1> HIDE DEF n
  <1>6. ASSUME NEW i \in SetId PROVE n.active.sets[i].subs = Members(n, i)
    <2>1. m.active.sets[i].subs = Members(m, i)
      BY DEF ManagerInv
    <2>2. Members(n, i) = Members(m, i)
      BY <1>3, <1>4 DEF Members
    <2> QED  BY <1>4, <2>1, <2>2
  <1>7. ASSUME NEW s \in Source PROVE n.signal[s] = "idle" <=> ~InUse(n, s)
    <2>1. InUse(n, s) <=> InUse(m, s)
      BY <1>3 DEF InUse
    <2> QED  BY <1>4, <2>1 DEF ManagerInv
  <1>8. ASSUME NEW i \in SetId, i[3] > 0 PROVE Len(n.active.sets[i].time) < i[3]
    BY <1>2, <1>4, <1>8
  <1>9. ASSUME NEW i \in SetId, NEW k \in n.active.sets[i].subs
        PROVE  IsTail(n.sub[k].blocks, n.active.sets[i].time)
    <2>1. k \in Key /\ k \in m.active.sets[i].subs /\ m.sub[k] \in Subscription
      BY <1>1, <1>4, <1>9, MembersKnown
    <2>2. n.sub[k].blocks = <<>>
      BY <1>3, <2>1 DEF Subscription
    <2> QED  BY <1>2, <1>4, <2>2
  <1>10. ASSUME NEW k \in Key, n.sub[k] # NoSub, n.signal[SignalOf[k[1]]] # "active"
         PROVE  n.sub[k].blocks = <<>>
    <2>1. m.sub[k] \in Subscription /\ m.sub[k].blocks = <<>>
      BY <1>1, <1>3, <1>4, <1>10 DEF ManagerInv
    <2> QED  BY <1>3, <2>1 DEF Subscription
  <1>11. ManagerInv(n)
    BY <1>5, <1>6, <1>7, <1>8, <1>9, <1>10 DEF ManagerInv
  <1> QED  BY <1>11 DEF n

\* newSignal() from rxPdo() keeps the manager right.
LEMMA AnnounceKeeps ==
  ASSUME NEW m, ManagerInv(m), NEW sig \in Source, m.signal[sig] = "requested",
         NEW n, n = [sub |-> m.sub, active |-> NewSignal(m.active, m.sub, sig),
                     signal |-> [m.signal EXCEPT ![sig] = "active"]]
  PROVE  ManagerInv(n)
  <1>1. /\ m.sub \in [Key -> Subscription \cup {NoSub}]
        /\ m.signal \in [Source -> {"idle", "requested", "active"}]
        /\ m.active \in Active
    BY DEF ManagerInv, ManagerType
  <1>2. /\ n.sub = m.sub
        /\ n.active = NewSignal(m.active, m.sub, sig)
        /\ n.signal = [m.signal EXCEPT ![sig] = "active"]
    OBVIOUS
  <1>3. /\ n.active \in Active
        /\ \A i \in SetId :
               /\ n.active.sets[i].subs = m.active.sets[i].subs \cup
                      {k \in Key : /\ m.sub[k] # NoSub
                                   /\ SignalOf[k[1]] = sig
                                   /\ SetOf(k, m.sub[k]) = i}
               /\ n.active.sets[i].time = m.active.sets[i].time
    BY <1>1, <1>2, NewSignalFacts
  <1>4. /\ n.signal \in [Source -> {"idle", "requested", "active"}]
        /\ n.signal[sig] = "active"
        /\ \A s \in Source \ {sig} : n.signal[s] = m.signal[s]
    BY <1>1, <1>2
  <1>5. n \in ManagerType
    BY <1>1, <1>3, <1>4 DEF ManagerType
  <1>6. ASSUME NEW i \in SetId, NEW k \in Key
        PROVE  k \in n.active.sets[i].subs <=> /\ n.sub[k] # NoSub
                                               /\ n.signal[SignalOf[k[1]]] = "active"
                                               /\ SetOf(k, n.sub[k]) = i
    <2>1. /\ k \in m.active.sets[i].subs <=> /\ m.sub[k] # NoSub
                                              /\ m.signal[SignalOf[k[1]]] = "active"
                                              /\ SetOf(k, m.sub[k]) = i
          /\ SignalOf[k[1]] \in Source
      BY MembersKnown
    <2> QED  BY <1>2, <1>3, <1>4, <2>1
  <1>7. \A i \in SetId : n.active.sets[i].subs = Members(n, i)
    <2>1. \A i \in SetId : n.active.sets[i].subs \subseteq Key
      BY <1>3 DEF Active
    <2> QED  BY <1>6, <2>1 DEF Members
  <1>8. ASSUME NEW s \in Source PROVE n.signal[s] = "idle" <=> ~InUse(n, s)
    <2>1. InUse(n, s) <=> InUse(m, s)
      BY <1>2 DEF InUse
    <2>2. n.signal[s] = "idle" <=> m.signal[s] = "idle"
      BY <1>4
    <2> QED  BY <2>1, <2>2 DEF ManagerInv
  <1>9. PICK key \in Key : m.sub[key] # NoSub /\ SignalOf[key[1]] = sig
    BY DEF ManagerInv, InUse
  <1>10. n.sub[key] # NoSub => n.sub[key].blocks = <<>>
    BY <1>2, <1>9 DEF ManagerInv
  <1>11. \A s \in Source : n.signal[s] # "active" =>
             m.signal[s] # "active" \/ ~InUse(n, s)
    BY <1>4
  <1>12. \A i \in SetId : \/ n.active.sets[i].time = m.active.sets[i].time
                          \/ /\ n.active.sets[i].time = <<>>
                             /\ n.active.sets[i].subs \subseteq
                                    {key} \cup (Key \ m.active.sets[i].subs)
    BY <1>3
  <1>13. \A k \in Key \ {key} : n.sub[k] = m.sub[k]
    BY <1>2
  <1> QED  BY <1>5, <1>7, <1>8, <1>10, <1>11, <1>12, <1>13, ManagerChange

\* clear() and the constructor leave a manager without subscriptions.
LEMMA NoneKeeps ==
  ASSUME NEW n, n = [sub |-> [k \in Key |-> NoSub], active |-> NoneActive,
                     signal |-> [s \in Source |-> "idle"]]
  PROVE  ManagerInv(n)
  <1>1. n.sub = [k \in Key |-> NoSub] /\ n.active = NoneActive
            /\ n.signal = [s \in Source |-> "idle"]
    OBVIOUS
  <1>2. EmptySet.subs = {} /\ EmptySet.time = <<>> /\ Len(<<>>) = 0 /\ <<>> \in Stamps
            /\ EmptySet \in [subs : SUBSET Key, time : Stamps]
    BY DEF EmptySet, Stamps
  <1>3. NoneActive \in Active /\ \A i \in SetId : NoneActive.sets[i] = EmptySet
    <2>1. 0 \in 0..SizeMod - 1
      BY SubAssumption
    <2> QED  BY <1>2, <2>1 DEF NoneActive, Active
  <1>4. n \in ManagerType
    BY <1>1, <1>3 DEF ManagerType
  <1>5. \A i \in SetId : Members(n, i) = {}
    BY <1>1 DEF Members
  <1>6. \A s \in Source : ~InUse(n, s)
    BY <1>1 DEF InUse
  <1>7. /\ \A i \in SetId : n.active.sets[i] = EmptySet
        /\ \A k \in Key : n.sub[k] = NoSub
        /\ \A s \in Source : n.signal[s] = "idle"
    BY <1>1, <1>3
  <1> QED  BY <1>2, <1>4, <1>5, <1>6, <1>7 DEF ManagerInv

\* What xsad() asks for is a subscription without blocks.
LEMMA NewSubscriptionType ==
  ASSUME NEW r \in Reduction \cup {-1}, NEW b \in Blocksize \cup {-1}, NEW event \in BOOLEAN,
         NEW size, size = IF event THEN 0 ELSE Max1(IF b < 0 THEN 1 ELSE b)
  PROVE  /\ NewSubscription(ReductionOf(r, event, size), size) \in Subscription
         /\ NewSubscription(ReductionOf(r, event, size), size).blocks = <<>>
  <1> DEFINE d == ReductionOf(r, event, size)
  <1>1. size \in Blocksizes /\ size \in Nat /\ (size = 0 <=> event)
    <2>1. CASE event
      BY <2>1, Decimals
    <2>2. CASE ~event
      <3>1. (IF b < 0 THEN 1 ELSE b) \in Blocksize \cup {1}
        BY SubAssumption
      <3>2. size \in Blocksizes \ {0}
        BY <2>2, <3>1, Decimals
      <3> QED  BY <2>2, <3>2, Decimals
    <2> QED  BY <2>1, <2>2
  <1>2. d \in Nat /\ (~event => d \in Decimations)
    <2>1. CASE r >= 0
      <3>1. r \in Reduction
        BY <2>1
      <3> QED  BY <2>1, <3>1, Decimals DEF ReductionOf
    <2>2. CASE ~(r >= 0) /\ event
      <3>1. EventReduction \in Nat
        BY SubAssumption DEF EventReduction
      <3> QED  BY <2>2, <3>1 DEF ReductionOf
    <2>3. CASE ~(r >= 0) /\ ~event
      <3>1. BlockReduction(size) \in Decimations
        BY <1>1, <2>3, Decimals
      <3> QED  BY <2>3, <3>1, Decimals DEF ReductionOf
    <2> QED  BY <2>1, <2>2, <2>3
  <1> HIDE DEF d
  <1>3. <<>> \in Seq(0..TimeMod - 1)
    OBVIOUS
  <1>4. (IF size = 0 THEN 1 ELSE d) \in Decimations /\ (IF size = 0 THEN d ELSE 0) \in Nat
    BY <1>1, <1>2, Decimals
  <1>5. NewSubscription(d, size) \in Subscription /\ NewSubscription(d, size).blocks = <<>>
    BY <1>1, <1>3, <1>4, SubAssumption DEF NewSubscription, Subscription
  <1> QED  BY <1>5 DEF d

\* One more value and one more time stamp: still the values of the last time
\* stamps, and those of all of them when there are as many.
LEMMA TailAppend ==
  ASSUME NEW blocks \in Stamps, NEW time \in Stamps, NEW now \in 0..TimeMod - 1,
         IsTail(blocks, time)
  PROVE  /\ IsTail(Append(blocks, now), Append(time, now))
         /\ Append(blocks, now) \in Stamps /\ Append(time, now) \in Stamps
         /\ Len(Append(blocks, now)) = Len(blocks) + 1
         /\ Len(Append(time, now)) = Len(time) + 1
         /\ Len(blocks) >= Len(time) => blocks = time
  <1>1. /\ Append(blocks, now) \in Stamps /\ Append(time, now) \in Stamps
        /\ Len(Append(blocks, now)) = Len(blocks) + 1
        /\ Len(Append(time, now)) = Len(time) + 1
        /\ Len(blocks) \in Nat /\ Len(time) \in Nat /\ Len(blocks) <= Len(time)
    BY DEF Stamps, IsTail
  <1>2. ASSUME NEW n \in 1..Len(blocks) + 1
        PROVE  Append(blocks, now)[n] = Append(time, now)[Len(time) - Len(blocks) + n]
    <2>1. CASE n = Len(blocks) + 1
      BY <1>1, <2>1 DEF Stamps
    <2>2. CASE n \in 1..Len(blocks)
      <3>1. blocks[n] = time[Len(time) - Len(blocks) + n]
        BY <2>2 DEF IsTail
      <3>2. Append(blocks, now)[n] = blocks[n]
        BY <2>2 DEF Stamps
      <3>3. Len(time) - Len(blocks) + n \in 1..Len(time)
        BY <1>1, <2>2
      <3>4. \A j \in 1..Len(time) : Append(time, now)[j] = time[j]
        BY DEF Stamps
      <3> QED  BY <3>1, <3>2, <3>3, <3>4
    <2> QED  BY <1>1, <2>1, <2>2
  <1>3. IsTail(Append(blocks, now), Append(time, now))
    <2>1. \A n \in 1..Len(Append(blocks, now)) :
              Append(blocks, now)[n] =
                  Append(time, now)[Len(Append(time, now)) - Len(Append(blocks, now)) + n]
      <3>1. Len(Append(time, now)) - Len(Append(blocks, now)) = Len(time) - Len(blocks)
        BY <1>1
      <3> QED  BY <1>1, <1>2, <3>1
    <2>2. Len(Append(blocks, now)) <= Len(Append(time, now))
      BY <1>1
    <2> QED  BY <2>1, <2>2 DEF IsTail
  <1>4. ASSUME Len(blocks) >= Len(time) PROVE blocks = time
    <2>1. Len(blocks) = Len(time)
      BY <1>1, <1>4
    <2>2. \A n \in 1..Len(blocks) : blocks[n] = time[n]
      BY <1>1, <2>1 DEF IsTail
    <2> QED  BY <2>1, <2>2 DEF Stamps
  <1> QED  BY <1>1, <1>3, <1>4

\* A counter stays in the range of a size_t.
LEMMA CountDownType ==
  ASSUME NEW c \in 0..SizeMod - 1, NEW d \in Nat
  PROVE  CountDown(c, d) \in 0..SizeMod - 1
  <1>1. SizeMod \in Nat \ {0}
    BY SubAssumption
  <1>2. PICK x \in Nat : CountDown(c, d) = x % SizeMod
    BY <1>1 DEF CountDown
  <1> QED  BY <1>1, <1>2

\* What a frame makes of an event subscription is one, with the same set and
\* without blocks to collect.
LEMMA EventValueType ==
  ASSUME NEW s \in Subscription, NEW v \in Value
  PROVE  /\ EventValue(s, v) \in Subscription
         /\ EventValue(s, v).decimation = s.decimation
         /\ EventValue(s, v).blocksize = s.blocksize
         /\ EventValue(s, v).blocks = s.blocks
  <1> DEFINE t == IF s.trigger > 0 THEN s.trigger - 1 ELSE 0
  <1>1. t \in Nat /\ s.triggerStart \in Nat
    BY DEF Subscription
  <1>2. EventValue(s, v) = IF t > 0 \/ v = s.last THEN [s EXCEPT !.trigger = t]
                           ELSE [s EXCEPT !.trigger = s.triggerStart, !.last = v]
    BY DEF EventValue
  <1> HIDE DEF t
  <1>3. CASE t > 0 \/ v = s.last
    BY <1>1, <1>2, <1>3 DEF Subscription
  <1>4. CASE ~(t > 0 \/ v = s.last)
    BY <1>1, <1>2, <1>4 DEF Subscription
  <1> QED  BY <1>3, <1>4

\* A step to a manager that is right keeps the invariant.
LEMMA ManagerStep ==
  ASSUME NEW n, ManagerInv(n), sub' = n.sub, active' = n.active, signal' = n.signal,
         quiet' \in BOOLEAN, value' \in [Source -> Value], clock' \in 0..TimeMod - 1,
         BlocksAligned'
  PROVE  SubInv'
  <1>1. Manager' = n
    <2>1. n = [sub |-> n.sub, active |-> n.active, signal |-> n.signal]
      BY DEF ManagerInv, ManagerType
    <2> QED  BY <2>1 DEF Manager
  <1>2. ManagerInv(Manager') <=> ManagerInv(Manager)'
    BY DEF ManagerInv, ManagerType, Members, InUse
  <1>3. ManagerInv(Manager)'
    BY <1>1, <1>2
  <1>4. SubInv' <=> (/\ ManagerInv(Manager)
                     /\ quiet \in BOOLEAN
                     /\ value \in [Source -> Value]
                     /\ clock \in 0..TimeMod - 1
                     /\ BlocksAligned)'
    BY SubInvManager, PTL
  <1> QED  BY <1>3, <1>4

\* rxPdo() of a session that is not quiet keeps the manager right, and what it
\* prints is aligned.
LEMMA FrameKeeps ==
  ASSUME NEW v \in [Source -> Value], SubInv, Frame(v), ~quiet
  PROVE  SubInv'
  <1> DEFINE now   == (clock + 1) % TimeMod
             count == [gd \in Group \X Decimations |->
                         IF \E b \in Blocksizes : active.sets[<<gd[1], gd[2], b>>].subs # {}
                         THEN CountDown(active.counter[gd], gd[2]) ELSE 0]
             ripe  == {i \in SetId : active.sets[i].subs # {} /\ count[<<i[1], i[2]>>] = 0}
             time  == [i \in ripe |-> Append(active.sets[i].time, now)]
             full  == {i \in ripe : i[3] > 0 /\ Len(time[i]) = i[3]}
             taken == [k \in Key |->
                         IF \E i \in ripe : k \in active.sets[i].subs
                         THEN IF sub[k].blocksize = 0
                              THEN EventValue(sub[k], v[SignalOf[k[1]]])
                              ELSE [sub[k] EXCEPT !.blocks = Append(@, now)]
                         ELSE sub[k]]
             printed == {k \in Key : \E i \in full : k \in active.sets[i].subs}
             subs  == [k \in Key |-> IF k \in printed
                                     THEN [taken[k] EXCEPT !.blocks = <<>>] ELSE taken[k]]
             sets  == [i \in SetId |->
                            IF i \notin ripe \/ i[3] = 0 THEN active.sets[i]
                            ELSE [active.sets[i] EXCEPT
                                    !.time = IF i \in full THEN <<>> ELSE time[i]]]
             act   == [sets |-> sets, counter |-> count]
             n     == [sub |-> subs, active |-> act, signal |-> signal]
  <1>1. /\ value' = v /\ clock' = now /\ signal' = signal /\ quiet' = quiet
        /\ sub' = subs /\ active' = act
        /\ sent' = {[key |-> k, time |-> time[SetOf(k, sub[k])], data |-> taken[k].blocks] :
                       k \in {j \in printed : Complete(taken[j])}}
              \cup {[key |-> k, time |-> <<now>>, data |-> <<taken[k].last>>] :
                       k \in {j \in Key : /\ sub[j].blocksize = 0
                                          /\ taken[j].last # sub[j].last}}
    BY Zenon DEF Frame
  <1>2. /\ ManagerInv(Manager) /\ quiet \in BOOLEAN /\ clock \in 0..TimeMod - 1
    BY SubInvManager
  <1>3. now \in 0..TimeMod - 1
    BY <1>2, SubAssumption
  <1> HIDE DEF now
  <1>4. /\ Manager.sub = sub /\ Manager.active = active /\ Manager.signal = signal
        /\ sub \in [Key -> Subscription \cup {NoSub}]
        /\ active \in Active
        /\ active.sets \in [SetId -> [subs : SUBSET Key, time : Stamps]]
        /\ active.counter \in [Group \X Decimations -> 0..SizeMod - 1]
        /\ signal \in [Source -> {"idle", "requested", "active"}]
    BY <1>2 DEF Manager, ManagerInv, ManagerType, Active
  <1>5. ASSUME NEW i \in SetId, NEW k \in Key
        PROVE  /\ k \in active.sets[i].subs <=>
                      /\ sub[k] # NoSub
                      /\ signal[SignalOf[k[1]]] = "active"
                      /\ SetOf(k, sub[k]) = i
               /\ sub[k] # NoSub => sub[k] \in Subscription
               /\ SignalOf[k[1]] \in Source
    BY <1>2, <1>4, MembersKnown
  <1>6. ASSUME NEW i \in SetId, i[3] > 0
        PROVE  /\ Len(active.sets[i].time) < i[3]
               /\ \A k \in active.sets[i].subs : IsTail(sub[k].blocks, active.sets[i].time)
    BY <1>2, <1>4, <1>6 DEF ManagerInv
  \* the counters
  <1>7. count \in [Group \X Decimations -> 0..SizeMod - 1]
    <2>1. ASSUME NEW gd \in Group \X Decimations PROVE count[gd] \in 0..SizeMod - 1
      <3>1. count[gd] = CountDown(active.counter[gd], gd[2]) \/ count[gd] = 0
        OBVIOUS
      <3> HIDE DEF count
      <3>2. gd[2] \in Decimations /\ active.counter[gd] \in 0..SizeMod - 1
        BY <1>4
      <3>3. gd[2] \in Nat
        BY <3>2, Decimals
      <3>4. 0 \in 0..SizeMod - 1
        BY SubAssumption
      <3>5. CountDown(active.counter[gd], gd[2]) \in 0..SizeMod - 1
        BY <3>2, <3>3, CountDownType
      <3> QED  BY <3>1, <3>4, <3>5
    <2> QED  BY <2>1
  <1> HIDE DEF count
  <1>8. /\ ripe \subseteq SetId /\ full \subseteq ripe /\ printed \subseteq Key
        /\ \A i \in ripe : time[i] = Append(active.sets[i].time, now)
        /\ \A i \in full : i[3] > 0 /\ Len(time[i]) = i[3]
        /\ \A i \in ripe \ full : i[3] > 0 => Len(time[i]) # i[3]
        /\ \A k \in Key : k \in printed <=> \E i \in full : k \in active.sets[i].subs
    OBVIOUS
  <1> HIDE DEF ripe, full, time, printed
  <1>9. ASSUME NEW i \in ripe
        PROVE  /\ time[i] \in Stamps
               /\ Len(time[i]) = Len(active.sets[i].time) + 1
               /\ Len(active.sets[i].time) \in Nat
    <2>1. active.sets[i].time \in Stamps /\ time[i] = Append(active.sets[i].time, now)
      BY <1>4, <1>8
    <2> QED  BY <1>3, <2>1 DEF Stamps
  \* a subscription that is due
  <1>10. ASSUME NEW i \in ripe, NEW k \in active.sets[i].subs
         PROVE  /\ k \in Key /\ sub[k] \in Subscription /\ SetOf(k, sub[k]) = i
                /\ i[3] = sub[k].blocksize /\ i[3] \in Nat
                /\ taken[k] \in Subscription
                /\ taken[k].decimation = sub[k].decimation
                /\ taken[k].blocksize = sub[k].blocksize
                /\ i[3] = 0 => taken[k].blocks = sub[k].blocks
                /\ i[3] > 0 => /\ taken[k].blocks = Append(sub[k].blocks, now)
                               /\ IsTail(taken[k].blocks, time[i])
                               /\ Len(taken[k].blocks) >= Len(time[i]) =>
                                      taken[k].blocks = time[i]
    <2>1. k \in Key /\ i \in SetId
      BY <1>4, <1>8
    <2>2. sub[k] \in Subscription /\ SetOf(k, sub[k]) = i /\ SignalOf[k[1]] \in Source
      BY <1>5, <2>1
    <2>3. i[3] = sub[k].blocksize /\ i[3] \in Nat
      BY <2>1, <2>2, SetOfType
    <2>4. taken[k] = IF sub[k].blocksize = 0 THEN EventValue(sub[k], v[SignalOf[k[1]]])
                     ELSE [sub[k] EXCEPT !.blocks = Append(@, now)]
      BY <2>1
    <2> HIDE DEF taken
    <2>5. CASE i[3] = 0
      <3>1. taken[k] = EventValue(sub[k], v[SignalOf[k[1]]]) /\ v[SignalOf[k[1]]] \in Value
        BY <2>2, <2>3, <2>4, <2>5
      <3>2. /\ taken[k] \in Subscription
            /\ taken[k].decimation = sub[k].decimation
            /\ taken[k].blocksize = sub[k].blocksize
            /\ taken[k].blocks = sub[k].blocks
        BY <2>2, <3>1, EventValueType
      <3>3. ~(i[3] > 0)
        BY <2>5
      <3> QED  BY Zenon, <2>1, <2>2, <2>3, <3>2, <3>3
    <2>6. CASE i[3] # 0
      <3>1. taken[k] = [sub[k] EXCEPT !.blocks = Append(@, now)] /\ i[3] > 0
        BY <2>3, <2>4, <2>6
      <3>2. sub[k].blocks \in Stamps /\ active.sets[i].time \in Stamps
        BY <1>4, <2>1, <2>2 DEF Subscription, Stamps
      <3>3. IsTail(sub[k].blocks, active.sets[i].time)
        BY <1>6, <2>1, <3>1
      <3>4. /\ IsTail(Append(sub[k].blocks, now), time[i])
            /\ Append(sub[k].blocks, now) \in Stamps
        <4>1. time[i] = Append(active.sets[i].time, now)
          BY <1>8
        <4> QED  BY <1>3, <3>2, <3>3, <4>1, TailAppend
      <3>5. /\ taken[k] \in Subscription
            /\ taken[k].decimation = sub[k].decimation
            /\ taken[k].blocksize = sub[k].blocksize
            /\ taken[k].blocks = Append(sub[k].blocks, now)
        BY <2>2, <3>1, <3>4 DEF Subscription, Stamps
      <3>6. Len(taken[k].blocks) >= Len(time[i]) => taken[k].blocks = time[i]
        BY <1>3, <1>9, <3>4, <3>5, TailAppend
      <3> QED  BY <2>1, <2>2, <2>3, <3>1, <3>4, <3>5, <3>6
    <2> QED  BY <2>5, <2>6
  <1>11. ASSUME NEW k \in Key, ~\E i \in ripe : k \in active.sets[i].subs
         PROVE  taken[k] = sub[k] /\ k \notin printed
    BY <1>8, <1>11
  <1> HIDE DEF taken
  \* every subscription after the frame
  <1>12. ASSUME NEW k \in Key
         PROVE  /\ subs[k] \in Subscription \cup {NoSub}
                /\ subs[k] = NoSub <=> sub[k] = NoSub
                /\ sub[k] # NoSub => /\ subs[k].blocksize = sub[k].blocksize
                                     /\ SetOf(k, subs[k]) = SetOf(k, sub[k])
                /\ k \in printed => subs[k].blocks = <<>>
                /\ k \notin printed => subs[k] = taken[k]
    <2>1. CASE \E i \in ripe : k \in active.sets[i].subs
      <3>1. /\ sub[k] \in Subscription /\ taken[k] \in Subscription
            /\ taken[k].decimation = sub[k].decimation
            /\ taken[k].blocksize = sub[k].blocksize
        BY <1>10, <2>1
      <3>2. CASE k \in printed
        <4>1. subs[k] = [taken[k] EXCEPT !.blocks = <<>>]
          BY <3>2
        <4>2. /\ subs[k] \in Subscription /\ subs[k].decimation = sub[k].decimation
              /\ subs[k].blocksize = sub[k].blocksize /\ subs[k].blocks = <<>>
          <5>1. <<>> \in Seq(0..TimeMod - 1)
            OBVIOUS
          <5> HIDE DEF subs
          <5> QED  BY <3>1, <4>1, <5>1 DEF Subscription
        <4> QED  BY <3>1, <3>2, <4>2, SetOfType DEF SetOf
      <3>3. CASE k \notin printed
        <4>1. subs[k] = taken[k]
          BY <3>3
        <4> QED  BY <3>1, <3>3, <4>1, SetOfType DEF SetOf
      <3> QED  BY <3>2, <3>3
    <2>2. CASE ~\E i \in ripe : k \in active.sets[i].subs
      <3>1. subs[k] = sub[k] /\ taken[k] = sub[k] /\ k \notin printed
        BY <1>11, <2>2
      <3> QED  BY <1>4, <3>1
    <2> QED  BY <2>1, <2>2
  <1>13. subs \in [Key -> Subscription \cup {NoSub}]
    BY <1>12
  <1> HIDE DEF subs
  \* every set after the frame
  <1>14. ASSUME NEW i \in SetId
         PROVE  /\ sets[i] \in [subs : SUBSET Key, time : Stamps]
                /\ sets[i].subs = active.sets[i].subs
                /\ i \notin ripe \/ i[3] = 0 => sets[i].time = active.sets[i].time
                /\ i \in full => sets[i].time = <<>>
                /\ i \in ripe \ full /\ i[3] # 0 => sets[i].time = time[i]
    <2>1. active.sets[i] \in [subs : SUBSET Key, time : Stamps]
      BY <1>4
    <2>2. CASE i \notin ripe \/ i[3] = 0
      BY <1>8, <2>1, <2>2
    <2>3. CASE i \in ripe /\ i[3] # 0
      <3>1. sets[i] = [active.sets[i] EXCEPT !.time = IF i \in full THEN <<>> ELSE time[i]]
        BY <2>3
      <3>2. <<>> \in Stamps /\ time[i] \in Stamps
        BY <1>9, <2>3 DEF Stamps
      <3> QED  BY <2>1, <2>3, <3>1, <3>2
    <2> QED  BY <2>2, <2>3
  <1>15. act \in Active
    <2>1. sets \in [SetId -> [subs : SUBSET Key, time : Stamps]]
      BY <1>14
    <2> HIDE DEF sets
    <2> QED  BY <1>7, <2>1 DEF Active
  <1> HIDE DEF sets
  <1>16. n.sub = subs /\ n.active.sets = sets /\ n.signal = signal /\ n \in ManagerType
    <2>1. n.active = act /\ act.sets = sets
      OBVIOUS
    <2> HIDE DEF act
    <2> QED  BY <1>4, <1>13, <1>15, <2>1 DEF ManagerType
  <1> HIDE DEF n
  <1>17. ASSUME NEW i \in SetId PROVE sets[i].subs = Members(n, i)
    <2>1. active.sets[i].subs = Members(Manager, i)
      BY <1>2, <1>4 DEF ManagerInv
    <2>2. Members(Manager, i) = Members(n, i)
      BY <1>4, <1>12, <1>16 DEF Members
    <2> QED  BY <1>14, <2>1, <2>2
  <1>18. ASSUME NEW s \in Source PROVE n.signal[s] = "idle" <=> ~InUse(n, s)
    <2>1. InUse(n, s) <=> InUse(Manager, s)
      BY <1>4, <1>12, <1>16 DEF InUse
    <2> QED  BY <1>2, <1>4, <1>16, <2>1 DEF ManagerInv
  <1>19. ASSUME NEW i \in SetId, i[3] > 0 PROVE Len(sets[i].time) < i[3]
    <2>1. i[3] \in Nat /\ i[3] # 0 /\ Len(<<>>) = 0 /\ Len(active.sets[i].time) < i[3]
      <3>1. i[3] \in Blocksizes
        BY DEF SetId
      <3>2. i[3] \in Nat /\ i[3] # 0
        <4>1. i[3] \in Nat
          BY <3>1, Decimals
        <4>2. i[3] # 0
          BY <1>19
        <4> QED  BY <4>1, <4>2
      <3>3. Len(<<>>) = 0
        OBVIOUS
      <3>4. Len(active.sets[i].time) < i[3]
        BY <1>6, <1>19
      <3> QED  BY <3>2, <3>3, <3>4
    <2>2. CASE i \notin ripe \/ i \in full
      BY <1>14, <1>19, <2>1, <2>2
    <2>3. CASE i \in ripe \ full
      <3>1. sets[i].time = time[i] /\ Len(time[i]) # i[3]
        BY <1>8, <1>14, <1>19, <2>1, <2>3
      <3>2. Len(time[i]) = Len(active.sets[i].time) + 1 /\ Len(active.sets[i].time) \in Nat
        BY <1>9, <2>3
      <3> QED  BY <2>1, <3>1, <3>2
    <2> QED  BY <2>2, <2>3
  <1>20. ASSUME NEW i \in SetId, NEW k \in sets[i].subs, i[3] > 0
         PROVE  IsTail(subs[k].blocks, sets[i].time)
    <2>1. k \in Key /\ k \in active.sets[i].subs /\ SetOf(k, sub[k]) = i
      BY <1>4, <1>5, <1>14, <1>20
    <2>2. \A j \in SetId : k \in active.sets[j].subs => j = i
      BY <1>5, <2>1
    <2>3. i[3] # 0
      BY <1>20
    <2>4. CASE i \in full
      <3>1. subs[k].blocks = <<>> /\ sets[i].time = <<>>
        BY <1>8, <1>12, <1>14, <2>1, <2>4
      <3> QED  BY <3>1 DEF IsTail
    <2>5. CASE i \in ripe \ full
      <3>1. k \notin printed
        BY <1>8, <2>1, <2>2, <2>5
      <3>2. subs[k] = taken[k] /\ sets[i].time = time[i]
        BY <1>12, <1>14, <2>1, <2>3, <2>5, <3>1
      <3> QED  BY <1>10, <1>20, <2>1, <2>5, <3>2
    <2>6. CASE i \notin ripe
      <3>1. ~\E j \in ripe : k \in active.sets[j].subs
        BY <1>8, <2>2, <2>6
      <3>2. subs[k] = sub[k] /\ sets[i].time = active.sets[i].time
        BY <1>11, <1>12, <1>14, <2>1, <2>6, <3>1
      <3> QED  BY <1>6, <1>20, <2>1, <3>2
    <2> QED  BY <1>8, <2>4, <2>5, <2>6
  <1>21. ASSUME NEW k \in Key, subs[k] # NoSub, signal[SignalOf[k[1]]] # "active"
         PROVE  subs[k].blocks = <<>>
    <2>1. ~\E i \in ripe : k \in active.sets[i].subs
      BY <1>5, <1>8, <1>21
    <2>2. subs[k] = sub[k]
      BY <1>11, <1>12, <2>1
    <2> QED  BY <1>2, <1>4, <1>21, <2>2 DEF ManagerInv
  <1>22. ManagerInv(n)
    BY <1>16, <1>17, <1>18, <1>19, <1>20, <1>21 DEF ManagerInv
  \* what is printed
  <1>23. ASSUME NEW e \in sent', subs[e.key].blocksize > 0
         PROVE  e.data = e.time /\ Len(e.time) = subs[e.key].blocksize
    <2>1. CASE \E k \in printed :
                  /\ Complete(taken[k])
                  /\ e = [key |-> k, time |-> time[SetOf(k, sub[k])], data |-> taken[k].blocks]
      <3>1. PICK k \in printed :
                  /\ Complete(taken[k])
                  /\ e = [key |-> k, time |-> time[SetOf(k, sub[k])], data |-> taken[k].blocks]
        BY <2>1
      <3>2. PICK i \in full : k \in active.sets[i].subs
        BY <1>8
      <3>3. /\ k \in Key /\ SetOf(k, sub[k]) = i /\ i[3] = sub[k].blocksize
            /\ i[3] > 0 /\ taken[k].blocksize = i[3] /\ sub[k] \in Subscription
            /\ Len(taken[k].blocks) >= Len(time[i]) => taken[k].blocks = time[i]
        BY <1>8, <1>10, <3>2
      <3>4. Len(time[i]) = i[3] /\ Len(taken[k].blocks) >= i[3]
        BY <1>8, <3>1, <3>2, <3>3 DEF Complete
      <3>5. subs[k].blocksize = i[3]
        BY <1>12, <3>3, SetOfType
      <3>6. e.key = k /\ e.time = time[i] /\ e.data = taken[k].blocks
        BY <3>1, <3>3
      <3> QED  BY <3>3, <3>4, <3>5, <3>6
    <2>2. CASE \E k \in Key : sub[k].blocksize = 0 /\ e.key = k
      <3>1. PICK k \in Key : sub[k].blocksize = 0 /\ e.key = k
        BY <2>2
      <3>2. sub[k] # NoSub
        BY <3>1 DEF NoSub
      <3>3. subs[k].blocksize = 0
        BY <1>12, <3>1, <3>2
      <3> QED  BY <1>23, <3>1, <3>3
    <2> QED  BY <1>1, <2>1, <2>2
  <1>24. BlocksAligned'
    BY <1>1, <1>23 DEF BlocksAligned
  <1>25. sub' = n.sub /\ active' = n.active /\ signal' = n.signal
    BY <1>1 DEF n
  <1> QED  BY <1>1, <1>2, <1>3, <1>22, <1>24, <1>25, ManagerStep

\* The invariant holds for every set of channels, groups, reductions, blocksizes
\* and values: whenever channels join and leave, the active sets hold exactly the
\* subscriptions that are transferred, no block outgrows its buffer, and what is
\* printed is a full block of values sampled at the time stamps beside them
\* (SubscriptionManager::subscribe, unsubscribe, clear, sync, rxPdo).
THEOREM SubInvHolds == SubSpec => []SubInv
  <1>1. SubInit => SubInv
    <2> SUFFICES ASSUME SubInit PROVE SubInv
      OBVIOUS
    <2>1. ManagerInv(Manager)
      BY NoneKeeps DEF SubInit, Manager
    <2>2. value \in [Source -> Value] /\ clock \in 0..TimeMod - 1 /\ quiet \in BOOLEAN
      <3>1. value \in [Source -> Value]
        BY SubAssumption DEF SubInit
      <3>2. 0 \in 0..TimeMod - 1
        BY SubAssumption
      <3>3. clock = 0 /\ quiet = FALSE
        BY DEF SubInit
      <3> QED  BY <3>1, <3>2, <3>3
    <2>3. BlocksAligned
      BY DEF SubInit, BlocksAligned
    <2> QED  BY <2>1, <2>2, <2>3, SubInvManager
  <1>2. SubInv /\ [SubNext]_subVars => SubInv'
    <2> SUFFICES ASSUME SubInv, [SubNext]_subVars PROVE SubInv'
      OBVIOUS
    <2>1. /\ ManagerInv(Manager) /\ quiet \in BOOLEAN /\ value \in [Source -> Value]
          /\ clock \in 0..TimeMod - 1 /\ BlocksAligned
          /\ Manager.sub = sub /\ Manager.active = active /\ Manager.signal = signal
      BY SubInvManager DEF Manager
    <2>2. sent' = {} => BlocksAligned'
      BY DEF BlocksAligned
    <2>3. \A mode : ManagerInv(Synced(mode))
      BY <2>1, SyncKeeps DEF Synced
    <2>4. ASSUME NEW mode, XsadNone(mode) PROVE SubInv'
      BY <2>1, <2>2, <2>3, <2>4, ManagerStep DEF XsadNone, Becomes
    <2>5. ASSUME NEW c \in Channel, NEW g \in Group, NEW r \in Reduction \cup {-1},
                 NEW b \in Blocksize \cup {-1}, NEW event \in BOOLEAN, NEW mode, NEW atOnce,
                 Xsad(c, g, r, b, event, mode, atOnce)
          PROVE  SubInv'
      <3> DEFINE n == Subscribed(Synced(mode), c, g, r, b, event, atOnce)
      <3>1. <<c, g>> \in Key
        BY DEF Key
      <3>2. ManagerInv(n)
        BY <2>3, <3>1, SubscribeKeeps, NewSubscriptionType DEF Subscribed
      <3>3. /\ sub' = n.sub /\ active' = n.active /\ signal' = n.signal
            /\ quiet' \in BOOLEAN /\ value' = value /\ clock' = clock /\ sent' = {}
        BY <2>5 DEF Xsad, Becomes
      <3> HIDE DEF n
      <3> QED  BY <2>1, <2>2, <3>2, <3>3, ManagerStep
    <2>6. ASSUME NEW c \in Channel, NEW g \in Group, Xsod(c, g) PROVE SubInv'
      <3> DEFINE n == UnsubscribeChannel(Manager, <<c, g>>)
      <3>1. <<c, g>> \in Key
        BY DEF Key
      <3>2. ManagerInv(n)
        BY <2>1, <3>1, UnsubscribeKeeps
      <3>3. /\ sub' = n.sub /\ active' = n.active /\ signal' = n.signal
            /\ quiet' = quiet /\ value' = value /\ clock' = clock /\ sent' = {}
        BY <2>6 DEF Xsod, Becomes
      <3> HIDE DEF n
      <3> QED  BY <2>1, <2>2, <3>2, <3>3, ManagerStep
    <2>7. CASE XsodAll
      <3> DEFINE n == [sub |-> [k \in Key |-> NoSub], active |-> NoneActive,
                       signal |-> [s \in Source |-> "idle"]]
      <3>1. ManagerInv(n)
        BY NoneKeeps
      <3>2. /\ sub' = n.sub /\ active' = n.active /\ signal' = n.signal
            /\ quiet' = quiet /\ value' = value /\ clock' = clock /\ sent' = {}
        BY <2>7 DEF XsodAll
      <3> HIDE DEF n
      <3> QED  BY <2>1, <2>2, <3>1, <3>2, ManagerStep
    <2>8. ASSUME NEW s \in Source, Announce(s) PROVE SubInv'
      <3> DEFINE n == [sub |-> sub, active |-> NewSignal(active, sub, s),
                       signal |-> [signal EXCEPT ![s] = "active"]]
      <3>1. ManagerInv(n)
        BY <2>1, <2>8, AnnounceKeeps DEF Announce
      <3>2. /\ sub' = n.sub /\ active' = n.active /\ signal' = n.signal
            /\ quiet' = quiet /\ value' = value /\ clock' = clock /\ sent' = {}
        BY <2>8 DEF Announce
      <3> HIDE DEF n
      <3> QED  BY <2>1, <2>2, <3>1, <3>2, ManagerStep
    <2>9. ASSUME NEW v \in [Source -> Value], Frame(v) PROVE SubInv'
      <3>1. CASE quiet
        <4>1. /\ sub' = Manager.sub /\ active' = Manager.active /\ signal' = Manager.signal
              /\ quiet' = quiet /\ value' = v /\ clock' = (clock + 1) % TimeMod
              /\ sent' = {}
          BY <2>1, <2>9, <3>1 DEF Frame
        <4>2. (clock + 1) % TimeMod \in 0..TimeMod - 1
          BY <2>1, SubAssumption
        <4> QED  BY <2>1, <2>2, <4>1, <4>2, ManagerStep
      <3>2. CASE ~quiet
        BY <2>9, <3>2, FrameKeeps
      <3> QED  BY <3>1, <3>2
    <2>10. CASE UNCHANGED subVars
      <3>1. /\ sub' = Manager.sub /\ active' = Manager.active /\ signal' = Manager.signal
            /\ quiet' = quiet /\ value' = value /\ clock' = clock /\ sent' = sent
        BY <2>1, <2>10 DEF subVars
      <3>2. BlocksAligned'
        BY <2>1, <3>1 DEF BlocksAligned
      <3> QED  BY <2>1, <3>1, <3>2, ManagerStep
    <2>11. CASE SubNext
      <3>1. TRUE \in BOOLEAN /\ FALSE \in BOOLEAN /\ -1 \in Blocksize \cup {-1}
        OBVIOUS
      <3> QED  BY <2>4, <2>5, <2>6, <2>7, <2>8, <2>9, <2>11, <3>1 DEF SubNext, NextFrame
    <2> QED  BY <2>10, <2>11
  <1> QED  BY <1>1, <1>2, PTL DEF SubSpec
=============================================================================
