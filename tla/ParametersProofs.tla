-------------------------- MODULE ParametersProofs --------------------------
(***************************************************************************)
(* Proofs about the parameters, for any number of parameters, elements,    *)
(* clients and commands, with the application ending and starting again at *)
(* any time: an answer reaches its caller, shared memory agrees with the   *)
(* application, no notice is lost and what was set is saved.               *)
(***************************************************************************)
EXTENDS Parameters, SequenceTheorems, TLAPS

-----------------------------------------------------------------------------
(* Types                                                                    *)

\* The application's own value is one.
LEMMA DefaultValue == Default \in Value /\ (CHOOSE v \in Val : TRUE) \in Val
  <1>1. (CHOOSE v \in Val : TRUE) \in Val
    BY ParamAssumption
  <1> QED  BY <1>1 DEF Default, Value

\* Nothing is kept before the request.
LEMMA NoBackupValue == NoBackup \in [Param -> Value]
  BY DefaultValue DEF NoBackup

\* What is read back from the data base
LEMMA RestoredValue ==
  ASSUME db \in [Param -> Value \cup {Null}]
  PROVE  /\ Restored \in [Param -> Value]
         /\ \A p \in Persistent : db[p] # Null => Restored[p] = db[p]
  BY DefaultValue, ParamAssumption DEF Restored

\* An interval holds elements.
LEMMA IntervalParts ==
  ASSUME NEW parts \in Interval
  PROVE  parts \subseteq Part
  BY DEF Interval

\* So do the elements of a vector, whether it fits or not.
LEMMA VectorParts ==
  ASSUME NEW w \in Vector
  PROVE  w.parts \in Interval /\ w.parts \subseteq Part /\ w.over \subseteq Part
  BY IntervalParts DEF Vector, Fitting, Overrunning

\* The command of a session, by its kind
LEMMA CommandType ==
  ASSUME ParamTypeOK, NEW s \in Session, call[s] # Null
  PROVE  /\ call[s] \in Command
         /\ call[s].pc \in {"lock", "sdo", "ack", "inform", "save", "uncouple"}
         /\ call[s].sdo \in SDO
         /\ call[s].value \in Val /\ call[s].backup \in [Param -> Value]
         /\ IsSet(s) => /\ Target(s) \in Param
                        /\ call[s].sdo.parts \in Interval
                        /\ call[s].sdo.parts \subseteq Part
                        /\ call[s].sdo.over \subseteq Part
  <1>1. call[s] \in Command
    BY DEF ParamTypeOK
  <1>2. /\ call[s].pc \in {"lock", "sdo", "ack", "inform", "save", "uncouple"}
        /\ call[s].sdo \in SDO
        /\ call[s].value \in Val /\ call[s].backup \in [Param -> Value]
    BY <1>1 DEF Command
  <1>3. IsSet(s) => /\ Target(s) \in Param /\ call[s].sdo.parts \in Interval
                    /\ call[s].sdo.over \subseteq Part
    BY <1>2 DEF SDO, IsSet, Target
  <1> QED  BY <1>1, <1>2, <1>3, IntervalParts

\* A new pc makes it a command again, and so does a new backup.
LEMMA CommandGoto ==
  ASSUME NEW c \in Command,
         NEW pc \in {"lock", "sdo", "ack", "inform", "save", "uncouple"}
  PROVE  [c EXCEPT !.pc = pc] \in Command
  BY DEF Command

\* The same with the backup that setValue() keeps.
LEMMA CommandBackup ==
  ASSUME NEW c \in Command, NEW b \in [Param -> Value],
         NEW pc \in {"lock", "sdo", "ack", "inform", "save", "uncouple"}
  PROVE  [c EXCEPT !.pc = pc, !.backup = b] \in Command
  BY DEF Command

\* The elements a set command reaches: of its own parameter those it names, and
\* others only of the parameters that it runs into.
LEMMA ReachParts ==
  ASSUME ParamTypeOK, NEW s \in Session, call[s] # Null, IsSet(s),
         NEW behind \in {ShmBehind, AppBehind}, NEW p \in Param, NEW x \in Part,
         p = Target(s) \/ p \notin RunInto(s)
  PROVE  <<p, x>> \in Reach(behind, call[s].sdo) <=>
            p = Target(s) /\ x \in call[s].sdo.parts
  <1>1. /\ Target(s) \in Param /\ call[s].sdo.parameter = Target(s)
        /\ behind[Target(s)] # Target(s) /\ p # Null
    BY CommandType, ParamAssumption DEF Target
  <1>2. <<p, x>> \in Reach(behind, call[s].sdo) <=>
           \/ p = Target(s) /\ x \in call[s].sdo.parts
           \/ p = behind[Target(s)] /\ x \in call[s].sdo.over
    BY <1>1 DEF Reach, Nodes
  <1>3. p = behind[Target(s)] /\ x \in call[s].sdo.over => p \in RunInto(s)
    BY <1>1 DEF RunInto
  <1> QED  BY <1>1, <1>2, <1>3

\* Types before the first step.
LEMMA TypeInit == ParamInit => ParamTypeOK
  BY DefaultValue, RestoredValue, ParamAssumption
     DEF ParamInit, ParamTypeOK, Node

\* Types across the steps of a session that do not set a parameter.
LEMMA TypeSession ==
  ASSUME ParamTypeOK, NEW s \in Session,
         \/ Connect(s) \/ Disconnect(s) \/ CollectNotices(s)
         \/ \E polite, access \in BOOLEAN : RemoteHost(s, polite, access)
         \/ \E p \in Param : ReadParameter(s, p)
  PROVE  ParamTypeOK'
  <1> USE DEF rtVars, shmVars, lockVars, pipeVars, callVars, noteVars, clientVars, saveVars
  <1>1. CASE Connect(s)
    BY <1>1 DEF Connect, ParamTypeOK, Flags
  <1>2. CASE Disconnect(s)
    BY <1>2 DEF Disconnect, ParamTypeOK, Node
  <1>3. CASE CollectNotices(s)
    BY <1>3 DEF CollectNotices, CountDown, ParamTypeOK
  <1>4. CASE \E polite, access \in BOOLEAN : RemoteHost(s, polite, access)
    <2>1. PICK polite, access \in BOOLEAN : RemoteHost(s, polite, access)
      BY <1>4
    <2>2. [polite |-> polite, writeAccess |-> access] \in Flags
      BY DEF Flags
    <2>3. sess' \in [Session -> Flags \cup {Null}]
      BY <2>1, <2>2 DEF RemoteHost, ParamTypeOK
    <2>4. /\ changed' \in [Session -> SUBSET Node] /\ aic' \in [Session -> SUBSET Param]
          /\ pu' \in [Session -> SUBSET Node]
          /\ seen' \in [Session -> [Node -> Val \cup {Null}]]
      <3>1. [n \in Node |-> Null] \in [Node -> Val \cup {Null}]
        OBVIOUS
      <3>2. CASE polite
        BY <2>1, <3>1, <3>2 DEF RemoteHost, ParamTypeOK
      <3>3. CASE ~polite
        BY <2>1, <3>3 DEF RemoteHost, ParamTypeOK
      <3> QED  BY <3>2, <3>3
    <2> QED  BY <2>1, <2>3, <2>4 DEF RemoteHost, ParamTypeOK
  <1>5. CASE \E p \in Param : ReadParameter(s, p)
    <2>1. PICK p \in Param : ReadParameter(s, p)
      BY <1>5
    <2>2. \A n \in Node : n[2] \in Part
      BY DEF Node
    <2>3. \A n \in Node : shm[p][n[2]] \in Val
      BY <2>2 DEF ParamTypeOK, Value
    <2>4. seen' \in [Session -> [Node -> Val \cup {Null}]]
      BY <2>1, <2>3 DEF ReadParameter, ParamTypeOK
    <2>5. pu' \in [Session -> SUBSET Node]
      BY <2>1 DEF ReadParameter, ParamTypeOK
    <2> QED  BY <2>1, <2>4, <2>5 DEF ReadParameter, ParamTypeOK
  <1> QED  BY <1>1, <1>2, <1>3, <1>4, <1>5

\* Types of what an asynchronous input channel changes.
LEMMA TypeSetAic ==
  ASSUME ParamTypeOK, NEW p \in Param, SetAic(p)
  PROVE  aic' \in [Session -> SUBSET Param] /\ aicDelay' \in [Session -> Nat]
  BY ParamAssumption DEF SetAic, ParamTypeOK

\* Types when a session starts a command.
LEMMA TypeCommand ==
  ASSUME ParamTypeOK, NEW s \in Session, ParamCommand(s)
  PROVE  ParamTypeOK'
  <1> USE DEF rtVars, shmVars, lockVars, pipeVars, callVars, noteVars, clientVars, saveVars
  <1>1. ASSUME NEW p \in Param, NEW w \in Vector, NEW v \in Val, NEW isAic \in BOOLEAN,
               WriteParameter(s, p, w, v, isAic)
        PROVE  ParamTypeOK'
    <2>1. [type |-> "ParamChange", parameter |-> p, parts |-> w.parts, over |-> w.over]
             \in SDO
      BY VectorParts DEF SDO
    <2>2. [pc |-> "lock", value |-> v, backup |-> NoBackup,
           sdo |-> [type |-> "ParamChange", parameter |-> p, parts |-> w.parts,
                    over |-> w.over]] \in Command
      BY <2>1, NoBackupValue DEF Command
    <2>3. Typed(s, p, w.parts, v) \in [Session -> [Node -> Val \cup {Null}]]
      BY DEF Typed, ParamTypeOK
    <2>4. aic' \in [Session -> SUBSET Param] /\ aicDelay' \in [Session -> Nat]
      BY <1>1, TypeSetAic DEF WriteParameter, ParamTypeOK
    <2>5. call' \in [Session -> Command \cup {Null}]
      BY <1>1, <2>2 DEF WriteParameter, ParamTypeOK
    <2>6. calls' \in Nat
      BY <1>1 DEF WriteParameter, ParamTypeOK
    <2>7. seen' \in [Session -> [Node -> Val \cup {Null}]]
      BY <1>1, <2>3 DEF WriteParameter
    <2> QED  BY <1>1, <2>4, <2>5, <2>6, <2>7 DEF WriteParameter, ParamTypeOK
  <1>2. ASSUME NEW p \in Param, NEW w \in Vector, NEW v \in Val, NEW isAic \in BOOLEAN,
               WriteInvalid(s, p, w, v, isAic)
        PROVE  ParamTypeOK'
    <2>1. Typed(s, p, w.parts, v) \in [Session -> [Node -> Val \cup {Null}]]
      BY DEF Typed, ParamTypeOK
    <2>2. aic' \in [Session -> SUBSET Param] /\ aicDelay' \in [Session -> Nat]
      BY <1>2, TypeSetAic DEF WriteInvalid, ParamTypeOK
    <2>3. Notified(s, p, w.parts) \in [Session -> SUBSET Node]
      BY VectorParts DEF Notified, Nodes, Node, ParamTypeOK
    <2> QED  BY <1>2, <2>1, <2>2, <2>3 DEF WriteInvalid, ParamTypeOK
  <1>3. CASE PollSignal(s)
    <2>1. [type |-> "PollSignal"] \in SDO
      BY DEF SDO
    <2>2. [pc |-> "sdo", value |-> CHOOSE v \in Val : TRUE, backup |-> NoBackup,
           sdo |-> [type |-> "PollSignal"]] \in Command
      BY <2>1, DefaultValue, NoBackupValue DEF Command
    <2> QED  BY <1>3, <2>2 DEF PollSignal, ParamTypeOK
  <1> QED  BY <1>1, <1>2, <1>3 DEF ParamCommand

\* Moving on, ending and failing leave commands, locks and notices.
LEMMA TypeGoto ==
  ASSUME ParamTypeOK, NEW s \in Session, call[s] # Null,
         NEW pc \in {"lock", "sdo", "ack", "inform", "save", "uncouple"}, Goto(s, pc)
  PROVE  /\ call' \in [Session -> Command \cup {Null}]
         /\ call'[s] = [call[s] EXCEPT !.pc = pc]
         /\ call'[s].pc = pc /\ call'[s].sdo = call[s].sdo /\ call'[s] # Null
         /\ call'[s].backup = call[s].backup
         /\ \A t \in Session \ {s} : call'[t] = call[t]
  <1>1. call[s] \in Command
    BY CommandType
  <1>2. call' = [call EXCEPT ![s] = [call[s] EXCEPT !.pc = pc]]
    BY DEF Goto
  <1>3. [call[s] EXCEPT !.pc = pc] \in Command
    BY <1>1, CommandGoto
  <1>4. call' \in [Session -> Command \cup {Null}]
    BY <1>2, <1>3 DEF ParamTypeOK
  <1>5. /\ call'[s] = [call[s] EXCEPT !.pc = pc]
        /\ \A t \in Session \ {s} : call'[t] = call[t]
    BY <1>2 DEF ParamTypeOK
  <1>6. call'[s].pc = pc /\ call'[s].sdo = call[s].sdo /\ call'[s].backup = call[s].backup
    BY <1>1, <1>5 DEF Command
  <1> QED  BY <1>3, <1>4, <1>5, <1>6, NullAssumption

\* Types when a command is over.
LEMMA TypeCallDone ==
  ASSUME ParamTypeOK, NEW s \in Session, call[s] # Null, IsSet(s), CallDone(s)
  PROVE  /\ call' \in [Session -> Command \cup {Null}]
         /\ lock' \in [Param -> Session \cup {Null}]
  BY CommandType DEF CallDone, ParamTypeOK

\* Types when it fails and notifies its own session.
LEMMA TypeCallFails ==
  ASSUME ParamTypeOK, NEW s \in Session, call[s] # Null, CallFails(s)
  PROVE  /\ call' \in [Session -> Command \cup {Null}]
         /\ lock' \in [Param -> Session \cup {Null}]
         /\ changed' \in [Session -> SUBSET Node]
  <1>1. call' \in [Session -> Command \cup {Null}]
    BY DEF CallFails, ParamTypeOK
  <1>2. lock' \in [Param -> Session \cup {Null}]
    BY DEF CallFails, ParamTypeOK
  <1>3. changed' \in [Session -> SUBSET Node]
    <2>1. CASE IsSet(s)
      <3>1. Nodes(Target(s), call[s].sdo.parts) \subseteq Node
        BY <2>1, CommandType DEF Nodes, Node
      <3> QED  BY <2>1, <3>1 DEF CallFails, Notified, ParamTypeOK
    <2>2. CASE ~IsSet(s)
      BY <2>2 DEF CallFails, ParamTypeOK
    <2> QED  BY <2>1, <2>2
  <1> QED  BY <1>1, <1>2, <1>3

\* Types of the values that a command writes.
LEMMA TypeNewShm ==
  ASSUME ParamTypeOK, NEW s \in Session, call[s] # Null
  PROVE  NewShm(s) \in [Param -> Value]
  <1>1. CASE IsSet(s)
    <2>1. call[s].value \in Val /\ \A p \in Param, x \in Part : shm[p][x] \in Val
      BY CommandType DEF Value, ParamTypeOK
    <2> QED  BY <1>1, <2>1 DEF NewShm, Value
  <1>2. CASE ~IsSet(s)
    BY <1>2 DEF NewShm, ParamTypeOK
  <1> QED  BY <1>1, <1>2

\* The elements that are put back
LEMMA TypeRestore ==
  ASSUME ParamTypeOK, NEW s \in Session, call[s] # Null
  PROVE  Restore(s) \in [Param -> Value]
  <1>1. \A p \in Param, x \in Part : shm[p][x] \in Val /\ call[s].backup[p][x] \in Val
    BY CommandType DEF Value, ParamTypeOK
  <1> QED  BY <1>1 DEF Restore, Value

\* What a set command writes and puts back, in a parameter that no other command's
\* vector runs into.
LEMMA ShmParts ==
  ASSUME ParamTypeOK, NEW s \in Session, call[s] # Null, NEW p \in Param
  PROVE  /\ ~IsSet(s) => NewShm(s) = shm
         /\ IsSet(s) /\ p \notin RunInto(s) /\ p # Target(s) =>
               NewShm(s)[p] = shm[p] /\ Restore(s)[p] = shm[p]
         /\ IsSet(s) /\ p = Target(s) =>
               /\ \A x \in Part \ call[s].sdo.parts :
                     NewShm(s)[p][x] = shm[p][x] /\ Restore(s)[p][x] = shm[p][x]
               /\ \A x \in call[s].sdo.parts : Restore(s)[p][x] = call[s].backup[p][x]
  <1>1. shm[p] \in [Part -> Val] /\ (IsSet(s) => call[s].sdo.parts \subseteq Part)
    BY CommandType DEF ParamTypeOK, Value
  <1>2. ~IsSet(s) => NewShm(s) = shm
    BY DEF NewShm
  <1>3. ASSUME IsSet(s), p \notin RunInto(s), p # Target(s)
        PROVE  NewShm(s)[p] = shm[p] /\ Restore(s)[p] = shm[p]
    <2>1. \A x \in Part : <<p, x>> \notin Reach(ShmBehind, call[s].sdo)
      BY <1>3, ReachParts
    <2>2. NewShm(s)[p] = [x \in Part |-> shm[p][x]]
      BY <1>3, <2>1 DEF NewShm
    <2>3. Restore(s)[p] = [x \in Part |-> shm[p][x]]
      BY <2>1 DEF Restore
    <2> QED  BY <1>1, <2>2, <2>3
  <1>4. ASSUME IsSet(s), p = Target(s)
        PROVE  /\ \A x \in Part \ call[s].sdo.parts :
                     NewShm(s)[p][x] = shm[p][x] /\ Restore(s)[p][x] = shm[p][x]
               /\ \A x \in call[s].sdo.parts : Restore(s)[p][x] = call[s].backup[p][x]
    <2>1. \A x \in Part : <<p, x>> \in Reach(ShmBehind, call[s].sdo) <=>
                             x \in call[s].sdo.parts
      BY <1>4, ReachParts
    <2> QED  BY <1>1, <1>4, <2>1 DEF NewShm, Restore
  <1> QED  BY <1>2, <1>3, <1>4

\* Types of the notices.
LEMMA TypeAllNotified ==
  ASSUME ParamTypeOK, NEW s \in Session, call[s] # Null, IsSet(s)
  PROVE  AllNotified(Target(s), call[s].sdo.parts) \in [Session -> SUBSET Node]
  <1>1. Nodes(Target(s), call[s].sdo.parts) \subseteq Node
    BY CommandType DEF Nodes, Node
  <1> QED  BY <1>1 DEF AllNotified, ParamTypeOK

\* The request is on its way: the command waits, with a backup.
LEMMA TypeSend ==
  ASSUME ParamTypeOK, NEW s \in Session, SendRequest(s)
  PROVE  /\ call' \in [Session -> Command \cup {Null}]
         /\ call'[s] # Null /\ call'[s].pc = "ack" /\ call'[s].sdo = call[s].sdo
         /\ IsSet(s) => call'[s].backup = shm
         /\ \A t \in Session \ {s} : call'[t] = call[t]
  <1> DEFINE b == IF IsSet(s) THEN shm ELSE call[s].backup
  <1>0. call[s] # Null
    BY DEF SendRequest, At
  <1>1. b \in [Param -> Value] /\ call[s] \in Command
    BY <1>0, CommandType DEF ParamTypeOK
  <1>2. call' = [call EXCEPT ![s] = [call[s] EXCEPT !.pc = "ack", !.backup = b]]
    BY DEF SendRequest
  <1>3. [call[s] EXCEPT !.pc = "ack", !.backup = b] \in Command
    BY <1>1, CommandBackup
  <1>4. /\ call'[s] = [call[s] EXCEPT !.pc = "ack", !.backup = b]
        /\ \A t \in Session \ {s} : call'[t] = call[t]
    BY <1>2 DEF ParamTypeOK
  <1>5. call'[s].pc = "ack" /\ call'[s].sdo = call[s].sdo /\ call'[s].backup = b
    BY <1>1, <1>4 DEF Command
  <1>6. call' \in [Session -> Command \cup {Null}]
    BY <1>2, <1>3 DEF ParamTypeOK
  <1> QED  BY <1>3, <1>4, <1>5, <1>6, NullAssumption

\* The first answer in the pipe
LEMMA AckType ==
  ASSUME ParamTypeOK, ackPipe # <<>>
  PROVE  /\ Head(ackPipe) \in Ack /\ Head(ackPipe) = ackPipe[1]
         /\ Tail(ackPipe) \in Seq(Ack)
         /\ Head(ackPipe).type = "ParamChange" =>
               Head(ackPipe).time \in Nat /\ Head(ackPipe).rv \in BOOLEAN
  <1>1. /\ Head(ackPipe) \in Ack /\ Head(ackPipe) = ackPipe[1]
        /\ Tail(ackPipe) \in Seq(Ack)
    BY DEF ParamTypeOK
  <1> QED  BY <1>1 DEF Ack

\* The first request in the pipe
LEMMA RequestType ==
  ASSUME ParamTypeOK, reqPipe # <<>>
  PROVE  /\ Head(reqPipe) \in SDO /\ Head(reqPipe) = reqPipe[1]
         /\ Tail(reqPipe) \in Seq(SDO)
         /\ Head(reqPipe).type = "ParamChange" =>
               /\ Head(reqPipe).parameter \in Param /\ Head(reqPipe).parts \in Interval
               /\ Head(reqPipe).over \subseteq Part
  <1>1. /\ Head(reqPipe) \in SDO /\ Head(reqPipe) = reqPipe[1]
        /\ Tail(reqPipe) \in Seq(SDO)
    BY DEF ParamTypeOK
  <1> QED  BY <1>1 DEF SDO

\* What a command runs into are parameters.
LEMMA TypeRunInto ==
  ASSUME ParamTypeOK, NEW s \in Session, call[s] # Null
  PROVE  RunInto(s) \subseteq Param
  BY CommandType, ParamAssumption DEF RunInto

\* A session thread inside a command; the pipes and the locks are right.
LEMMA TypeCall ==
  ASSUME ParamTypeOK, LocksHeld, OneRequest, NEW s \in Session, ParamCall(s)
  PROVE  ParamTypeOK'
  <1> USE DEF rtVars, shmVars, lockVars, pipeVars, callVars, noteVars, clientVars, saveVars
  <1>0. call[s] # Null
    BY DEF ParamCall, LockParameter, SendRequest, SendFails, PollDone, ChangeAccepted,
       ChangeRefused, AckFails, Inform, SaveParameter, Uncouple, At
  <1>1. CASE LockParameter(s)
    <2>1. IsSet(s)
      BY <1>1 DEF LockParameter, At, LocksHeld
    <2>2. lock' \in [Param -> Session \cup {Null}]
      BY <1>1, <2>1, <1>0, CommandType DEF LockParameter, ParamTypeOK
    <2>3. call' \in [Session -> Command \cup {Null}]
      BY <1>0, <1>1, TypeGoto DEF LockParameter
    <2> QED  BY <1>1, <2>2, <2>3 DEF LockParameter, ParamTypeOK
  <1>2. CASE SendRequest(s)
    <2>1. shm' \in [Param -> Value]
      BY <1>0, <1>2, TypeNewShm DEF SendRequest
    <2>2. reqPipe' \in Seq(SDO)
      BY <1>0, <1>2, CommandType DEF SendRequest, ParamTypeOK
    <2>3. call' \in [Session -> Command \cup {Null}]
      BY <1>2, TypeSend
    <2>4. overrun' \in SUBSET Param
      BY <1>0, <1>2, TypeRunInto DEF SendRequest, ParamTypeOK
    <2> QED  BY <1>2, <2>1, <2>2, <2>3, <2>4 DEF SendRequest, ParamTypeOK
  <1>3. CASE SendFails(s)
    <2>1. shm' \in [Param -> Value]
      BY <1>0, <1>3, TypeNewShm DEF SendFails
    <2>2. overrun' \in SUBSET Param
      BY <1>0, <1>3, TypeRunInto DEF SendFails, ParamTypeOK
    <2> QED  BY <1>0, <1>3, <2>1, <2>2, TypeCallFails DEF SendFails, ParamTypeOK
  <1>4. CASE PollDone(s)
    BY <1>4, AckType DEF PollDone, ParamTypeOK
  <1>5. CASE ChangeAccepted(s)
    <2>1. Head(ackPipe).type = "ParamChange"
      BY <1>5, AckType DEF ChangeAccepted, LocksHeld, OneRequest, Answers, IsSet
    <2>2. mtime' \in [Param -> Nat] /\ ackPipe' \in Seq(Ack)
      BY <1>5, <1>0, <2>1, AckType, CommandType DEF ChangeAccepted, ParamTypeOK
    <2>3. call' \in [Session -> Command \cup {Null}]
      BY <1>0, <1>5, TypeGoto DEF ChangeAccepted
    <2> QED  BY <1>5, <2>2, <2>3 DEF ChangeAccepted, ParamTypeOK
  <1>6. CASE ChangeRefused(s)
    <2>1. shm' \in [Param -> Value] /\ ackPipe' \in Seq(Ack)
      BY <1>0, <1>6, TypeRestore, AckType DEF ChangeRefused, ParamTypeOK
    <2> QED  BY <1>0, <1>6, <2>1, TypeCallFails DEF ChangeRefused, ParamTypeOK
  <1>7. CASE AckFails(s)
    BY <1>0, <1>7, TypeCallFails DEF AckFails, ParamTypeOK
  <1>8. CASE Inform(s)
    <2>1. IsSet(s)
      BY <1>8, <1>0 DEF Inform, At, LocksHeld
    <2>2. changed' \in [Session -> SUBSET Node]
      BY <2>1, <1>0, <1>8, TypeAllNotified DEF Inform
    <2>3. call' \in [Session -> Command \cup {Null}] /\ lock' \in [Param -> Session \cup {Null}]
      <3>1. CASE Target(s) \in Persistent
        BY <3>1, <1>0, <1>8, TypeGoto DEF Inform, ParamTypeOK
      <3>2. CASE Target(s) \notin Persistent
        BY <3>2, <2>1, <1>0, <1>8, TypeCallDone DEF Inform
      <3> QED  BY <3>1, <3>2
    <2> QED  BY <1>8, <2>2, <2>3 DEF Inform, ParamTypeOK
  <1>9. CASE SaveParameter(s)
    <2>1. IsSet(s)
      BY <1>9, <1>0 DEF SaveParameter, At, LocksHeld
    <2>2. db' \in [Param -> Value \cup {Null}]
      BY <2>1, <1>9, <1>0, CommandType DEF SaveParameter, ParamTypeOK
    <2>3. call' \in [Session -> Command \cup {Null}]
      BY <1>0, <1>9, TypeGoto DEF SaveParameter
    <2> QED  BY <1>9, <2>2, <2>3 DEF SaveParameter, ParamTypeOK
  <1>10. CASE Uncouple(s)
    <2>1. IsSet(s)
      BY <1>10, <1>0 DEF Uncouple, At, LocksHeld
    <2> QED  BY <1>10, <2>1, <1>0, TypeCallDone DEF Uncouple, ParamTypeOK
  <1> QED
    BY <1>1, <1>2, <1>3, <1>4, <1>5, <1>6, <1>7, <1>8, <1>9, <1>10 DEF ParamCall

\* Types across the steps of the supervisor.
LEMMA TypeSupervisor ==
  ASSUME ParamTypeOK, Supervisor
  PROVE  ParamTypeOK'
  <1> USE DEF rtVars, shmVars, lockVars, pipeVars, callVars, noteVars, clientVars, saveVars
  <1>1. CASE ServePoll
    <2>1. [type |-> "PollSignal"] \in Ack
      BY DEF Ack
    <2> QED  BY <1>1, <2>1, RequestType DEF ServePoll, ParamTypeOK
  <1>2. ASSUME NEW accept \in BOOLEAN, ServeChange(accept) PROVE ParamTypeOK'
    <2> DEFINE r == Head(reqPipe)
               a == [type |-> "ParamChange", parameter |-> r.parameter, parts |-> r.parts,
                     rv |-> ~accept, time |-> version'[r.parameter]]
    <2>1. r.parameter \in Param /\ r.parts \in Interval /\ reqPipe' \in Seq(SDO)
      BY <1>2, RequestType DEF ServeChange
    <2>2. version' \in [Param -> Nat]
      BY <1>2, <2>1 DEF ServeChange, ParamTypeOK
    <2>3. app' \in [Param -> Value]
      <3>1. \A q \in Param, x \in Part : shm[q][x] \in Val /\ app[q][x] \in Val
        BY DEF Value, ParamTypeOK
      <3>2. (CHOOSE x \in r.parts : TRUE) \in Part
        BY <2>1 DEF Interval
      <3>3. \A q \in Param, x \in Part : Source(r, <<q, x>>) \in Val
        BY <2>1, <3>1, <3>2 DEF Source
      <3>4. [q \in Param |-> [x \in Part |-> IF <<q, x>> \in Reach(AppBehind, r)
                                            THEN Source(r, <<q, x>>) ELSE app[q][x]]]
               \in [Param -> Value]
        BY <3>1, <3>3 DEF Value
      <3> QED  BY <1>2, <3>4 DEF ServeChange, ParamTypeOK
    <2>4. a \in Ack
      BY <2>1, <2>2 DEF Ack
    <2>5. ackPipe' \in Seq(Ack)
      BY <1>2, <2>4 DEF ServeChange, ParamTypeOK
    <2> QED  BY <1>2, <2>1, <2>2, <2>3, <2>5 DEF ServeChange, ParamTypeOK
  <1> QED  BY <1>1, <1>2 DEF Supervisor

\* Types across the steps of the saver.
LEMMA TypeSaver ==
  ASSUME ParamTypeOK, Saver
  PROVE  ParamTypeOK'
  <1> USE DEF rtVars, shmVars, lockVars, pipeVars, callVars, noteVars, clientVars, saveVars
  <1>1. saver # Null => /\ saver \in SaveLoop /\ saver.todo \subseteq Persistent
                        /\ saver.param \in Persistent \cup {Null} /\ saver.value \in Value
    BY DEF ParamTypeOK, SaveLoop
  <1>2. \A todo \in SUBSET Persistent : Rest(todo) \in SaveLoop \cup {Null}
    BY DefaultValue DEF Rest, SaveLoop
  <1>3. CASE SaveStart
    BY <1>3, DefaultValue DEF SaveStart, ParamTypeOK, SaveLoop
  <1>4. ASSUME NEW p \in Persistent, SaveSkip(p) PROVE ParamTypeOK'
    BY <1>1, <1>2, <1>4 DEF SaveSkip, ParamTypeOK
  <1>5. ASSUME NEW p \in Persistent, NEW value \in Value, SaveFetch(p, value)
        PROVE  ParamTypeOK'
    <2>1. [saver EXCEPT !.param = p, !.value = value] \in SaveLoop
      BY <1>1, <1>5 DEF SaveFetch, SaveLoop
    <2> QED  BY <1>5, <2>1 DEF SaveFetch, ParamTypeOK
  <1>6. CASE SaveWrite
    BY <1>1, <1>2, <1>6, ParamAssumption DEF SaveWrite, ParamTypeOK
  <1> QED  BY <1>3, <1>4, <1>5, <1>6 DEF Saver

\* Types across the end of the application and a restart.
LEMMA TypeEnd ==
  ASSUME ParamTypeOK, RtEnd \/ Restart \/ UNCHANGED paramVars
  PROVE  ParamTypeOK'
  <1> USE DEF rtVars, shmVars, lockVars, pipeVars, callVars, noteVars, clientVars, saveVars
  <1>1. CASE RtEnd
    BY <1>1 DEF RtEnd, ParamTypeOK
  <1>2. CASE Restart
    BY <1>2, RestoredValue, ParamAssumption DEF Restart, ParamTypeOK, Node
  <1>3. CASE UNCHANGED paramVars
    BY <1>3 DEF paramVars, ParamTypeOK
  <1> QED  BY <1>1, <1>2, <1>3

-----------------------------------------------------------------------------
(* The locks                                                                *)

\* No command begins, moves or ends, and no session that has one is closed.
LEMMA LocksKept ==
  ASSUME LocksHeld, UNCHANGED <<call, lock, sdoMutex>>,
         \A t \in Session : call[t] # Null => sess'[t] # Null
  PROVE  LocksHeld'
  BY DEF LocksHeld, Holds, At, IsSet, Target, Connected

\* One command begins, moves or ends.
LEMMA LocksMoved ==
  ASSUME LocksHeld, NEW s \in Session, UNCHANGED sess, Connected(s),
         \A t \in Session \ {s} : /\ call'[t] = call[t]
                                  /\ sdoMutex' = t <=> sdoMutex = t
                                  /\ \A p \in Param : lock'[p] = t <=> lock[p] = t,
         sdoMutex' = s <=> At(s, "ack")',
         \A p \in Param : lock'[p] = s <=> Holds(s, p)',
         call'[s] # Null => /\ IsSet(s)' \/ call'[s].pc \in {"sdo", "ack"}
                            /\ call'[s].pc \in {"save", "uncouple"} =>
                                   Target(s)' \in Persistent
  PROVE  LocksHeld'
  <1>1. ASSUME NEW t \in Session, NEW p \in Param PROVE lock'[p] = t <=> Holds(t, p)'
    <2>1. CASE t = s
      BY <2>1
    <2>2. CASE t # s
      BY <2>2 DEF LocksHeld, Holds, IsSet, Target
    <2> QED  BY <2>1, <2>2
  <1>2. ASSUME NEW t \in Session PROVE sdoMutex' = t <=> At(t, "ack")'
    <2>1. CASE t = s
      BY <2>1
    <2>2. CASE t # s
      BY <2>2 DEF LocksHeld, At
    <2> QED  BY <2>1, <2>2
  <1>3. ASSUME NEW t \in Session, call'[t] # Null
        PROVE  /\ Connected(t)'
               /\ IsSet(t)' \/ call'[t].pc \in {"sdo", "ack"}
               /\ call'[t].pc \in {"save", "uncouple"} => Target(t)' \in Persistent
    <2>1. CASE t = s
      BY <1>3, <2>1 DEF Connected
    <2>2. CASE t # s
      BY <1>3, <2>2 DEF LocksHeld, Connected, IsSet, Target
    <2> QED  BY <2>1, <2>2
  <1> QED  BY <1>1, <1>2, <1>3 DEF LocksHeld

\* A session that is idle holds no lock.
LEMMA LocksSession ==
  ASSUME ParamTypeOK, LocksHeld, NEW s \in Session,
         \/ Connect(s) \/ Disconnect(s) \/ CollectNotices(s)
         \/ \E polite, access \in BOOLEAN : RemoteHost(s, polite, access)
         \/ \E p \in Param : ReadParameter(s, p)
  PROVE  LocksHeld'
  <1>1. UNCHANGED <<call, lock, sdoMutex>>
    BY DEF Connect, Disconnect, CollectNotices, RemoteHost, ReadParameter, callVars, lockVars
  <1>2. \A t \in Session : call[t] # Null => Connected(t)
    BY DEF LocksHeld
  <1>3. \A polite, access \in BOOLEAN : [polite |-> polite, writeAccess |-> access] # Null
    BY NullAssumption DEF Flags
  <1>4. \A t \in Session : call[t] # Null => sess'[t] # Null
    BY <1>2, <1>3 DEF Connect, Disconnect, CollectNotices, RemoteHost, ReadParameter,
       Connected, Idle, ParamTypeOK
  <1> QED  BY <1>1, <1>4, LocksKept

\* A command starts without locks.
LEMMA LocksCommand ==
  ASSUME ParamTypeOK, LocksHeld, NEW s \in Session, ParamCommand(s)
  PROVE  LocksHeld'
  <1> USE DEF rtVars, shmVars, lockVars, pipeVars, callVars, noteVars, clientVars, saveVars
  <1>1. ASSUME NEW p \in Param, NEW w \in Vector, NEW v \in Val, NEW isAic \in BOOLEAN,
               WriteParameter(s, p, w, v, isAic)
        PROVE  LocksHeld'
    BY <1>1 DEF WriteParameter, Idle, LocksHeld, Holds, At, IsSet, Target, Connected,
       ParamTypeOK
  <1>2. ASSUME NEW p \in Param, NEW w \in Vector, NEW v \in Val, NEW isAic \in BOOLEAN,
               WriteInvalid(s, p, w, v, isAic)
        PROVE  LocksHeld'
    <2>1. UNCHANGED <<call, lock, sdoMutex, sess>>
      BY <1>2 DEF WriteInvalid
    <2> QED  BY <2>1, LocksKept DEF LocksHeld, Connected
  <1>3. CASE PollSignal(s)
    BY <1>3 DEF PollSignal, Idle, LocksHeld, Holds, At, IsSet, Target, Connected,
       ParamTypeOK
  <1> QED  BY <1>1, <1>2, <1>3 DEF ParamCommand

\* A command takes the lock of its parameter and then that of the pipes, and
\* gives them back.
LEMMA LocksCall ==
  ASSUME ParamTypeOK, LocksHeld, OneRequest, NEW s \in Session, ParamCall(s)
  PROVE  LocksHeld'
  <1> USE DEF rtVars, shmVars, lockVars, pipeVars, callVars, noteVars, clientVars, saveVars
  <1> USE ParamAssumption
  <1>0. call[s] # Null
    BY DEF ParamCall, LockParameter, SendRequest, SendFails, PollDone,
       ChangeAccepted, ChangeRefused, AckFails, Inform, SaveParameter, Uncouple, At
  <1>a. Connected(s) /\ \A p \in Param : lock[p] = s <=> Holds(s, p)
    BY <1>0 DEF LocksHeld
  <1>1. CASE LockParameter(s)
    <2>1. IsSet(s) /\ Target(s) \in Param
      BY <1>0, <1>1, CommandType DEF LockParameter, At, LocksHeld
    <2>2. /\ call'[s].pc = "sdo" /\ call'[s].sdo = call[s].sdo /\ call'[s] # Null
          /\ \A t \in Session \ {s} : call'[t] = call[t]
      BY <1>0, <1>1, TypeGoto DEF LockParameter
    <2>3. /\ \A p \in Param : lock'[p] = IF p = Target(s) THEN s ELSE lock[p]
          /\ lock[Target(s)] = Null /\ call[s].pc = "lock" /\ UNCHANGED <<sess, sdoMutex>>
      BY <1>1, <2>1 DEF LockParameter, At, ParamTypeOK
    <2> QED
      BY <1>0, <1>a, <2>1, <2>2, <2>3, LocksMoved DEF LocksHeld, Holds, At, IsSet, Target
  <1>2. CASE SendRequest(s)
    <2>1. /\ call'[s].pc = "ack" /\ call'[s].sdo = call[s].sdo /\ call'[s] # Null
          /\ \A t \in Session \ {s} : call'[t] = call[t]
      BY <1>2, TypeSend
    <2>2. call[s].pc = "sdo" /\ sdoMutex = Null /\ sdoMutex' = s /\ UNCHANGED <<lock, sess>>
      BY <1>2 DEF SendRequest, At, SdoFree
    <2> QED
      BY <1>0, <1>a, <2>1, <2>2, LocksMoved DEF LocksHeld, Holds, At, IsSet, Target
  <1>3. CASE SendFails(s) \/ AckFails(s) \/ ChangeRefused(s)
    <2>1. /\ call'[s] = Null
          /\ \A t \in Session \ {s} : call'[t] = call[t]
          /\ \A p \in Param : lock'[p] = IF IsSet(s) /\ p = Target(s) THEN Null ELSE lock[p]
      BY <1>3 DEF SendFails, AckFails, ChangeRefused, CallFails, ParamTypeOK
    <2>2. /\ UNCHANGED sess
          /\ call[s].pc # "lock"
          /\ \/ sdoMutex' = Null /\ sdoMutex = s
             \/ sdoMutex' = sdoMutex /\ sdoMutex = Null
      BY <1>0, <1>3 DEF SendFails, AckFails, ChangeRefused, At, SdoFree, LocksHeld
    <2> QED
      BY <1>0, <1>a, <2>1, <2>2, LocksMoved DEF LocksHeld, Holds, At, IsSet, Target
  <1>4. CASE PollDone(s)
    <2>1. /\ call'[s] = Null
          /\ \A t \in Session \ {s} : call'[t] = call[t]
      BY <1>4 DEF PollDone, ParamTypeOK
    <2>2. UNCHANGED <<sess, lock>> /\ sdoMutex' = Null /\ sdoMutex = s /\ ~IsSet(s)
      BY <1>0, <1>4 DEF PollDone, LocksHeld
    <2> QED
      BY <1>0, <1>a, <2>1, <2>2, LocksMoved DEF LocksHeld, Holds, At, IsSet, Target
  <1>5. CASE ChangeAccepted(s)
    <2>1. /\ call'[s].pc = "inform" /\ call'[s].sdo = call[s].sdo /\ call'[s] # Null
          /\ \A t \in Session \ {s} : call'[t] = call[t]
      BY <1>0, <1>5, TypeGoto DEF ChangeAccepted
    <2>2. /\ UNCHANGED <<sess, lock>> /\ sdoMutex' = Null /\ sdoMutex = s /\ IsSet(s)
          /\ call[s].pc = "ack"
      BY <1>0, <1>5 DEF ChangeAccepted, LocksHeld, At
    <2> QED
      BY <1>0, <1>a, <2>1, <2>2, LocksMoved DEF LocksHeld, Holds, At, IsSet, Target
  <1>6. CASE (Inform(s) /\ Target(s) \in Persistent) \/ SaveParameter(s)
    <2>1. /\ call'[s].pc \in {"save", "uncouple"}
          /\ call'[s].sdo = call[s].sdo /\ call'[s] # Null
          /\ \A t \in Session \ {s} : call'[t] = call[t]
      BY <1>0, <1>6, TypeGoto DEF Inform, SaveParameter
    <2>2. /\ UNCHANGED <<sess, lock, sdoMutex>>
          /\ call[s].pc \in {"inform", "save"} /\ Target(s) \in Persistent
      BY <1>0, <1>6 DEF Inform, SaveParameter, LocksHeld, At
    <2> QED
      BY <1>0, <1>a, <2>1, <2>2, LocksMoved DEF LocksHeld, Holds, At, IsSet, Target
  <1>7. CASE (Inform(s) /\ Target(s) \notin Persistent) \/ Uncouple(s)
    <2>1. /\ UNCHANGED <<sess, sdoMutex>>
          /\ call[s].pc \in {"inform", "uncouple"} /\ IsSet(s) /\ CallDone(s)
      BY <1>0, <1>7 DEF Inform, Uncouple, LocksHeld, At
    <2>2. Target(s) \in Param
      BY <1>0, <2>1, CommandType
    <2>3. /\ call'[s] = Null
          /\ \A t \in Session \ {s} : call'[t] = call[t]
          /\ \A p \in Param : lock'[p] = IF p = Target(s) THEN Null ELSE lock[p]
      BY <2>1, <2>2 DEF CallDone, ParamTypeOK
    <2> QED
      BY <1>0, <1>a, <2>1, <2>3, LocksMoved DEF LocksHeld, Holds, At, IsSet, Target
  <1> QED
    BY <1>1, <1>2, <1>3, <1>4, <1>5, <1>6, <1>7 DEF ParamCall

\* Nobody else takes or gives back a lock.
LEMMA LocksRest ==
  ASSUME ParamTypeOK, LocksHeld,
         Supervisor \/ Saver \/ RtEnd \/ Restart \/ UNCHANGED paramVars
  PROVE  LocksHeld'
  <1> USE DEF rtVars, shmVars, lockVars, pipeVars, callVars, noteVars, clientVars, saveVars
  <1>1. CASE Restart
    BY <1>1, ParamAssumption DEF Restart, LocksHeld, Holds, At
  <1>2. CASE Supervisor \/ Saver \/ RtEnd \/ UNCHANGED paramVars
    <2>1. UNCHANGED <<call, lock, sdoMutex, sess>>
      BY <1>2 DEF Supervisor, ServePoll, ServeChange, Saver, SaveStart, SaveSkip, SaveFetch,
         SaveWrite, RtEnd, paramVars
    <2> QED  BY <2>1, LocksKept DEF LocksHeld, Connected
  <1> QED  BY <1>1, <1>2

-----------------------------------------------------------------------------
(* The pipes                                                                *)

\* A request holds one element more, and an answer taken leaves none.
LEMMA OneElement ==
  ASSUME NEW S, NEW q \in Seq(S), NEW e \in S
  PROVE  /\ q = <<>> => Append(q, e) = <<e>>
         /\ Tail(<<e>>) = <<>> /\ Head(<<e>>) = e
         /\ Len(q) = 1 => q # <<>> /\ Tail(q) = <<>> /\ Head(q) = q[1]
  <1>1. q = <<>> => Append(q, e) = <<e>>
    OBVIOUS
  <1>2. Tail(<<e>>) = <<>> /\ Head(<<e>>) = e
    OBVIOUS
  <1>3. ASSUME Len(q) = 1 PROVE q # <<>> /\ Tail(q) = <<>> /\ Head(q) = q[1]
    <2>1. q # <<>> /\ Head(q) = q[1]
      BY <1>3
    <2>2. Tail(q) \in Seq(S) /\ Len(Tail(q)) = 0
      BY <1>3, <2>1
    <2> QED  BY <2>1, <2>2, EmptySeq
  <1> QED  BY <1>1, <1>2, <1>3

\* Steps that leave the pipes alone.
LEMMA PipesKept ==
  ASSUME OneRequest, UNCHANGED <<reqPipe, ackPipe, sdoMutex>>, rtAlive' => rtAlive,
         \A t \in Session : sdoMutex = t => call'[t].sdo = call[t].sdo
  PROVE  OneRequest'
  BY DEF OneRequest, Answers

\* The steps that leave the pipes alone do so for the thread that waits.
LEMMA PipesSession ==
  ASSUME ParamTypeOK, LocksHeld, OneRequest, NEW s \in Session,
         \/ Connect(s) \/ Disconnect(s) \/ CollectNotices(s)
         \/ \E polite, access \in BOOLEAN : RemoteHost(s, polite, access)
         \/ \E p \in Param : ReadParameter(s, p)
         \/ ParamCommand(s)
  PROVE  OneRequest'
  <1> USE DEF rtVars, shmVars, lockVars, pipeVars, callVars, noteVars, clientVars, saveVars
  <1>1. UNCHANGED <<reqPipe, ackPipe, sdoMutex, rtAlive>>
    BY DEF Connect, Disconnect, CollectNotices, RemoteHost, ReadParameter, ParamCommand,
       WriteParameter, WriteInvalid, PollSignal
  <1>2. \A t \in Session : sdoMutex = t => call[t] # Null
    BY DEF LocksHeld, At
  <1>3. \A t \in Session : call[t] # Null => call'[t] = call[t]
    BY DEF Connect, Disconnect, CollectNotices, RemoteHost, ReadParameter, ParamCommand,
       WriteParameter, WriteInvalid, PollSignal, Idle, ParamTypeOK
  <1> QED  BY <1>1, <1>2, <1>3, PipesKept

\* A command writes its request to empty pipes and takes its own answer.
LEMMA PipesCall ==
  ASSUME ParamTypeOK, LocksHeld, OneRequest, NEW s \in Session, ParamCall(s)
  PROVE  OneRequest'
  <1> USE DEF rtVars, shmVars, lockVars, pipeVars, callVars, noteVars, clientVars, saveVars
  <1>0. call[s] # Null /\ s # Null
    BY ParamAssumption
       DEF ParamCall, LockParameter, SendRequest, SendFails, PollDone, ChangeAccepted,
       ChangeRefused, AckFails, Inform, SaveParameter, Uncouple, At
  <1>1. CASE \/ LockParameter(s) \/ SendFails(s) \/ Inform(s) \/ SaveParameter(s)
             \/ Uncouple(s)
    <2>1. sdoMutex # s /\ UNCHANGED <<reqPipe, ackPipe, sdoMutex, rtAlive>>
      BY <1>0, <1>1 DEF LockParameter, SendFails, Inform, SaveParameter, Uncouple, At,
         LocksHeld
    <2>2. \A t \in Session \ {s} : call'[t] = call[t]
      BY <1>1 DEF LockParameter, SendFails, Inform, SaveParameter, Uncouple, Goto, CallFails,
         CallDone, ParamTypeOK
    <2> QED  BY <2>1, <2>2, PipesKept
  <1>2. CASE SendRequest(s)
    <2>1. reqPipe = <<>> /\ ackPipe = <<>> /\ sdoMutex' = s /\ UNCHANGED <<ackPipe, rtAlive>>
      BY <1>2 DEF SendRequest, SdoFree, OneRequest
    <2>2. reqPipe' = <<call[s].sdo>>
      BY <1>0, <1>2, <2>1, CommandType, OneElement DEF SendRequest, ParamTypeOK
    <2>3. call'[s].sdo = call[s].sdo
      BY <1>2, TypeSend
    <2> QED  BY <1>0, <2>1, <2>2, <2>3 DEF OneRequest
  <1>3. CASE PollDone(s) \/ ChangeAccepted(s) \/ ChangeRefused(s)
    <2>1. /\ sdoMutex = s /\ sdoMutex' = Null /\ UNCHANGED <<reqPipe, rtAlive>>
          /\ ackPipe # <<>> /\ ackPipe' = Tail(ackPipe)
      BY <1>3 DEF PollDone, ChangeAccepted, ChangeRefused, LocksHeld
    <2>2. reqPipe = <<>> /\ Len(ackPipe) = 1
      BY <2>1 DEF OneRequest
    <2>3. ackPipe' = <<>>
      <3>1. ackPipe \in Seq(Ack)
        BY DEF ParamTypeOK
      <3>2. ackPipe[1] \in Ack
        BY <2>2, <3>1, ElementOfSeq
      <3> QED  BY <2>1, <2>2, <3>1, <3>2, OneElement
    <2> QED  BY <2>1, <2>2, <2>3, ParamAssumption DEF OneRequest
  <1>4. CASE AckFails(s)
    BY <1>4, ParamAssumption DEF AckFails, OneRequest
  <1> QED  BY <1>1, <1>2, <1>3, <1>4 DEF ParamCall

\* The supervisor answers the request of the command that waits for it.
LEMMA PipesSupervisor ==
  ASSUME ParamTypeOK, LocksHeld, OneRequest, Supervisor
  PROVE  /\ OneRequest'
         /\ sdoMutex \in Session /\ At(sdoMutex, "ack") /\ call[sdoMutex] # Null
         /\ Head(reqPipe) = call[sdoMutex].sdo /\ ackPipe = <<>> /\ Len(ackPipe') = 1
  <1> USE DEF rtVars, shmVars, lockVars, pipeVars, callVars, noteVars, clientVars, saveVars
  <1>1. rtAlive /\ reqPipe # <<>> /\ reqPipe' = Tail(reqPipe) /\ UNCHANGED <<call, sdoMutex>>
    BY DEF Supervisor, ServePoll, ServeChange
  <1>2. sdoMutex # Null
    BY <1>1 DEF OneRequest
  <1>3. PICK s \in Session : s = sdoMutex
    BY <1>2 DEF ParamTypeOK
  <1>4. /\ reqPipe = <<call[s].sdo>> /\ ackPipe = <<>>
        /\ At(s, "ack") /\ call[s] # Null
    BY <1>1, <1>3 DEF OneRequest, LocksHeld, At
  <1>5. Head(reqPipe) = call[s].sdo /\ reqPipe' = <<>> /\ call[s].sdo \in SDO
    BY <1>1, <1>4, CommandType
  <1>6. Len(ackPipe') = 1 /\ Answers(ackPipe'[1], call[s].sdo)
    <2>1. CASE ServePoll
      <3>1. ackPipe' = <<[type |-> "PollSignal"]>>
        BY <1>4, <2>1, OneElement DEF ServePoll
      <3>2. call[s].sdo.type = "PollSignal"
        BY <1>5, <2>1 DEF ServePoll
      <3> QED  BY <3>1, <3>2 DEF Answers
    <2>2. ASSUME NEW accept \in BOOLEAN, ServeChange(accept)
          PROVE  Len(ackPipe') = 1 /\ Answers(ackPipe'[1], call[s].sdo)
      <3> DEFINE r == Head(reqPipe)
                 a == [type |-> "ParamChange", parameter |-> r.parameter, parts |-> r.parts,
                       rv |-> ~accept, time |-> version'[r.parameter]]
      <3>1. ackPipe' = Append(<<>>, a)
        BY <1>4, <2>2 DEF ServeChange
      <3>2. ackPipe' = <<a>>
        BY <3>1
      <3>3. r.type = "ParamChange" /\ r = call[s].sdo
        BY <1>5, <2>2 DEF ServeChange
      <3>4. a.type = "ParamChange" /\ a.parameter = r.parameter /\ a.parts = r.parts
        OBVIOUS
      <3>5. Len(ackPipe') = 1 /\ ackPipe'[1] = a
        BY <3>2
      <3> QED  BY <3>3, <3>4, <3>5 DEF Answers
    <2> QED  BY <2>1, <2>2 DEF Supervisor
  <1> QED  BY <1>1, <1>2, <1>3, <1>4, <1>5, <1>6 DEF OneRequest

\* The end of the application leaves the pipes as they are; a restart makes new ones.
LEMMA PipesRest ==
  ASSUME ParamTypeOK, OneRequest, Saver \/ RtEnd \/ Restart \/ UNCHANGED paramVars
  PROVE  OneRequest'
  <1> USE DEF rtVars, shmVars, lockVars, pipeVars, callVars, noteVars, clientVars, saveVars
  <1>1. CASE Restart
    BY <1>1, ParamAssumption DEF Restart, OneRequest
  <1>2. CASE Saver \/ RtEnd \/ UNCHANGED paramVars
    <2>1. UNCHANGED <<reqPipe, ackPipe, sdoMutex, call>> /\ (rtAlive' => rtAlive)
      <3>1. CASE Saver
        <4>1. UNCHANGED <<reqPipe, ackPipe, sdoMutex, call, rtAlive>>
          BY <3>1 DEF Saver, SaveStart, SaveSkip, SaveFetch, SaveWrite
        <4> QED  BY <4>1
      <3>2. CASE RtEnd
        BY <3>2 DEF RtEnd
      <3>3. CASE UNCHANGED paramVars
        BY <3>3 DEF paramVars
      <3> QED  BY <1>2, <3>1, <3>2, <3>3
    <2> QED  BY <2>1, PipesKept
  <1> QED  BY <1>1, <1>2

-----------------------------------------------------------------------------
(* The values                                                               *)

\* The parameter that the application is asked for is that of the thread that waits.
LEMMA AskedOne ==
  ASSUME ParamTypeOK, LocksHeld, NEW p \in Param
  PROVE  /\ Asked(p) => /\ lock[p] \in Session /\ sdoMutex = lock[p]
                        /\ call[lock[p]] # Null /\ IsSet(lock[p]) /\ Target(lock[p]) = p
         /\ \A s \in Session : At(s, "ack") => (Asked(p) <=> IsSet(s) /\ Target(s) = p)
         /\ \A s \in Session : At(s, "ack") /\ Asked(p) => lock[p] = s
  <1>1. lock[p] # Null => lock[p] \in Session
    BY DEF ParamTypeOK
  <1>2. Asked(p) => /\ lock[p] \in Session /\ sdoMutex = lock[p] /\ Holds(lock[p], p)
    BY <1>1 DEF Asked, LocksHeld
  <1>3. ASSUME NEW s \in Session, At(s, "ack")
        PROVE  /\ Asked(p) => lock[p] = s
               /\ IsSet(s) /\ Target(s) = p => Asked(p)
    <2>1. sdoMutex = s
      BY <1>3 DEF LocksHeld
    <2>2. Asked(p) => lock[p] = s
      BY <2>1, <1>2
    <2>3. ASSUME IsSet(s), Target(s) = p PROVE Asked(p)
      <3>1. Holds(s, p)
        BY <1>3, <2>3 DEF Holds, At
      <3>2. lock[p] = s /\ s # Null
        BY <3>1, ParamAssumption DEF LocksHeld
      <3> QED  BY <3>2, <1>3 DEF Asked
    <2> QED  BY <2>2, <2>3
  <1> QED  BY <1>2, <1>3 DEF Holds

\* The request under way keeps what it runs into, and so does every step that leaves
\* it alone.
LEMMA OverrunKept ==
  ASSUME OverrunKnown, overrun \subseteq overrun',
         \A t \in Session : At(t, "ack")' => /\ At(t, "ack")
                                            /\ call'[t].sdo = call[t].sdo
  PROVE  OverrunKnown'
  BY DEF OverrunKnown, RunInto, IsSet, Target

\* Every step knows what its request runs into.
LEMMA OverrunStep ==
  ASSUME ParamTypeOK, OverrunKnown, [ParamNext]_paramVars
  PROVE  OverrunKnown' /\ (overrun \subseteq overrun' \/ Restart)
  <1> USE DEF rtVars, shmVars, lockVars, pipeVars, callVars, noteVars, clientVars, saveVars
  <1>1. ASSUME NEW s \in Session,
               \/ Connect(s) \/ Disconnect(s) \/ CollectNotices(s)
               \/ \E polite, access \in BOOLEAN : RemoteHost(s, polite, access)
               \/ \E p \in Param : ReadParameter(s, p)
        PROVE  OverrunKnown' /\ overrun \subseteq overrun'
    <2>1. UNCHANGED <<call, overrun>>
      BY <1>1 DEF Connect, Disconnect, CollectNotices, RemoteHost, ReadParameter
    <2> QED  BY <2>1, OverrunKept DEF At
  <1>2. ASSUME NEW s \in Session, ParamCommand(s)
        PROVE  OverrunKnown' /\ overrun \subseteq overrun'
    <2>1. UNCHANGED overrun
      BY <1>2 DEF ParamCommand, WriteParameter, WriteInvalid, PollSignal
    <2>2. call'[s] = call[s] \/ call'[s].pc \in {"lock", "sdo"}
      BY <1>2 DEF ParamCommand, WriteParameter, WriteInvalid, PollSignal, ParamTypeOK
    <2>3. \A t \in Session \ {s} : call'[t] = call[t]
      BY <1>2 DEF ParamCommand, WriteParameter, WriteInvalid, PollSignal, ParamTypeOK
    <2> QED  BY <2>1, <2>2, <2>3, OverrunKept DEF At
  <1>3. ASSUME NEW s \in Session, SendRequest(s)
        PROVE  OverrunKnown' /\ overrun \subseteq overrun'
    <2>1. overrun' = overrun \cup RunInto(s)
      BY <1>3 DEF SendRequest
    <2>2. call'[s].sdo = call[s].sdo /\ \A t \in Session \ {s} : call'[t] = call[t]
      BY <1>3, TypeSend
    <2>3. RunInto(s)' = RunInto(s)
      BY <2>2 DEF RunInto, IsSet, Target
    <2>4. \A t \in Session \ {s} : At(t, "ack")' => At(t, "ack") /\ RunInto(t)' = RunInto(t)
      BY <2>2 DEF At, RunInto, IsSet, Target
    <2> QED  BY <2>1, <2>3, <2>4 DEF OverrunKnown
  <1>4. ASSUME NEW s \in Session, ParamCall(s), ~SendRequest(s)
        PROVE  OverrunKnown' /\ overrun \subseteq overrun'
    <2>1. overrun \subseteq overrun'
      BY <1>4 DEF ParamCall, LockParameter, SendFails, PollDone, ChangeAccepted,
         ChangeRefused, AckFails, Inform, SaveParameter, Uncouple
    <2>2. call[s] # Null
      BY <1>4 DEF ParamCall, LockParameter, SendFails, PollDone, ChangeAccepted,
         ChangeRefused, AckFails, Inform, SaveParameter, Uncouple, At
    <2>3. call'[s] = Null \/ call'[s].pc \in {"sdo", "inform", "save", "uncouple"}
      BY <1>4, <2>2, TypeGoto DEF ParamCall, LockParameter, SendFails, PollDone,
         ChangeAccepted, ChangeRefused, AckFails, Inform, SaveParameter, Uncouple,
         CallFails, CallDone, ParamTypeOK
    <2>4. \A t \in Session \ {s} : call'[t] = call[t]
      BY <1>4 DEF ParamCall, LockParameter, SendFails, PollDone, ChangeAccepted,
         ChangeRefused, AckFails, Inform, SaveParameter, Uncouple, Goto, CallFails,
         CallDone, ParamTypeOK
    <2> QED  BY <2>1, <2>3, <2>4, OverrunKept DEF At
  <1>5. CASE Supervisor \/ Saver \/ RtEnd \/ UNCHANGED paramVars
    <2>1. UNCHANGED <<call, overrun>>
      BY <1>5 DEF Supervisor, ServePoll, ServeChange, Saver, SaveStart, SaveSkip, SaveFetch,
         SaveWrite, RtEnd, paramVars
    <2> QED  BY <2>1, OverrunKept DEF At
  <1>6. CASE Restart
    BY <1>6 DEF Restart, OverrunKnown, At
  <1> QED  BY <1>1, <1>2, <1>3, <1>4, <1>5, <1>6 DEF ParamNext

\* What the application takes over of a request, in the parameters that it does not
\* run into.
LEMMA AppParts ==
  ASSUME ParamTypeOK, NEW s \in Session, call[s] # Null, IsSet(s),
         Head(reqPipe) = call[s].sdo, NEW accept \in BOOLEAN, ServeChange(accept),
         NEW p \in Param
  PROVE  /\ p \notin RunInto(s) /\ p # Target(s) => app'[p] = app[p]
         /\ p = Target(s) => \A x \in Part \ call[s].sdo.parts : app'[p][x] = app[p][x]
         /\ p = Target(s) /\ accept =>
               \A x \in call[s].sdo.parts : app'[p][x] = shm[p][x]
         /\ \A x \in Part : app'[p][x] = app[p][x] \/ accept
         /\ app'[p] \in [Part -> Val]
  <1> DEFINE sdo == call[s].sdo
  <1>1. /\ app[p] \in [Part -> Val] /\ call[s].sdo.parts \subseteq Part
        /\ sdo.parameter = Target(s)
    BY CommandType DEF ParamTypeOK, Value, Target
  <1>2. app' = IF ~accept THEN app
               ELSE [q \in Param |-> [x \in Part |->
                        IF <<q, x>> \in Reach(AppBehind, sdo) THEN Source(sdo, <<q, x>>)
                                                              ELSE app[q][x]]]
    BY DEF ServeChange
  <1> HIDE DEF sdo
  <1>3. ASSUME ~accept
        PROVE  app' = app
    BY <1>2, <1>3
  <1>4. ASSUME accept
        PROVE  app'[p] = [x \in Part |-> IF <<p, x>> \in Reach(AppBehind, sdo)
                                         THEN Source(sdo, <<p, x>>) ELSE app[p][x]]
    BY <1>2, <1>4
  <1>5. ASSUME p = Target(s) \/ p \notin RunInto(s), NEW x \in Part
        PROVE  <<p, x>> \in Reach(AppBehind, sdo) <=>
                  p = Target(s) /\ x \in call[s].sdo.parts
    BY <1>5, ReachParts DEF sdo
  <1>6. \A x \in Part : p = Target(s) => Source(sdo, <<p, x>>) = shm[p][x]
    BY <1>1 DEF Source
  <1>7. app'[p] \in [Part -> Val]
    BY TypeSupervisor DEF Supervisor, ParamTypeOK, Value
  <1>8. p \notin RunInto(s) /\ p # Target(s) => app'[p] = app[p]
    BY <1>1, <1>3, <1>4, <1>5
  <1>9. p = Target(s) => \A x \in Part \ call[s].sdo.parts : app'[p][x] = app[p][x]
    BY <1>3, <1>4, <1>5
  <1>10. p = Target(s) /\ accept => \A x \in call[s].sdo.parts : app'[p][x] = shm[p][x]
    BY <1>1, <1>4, <1>5, <1>6
  <1> QED  BY <1>3, <1>7, <1>8, <1>9, <1>10

\* Steps that leave the values alone.
LEMMA ValuesKept ==
  ASSUME ValueAgreed, UNCHANGED <<shm, app, mtime, version, ackPipe>>, rtAlive' => rtAlive,
         overrun \subseteq overrun',
         \A p \in Param : /\ Asked(p)' <=> Asked(p)
                          /\ Asked(p) => /\ call'[lock'[p]].backup = call[lock[p]].backup
                                         /\ call'[lock'[p]].sdo = call[lock[p]].sdo
  PROVE  ValueAgreed'
  BY DEF ValueAgreed, Taken

\* A session that does not set a parameter leaves its values alone.
LEMMA ValuesSession ==
  ASSUME ParamTypeOK, LocksHeld, ValueAgreed, NEW s \in Session,
         \/ Connect(s) \/ Disconnect(s) \/ CollectNotices(s)
         \/ \E polite, access \in BOOLEAN : RemoteHost(s, polite, access)
         \/ \E p \in Param : ReadParameter(s, p)
         \/ ParamCommand(s)
  PROVE  ValueAgreed'
  <1> USE DEF rtVars, shmVars, lockVars, pipeVars, callVars, noteVars, clientVars, saveVars
  <1>1. UNCHANGED <<shm, app, mtime, version, ackPipe, rtAlive, lock, overrun>>
    BY DEF Connect, Disconnect, CollectNotices, RemoteHost, ReadParameter, ParamCommand,
       WriteParameter, WriteInvalid, PollSignal
  <1>2. \A t \in Session : call[t] # Null => call'[t] = call[t]
    BY DEF Connect, Disconnect, CollectNotices, RemoteHost, ReadParameter, ParamCommand,
       WriteParameter, WriteInvalid, PollSignal, Idle, ParamTypeOK
  <1>3. \A p \in Param : lock[p] # Null => lock[p] \in Session /\ call[lock[p]] # Null
    BY DEF LocksHeld, Holds, ParamTypeOK
  <1>4. \A p \in Param : lock[p] # Null => call'[lock[p]] = call[lock[p]]
    BY <1>2, <1>3
  <1>5. \A p \in Param : Asked(p)' <=> Asked(p)
    BY <1>1, <1>4 DEF Asked, At
  <1> QED  BY <1>1, <1>4, <1>5, ValuesKept DEF Asked

\* A command writes the value under its locks, and takes it back if it fails.
LEMMA ValuesCall ==
  ASSUME ParamTypeOK, LocksHeld, OneRequest, OverrunKnown, ValueAgreed,
         NEW s \in Session, ParamCall(s)
  PROVE  ValueAgreed'
  <1> USE DEF rtVars, shmVars, lockVars, pipeVars, callVars, noteVars, clientVars, saveVars
  <1>0. call[s] # Null /\ s # Null
    BY ParamAssumption
       DEF ParamCall, LockParameter, SendRequest, SendFails, PollDone, ChangeAccepted,
       ChangeRefused, AckFails, Inform, SaveParameter, Uncouple, At
  <1>a. \A p \in Param : lock[p] = s <=> Holds(s, p)
    BY DEF LocksHeld
  <1>b. \A p \in Param : lock[p] # Null => lock[p] \in Session
    BY DEF ParamTypeOK
  <1>1. CASE LockParameter(s)
    <2>1. /\ call'[s].pc = "sdo"
          /\ \A t \in Session \ {s} : call'[t] = call[t]
      BY <1>0, <1>1, TypeGoto DEF LockParameter
    <2>2. IsSet(s) /\ Target(s) \in Param /\ call[s].pc = "lock"
      BY <1>0, <1>1, CommandType DEF LockParameter, At, LocksHeld
    <2>3. /\ \A p \in Param : lock'[p] = IF p = Target(s) THEN s ELSE lock[p]
          /\ lock[Target(s)] = Null
          /\ UNCHANGED <<shm, app, mtime, version, ackPipe, rtAlive, overrun>>
      BY <1>1, <2>2 DEF LockParameter, ParamTypeOK
    <2>4. \A p \in Param : p # Target(s) => lock'[p] = lock[p] /\ lock[p] # s
      BY <2>3, <2>2, <1>a DEF Holds
    <2>5. \A p \in Param : p # Target(s) /\ lock[p] # Null => call'[lock[p]] = call[lock[p]]
      BY <2>1, <2>4, <1>b
    <2>6. \A p \in Param : p = Target(s) => ~Asked(p) /\ ~Asked(p)'
      BY <2>1, <2>2, <2>3 DEF Asked, At
    <2>7. \A p \in Param : /\ Asked(p)' <=> Asked(p)
                           /\ Asked(p) => /\ call'[lock'[p]].backup = call[lock[p]].backup
                                          /\ call'[lock'[p]].sdo = call[lock[p]].sdo
      BY <2>4, <2>5, <2>6 DEF Asked, At
    <2> QED  BY <2>3, <2>7, ValuesKept
  <1>2. CASE SendRequest(s)
    <2>1. /\ call'[s].pc = "ack" /\ call'[s].sdo = call[s].sdo /\ call'[s] # Null
          /\ IsSet(s) => call'[s].backup = shm
          /\ \A t \in Session \ {s} : call'[t] = call[t]
      BY <1>2, TypeSend
    <2>2. /\ call[s].pc = "sdo" /\ sdoMutex = Null /\ ackPipe = <<>> /\ shm' = NewShm(s)
          /\ overrun' = overrun \cup RunInto(s)
          /\ UNCHANGED <<app, mtime, version, ackPipe, rtAlive, lock>>
      BY <1>2 DEF SendRequest, At, SdoFree, OneRequest
    <2>3. \A p \in Param : ~Asked(p)
      BY <2>2, AskedOne, ParamAssumption
    <2>4. \A p \in Param : lock[p] # s => ~Asked(p)'
      BY <2>1, <2>2, <2>3, <1>b DEF Asked, At
    <2>5. \A p \in Param \ overrun' : lock[p] # s => shm'[p] = shm[p]
      <3>1. CASE IsSet(s)
        <4>1. lock[Target(s)] = s
          BY <3>1, <1>0, <1>a, <2>2, CommandType DEF Holds
        <4> QED  BY <3>1, <4>1, <1>0, <2>2, ShmParts
      <3>2. CASE ~IsSet(s)
        BY <3>2, <1>0, <2>2, ShmParts
      <3> QED  BY <3>1, <3>2
    <2>6. ASSUME NEW p \in Param, lock[p] = s
          PROVE  /\ call'[s].backup[p] = shm[p]
                 /\ \A x \in Part \ call[s].sdo.parts : shm'[p][x] = shm[p][x]
      <3>1. IsSet(s) /\ p = Target(s)
        BY <2>6, <1>a DEF Holds
      <3> QED  BY <3>1, <1>0, <2>1, <2>2, ShmParts
    <2>7. ~Taken'
      BY <2>2 DEF Taken
    <2>8. ASSUME NEW p \in Param \ overrun', rtAlive'
          PROVE  /\ ~Asked(p)' => shm'[p] = app'[p] /\ mtime'[p] = version'[p]
                 /\ Asked(p)' =>
                       /\ call'[lock'[p]].backup[p] = app'[p] /\ mtime'[p] = version'[p]
                       /\ \A x \in Part \ call'[lock'[p]].sdo.parts : shm'[p][x] = app'[p][x]
      <3>1. shm[p] = app[p] /\ mtime[p] = version[p]
        BY <2>8, <2>2, <2>3 DEF ValueAgreed
      <3>2. CASE lock[p] = s
        <4>1. Asked(p)'
          BY <3>2, <2>1, <2>2, <1>0 DEF Asked, At
        <4> QED  BY <3>1, <3>2, <4>1, <2>1, <2>2, <2>6
      <3>3. CASE lock[p] # s
        BY <3>1, <3>3, <2>2, <2>4, <2>5
      <3> QED  BY <3>2, <3>3
    <2> QED  BY <2>7, <2>8 DEF ValueAgreed
  <1>3. CASE SendFails(s) \/ AckFails(s)
    BY <1>3 DEF SendFails, AckFails, ValueAgreed
  <1>4. CASE PollDone(s) \/ ChangeAccepted(s) \/ ChangeRefused(s)
    <2>1. At(s, "ack") /\ sdoMutex = s /\ UNCHANGED <<app, version, rtAlive, overrun>>
      BY <1>4 DEF PollDone, ChangeAccepted, ChangeRefused, LocksHeld
    <2>2. \A p \in Param : lock[p] # s => ~Asked(p)
      BY <2>1, AskedOne
    <2>3. /\ ~At(s, "ack")'
          /\ \A t \in Session \ {s} : call'[t] = call[t]
          /\ \A p \in Param : lock'[p] \in {Null, lock[p]}
      <3>1. CASE PollDone(s)
        BY <3>1 DEF PollDone, At, ParamTypeOK
      <3>2. CASE ChangeAccepted(s)
        BY <3>2, <1>0, TypeGoto DEF ChangeAccepted, At
      <3>3. CASE ChangeRefused(s)
        BY <3>3 DEF ChangeRefused, CallFails, At, ParamTypeOK
      <3> QED  BY <1>4, <3>1, <3>2, <3>3
    <2>4. \A p \in Param : ~Asked(p)'
      BY <2>2, <2>3, <1>b DEF Asked, At
    <2>5. ASSUME NEW p \in Param \ overrun, rtAlive
          PROVE  shm'[p] = app[p] /\ mtime'[p] = version[p]
      <3>1. CASE lock[p] = s
        <4>1. IsSet(s) /\ p = Target(s)
          BY <3>1, <1>a DEF Holds
        <4>2. Asked(p)
          BY <4>1, <2>1, AskedOne
        <4>3. CASE ChangeAccepted(s)
          <5>1. Taken
            BY <4>3 DEF ChangeAccepted, Taken
          <5> QED  BY <2>5, <4>1, <4>2, <4>3, <5>1 DEF ChangeAccepted, ValueAgreed, ParamTypeOK
        <4>4. CASE ChangeRefused(s)
          <5>1. ~Taken
            BY <4>4 DEF ChangeRefused, Taken
          <5>2. shm' = Restore(s) /\ mtime' = mtime
            BY <4>4 DEF ChangeRefused
          <5>3. /\ call[s].backup[p] = app[p] /\ mtime[p] = version[p]
                /\ \A x \in Part \ call[s].sdo.parts : shm[p][x] = app[p][x]
            BY <2>5, <3>1, <4>2, <5>1 DEF ValueAgreed
          <5>4. \A x \in Part : shm'[p][x] = app[p][x]
            BY <1>0, <4>1, <5>2, <5>3, ShmParts
          <5>5. app[p] \in [Part -> Val] /\ shm'[p] \in [Part -> Val]
            BY <1>0, <5>2, TypeRestore DEF ParamTypeOK, Value
          <5>6. shm'[p] = app[p]
            BY <5>4, <5>5
          <5> QED  BY <5>2, <5>3, <5>6
        <4> QED  BY <1>4, <4>1, <4>3, <4>4 DEF PollDone
      <3>2. CASE lock[p] # s
        <4>1. shm[p] = app[p] /\ mtime[p] = version[p]
          BY <2>2, <2>5, <3>2 DEF ValueAgreed
        <4>2. IsSet(s) => Target(s) # p
          BY <2>1, <3>2, <1>a DEF Holds, At
        <4>3. CASE ChangeRefused(s)
          <5>1. shm' = Restore(s) /\ mtime' = mtime /\ IsSet(s)
            BY <4>3 DEF ChangeRefused
          <5>2. p \notin RunInto(s)
            BY <2>1 DEF OverrunKnown
          <5> QED  BY <1>0, <4>1, <4>2, <5>1, <5>2, ShmParts
        <4> QED  BY <1>4, <4>1, <4>2, <4>3 DEF PollDone, ChangeAccepted, ParamTypeOK
      <3> QED  BY <3>1, <3>2
    <2> QED  BY <2>1, <2>4, <2>5 DEF ValueAgreed
  <1>5. CASE Inform(s) \/ SaveParameter(s) \/ Uncouple(s)
    <2>1. /\ UNCHANGED <<shm, app, mtime, version, ackPipe, rtAlive, overrun>>
          /\ call[s].pc \in {"inform", "save", "uncouple"}
      BY <1>5 DEF Inform, SaveParameter, Uncouple, At
    <2>2. /\ ~At(s, "ack")'
          /\ \A t \in Session \ {s} : call'[t] = call[t]
      BY <1>5, <1>0, TypeGoto DEF Inform, SaveParameter, Uncouple, CallDone, At, ParamTypeOK
    <2>3. \A p \in Param : lock[p] # s => lock'[p] = lock[p]
      <3>1. lock[Target(s)] = s \/ lock' = lock
        <4>1. IsSet(s)
          BY <1>0, <2>1 DEF LocksHeld
        <4> QED  BY <4>1, <1>0, <1>a, <2>1, CommandType DEF Holds
      <3>2. \A p \in Param : p # Target(s) => lock'[p] = lock[p]
        BY <1>5 DEF Inform, SaveParameter, Uncouple, CallDone, ParamTypeOK
      <3> QED  BY <3>1, <3>2
    <2>4. \A p \in Param : lock[p] = s => lock'[p] \in {Null, s}
      BY <1>5 DEF Inform, SaveParameter, Uncouple, CallDone, ParamTypeOK
    <2>5. \A p \in Param : lock[p] = s => ~Asked(p) /\ ~Asked(p)'
      BY <2>1, <2>2, <2>4 DEF Asked, At
    <2>6. \A p \in Param : /\ Asked(p)' <=> Asked(p)
                           /\ Asked(p) => /\ call'[lock'[p]].backup = call[lock[p]].backup
                                          /\ call'[lock'[p]].sdo = call[lock[p]].sdo
      BY <2>2, <2>3, <2>5, <1>b DEF Asked, At
    <2> QED  BY <2>1, <2>6, ValuesKept
  <1> QED  BY <1>1, <1>2, <1>3, <1>4, <1>5 DEF ParamCall

\* The supervisor takes the value of the request over into the application.
LEMMA ValuesSupervisor ==
  ASSUME ParamTypeOK, LocksHeld, OneRequest, OverrunKnown, ValueAgreed, Supervisor
  PROVE  ValueAgreed'
  <1> USE DEF rtVars, shmVars, lockVars, pipeVars, callVars, noteVars, clientVars, saveVars
  <1>1. PICK s \in Session : s = sdoMutex
    BY PipesSupervisor
  <1>2. /\ At(s, "ack") /\ call[s] # Null /\ Head(reqPipe) = call[s].sdo
        /\ ackPipe = <<>> /\ ~Taken
    BY <1>1, PipesSupervisor DEF Taken
  <1>3. UNCHANGED <<call, lock, shm, mtime, rtAlive, overrun>>
    BY DEF Supervisor, ServePoll, ServeChange
  <1>4. \A p \in Param : Asked(p)' <=> Asked(p)
    BY <1>3 DEF Asked, At
  <1>5. CASE ServePoll
    <2>1. \A p \in Param : ~Asked(p)
      BY <1>2, <1>5, AskedOne DEF ServePoll, IsSet
    <2>2. UNCHANGED <<app, version>>
      BY <1>5 DEF ServePoll
    <2> QED  BY <1>3, <1>4, <2>1, <2>2 DEF ValueAgreed
  <1>6. ASSUME NEW accept \in BOOLEAN, ServeChange(accept) PROVE ValueAgreed'
    <2>1. IsSet(s)
      BY <1>2, <1>6 DEF ServeChange, IsSet
    <2>2. PICK q \in Param : q = Target(s)
      BY <1>2, <2>1, CommandType
    <2>3. Asked(q) /\ lock[q] = s /\ \A p \in Param \ {q} : ~Asked(p)
      BY <1>2, <2>1, <2>2, AskedOne
    <2> DEFINE parts == call[s].sdo.parts
               a == [type |-> "ParamChange", parameter |-> q, parts |-> parts,
                     rv |-> ~accept, time |-> version'[q]]
    <2>4. Head(reqPipe).parameter = q /\ Head(reqPipe).parts = parts
      BY <1>2, <2>2 DEF Target
    <2>5. ackPipe' = Append(<<>>, a)
      BY <1>2, <1>6, <2>4 DEF ServeChange
    <2>6. ackPipe' # <<>> /\ Head(ackPipe') = a
      BY <2>5
    <2>7. Head(ackPipe').time = version'[q] /\ (Taken' <=> accept)
      <3>1. Head(ackPipe').time = version'[q]
        BY <2>6
      <3>2. Head(ackPipe').rv = ~accept
        BY <2>6
      <3>3. Taken' <=> accept
        BY <2>6, <3>2, Zenon DEF Taken
      <3> QED  BY <3>1, <3>3
    <2>8. \A p \in Param \ (overrun \cup {q}) :
             app'[p] = app[p] /\ version'[p] = version[p]
      <3>1. \A p \in Param \ {q} : version'[p] = version[p]
        BY <1>6, <2>4 DEF ServeChange, ParamTypeOK
      <3>2. RunInto(s) \subseteq overrun
        BY <1>2 DEF OverrunKnown
      <3> QED  BY <3>1, <3>2, <1>2, <1>6, <2>1, <2>2, AppParts
    <2>9. ~accept => UNCHANGED <<app, version>>
      BY <1>6 DEF ServeChange
    <2>10. ASSUME accept, rtAlive, q \notin overrun PROVE app'[q] = shm[q]
      <3>1. /\ \A x \in Part \ parts : app'[q][x] = app[q][x]
            /\ \A x \in parts : app'[q][x] = shm[q][x]
            /\ app'[q] \in [Part -> Val]
        BY <1>2, <1>6, <2>1, <2>2, <2>10, AppParts
      <3>2. \A x \in Part \ parts : shm[q][x] = app[q][x]
        BY <1>2, <2>3, <2>10 DEF ValueAgreed
      <3>3. shm[q] \in [Part -> Val] /\ parts \subseteq Part
        BY <1>2, <2>1, CommandType DEF ParamTypeOK, Value
      <3>4. \A x \in Part : app'[q][x] = shm[q][x]
        BY <3>1, <3>2, <3>3
      <3> QED  BY <3>1, <3>3, <3>4
    <2>11. ASSUME NEW p \in Param \ overrun, rtAlive'
           PROVE  /\ ~Asked(p)' => shm'[p] = app'[p] /\ mtime'[p] = version'[p]
                  /\ Asked(p)' /\ Taken' =>
                        shm'[p] = app'[p] /\ Head(ackPipe').time = version'[p]
                  /\ Asked(p)' /\ ~Taken' =>
                        /\ call'[lock'[p]].backup[p] = app'[p] /\ mtime'[p] = version'[p]
                        /\ \A x \in Part \ call'[lock'[p]].sdo.parts :
                              shm'[p][x] = app'[p][x]
      <3>1. CASE p = q
        <4>1. CASE accept
          BY <1>3, <1>4, <2>3, <2>7, <2>10, <2>11, <3>1, <4>1
        <4>2. CASE ~accept
          BY <1>2, <1>3, <1>4, <2>3, <2>7, <2>9, <2>11, <3>1, <4>2 DEF ValueAgreed
        <4> QED  BY <4>1, <4>2
      <3>2. CASE p # q
        BY <1>3, <1>4, <2>3, <2>8, <2>11, <3>2 DEF ValueAgreed
      <3> QED  BY <3>1, <3>2
    <2> QED  BY <2>11, <1>3 DEF ValueAgreed
  <1> QED  BY <1>5, <1>6 DEF Supervisor

\* The saver and a restart leave the processes agreed.
LEMMA ValuesRest ==
  ASSUME ParamTypeOK, ValueAgreed, Saver \/ RtEnd \/ Restart \/ UNCHANGED paramVars
  PROVE  ValueAgreed'
  <1> USE DEF rtVars, shmVars, lockVars, pipeVars, callVars, noteVars, clientVars, saveVars
  <1>1. CASE Saver
    <2>1. UNCHANGED <<shm, app, mtime, version, ackPipe, rtAlive, lock, call, overrun>>
      BY <1>1 DEF Saver, SaveStart, SaveSkip, SaveFetch, SaveWrite
    <2>2. \A p \in Param : Asked(p)' <=> Asked(p)
      BY <2>1 DEF Asked, At
    <2> QED  BY <2>1, <2>2, ValuesKept
  <1>2. CASE RtEnd
    BY <1>2 DEF RtEnd, ValueAgreed
  <1>3. CASE Restart
    <2>1. \A p \in Param : ~Asked(p)'
      BY <1>3 DEF Restart, Asked
    <2> QED  BY <1>3, <2>1 DEF Restart, ValueAgreed
  <1>4. CASE UNCHANGED paramVars
    <2>1. UNCHANGED <<shm, app, mtime, version, ackPipe, rtAlive, lock, call, overrun>>
      BY <1>4 DEF paramVars
    <2>2. \A p \in Param : Asked(p)' <=> Asked(p)
      BY <2>1 DEF Asked, At
    <2> QED  BY <2>1, <2>2, ValuesKept
  <1> QED  BY <1>1, <1>2, <1>3, <1>4

-----------------------------------------------------------------------------
(* Locks, pipes and values together                                         *)

\* The invariant holds at first ...
LEMMA ParamInvInit == ParamInit => ParamInv
  <1> SUFFICES ASSUME ParamInit PROVE ParamInv
    OBVIOUS
  <1>1. ParamTypeOK
    BY TypeInit
  <1>2. LocksHeld
    BY ParamAssumption DEF ParamInit, LocksHeld, Holds, At
  <1>3. OneRequest
    BY ParamAssumption DEF ParamInit, OneRequest
  <1>4. ValueAgreed
    BY DEF ParamInit, ValueAgreed, Asked
  <1>5. OverrunKnown
    BY DEF ParamInit, OverrunKnown, At
  <1> QED  BY <1>1, <1>2, <1>3, <1>4, <1>5 DEF ParamInv

\* ... and every step keeps it.
LEMMA ParamInvStep == ParamInv /\ [ParamNext]_paramVars => ParamInv'
  <1> SUFFICES ASSUME ParamInv, [ParamNext]_paramVars PROVE ParamInv'
    OBVIOUS
  <1>0. ParamTypeOK /\ LocksHeld /\ OneRequest /\ OverrunKnown /\ ValueAgreed
    BY DEF ParamInv
  <1>a. OverrunKnown'
    BY <1>0, OverrunStep
  <1>1. ASSUME NEW s \in Session,
               \/ Connect(s) \/ Disconnect(s) \/ CollectNotices(s)
               \/ \E polite, access \in BOOLEAN : RemoteHost(s, polite, access)
               \/ \E p \in Param : ReadParameter(s, p)
        PROVE  ParamInv'
    BY <1>0, <1>a, <1>1, TypeSession, LocksSession, PipesSession, ValuesSession DEF ParamInv
  <1>2. ASSUME NEW s \in Session, ParamCommand(s) PROVE ParamInv'
    BY <1>0, <1>a, <1>2, TypeCommand, LocksCommand, PipesSession, ValuesSession DEF ParamInv
  <1>3. ASSUME NEW s \in Session, ParamCall(s) PROVE ParamInv'
    BY <1>0, <1>a, <1>3, TypeCall, LocksCall, PipesCall, ValuesCall DEF ParamInv
  <1>4. CASE Supervisor
    BY <1>0, <1>a, <1>4, TypeSupervisor, LocksRest, PipesSupervisor, ValuesSupervisor DEF ParamInv
  <1>5. CASE Saver
    BY <1>0, <1>a, <1>5, TypeSaver, LocksRest, PipesRest, ValuesRest DEF ParamInv
  <1>6. CASE RtEnd \/ Restart \/ UNCHANGED paramVars
    BY <1>0, <1>a, <1>6, TypeEnd, LocksRest, PipesRest, ValuesRest DEF ParamInv
  <1> QED  BY <1>1, <1>2, <1>3, <1>4, <1>5, <1>6 DEF ParamNext

\* The locks of the two layers and the pipes are used as they should, so that shared
\* memory agrees with the application whenever a client can read it.
THEOREM ParamInvHolds == ParamSpec => []ParamInv
  BY ParamInvInit, ParamInvStep, PTL DEF ParamSpec

\* An answer is always taken by the thread whose request it answers, although
\* setValue() and getValue() do not look.
THEOREM AckMatchesRequestHolds == ParamSpec => []AckMatchesRequest
  <1>1. ParamInv => AckMatchesRequest
    <2> SUFFICES ASSUME ParamInv, NEW s \in Session, At(s, "ack"), ackPipe # <<>>
                 PROVE  /\ Head(ackPipe).type = call[s].sdo.type
                        /\ IsSet(s) => /\ Head(ackPipe).parameter = Target(s)
                                       /\ Head(ackPipe).parts = call[s].sdo.parts
      BY DEF AckMatchesRequest
    <2>1. Answers(ackPipe[1], call[s].sdo)
      BY DEF ParamInv, LocksHeld, OneRequest
    <2>2. Head(ackPipe) = ackPipe[1]
      BY AckType DEF ParamInv
    <2> QED  BY <2>1, <2>2 DEF Answers, IsSet, Target
  <1> QED  BY <1>1, ParamInvHolds, PTL

-----------------------------------------------------------------------------
(* The notices                                                              *)

\* A change that others have yet to be told of stays one.
LEMMA InformingKept ==
  ASSUME ParamTypeOK, NEW n \in Node, InformingNode(n),
         lock'[n[1]] = lock[n[1]], call'[lock[n[1]]] = call[lock[n[1]]],
         ackPipe' = ackPipe \/ ~At(lock[n[1]], "ack")
  PROVE  InformingNode(n)'
  BY DEF InformingNode, ToInform, At, Taken

\* A command that does not move is set by the same client.
LEMMA SettingKept ==
  ASSUME NEW t \in Session, NEW n \in Node, SettingNode(t, n), call'[t] = call[t]
  PROVE  SettingNode(t, n)'
  BY DEF SettingNode, IsSet, Target

\* Every client starts with the values there are.
LEMMA NoticeInit == ParamInit => NoticeInv
  BY DEF ParamInit, NoticeInv, NoticeOk

\* Elements of a parameter
LEMMA NodeParts ==
  ASSUME NEW n \in Node
  PROVE  /\ n[1] \in Param /\ n[2] \in Part
         /\ \A p, parts : n \in Nodes(p, parts) <=> n[1] = p /\ n[2] \in parts
  BY DEF Node, Nodes

\* The steps in which no command moves and the application keeps its values
LEMMA NoticeQuiet ==
  ASSUME ParamInv, NoticeInv, UNCHANGED <<call, lock, ackPipe, app, rtAlive>>,
         NEW t \in Session, NEW n \in Node, rtAlive', n[1] \notin overrun,
         \/ seen'[t][n] \in {Null, app[n[1]][n[2]]}
         \/ n \in changed'[t] \cup pu'[t]
         \/ /\ seen'[t][n] = seen[t][n]
            /\ n \in changed[t] \cup pu[t] => n \in changed'[t] \cup pu'[t]
  PROVE  NoticeOk(t, n)'
  <1>1. CASE \/ seen'[t][n] \in {Null, app[n[1]][n[2]]}
             \/ n \in changed'[t] \cup pu'[t]
    BY <1>1 DEF NoticeOk
  <1>2. CASE /\ seen'[t][n] = seen[t][n]
             /\ n \in changed[t] \cup pu[t] => n \in changed'[t] \cup pu'[t]
    <2>1. NoticeOk(t, n)
      BY DEF NoticeInv
    <2>2. InformingNode(n) => InformingNode(n)'
      BY InformingKept DEF ParamInv
    <2>3. SettingNode(t, n) => SettingNode(t, n)'
      BY SettingKept
    <2> QED  BY <1>2, <2>1, <2>2, <2>3 DEF NoticeOk
  <1> QED  BY <1>1, <1>2

\* A client that reads a parameter, or connects, has seen its value.
LEMMA NoticeSession ==
  ASSUME ParamInv, NoticeInv, NEW s \in Session,
         \/ Connect(s) \/ Disconnect(s) \/ CollectNotices(s)
         \/ \E polite, access \in BOOLEAN : RemoteHost(s, polite, access)
         \/ \E p \in Param : ReadParameter(s, p)
  PROVE  NoticeInv'
  <1> USE DEF rtVars, shmVars, lockVars, pipeVars, callVars, noteVars, clientVars, saveVars
  <1>0. UNCHANGED <<call, lock, ackPipe, app, rtAlive, overrun>>
    BY DEF Connect, Disconnect, CollectNotices, RemoteHost, ReadParameter
  <1>a. ParamTypeOK /\ ValueAgreed
    BY DEF ParamInv
  <1> SUFFICES ASSUME NEW t \in Session, NEW n \in Node
               PROVE  /\ Follows(t)' \/ seen'[t][n] = Null
                      /\ rtAlive' /\ n[1] \notin overrun' => NoticeOk(t, n)'
    BY DEF NoticeInv
  <1>b. Follows(t) \/ seen[t][n] = Null
    BY DEF NoticeInv
  <1>1. CASE Connect(s)
    <2>1. UNCHANGED <<seen, changed, pu>> /\ (Follows(t) => Follows(t)')
      BY <1>1, <1>a DEF Connect, Follows, Connected, ParamTypeOK
    <2> QED  BY <1>0, <1>b, <2>1, NoticeQuiet
  <1>2. CASE Disconnect(s)
    <2>1. CASE t = s
      <3>1. seen'[t][n] = Null
        BY <1>2, <2>1, <1>a DEF Disconnect, ParamTypeOK
      <3> QED  BY <3>1, <1>0, NoticeQuiet
    <2>2. CASE t # s
      <3>1. /\ seen'[t] = seen[t] /\ changed'[t] = changed[t] /\ pu'[t] = pu[t]
            /\ sess'[t] = sess[t]
        BY <1>2, <2>2, <1>a DEF Disconnect, ParamTypeOK
      <3> QED  BY <3>1, <1>0, <1>b, NoticeQuiet DEF Follows, Connected
    <2> QED  BY <2>1, <2>2
  <1>3. CASE CollectNotices(s)
    <2>1. UNCHANGED <<seen, sess>>
      BY <1>3 DEF CollectNotices
    <2>2. n \in changed[t] \cup pu[t] => n \in changed'[t] \cup pu'[t]
      BY <1>3, <1>a DEF CollectNotices, ParamTypeOK
    <2> QED  BY <2>1, <2>2, <1>0, <1>b, NoticeQuiet DEF Follows, Connected
  <1>4. CASE \E polite, access \in BOOLEAN : RemoteHost(s, polite, access)
    <2>1. PICK polite, access \in BOOLEAN : RemoteHost(s, polite, access)
      BY <1>4
    <2>2. CASE t = s /\ polite
      <3>1. seen'[t][n] = Null
        BY <2>1, <2>2, <1>a DEF RemoteHost, ParamTypeOK
      <3> QED  BY <3>1, <1>0, NoticeQuiet
    <2>3. CASE t = s /\ ~polite
      <3>1. [polite |-> polite, writeAccess |-> access] # Null
        BY NullAssumption DEF Flags
      <3>2. sess'[t] = [polite |-> polite, writeAccess |-> access]
        BY <2>1, <2>3, <1>a DEF RemoteHost, ParamTypeOK
      <3>3. sess'[t].polite = polite
        BY <3>2
      <3>4. Follows(t)'
        BY <2>3, <3>1, <3>2, <3>3, Zenon DEF Follows, Connected
      <3>5. UNCHANGED <<seen, changed, pu>>
        BY <2>1, <2>3 DEF RemoteHost
      <3> QED  BY <3>4, <3>5, <1>0, NoticeQuiet
    <2>4. CASE t # s
      <3>1. /\ seen'[t] = seen[t] /\ changed'[t] = changed[t] /\ pu'[t] = pu[t]
            /\ sess'[t] = sess[t]
        BY <2>1, <2>4, <1>a DEF RemoteHost, ParamTypeOK
      <3> QED  BY <3>1, <1>0, <1>b, NoticeQuiet DEF Follows, Connected
    <2> QED  BY <2>2, <2>3, <2>4
  <1>5. CASE \E p \in Param : ReadParameter(s, p)
    <2>1. PICK p \in Param : ReadParameter(s, p)
      BY <1>5
    <2>2. UNCHANGED <<changed, sess>> /\ Follows(s)
      BY <2>1 DEF ReadParameter, Follows, Idle
    <2>3. CASE t = s /\ n[1] = p
      <3>1. seen'[t][n] = shm[p][n[2]]
        BY <2>1, <2>3, <1>a DEF ReadParameter, ParamTypeOK
      <3>2. rtAlive /\ p \notin overrun => shm[p] = app[p]
        BY <2>1, <1>a DEF ReadParameter, Readable, ValueAgreed, Asked
      <3> QED  BY <2>2, <2>3, <3>1, <3>2, <1>0, NoticeQuiet DEF Follows, Connected
    <2>4. CASE t = s /\ n[1] # p
      <3>1. seen'[t][n] = seen[t][n]
        BY <2>1, <2>4, <1>a DEF ReadParameter, ParamTypeOK
      <3>2. n \in pu[t] => n \in pu'[t]
        BY <2>1, <2>4, <1>a, NodeParts DEF ReadParameter, ParamTypeOK
      <3> QED  BY <2>2, <2>4, <3>1, <3>2, <1>0, NoticeQuiet DEF Follows, Connected
    <2>5. CASE t # s
      <3>1. seen'[t] = seen[t] /\ pu'[t] = pu[t]
        BY <2>1, <2>5, <1>a DEF ReadParameter, ParamTypeOK
      <3> QED  BY <2>2, <3>1, <1>0, <1>b, NoticeQuiet DEF Follows, Connected
    <2> QED  BY <2>3, <2>4, <2>5
  <1> QED  BY <1>1, <1>2, <1>3, <1>4, <1>5

\* The holder of a lock has a command.
LEMMA LockHolder ==
  ASSUME ParamInv, NEW p \in Param, lock[p] # Null
  PROVE  /\ lock[p] \in Session /\ call[lock[p]] # Null
         /\ Holds(lock[p], p)
         /\ At(lock[p], "ack") => sdoMutex = lock[p]
  BY DEF ParamInv, ParamTypeOK, LocksHeld, Holds

\* A command begins: what it is to set is typed in.
LEMMA NoticeCommand ==
  ASSUME ParamInv, NoticeInv, NEW s \in Session, ParamCommand(s)
  PROVE  NoticeInv'
  <1> USE DEF rtVars, shmVars, lockVars, pipeVars, callVars, noteVars, clientVars, saveVars
  <1>0. UNCHANGED <<lock, ackPipe, app, rtAlive, sess, pu, overrun>> /\ call[s] = Null
    BY DEF ParamCommand, WriteParameter, WriteInvalid, PollSignal, Idle
  <1>a. ParamTypeOK
    BY DEF ParamInv
  <1> SUFFICES ASSUME NEW t \in Session, NEW n \in Node
               PROVE  /\ Follows(t)' \/ seen'[t][n] = Null
                      /\ rtAlive' /\ n[1] \notin overrun' => NoticeOk(t, n)'
    BY DEF NoticeInv
  <1>b. /\ Follows(t) \/ seen[t][n] = Null
        /\ Follows(t) <=> Follows(t)'
        /\ rtAlive' /\ n[1] \notin overrun' => NoticeOk(t, n)
    BY <1>0 DEF NoticeInv, Follows, Connected
  <1>c. \A r \in Session \ {s} : call'[r] = call[r]
    BY <1>a DEF ParamCommand, WriteParameter, WriteInvalid, PollSignal, ParamTypeOK
  <1>d. InformingNode(n) => InformingNode(n)'
    <2>1. SUFFICES ASSUME InformingNode(n) PROVE InformingNode(n)'
      OBVIOUS
    <2>2. n[1] \in Param /\ lock[n[1]] # Null
      BY <2>1, NodeParts DEF InformingNode, ToInform
    <2>3. call'[lock[n[1]]] = call[lock[n[1]]]
      BY <2>2, <1>0, <1>c, LockHolder
    <2> QED  BY <2>1, <2>3, <1>0, <1>a, InformingKept
  <1>e. SettingNode(t, n) => SettingNode(t, n)'
    BY <1>0, <1>c, SettingKept DEF SettingNode
  <1>f. (/\ seen'[t][n] = seen[t][n]
         /\ n \in changed[t] => n \in changed'[t])
           => (rtAlive' /\ n[1] \notin overrun' => NoticeOk(t, n)')
    BY <1>0, <1>b, <1>d, <1>e DEF NoticeOk
  <1>1. ASSUME NEW p \in Param, NEW w \in Vector, NEW v \in Val, NEW isAic \in BOOLEAN,
               WriteParameter(s, p, w, v, isAic)
        PROVE  /\ Follows(t)' \/ seen'[t][n] = Null
               /\ rtAlive' /\ n[1] \notin overrun' => NoticeOk(t, n)'
    <2>1. UNCHANGED changed /\ seen' = Typed(s, p, w.parts, v) /\ Connected(s)
      BY <1>1 DEF WriteParameter, Idle
    <2>2. CASE t = s /\ n \in Nodes(p, w.parts) /\ ~sess[s].polite
      <3> DEFINE c == [pc |-> "lock", value |-> v, backup |-> NoBackup,
                       sdo |-> [type |-> "ParamChange", parameter |-> p,
                                parts |-> w.parts, over |-> w.over]]
      <3>1. call'[s] = c
        BY <1>1, <1>a DEF WriteParameter, ParamTypeOK
      <3>2. /\ c.pc = "lock" /\ c.sdo.type = "ParamChange"
            /\ c.sdo.parameter = p /\ c.sdo.parts = w.parts
        OBVIOUS
      <3>3. c # Null
        <4>1. [type |-> "ParamChange", parameter |-> p, parts |-> w.parts,
               over |-> w.over] \in SDO
          BY VectorParts DEF SDO
        <4>2. c \in Command
          BY <4>1, NoBackupValue DEF Command
        <4> QED  BY <4>2, NullAssumption
      <3>4. SettingNode(t, n)'
        BY <2>2, <3>1, <3>2, <3>3 DEF SettingNode, IsSet, Target
      <3>5. Follows(t)
        BY <2>1, <2>2 DEF Follows
      <3> QED  BY <3>4, <3>5, <1>b DEF NoticeOk
    <2>3. CASE ~(t = s /\ n \in Nodes(p, w.parts) /\ ~sess[s].polite)
      <3>1. seen'[t][n] = seen[t][n]
        BY <2>1, <2>3, <1>a DEF Typed, ParamTypeOK
      <3> QED  BY <2>1, <3>1, <1>b, <1>f
    <2> QED  BY <2>2, <2>3
  <1>2. ASSUME NEW p \in Param, NEW w \in Vector, NEW v \in Val, NEW isAic \in BOOLEAN,
               WriteInvalid(s, p, w, v, isAic)
        PROVE  /\ Follows(t)' \/ seen'[t][n] = Null
               /\ rtAlive' /\ n[1] \notin overrun' => NoticeOk(t, n)'
    <2>1. /\ seen' = Typed(s, p, w.parts, v) /\ Connected(s)
          /\ changed' = Notified(s, p, w.parts)
      BY <1>2 DEF WriteInvalid, Idle
    <2>2. n \in changed[t] => n \in changed'[t]
      BY <2>1, <1>a DEF Notified, ParamTypeOK
    <2>3. CASE t = s /\ n \in Nodes(p, w.parts) /\ ~sess[s].polite
      <3>1. n \in changed'[t]
        BY <2>1, <2>3, <1>a DEF Notified, ParamTypeOK
      <3>2. Follows(t)
        BY <2>1, <2>3 DEF Follows
      <3> QED  BY <3>1, <3>2, <1>b DEF NoticeOk
    <2>4. CASE ~(t = s /\ n \in Nodes(p, w.parts) /\ ~sess[s].polite)
      <3>1. seen'[t][n] = seen[t][n]
        BY <2>1, <2>4, <1>a DEF Typed, ParamTypeOK
      <3> QED  BY <2>2, <3>1, <1>b, <1>f
    <2> QED  BY <2>3, <2>4
  <1>3. CASE PollSignal(s)
    BY <1>3, <1>b, <1>f DEF PollSignal
  <1> QED  BY <1>1, <1>2, <1>3 DEF ParamCommand

\* A command moves: the application takes the value over and all are informed, or it
\* refuses and the client that typed it is.
LEMMA NoticeCall ==
  ASSUME ParamInv, NoticeInv, NEW s \in Session, ParamCall(s)
  PROVE  NoticeInv'
  <1> USE DEF rtVars, shmVars, lockVars, pipeVars, callVars, noteVars, clientVars, saveVars
  <1>0. /\ UNCHANGED <<app, rtAlive, sess, pu, seen>> /\ call[s] # Null /\ s # Null
        /\ overrun \subseteq overrun'
    BY ParamAssumption
       DEF ParamCall, LockParameter, SendRequest, SendFails, PollDone, ChangeAccepted,
       ChangeRefused, AckFails, Inform, SaveParameter, Uncouple, At
  <1>a. ParamTypeOK /\ LocksHeld
    BY DEF ParamInv
  <1>b. \A p \in Param : lock[p] = s <=> Holds(s, p)
    BY <1>a DEF LocksHeld
  <1> SUFFICES ASSUME NEW t \in Session, NEW n \in Node
               PROVE  /\ Follows(t)' \/ seen'[t][n] = Null
                      /\ rtAlive' /\ n[1] \notin overrun' => NoticeOk(t, n)'
    BY DEF NoticeInv
  <1>c. /\ Follows(t)' \/ seen'[t][n] = Null
        /\ Follows(t) \/ seen[t][n] = Null
        /\ rtAlive' /\ n[1] \notin overrun' => NoticeOk(t, n)
    BY <1>0 DEF NoticeInv, Follows, Connected
  <1>d. \A r \in Session \ {s} : call'[r] = call[r]
    BY <1>a DEF ParamCall, LockParameter, SendRequest, SendFails, PollDone, ChangeAccepted,
       ChangeRefused, AckFails, Inform, SaveParameter, Uncouple, Goto, CallFails, CallDone,
       ParamTypeOK
  <1>e. t # s /\ SettingNode(t, n) => SettingNode(t, n)'
    BY <1>d, SettingKept
  <1>f. n[1] \in Param /\ n[2] \in Part
    BY NodeParts
  \* Changes whose lock another thread holds
  <1>g. ASSUME InformingNode(n), lock[n[1]] # s, lock'[n[1]] = lock[n[1]],
               ackPipe' = ackPipe \/ sdoMutex = s
        PROVE  InformingNode(n)'
    <2>1. lock[n[1]] \in Session /\ (At(lock[n[1]], "ack") => sdoMutex = lock[n[1]])
      BY <1>f, <1>g, LockHolder DEF InformingNode, ToInform
    <2> QED  BY <2>1, <1>a, <1>d, <1>g, InformingKept
  <1>h. \A p \in Param : lock[p] # s /\ lock[p] # Null => lock'[p] = lock[p]
    <2>1. CASE IsSet(s) /\ Target(s) \in Param
      <3>1. \A p \in Param : p # Target(s) => lock'[p] = lock[p]
        BY <2>1, <1>a DEF ParamCall, LockParameter, SendRequest, SendFails, PollDone,
           ChangeAccepted, ChangeRefused, AckFails, Inform, SaveParameter, Uncouple,
           CallFails, CallDone, ParamTypeOK
      <3>2. lock[Target(s)] \notin {s, Null} => lock' = lock
        BY <2>1, <1>0, <1>b DEF ParamCall, LockParameter, SendRequest, SendFails, PollDone,
           ChangeAccepted, ChangeRefused, AckFails, Inform, SaveParameter, Uncouple, Holds, At
      <3> QED  BY <3>1, <3>2
    <2>2. CASE ~IsSet(s)
      <3>1. call[s].pc \in {"sdo", "ack"}
        BY <2>2, <1>0, <1>a DEF LocksHeld
      <3>2. \A p \in Param : lock'[p] = lock[p]
        BY <2>2, <3>1, <1>a DEF ParamCall, LockParameter, SendRequest, SendFails, PollDone,
           ChangeAccepted, ChangeRefused, AckFails, Inform, SaveParameter, Uncouple,
           CallFails, At, ParamTypeOK
      <3> QED  BY <3>2
    <2> QED  BY <2>1, <2>2, <1>0, <1>a, CommandType
  <1>1. CASE SendFails(s) \/ AckFails(s)
    BY <1>1, <1>0, <1>c DEF SendFails, AckFails
  <1>2. CASE LockParameter(s) \/ SendRequest(s)
    <2>1. /\ call'[s] # Null /\ call'[s].sdo = call[s].sdo /\ call'[s].pc \in {"sdo", "ack"}
      BY <1>0, <1>2, <1>a, TypeGoto, TypeSend DEF LockParameter
    <2>2. UNCHANGED <<changed, ackPipe>>
      BY <1>2 DEF LockParameter, SendRequest
    <2>3. SettingNode(t, n) => SettingNode(t, n)'
      BY <2>1, <1>e DEF SettingNode, IsSet, Target
    <2>4. call[s].pc \in {"lock", "sdo"}
      BY <1>2 DEF LockParameter, SendRequest, At
    <2>5. InformingNode(n) => lock[n[1]] # s /\ lock[n[1]] # Null
      BY <2>4 DEF InformingNode, ToInform, At
    <2>6. InformingNode(n) => InformingNode(n)'
      BY <2>2, <2>5, <1>f, <1>g, <1>h
    <2> QED  BY <1>0, <1>c, <2>2, <2>3, <2>6 DEF NoticeOk
  <1>3. CASE PollDone(s)
    <2>1. ~IsSet(s) /\ sdoMutex = s /\ UNCHANGED <<changed>>
      BY <1>3, <1>a DEF PollDone, LocksHeld
    <2>2. SettingNode(t, n) => SettingNode(t, n)'
      BY <2>1, <1>e DEF SettingNode
    <2>3. InformingNode(n) => lock[n[1]] # s /\ lock[n[1]] # Null
      BY <2>1, <1>b, <1>f DEF InformingNode, ToInform, Holds
    <2>4. InformingNode(n) => InformingNode(n)'
      BY <2>1, <2>3, <1>f, <1>g, <1>h
    <2> QED  BY <1>0, <1>c, <2>1, <2>2, <2>4 DEF NoticeOk
  <1>4. CASE ChangeAccepted(s)
    <2>1. /\ call'[s].pc = "inform" /\ call'[s].sdo = call[s].sdo /\ call'[s] # Null
          /\ UNCHANGED <<changed, lock>>
      BY <1>0, <1>4, <1>a, TypeGoto DEF ChangeAccepted
    <2>2. sdoMutex = s /\ IsSet(s) /\ call[s].pc = "ack"
      BY <1>4, <1>a DEF ChangeAccepted, LocksHeld, At
    <2>3. n \in Nodes(Target(s), call[s].sdo.parts) => InformingNode(n)'
      <3>1. SUFFICES ASSUME n[1] = Target(s), n[2] \in call[s].sdo.parts
                     PROVE  InformingNode(n)'
        BY NodeParts
      <3>2. lock[n[1]] = s
        BY <3>1, <2>2, <1>0, <1>b, <1>f DEF Holds
      <3> QED  BY <3>1, <3>2, <2>1, <1>0 DEF InformingNode, ToInform, At
    <2>4. SettingNode(t, n) => SettingNode(t, n)' \/ InformingNode(n)'
      BY <2>3, <1>e DEF SettingNode
    <2>5. InformingNode(n) => InformingNode(n)'
      <3>1. CASE lock[n[1]] = s
        BY <3>1, <2>1, <1>0 DEF InformingNode, ToInform, At
      <3>2. CASE lock[n[1]] # s
        BY <3>2, <2>1, <2>2, <1>g
      <3> QED  BY <3>1, <3>2
    <2> QED  BY <1>0, <1>c, <2>1, <2>4, <2>5 DEF NoticeOk
  <1>5. CASE ChangeRefused(s)
    <2>1. /\ sdoMutex = s /\ IsSet(s) /\ ~Taken /\ At(s, "ack")
          /\ changed' = Notified(s, Target(s), call[s].sdo.parts)
      BY <1>5, <1>a DEF ChangeRefused, CallFails, LocksHeld, Taken
    <2>2. n \in changed[t] => n \in changed'[t]
      BY <2>1, <1>a DEF Notified, ParamTypeOK
    <2>3. SettingNode(t, n) /\ Follows(t) => SettingNode(t, n)' \/ n \in changed'[t]
      <3>1. CASE t = s
        BY <3>1, <2>1, <1>a DEF SettingNode, Follows, Notified, ParamTypeOK
      <3> QED  BY <3>1, <1>e
    <2>4. InformingNode(n) => lock[n[1]] # s /\ lock[n[1]] # Null
      BY <2>1 DEF InformingNode, ToInform, At
    <2>5. InformingNode(n) => InformingNode(n)'
      BY <2>1, <2>4, <1>f, <1>g, <1>h
    <2> QED  BY <1>0, <1>c, <2>2, <2>3, <2>5 DEF NoticeOk
  <1>6. CASE Inform(s)
    <2>1. /\ call[s].pc = "inform" /\ UNCHANGED ackPipe
          /\ changed' = AllNotified(Target(s), call[s].sdo.parts)
      BY <1>6 DEF Inform, At
    <2>2. n \in changed[t] => n \in changed'[t]
      BY <2>1 DEF AllNotified
    <2>3. SettingNode(t, n) => SettingNode(t, n)'
      BY <2>1, <1>e DEF SettingNode
    <2>4. InformingNode(n) /\ Follows(t) => InformingNode(n)' \/ n \in changed'[t]
      <3>1. CASE lock[n[1]] = s
        <4>1. Target(s) = n[1]
          BY <3>1, <1>b, <1>f DEF Holds
        <4>2. InformingNode(n) => n \in Nodes(Target(s), call[s].sdo.parts)
          BY <3>1, <4>1, NodeParts DEF InformingNode
        <4> QED  BY <2>1, <4>2 DEF AllNotified, Follows
      <3>2. CASE lock[n[1]] # s
        BY <3>2, <2>1, <1>f, <1>g, <1>h DEF InformingNode, ToInform
      <3> QED  BY <3>1, <3>2
    <2> QED  BY <1>0, <1>c, <2>2, <2>3, <2>4 DEF NoticeOk
  <1>7. CASE SaveParameter(s) \/ Uncouple(s)
    <2>1. call[s].pc \in {"save", "uncouple"} /\ UNCHANGED <<ackPipe, changed>>
      BY <1>7 DEF SaveParameter, Uncouple, At
    <2>2. SettingNode(t, n) => SettingNode(t, n)'
      BY <2>1, <1>e DEF SettingNode
    <2>3. InformingNode(n) => lock[n[1]] # s /\ lock[n[1]] # Null
      BY <2>1 DEF InformingNode, ToInform, At
    <2>4. InformingNode(n) => InformingNode(n)'
      BY <2>1, <2>3, <1>f, <1>g, <1>h
    <2> QED  BY <1>0, <1>c, <2>1, <2>2, <2>4 DEF NoticeOk
  <1> QED  BY <1>1, <1>2, <1>3, <1>4, <1>5, <1>6, <1>7 DEF ParamCall

\* The application takes a value over: the holder of the lock is about to inform.
LEMMA NoticeSupervisor ==
  ASSUME ParamInv, NoticeInv, Supervisor
  PROVE  NoticeInv'
  <1> USE DEF rtVars, shmVars, lockVars, pipeVars, callVars, noteVars, clientVars, saveVars
  <1>a. ParamTypeOK /\ LocksHeld /\ OneRequest
    BY DEF ParamInv
  <1>1. PICK s \in Session : s = sdoMutex
    BY <1>a, PipesSupervisor
  <1>2. /\ At(s, "ack") /\ call[s] # Null /\ Head(reqPipe) = call[s].sdo
        /\ ackPipe = <<>> /\ ~Taken
    BY <1>a, <1>1, PipesSupervisor DEF Taken
  <1>3. UNCHANGED <<call, lock, rtAlive, changed, pu, seen, sess, overrun>>
    BY DEF Supervisor, ServePoll, ServeChange
  <1> SUFFICES ASSUME NEW t \in Session, NEW n \in Node
               PROVE  /\ Follows(t)' \/ seen'[t][n] = Null
                      /\ rtAlive' /\ n[1] \notin overrun' => NoticeOk(t, n)'
    BY DEF NoticeInv
  <1>4. /\ Follows(t)' \/ seen'[t][n] = Null
        /\ rtAlive' /\ n[1] \notin overrun' => NoticeOk(t, n)
    BY <1>3 DEF NoticeInv, Follows, Connected
  <1>5. /\ SettingNode(t, n) => SettingNode(t, n)'
        /\ InformingNode(n) => InformingNode(n)'
    BY <1>2, <1>3 DEF SettingNode, IsSet, Target, InformingNode, ToInform, At
  <1>6. n[1] \notin overrun =>
           app'[n[1]][n[2]] = app[n[1]][n[2]] \/ InformingNode(n)'
    <2>0. SUFFICES ASSUME n[1] \notin overrun
                   PROVE  app'[n[1]][n[2]] = app[n[1]][n[2]] \/ InformingNode(n)'
      OBVIOUS
    <2>1. CASE ServePoll
      BY <2>1 DEF ServePoll
    <2>2. ASSUME NEW accept \in BOOLEAN, ServeChange(accept)
          PROVE  app'[n[1]][n[2]] = app[n[1]][n[2]] \/ InformingNode(n)'
      <3>1. IsSet(s) /\ Target(s) \in Param
        BY <1>2, <1>a, <2>2, CommandType DEF ServeChange, IsSet
      <3>2. lock[Target(s)] = s /\ s # Null
        BY <1>2, <1>a, <3>1, ParamAssumption DEF LocksHeld, Holds, At
      <3>3. Head(reqPipe).parameter = Target(s) /\ Head(reqPipe).parts = call[s].sdo.parts
        BY <1>2 DEF Target
      <3>4. n[1] \in Param /\ n[2] \in Part
        BY NodeParts
      <3>5. CASE accept /\ n[1] = Target(s) /\ n[2] \in call[s].sdo.parts
        <4> DEFINE a == [type |-> "ParamChange", parameter |-> Target(s),
                         parts |-> call[s].sdo.parts, rv |-> ~accept,
                         time |-> version'[Target(s)]]
        <4>1. ackPipe' = Append(<<>>, a)
          BY <1>2, <2>2, <3>3 DEF ServeChange
        <4>2. ackPipe' # <<>> /\ Head(ackPipe') = a
          BY <4>1
        <4>3. Head(ackPipe').rv = ~accept
          BY <4>2
        <4>4. Taken'
          BY <3>5, <4>2, <4>3, Zenon DEF Taken
        <4> QED  BY <1>2, <1>3, <3>2, <3>5, <4>4 DEF InformingNode, ToInform, At
      <3>6. CASE ~(accept /\ n[1] = Target(s) /\ n[2] \in call[s].sdo.parts)
        <4>1. RunInto(s) \subseteq overrun
          BY <1>2 DEF ParamInv, OverrunKnown
        <4>2. /\ n[1] # Target(s) => app'[n[1]] = app[n[1]]
              /\ n[1] = Target(s) => n[2] \in call[s].sdo.parts \/
                                     app'[n[1]][n[2]] = app[n[1]][n[2]]
              /\ app'[n[1]][n[2]] = app[n[1]][n[2]] \/ accept
          BY <1>2, <1>a, <2>0, <2>2, <3>1, <3>4, <4>1, AppParts
        <4> QED  BY <3>6, <4>2
      <3> QED  BY <3>5, <3>6
    <2> QED  BY <2>1, <2>2 DEF Supervisor
  <1> QED  BY <1>3, <1>4, <1>5, <1>6 DEF NoticeOk

\* The saver and a restart bring no new value.
LEMMA NoticeRest ==
  ASSUME ParamInv, NoticeInv, Saver \/ RtEnd \/ Restart \/ UNCHANGED paramVars
  PROVE  NoticeInv'
  <1> USE DEF rtVars, shmVars, lockVars, pipeVars, callVars, noteVars, clientVars, saveVars
  <1>1. CASE Restart
    BY <1>1 DEF Restart, NoticeInv, NoticeOk
  <1>2. CASE RtEnd
    BY <1>2 DEF RtEnd, NoticeInv, Follows, Connected
  <1>3. CASE Saver \/ UNCHANGED paramVars
    <2>1. UNCHANGED <<call, lock, ackPipe, app, rtAlive, changed, pu, seen, sess, overrun>>
      BY <1>3 DEF Saver, SaveStart, SaveSkip, SaveFetch, SaveWrite, paramVars
    <2> QED  BY <2>1, NoticeQuiet DEF NoticeInv, Follows, Connected
  <1> QED  BY <1>1, <1>2, <1>3

\* A client that shows something else than the parameter's value has a notice coming,
\* or the change is still being made.
THEOREM StaleHasNoticeHolds == ParamSpec => []StaleHasNotice
  <1>1. ParamInv /\ NoticeInv /\ [ParamNext]_paramVars => NoticeInv'
    BY NoticeSession, NoticeCommand, NoticeCall, NoticeSupervisor, NoticeRest DEF ParamNext
  <1>2. ParamInv /\ NoticeInv => StaleHasNotice
    <2> SUFFICES ASSUME ParamInv, NoticeInv, NEW s \in Session, NEW n \in Node,
                        rtAlive, n[1] \notin overrun,
                        seen[s][n] # Null, seen[s][n] # shm[n[1]][n[2]]
                 PROVE  \/ n \in changed[s] \cup pu[s]
                        \/ BeingSet(n[1])
                        \/ At(s, "lock") /\ n \in Nodes(Target(s), call[s].sdo.parts)
      BY DEF StaleHasNotice
    <2>1. n[1] \in Param /\ (n \in Nodes(Target(s), call[s].sdo.parts) => Target(s) = n[1])
      BY NodeParts
    <2>2. shm[n[1]] = app[n[1]] \/ Asked(n[1])
      BY <2>1 DEF ParamInv, ValueAgreed
    <2>3. Asked(n[1]) \/ InformingNode(n) => BeingSet(n[1])
      BY DEF Asked, InformingNode, ToInform, BeingSet, At
    <2>4. SettingNode(s, n) =>
             \/ BeingSet(n[1])
             \/ At(s, "lock") /\ n \in Nodes(Target(s), call[s].sdo.parts)
      <3>1. SUFFICES ASSUME SettingNode(s, n), call[s].pc # "lock" PROVE BeingSet(n[1])
        BY DEF SettingNode, At
      <3>2. lock[n[1]] = s /\ s # Null
        BY <3>1, <2>1, ParamAssumption DEF SettingNode, ParamInv, LocksHeld, Holds
      <3> QED  BY <3>1, <3>2 DEF SettingNode, BeingSet
    <2> QED  BY <2>2, <2>3, <2>4 DEF NoticeInv, NoticeOk
  <1> QED  BY ParamInvHolds, NoticeInit, <1>1, <1>2, PTL DEF ParamSpec

-----------------------------------------------------------------------------
(* Persistent parameters                                                    *)

\* A parameter without a signal, at any point of a set command
LEMMA SavedKept ==
  ASSUME NEW p \in Persistent \ Paired, SavedOk(p), UNCHANGED <<app, version>>,
         db'[p] = db[p], rtAlive' => rtAlive, NotSaved(p) => NotSaved(p)'
  PROVE  SavedOk(p)'
  BY DEF SavedOk

\* A session that does not set a parameter leaves the database alone.
LEMMA SavedSession ==
  ASSUME ParamInv, SavedInv, NEW s \in Session,
         \/ Connect(s) \/ Disconnect(s) \/ CollectNotices(s)
         \/ \E polite, access \in BOOLEAN : RemoteHost(s, polite, access)
         \/ \E p \in Param : ReadParameter(s, p)
         \/ ParamCommand(s)
  PROVE  SavedInv'
  <1> USE DEF rtVars, shmVars, lockVars, pipeVars, callVars, noteVars, clientVars, saveVars
  <1>1. UNCHANGED <<app, version, db, rtAlive, lock, ackPipe, coupled, saver, overrun>>
    BY DEF Connect, Disconnect, CollectNotices, RemoteHost, ReadParameter, ParamCommand,
       WriteParameter, WriteInvalid, PollSignal
  <1>2. \A t \in Session : call[t] # Null => call'[t] = call[t]
    BY DEF Connect, Disconnect, CollectNotices, RemoteHost, ReadParameter, ParamCommand,
       WriteParameter, WriteInvalid, PollSignal, Idle, ParamInv, ParamTypeOK
  <1>3. \A p \in Param : NotSaved(p) => NotSaved(p)'
    BY <1>1, <1>2, LockHolder DEF NotSaved, ToInform, At, Taken
  <1> QED  BY <1>1, <1>3, SavedKept, ParamAssumption DEF SavedInv

\* The steps of a command: a value the application has taken over is not saved until
\* the step that saves it.
LEMMA SavedCall ==
  ASSUME ParamInv, SavedInv, NEW s \in Session, ParamCall(s)
  PROVE  SavedInv'
  <1> USE DEF rtVars, shmVars, lockVars, pipeVars, callVars, noteVars, clientVars, saveVars
  <1>0. /\ UNCHANGED <<app, version, rtAlive, saver>> /\ call[s] # Null /\ s # Null
        /\ overrun \subseteq overrun'
    BY ParamAssumption
       DEF ParamCall, LockParameter, SendRequest, SendFails, PollDone, ChangeAccepted,
       ChangeRefused, AckFails, Inform, SaveParameter, Uncouple, At
  <1>a. ParamTypeOK /\ LocksHeld /\ OneRequest /\ ValueAgreed
    BY DEF ParamInv
  <1>b. \A p \in Param : lock[p] = s <=> Holds(s, p)
    BY <1>a DEF LocksHeld
  <1>1. coupled' \subseteq Paired
    BY DEF SavedInv, ParamCall, LockParameter, SendRequest, SendFails, PollDone,
       ChangeAccepted, ChangeRefused, AckFails, Inform, SaveParameter, Uncouple
  <1> SUFFICES ASSUME NEW p \in Persistent \ (Paired \cup overrun) PROVE SavedOk(p)'
    BY <1>0, <1>1 DEF SavedInv
  <1>c. p \in Param /\ SavedOk(p)
    BY ParamAssumption DEF SavedInv
  <1>2. \A r \in Session \ {s} : call'[r] = call[r]
    BY <1>a DEF ParamCall, LockParameter, SendRequest, SendFails, PollDone, ChangeAccepted,
       ChangeRefused, AckFails, Inform, SaveParameter, Uncouple, Goto, CallFails, CallDone,
       ParamTypeOK
  <1>3. db'[p] = db[p] \/ SaveParameter(s)
    BY DEF ParamCall, LockParameter, SendRequest, SendFails, PollDone, ChangeAccepted,
       ChangeRefused, AckFails, Inform, SaveParameter, Uncouple
  \* Another thread holds the lock, or none.
  <1>4. CASE lock[p] # s
    <2>1. NotSaved(p) => NotSaved(p)'
      <3>1. SUFFICES ASSUME NotSaved(p) PROVE NotSaved(p)'
        OBVIOUS
      <3>2. lock[p] # Null
        BY <3>1 DEF NotSaved, ToInform
      <3>3. lock'[p] = lock[p]
        <4>1. p = Target(s) /\ IsSet(s) => call[s].pc = "lock"
          BY <1>0, <1>b, <1>c, <1>4 DEF Holds
        <4>2. ~IsSet(s) => call[s].pc \in {"sdo", "ack"}
          BY <1>0, <1>a DEF LocksHeld
        <4> QED  BY <3>2, <4>1, <4>2, <1>a, <1>c DEF ParamCall, LockParameter, SendRequest,
                    SendFails, PollDone, ChangeAccepted, ChangeRefused, AckFails, Inform,
                    SaveParameter, Uncouple, CallFails, CallDone, At, ParamTypeOK
      <3>4. call'[lock[p]] = call[lock[p]]
        BY <3>2, <1>2, <1>4, <1>c, LockHolder
      <3>5. At(lock[p], "ack") => ackPipe' = ackPipe
        <4>1. At(lock[p], "ack") => sdoMutex = lock[p]
          BY <3>2, <1>c, LockHolder
        <4>2. sdoMutex # s => ackPipe' = ackPipe
          BY <1>a DEF ParamCall, LockParameter, SendRequest, SendFails, PollDone,
             ChangeAccepted, ChangeRefused, AckFails, Inform, SaveParameter, Uncouple,
             LocksHeld
        <4> QED  BY <4>1, <4>2, <1>4
      <3> QED  BY <3>1, <3>3, <3>4, <3>5 DEF NotSaved, ToInform, At, Taken
    <2>2. db'[p] = db[p]
      <3>1. CASE SaveParameter(s)
        <4>1. Target(s) # p
          BY <3>1, <1>0, <1>a, <1>b, <1>c, <1>4 DEF SaveParameter, At, Holds, LocksHeld
        <4> QED  BY <3>1, <4>1, <1>a, <1>c DEF SaveParameter, ParamTypeOK
      <3> QED  BY <3>1, <1>3
    <2> QED  BY <1>0, <1>c, <2>1, <2>2, SavedKept
  \* The command is for this parameter.
  <1>5. CASE lock[p] = s
    <2>1. IsSet(s) /\ Target(s) = p /\ call[s].pc # "lock"
      BY <1>5, <1>b, <1>c DEF Holds
    <2>2. CASE SendRequest(s)
      <3>1. ~NotSaved(p)
        BY <2>2, <1>5 DEF SendRequest, NotSaved, ToInform, At
      <3> QED  BY <2>2, <3>1, <1>0, <1>3, <1>c, SavedKept DEF SendRequest
    <2>3. CASE SendFails(s) \/ AckFails(s)
      BY <2>3, <1>0 DEF SendFails, AckFails, SavedOk
    <2>4. CASE ChangeAccepted(s)
      <3>1. call'[s].pc = "inform" /\ call'[s] # Null /\ lock'[p] = s
        BY <2>4, <1>0, <1>a, <1>5, TypeGoto DEF ChangeAccepted
      <3>2. NotSaved(p)'
        BY <3>1, <1>0 DEF NotSaved, ToInform, At
      <3> QED  BY <3>2 DEF SavedOk
    <2>5. CASE ChangeRefused(s)
      <3>1. ~NotSaved(p)
        BY <2>5, <1>5 DEF ChangeRefused, NotSaved, ToInform, At, Taken
      <3> QED  BY <2>5, <3>1, <1>0, <1>3, <1>c, SavedKept DEF ChangeRefused
    <2>6. CASE Inform(s)
      <3>1. p \in Persistent
        OBVIOUS
      <3>2. call'[s].pc = "save" /\ call'[s] # Null /\ lock'[p] = s
        BY <2>1, <2>6, <3>1, <1>0, <1>a, <1>5, TypeGoto DEF Inform
      <3>3. NotSaved(p)'
        BY <3>2, <1>0 DEF NotSaved, At
      <3> QED  BY <3>3 DEF SavedOk
    <2>7. CASE SaveParameter(s)
      <3>1. rtAlive => shm[p] = app[p]
        BY <2>7, <1>5, <1>a, <1>c DEF SaveParameter, ValueAgreed, Asked, At
      <3>2. db'[p] = shm[p]
        BY <2>1, <2>7, <1>a, <1>c DEF SaveParameter, ParamTypeOK
      <3> QED  BY <3>1, <3>2, <1>0 DEF SavedOk
    <2>8. CASE Uncouple(s)
      <3>1. ~NotSaved(p)
        BY <2>8, <1>5 DEF Uncouple, NotSaved, ToInform, At
      <3> QED  BY <2>8, <3>1, <1>0, <1>3, <1>c, SavedKept DEF Uncouple
    <2> QED
      BY <2>1, <2>2, <2>3, <2>4, <2>5, <2>6, <2>7, <2>8
         DEF ParamCall, LockParameter, PollDone, At
  <1> QED  BY <1>4, <1>5

\* A value that the application takes over is about to be saved.
LEMMA SavedSupervisor ==
  ASSUME ParamInv, SavedInv, Supervisor
  PROVE  SavedInv'
  <1> USE DEF rtVars, shmVars, lockVars, pipeVars, callVars, noteVars, clientVars, saveVars
  <1>a. ParamTypeOK /\ LocksHeld /\ OneRequest
    BY DEF ParamInv
  <1>1. PICK s \in Session : s = sdoMutex
    BY <1>a, PipesSupervisor
  <1>2. /\ At(s, "ack") /\ call[s] # Null /\ Head(reqPipe) = call[s].sdo
        /\ ackPipe = <<>> /\ ~Taken
    BY <1>a, <1>1, PipesSupervisor DEF Taken
  <1>3. UNCHANGED <<call, lock, rtAlive, db, coupled, saver, overrun>>
    BY DEF Supervisor, ServePoll, ServeChange
  <1> SUFFICES ASSUME NEW p \in Persistent \ (Paired \cup overrun) PROVE SavedOk(p)'
    BY <1>3 DEF SavedInv
  <1>4. NotSaved(p) => NotSaved(p)'
    BY <1>2, <1>3 DEF NotSaved, ToInform, At
  <1>5. SavedOk(p) /\ p \in Param
    BY ParamAssumption DEF SavedInv
  <1>6. (app'[p] = app[p] /\ version'[p] = version[p]) \/ NotSaved(p)'
    <2>1. CASE ServePoll
      BY <2>1 DEF ServePoll
    <2>2. ASSUME NEW accept \in BOOLEAN, ServeChange(accept)
          PROVE  (app'[p] = app[p] /\ version'[p] = version[p]) \/ NotSaved(p)'
      <3>1. IsSet(s) /\ Target(s) \in Param
        BY <1>2, <1>a, <2>2, CommandType DEF ServeChange, IsSet
      <3>2. lock[Target(s)] = s /\ s # Null
        BY <1>2, <1>a, <3>1, ParamAssumption DEF LocksHeld, Holds, At
      <3>3. Head(reqPipe).parameter = Target(s)
        BY <1>2 DEF Target
      <3>5. CASE accept /\ p = Target(s)
        <4> DEFINE a == [type |-> "ParamChange", parameter |-> Target(s),
                         parts |-> Head(reqPipe).parts, rv |-> ~accept,
                         time |-> version'[Target(s)]]
        <4>1. ackPipe' = Append(<<>>, a)
          BY <1>2, <2>2, <3>3 DEF ServeChange
        <4>2. ackPipe' # <<>> /\ Head(ackPipe') = a
          BY <4>1
        <4>3. Head(ackPipe').rv = ~accept
          BY <4>2
        <4>4. Taken'
          BY <3>5, <4>2, <4>3, Zenon DEF Taken
        <4> QED  BY <1>2, <1>3, <3>2, <3>5, <4>4 DEF NotSaved, ToInform, At
      <3>6. CASE ~(accept /\ p = Target(s))
        <4>1. RunInto(s) \subseteq overrun
          BY <1>2 DEF ParamInv, OverrunKnown
        <4>2. version'[p] = version[p]
          BY <1>a, <1>5, <2>2, <3>1, <3>3, <3>6 DEF ServeChange, ParamTypeOK
        <4>3. p # Target(s) => app'[p] = app[p]
          BY <1>2, <1>a, <1>5, <2>2, <3>1, <4>1, AppParts
        <4>4. ~accept => app' = app
          BY <2>2 DEF ServeChange
        <4> QED  BY <3>6, <4>2, <4>3, <4>4
      <3> QED  BY <3>5, <3>6
    <2> QED  BY <2>1, <2>2 DEF Supervisor
  <1> QED  BY <1>3, <1>4, <1>5, <1>6 DEF SavedOk

\* savePersistent() writes signals of pairs only, and a start reads back what was saved.
LEMMA SavedRest ==
  ASSUME ParamInv, SavedInv, Saver \/ RtEnd \/ Restart \/ UNCHANGED paramVars
  PROVE  SavedInv'
  <1> USE DEF rtVars, shmVars, lockVars, pipeVars, callVars, noteVars, clientVars, saveVars
  <1>a. ParamTypeOK
    BY DEF ParamInv
  <1>1. CASE Saver
    <2>1. UNCHANGED <<app, version, rtAlive, lock, ackPipe, coupled, call, overrun>>
      BY <1>1 DEF Saver, SaveStart, SaveSkip, SaveFetch, SaveWrite
    <2>2. \A todo : Rest(todo) # Null => Rest(todo).param = Null
      BY DEF Rest
    <2>3. saver' # Null => saver'.param \in Paired \cup {Null}
      <3>1. CASE SaveStart
        BY <3>1 DEF SaveStart
      <3>2. CASE \E p \in Persistent : SaveSkip(p)
        BY <3>2, <2>2 DEF SaveSkip
      <3>3. ASSUME NEW p \in Persistent, NEW value \in Value, SaveFetch(p, value)
            PROVE  saver'.param \in Paired
        <4>1. saver \in SaveLoop
          BY <3>3, <1>a DEF SaveFetch, ParamTypeOK
        <4>2. saver'.param = p
          BY <3>3, <4>1 DEF SaveFetch, SaveLoop
        <4> QED  BY <3>3, <4>2 DEF SaveFetch, HasSignal, SavedInv
      <3>4. CASE SaveWrite
        BY <3>4, <2>2 DEF SaveWrite
      <3> QED  BY <1>1, <3>1, <3>2, <3>3, <3>4 DEF Saver
    <2>4. \A p \in Persistent \ Paired : db'[p] = db[p]
      <3>1. CASE SaveWrite
        BY <3>1, <1>a, ParamAssumption DEF SaveWrite, SavedInv, ParamTypeOK
      <3>2. CASE ~SaveWrite
        BY <3>2, <1>1 DEF Saver, SaveStart, SaveSkip, SaveFetch
      <3> QED  BY <3>1, <3>2
    <2>5. \A p \in Param : NotSaved(p) => NotSaved(p)'
      BY <2>1 DEF NotSaved, ToInform, At, Taken
    <2> QED  BY <2>1, <2>3, <2>4, <2>5, SavedKept, ParamAssumption DEF SavedInv
  <1>2. CASE RtEnd
    BY <1>2 DEF RtEnd, SavedInv, SavedOk
  <1>3. CASE Restart
    <2>1. \A p \in Persistent : db[p] # Null => Restored[p] = db[p]
      BY <1>a, RestoredValue DEF ParamTypeOK
    <2> QED  BY <1>3, <2>1, ParamAssumption DEF Restart, SavedInv, SavedOk
  <1>4. CASE UNCHANGED paramVars
    <2>1. UNCHANGED <<app, version, rtAlive, lock, ackPipe, coupled, call, db, saver, overrun>>
      BY <1>4 DEF paramVars
    <2>2. \A p \in Param : NotSaved(p) => NotSaved(p)'
      BY <2>1 DEF NotSaved, ToInform, At, Taken
    <2> QED  BY <2>1, <2>2, SavedKept, ParamAssumption DEF SavedInv
  <1> QED  BY <1>1, <1>2, <1>3, <1>4

\* A persistent parameter without a signal that was ever set is in the data base with
\* its present value unless it is just being set, whatever crashes and starts.
THEOREM PersistentSavedHolds == ParamSpec => []PersistentSaved
  <1>1. ParamInit => SavedInv
    <2> SUFFICES ASSUME ParamInit PROVE SavedInv
      OBVIOUS
    <2>1. \A p \in Persistent : db[p] # Null => Restored[p] = db[p]
      <3>1. db \in [Param -> Value \cup {Null}]
        BY DEF ParamInit
      <3> QED  BY <3>1, RestoredValue
    <2> QED  BY <2>1, ParamAssumption DEF ParamInit, SavedInv, SavedOk
  <1>2. ParamInv /\ SavedInv /\ [ParamNext]_paramVars => SavedInv'
    BY SavedSession, SavedCall, SavedSupervisor, SavedRest DEF ParamNext
  <1>3. SavedInv => PersistentSaved
    BY DEF SavedInv, SavedOk, NotSaved, ToInform, PersistentSaved
  <1> QED  BY ParamInvHolds, <1>1, <1>2, <1>3, PTL DEF ParamSpec
=============================================================================
