----------------------------- MODULE BuddyProofs -----------------------------
(***************************************************************************)
(* Proofs about the buddy: the album of photos of a kernel model, for      *)
(* every size of the album and number of sessions, and the daemon's table  *)
(* of servers, for every number of models and processes.                   *)
(***************************************************************************)
EXTENDS BuddyPhotos, BuddyDaemon, FiniteSetTheorems, TLAPS

(* Places in the album *)

\* Quotient and remainder by the size of the album.
LEMMA DivMod ==
  ASSUME NEW A \in Nat \ {0}, NEW x \in Int
  PROVE  \E q \in Int, r \in 0..A - 1 :
            x \div A = q /\ x % A = r /\ x = A * q + r
  <1>1. x % A = x - A * (x \div A)
    OBVIOUS
  <1>2. PICK q \in Int, r \in 0..A - 1 : x \div A = q /\ x % A = r
    OBVIOUS
  <1>3. r = x - A * q
    BY <1>1, <1>2
  <1>4. x = A * q + r
    BY <1>3
  <1> QED  BY <1>2, <1>4

\* They are unique.
LEMMA DivModUnique ==
  ASSUME NEW A \in Nat \ {0}, NEW q \in Int, NEW r \in 0..A - 1
  PROVE  (A * q + r) \div A = q /\ (A * q + r) % A = r
  OBVIOUS

\* A whole round of the album further.
LEMMA NextRound ==
  ASSUME NEW A \in Nat \ {0}, NEW q \in Int, NEW u \in Int
  PROVE  /\ u > q => A * u >= A * q + A
         /\ A * (q + 1) = A * q + A
         /\ A * q \in Int
  OBVIOUS

\* Two photos of the same slot less than a round apart are the same.
LEMMA SameSlot ==
  ASSUME NEW A \in Nat \ {0}, NEW q \in Int, NEW u \in Int,
         A * q < A * u + A, A * u < A * q + A
  PROVE  q = u
  OBVIOUS

\* What GET_WRITE_PTRS lets serve() read from photo rp on, when l were written.
EndFor(l, rp) ==
    IF l \div AlbumSize > rp \div AlbumSize THEN AlbumSize ELSE l % AlbumSize

\* It ends with the album or with what was written.
LEMMA EndOfRead ==
  ASSUME NEW rp \in Nat, NEW l \in rp + 1..rp + AlbumSize
  PROVE  \E q \in Int, r \in 0..AlbumSize - 1 :
            /\ rp \div AlbumSize = q /\ rp % AlbumSize = r
            /\ rp = AlbumSize * q + r
            /\ AlbumSize * q \in Int
            /\ EndFor(l, rp) \in r + 1..AlbumSize
            /\ AlbumSize * q + EndFor(l, rp) <= l
  <1> DEFINE A == AlbumSize
  <1>0. A \in Nat \ {0} /\ rp \in Int /\ l \in Int /\ l > rp
    BY BuddyAssumption
  <1> HIDE DEF A
  <1>1. PICK q \in Int, r \in 0..A - 1 : rp \div A = q /\ rp % A = r /\ rp = A * q + r
    BY <1>0, DivMod
  <1>2. PICK u \in Int, v \in 0..A - 1 : l \div A = u /\ l % A = v /\ l = A * u + v
    BY <1>0, DivMod
  <1>3. PICK m \in Int : m = A * q
    BY <1>0, NextRound
  <1>4. PICK n \in Int : n = A * u
    BY <1>0, NextRound
  <1>5. rp = m + r /\ l = n + v
    BY <1>1, <1>2, <1>3, <1>4
  <1>6. CASE u > q
    <2>1. EndFor(l, rp) = A
      BY <1>1, <1>2, <1>6 DEF EndFor, A
    <2>2. n >= m + A
      BY <1>0, <1>3, <1>4, <1>6, NextRound
    <2>3. m + A <= l /\ A \in r + 1..A
      BY <1>0, <1>5, <2>2
    <2>4. rp = A * q + r /\ A * q \in Int /\ A * q + A <= l
      BY <1>1, <1>3, <2>3, Zenon
    <2> QED  BY <1>1, <2>1, <2>3, <2>4, Zenon DEF A
  <1>7. CASE ~(u > q)
    <2>1. EndFor(l, rp) = v
      BY <1>1, <1>2, <1>7 DEF EndFor, A
    <2>2. u = q
      <3>1. CASE u < q
        <4>1. m >= n + A
          BY <1>0, <1>3, <1>4, <3>1, NextRound
        <4> QED  BY <1>0, <1>5, <4>1
      <3> QED  BY <1>7, <3>1
    <2>3. m + v <= l /\ v \in r + 1..A
      BY <1>0, <1>3, <1>4, <1>5, <2>2
    <2>4. rp = A * q + r /\ A * q \in Int /\ A * q + v <= l
      BY <1>1, <1>3, <2>3, Zenon
    <2> QED  BY <1>1, <2>1, <2>3, <2>4, Zenon DEF A
  <1> QED  BY <1>6, <1>7

\* serve() is past the last photo, or the photo at its place is the next one.
LEMMA PhotoAtPlace ==
  ASSUME NEW q \in Int, NEW i \in 0..AlbumSize - 1, limit \in Nat,
         AlbumSize * q \in Int,
         AlbumSize * q + i + 1 \in limit - AlbumSize + 1..limit
  PROVE  PhotoIn(i) = AlbumSize * q + i + 1
  <1> DEFINE A  == AlbumSize
             j0 == A * q + i + 1
             S  == limit - A + 1..limit
  <1>0. A \in Nat \ {0} /\ j0 \in S /\ j0 \in Int /\ A * q \in Int
    BY BuddyAssumption
  <1>1. (j0 - 1) % A = i
    <2>1. j0 - 1 = A * q + i
      BY <1>0
    <2>2. (A * q + i) % A = i
      <3> HIDE DEF A
      <3> QED  BY <1>0, DivModUnique DEF A
    <2> QED  BY <2>1, <2>2, Zenon
  <1>2. ASSUME NEW j \in S, (j - 1) % A = i PROVE j = j0
    <2>1. PICK u \in Int, v \in 0..A - 1 :
              (j - 1) \div A = u /\ (j - 1) % A = v /\ j - 1 = A * u + v
      <3>1. j - 1 \in Int
        BY <1>0
      <3> HIDE DEF A
      <3> QED  BY <1>0, <3>1, DivMod
    <2>2. PICK m \in Int : m = A * q
      BY <1>0
    <2>3. PICK n \in Int : n = A * u
      BY <1>0, NextRound
    <2>4. j - 1 = n + i
      BY <1>2, <2>1, <2>3
    <2>5. /\ m + i + 1 >= limit - A + 1 /\ m + i + 1 <= limit
          /\ j >= limit - A + 1 /\ j <= limit /\ j \in Int
      BY <1>0, <2>2
    <2>6. n < m + A /\ m < n + A
      BY <1>0, <2>4, <2>5
    <2>7. u = q
      <3> HIDE DEF A
      <3> QED  BY <1>0, <2>2, <2>3, <2>6, SameSlot
    <2>8. n = m
      BY <2>2, <2>3, <2>7
    <2>9. j = m + i + 1
      BY <2>4, <2>5, <2>8
    <2> QED  BY <2>2, <2>9, Zenon
  <1>3. PhotoIn(i) = CHOOSE j \in S : (j - 1) % A = i
    BY Zenon DEF PhotoIn
  <1> HIDE DEF S, j0
  <1>4. (CHOOSE j \in S : (j - 1) % A = i) = j0
    BY <1>0, <1>1, <1>2, Zenon
  <1> QED  BY <1>3, <1>4, Zenon DEF j0, A

-----------------------------------------------------------------------------
(* The parts of the invariant *)

\* What concerns the parameter.
ParamOK ==
    /\ valueBuf \in ParamVal /\ kernelValue \in ParamVal /\ unsent \in BOOLEAN
    /\ BufferAgrees

\* Types of what concerns the album.
AlbumTypeOK ==
    /\ taken \in 0..MaxPhotos /\ readPos \in 0..taken
    /\ ready \in [Slot -> 0..MaxPhotos] /\ mark \in [Slot -> 0..taken]
    /\ skipped \subseteq 1..taken
    /\ photoCount \in 0..MaxPhotos /\ photoPtr \in 0..AlbumSize /\ limit \in 0..taken
    /\ at \in {"setup", "select", "mark", "stopped"}
    /\ current \in [Viewer -> -1..AlbumSize - 1] /\ label \in [Viewer -> 0..taken]

\* What concerns the album.
AlbumOK ==
    /\ AlbumTypeOK /\ MarksFollowPhotos
    /\ ServeInStep /\ MarksGiven /\ NextIsNext /\ LabelBefore

\* What is in the slots and what sessions find there.
SlotsOK ==
    /\ album \in [Slot -> 0..taken] /\ shown \in [Viewer -> 0..taken]
    /\ NewestInSlot

\* The three are the invariant.
LEMMA AlbumAndParam == PhotoInv <=> AlbumOK /\ SlotsOK /\ ParamOK
  <1>1. {valueBuf, kernelValue} \subseteq ParamVal
            <=> valueBuf \in ParamVal /\ kernelValue \in ParamVal
    OBVIOUS
  <1> QED  BY <1>1, Zenon DEF PhotoInv, PhotoTypeOK, AlbumOK, AlbumTypeOK, SlotsOK, ParamOK

\* A change of the parameter is made on both sides or on neither; only the stored
\* value of setupPersistent() may stay in the buffer alone.
LEMMA ParamStep ==
  ASSUME ParamOK, [PhotoNext]_photoVars
  PROVE  ParamOK'
  <1>1. CASE UNCHANGED paramVars
    BY <1>1 DEF paramVars, ParamOK, BufferAgrees
  <1>2. ASSUME NEW v \in ParamVal, Change(valueBuf, v)
        PROVE  ParamOK'
    BY <1>2 DEF Change, ParamOK, BufferAgrees
  <1>3. CASE SetValue
    BY <1>2, <1>3 DEF SetValue
  <1>4. CASE InitializeParameter
    <2>1. \/ UNCHANGED paramVars
          \/ \E v \in ParamVal : Change(valueBuf, v)
          \/ \E v \in ParamVal :
                 valueBuf' = v /\ unsent' = TRUE /\ UNCHANGED kernelValue
      BY <1>4 DEF InitializeParameter
    <2>2. ASSUME NEW v \in ParamVal,
                 valueBuf' = v /\ unsent' = TRUE /\ UNCHANGED kernelValue
          PROVE  ParamOK'
      BY <2>2 DEF ParamOK, BufferAgrees
    <2> QED  BY <1>1, <1>2, <2>1, <2>2
  <1>5. CASE ~(SetValue \/ InitializeParameter)
    <2>1. UNCHANGED paramVars
      BY <1>5 DEF PhotoNext, KernelWrite, ServeReset, ServeBegin, ServeMark, ServeEnd,
         ServeStop, SessionStart, PhotoRx, SessionEnd, photoVars, paramVars
    <2> QED  BY <1>1, <2>1
  <1> QED  BY <1>3, <1>4, <1>5

-----------------------------------------------------------------------------
(* The album *)

\* Steps that change no mark and leave serve() where it is.
LEMMA AlbumKept ==
  ASSUME AlbumOK, AlbumTypeOK', UNCHANGED <<readPos, markVars>>, LabelBefore'
  PROVE  AlbumOK'
  <1>1. UNCHANGED <<readPos, ready, mark, skipped, photoCount, photoPtr, limit, at>>
    BY DEF markVars
  <1>2. Position' = Position /\ writeEnd' = writeEnd
    BY <1>1 DEF Position, writeEnd
  <1>3. MarksFollowPhotos' /\ NextIsNext'
    BY <1>1 DEF AlbumOK, MarksFollowPhotos, NextIsNext
  <1>4. ServeInStep' /\ MarksGiven'
    BY <1>1, <1>2 DEF AlbumOK, ServeInStep, MarksGiven
  <1> QED  BY <1>3, <1>4 DEF AlbumOK

\* The kernel writes a photo.
LEMMA AlbumKernel == ASSUME AlbumOK, KernelWrite PROVE AlbumOK'
  <1>1. /\ taken' = taken + 1 /\ taken < MaxPhotos
        /\ UNCHANGED <<readPos, ready, mark, skipped, photoCount, photoPtr, limit, at,
                       current, label>>
    BY DEF KernelWrite, markVars, viewerVars
  <1>2. AlbumTypeOK'
    BY <1>1, BuddyAssumption DEF AlbumOK, AlbumTypeOK
  <1>3. LabelBefore'
    BY <1>1 DEF AlbumOK, LabelBefore
  <1> QED  BY <1>1, <1>2, <1>3, AlbumKept DEF markVars

\* A session begins, goes on to the next photo or ends.
LEMMA AlbumSession ==
  ASSUME AlbumOK, NEW s \in Viewer, SessionStart(s) \/ PhotoRx(s) \/ SessionEnd(s)
  PROVE  AlbumOK'
  <1>1. UNCHANGED <<taken, readPos, ready, mark, skipped, photoCount, photoPtr, limit, at>>
    BY DEF SessionStart, PhotoRx, SessionEnd, kernelVars, markVars
  <1>2. /\ mark \in [Slot -> 0..taken] /\ taken \in Nat
        /\ current \in [Viewer -> -1..AlbumSize - 1]
        /\ label \in [Viewer -> 0..taken]
        /\ AlbumSize \in Nat \ {0}
    BY BuddyAssumption DEF AlbumOK, AlbumTypeOK
  <1>3. PICK i \in -1..AlbumSize - 1, v \in 0..taken :
            /\ current' = [current EXCEPT ![s] = i]
            /\ label' = [label EXCEPT ![s] = v]
            /\ i # -1 => v = mark[i]
    <2>1. ASSUME NEW i \in Slot, current' = [current EXCEPT ![s] = i],
                 label' = [label EXCEPT ![s] = mark[i]]
          PROVE  \E j \in -1..AlbumSize - 1, v \in 0..taken :
                     /\ current' = [current EXCEPT ![s] = j]
                     /\ label' = [label EXCEPT ![s] = v]
                     /\ j # -1 => v = mark[j]
      <3>1. i \in -1..AlbumSize - 1 /\ mark[i] \in 0..taken
        BY <1>2 DEF Slot
      <3> QED  BY <2>1, <3>1, Zenon
    <2>2. CASE SessionStart(s)
      <3>1. 0 \in Slot
        BY <1>2 DEF Slot
      <3> QED  BY <2>1, <2>2, <3>1, Zenon DEF SessionStart, TurnTo
    <2>3. CASE PhotoRx(s)
      <3>1. (current[s] + 1) % AlbumSize \in Slot
        <4>1. current[s] + 1 \in Int /\ AlbumSize \in Nat \ {0}
          BY <1>2
        <4> QED  BY <4>1, DivMod DEF Slot
      <3> QED  BY <2>1, <2>3, <3>1, Zenon DEF PhotoRx, TurnTo
    <2>4. CASE SessionEnd(s)
      <3>1. -1 \in -1..AlbumSize - 1 /\ 0 \in 0..taken
        BY <1>2
      <3> QED  BY <2>4, <3>1 DEF SessionEnd
    <2> QED  BY <2>2, <2>3, <2>4
  <1>4. AlbumTypeOK'
    <2>1. /\ current' \in [Viewer -> -1..AlbumSize - 1]
          /\ label' \in [Viewer -> 0..taken]
      BY <1>2, <1>3
    <2> QED  BY <1>1, <2>1 DEF AlbumOK, AlbumTypeOK
  <1>5. LabelBefore'
    <2> SUFFICES ASSUME NEW t \in Viewer, current'[t] # -1
                 PROVE  label'[t] <= mark[current'[t]]
      BY <1>1 DEF LabelBefore
    <2>1. CASE t = s
      <3>1. current'[t] = i /\ label'[t] = mark[i]
        BY <1>2, <1>3, <2>1
      <3> QED  BY <1>3, <3>1
    <2>2. CASE t # s
      <3>1. current'[t] = current[t] /\ label'[t] = label[t]
        BY <1>2, <1>3, <2>2
      <3> QED  BY <3>1 DEF AlbumOK, LabelBefore
    <2> QED  BY <2>1, <2>2
  <1> QED  BY <1>1, <1>4, <1>5, AlbumKept DEF markVars

\* serve() moves on without marking a photo: to where it was, or past photos that
\* are skipped, or before the first.
LEMMA AlbumMoves ==
  ASSUME AlbumOK, AlbumTypeOK', ServeInStep', LabelBefore',
         UNCHANGED <<ready, mark, photoCount>>, skipped \subseteq skipped',
         Position \in Int, Position' \in Int, Position' >= Position,
         Position' = Position \/ Position + 1 \in skipped' \/ Position = 0
  PROVE  AlbumOK'
  <1>1. MarksFollowPhotos' /\ NextIsNext'
    BY DEF AlbumOK, MarksFollowPhotos, NextIsNext
  <1>2. MarksGiven'
    <2>1. photoCount' <= Position'
      BY DEF AlbumOK, AlbumTypeOK, MarksGiven
    <2>2. ASSUME NEW i \in Slot
          PROVE  /\ ready[i] <= photoCount /\ mark[i] <= Position'
                 /\ mark[i] = 0 => ready[i] = 0
                 /\ mark[i] # 0 => ready[i] < photoCount
                 /\ mark[i] # 0 /\ ready[i] = photoCount - 1 =>
                       mark[i] = Position' \/ mark[i] + 1 \in skipped'
      <3>1. /\ ready[i] <= photoCount /\ mark[i] <= Position
            /\ mark[i] = 0 => ready[i] = 0
            /\ mark[i] # 0 => ready[i] < photoCount
            /\ mark[i] # 0 /\ ready[i] = photoCount - 1 =>
                  mark[i] = Position \/ mark[i] + 1 \in skipped
            /\ mark[i] \in Nat
        BY DEF AlbumOK, AlbumTypeOK, MarksGiven
      <3> QED  BY <3>1
    <2> QED  BY <2>1, <2>2 DEF MarksGiven
  <1> QED  BY <1>1, <1>2 DEF AlbumOK

\* Where serve() is while it marks photos.
LEMMA WhileMarking ==
  ASSUME AlbumOK, at = "mark"
  PROVE  \E q \in Int, r \in 0..AlbumSize - 1 :
            /\ readPos \div AlbumSize = q /\ readPos % AlbumSize = r
            /\ readPos = AlbumSize * q + r
            /\ AlbumSize * q \in Int
            /\ Position = AlbumSize * q + photoPtr
            /\ writeEnd \in r + 1..AlbumSize
            /\ AlbumSize * q + writeEnd <= limit
            /\ photoPtr \in r..writeEnd
            /\ limit <= readPos + AlbumSize
  <1>1. /\ readPos \in Nat /\ limit \in readPos + 1..readPos + AlbumSize
        /\ photoPtr \in readPos % AlbumSize..writeEnd
    BY DEF AlbumOK, AlbumTypeOK, ServeInStep
  <1>2. writeEnd = EndFor(limit, readPos)
    BY DEF writeEnd, EndFor
  <1>3. PICK q \in Int, r \in 0..AlbumSize - 1 :
            /\ readPos \div AlbumSize = q /\ readPos % AlbumSize = r
            /\ readPos = AlbumSize * q + r
            /\ AlbumSize * q \in Int
            /\ writeEnd \in r + 1..AlbumSize
            /\ AlbumSize * q + writeEnd <= limit
    BY <1>1, <1>2, EndOfRead
  <1>4. Position = AlbumSize * q + photoPtr
    BY <1>3, Zenon DEF Position
  <1>5. photoPtr \in r..writeEnd
    BY <1>1, <1>3, Zenon
  <1>6. limit <= readPos + AlbumSize
    BY <1>1, BuddyAssumption
  <1> QED  BY <1>3, <1>4, <1>5, <1>6, Zenon

\* The number of photos serve() is done with.
LEMMA PositionBound ==
  ASSUME AlbumOK
  PROVE  Position \in Nat /\ Position <= taken
  <1>1. CASE at = "mark"
    <2>1. PICK q \in Int, r \in 0..AlbumSize - 1 :
            /\ readPos = AlbumSize * q + r
            /\ AlbumSize * q \in Int
            /\ Position = AlbumSize * q + photoPtr
            /\ writeEnd \in r + 1..AlbumSize
            /\ AlbumSize * q + writeEnd <= limit
            /\ photoPtr \in r..writeEnd
      BY <1>1, WhileMarking
    <2>2. PICK m \in Int : m = AlbumSize * q
      BY <2>1
    <2>3. /\ readPos = m + r /\ Position = m + photoPtr /\ m + writeEnd <= limit
          /\ photoPtr \in r..writeEnd /\ writeEnd \in r + 1..AlbumSize
      BY <2>1, <2>2, Zenon
    <2>4. readPos \in Nat /\ limit \in 0..taken /\ taken \in Nat
      BY DEF AlbumOK, AlbumTypeOK
    <2> QED  BY <2>3, <2>4, BuddyAssumption
  <1>2. CASE at # "mark"
    BY <1>2 DEF Position, AlbumOK, AlbumTypeOK
  <1> QED  BY <1>1, <1>2

\* postfork_nrt_setup() sets the read position.
LEMMA AlbumSetup == ASSUME AlbumOK, InitializeParameter PROVE AlbumOK'
  <1>1. /\ at = "setup" /\ at' = "select"
        /\ readPos' = taken /\ photoPtr' = taken % AlbumSize
        /\ UNCHANGED <<taken, ready, mark, skipped, photoCount, limit, current, label>>
    BY DEF InitializeParameter, viewerVars
  <1>2. taken % AlbumSize \in 0..AlbumSize - 1 /\ AlbumSize \in Nat
    <2>1. taken \in Int /\ AlbumSize \in Nat \ {0}
      BY BuddyAssumption DEF AlbumOK, AlbumTypeOK
    <2> QED  BY <2>1, DivMod
  <1>3. AlbumTypeOK'
    BY <1>1, <1>2 DEF AlbumOK, AlbumTypeOK
  <1>4. Position = 0 /\ Position' = taken
    BY <1>1 DEF AlbumOK, ServeInStep, Position
  <1>5. ServeInStep' /\ LabelBefore'
    BY <1>1 DEF ServeInStep, AlbumOK, LabelBefore
  <1> QED  BY <1>1, <1>3, <1>4, <1>5, AlbumMoves DEF AlbumOK, AlbumTypeOK

\* serve() starts again where the kernel writes.
LEMMA AlbumReset == ASSUME AlbumOK, ServeReset PROVE AlbumOK'
  <1>1. /\ at = "select" /\ at' = at
        /\ readPos' = taken /\ photoPtr' = taken % AlbumSize
        /\ skipped' = skipped \cup readPos + 1..taken
        /\ UNCHANGED <<taken, ready, mark, photoCount, limit, current, label>>
    BY DEF ServeReset, viewerVars
  <1>2. taken % AlbumSize \in 0..AlbumSize - 1 /\ AlbumSize \in Nat
    <2>1. taken \in Int /\ AlbumSize \in Nat \ {0}
      BY BuddyAssumption DEF AlbumOK, AlbumTypeOK
    <2> QED  BY <2>1, DivMod
  <1>3. AlbumTypeOK'
    BY <1>1, <1>2 DEF AlbumOK, AlbumTypeOK
  <1>4. Position = readPos /\ Position' = taken
    BY <1>1 DEF Position
  <1>5. readPos + 1 \in skipped' /\ readPos \in Nat /\ taken \in Nat /\ readPos <= taken
    BY <1>1, BuddyAssumption DEF ServeReset, Overrun, AlbumOK, AlbumTypeOK
  <1>6. ServeInStep' /\ LabelBefore'
    BY <1>1 DEF ServeInStep, AlbumOK, LabelBefore
  <1> QED  BY <1>1, <1>3, <1>4, <1>5, <1>6, AlbumMoves

\* serve() obtains what it may read.
LEMMA AlbumBegin == ASSUME AlbumOK, ServeBegin PROVE AlbumOK'
  <1>1. /\ at = "select" /\ at' = "mark"
        /\ limit' = taken /\ taken # readPos /\ ~(taken - readPos > AlbumSize)
        /\ UNCHANGED <<taken, readPos, ready, mark, skipped, photoCount, photoPtr,
                       current, label>>
    BY DEF ServeBegin, kernelVars, viewerVars, Overrun
  <1>2. AlbumTypeOK'
    BY <1>1 DEF AlbumOK, AlbumTypeOK
  <1>3. /\ readPos \in Nat /\ taken \in readPos + 1..readPos + AlbumSize
        /\ photoPtr = readPos % AlbumSize
    BY <1>1, BuddyAssumption DEF AlbumOK, AlbumTypeOK, ServeInStep
  <1>4. PICK q \in Int, r \in 0..AlbumSize - 1 :
            /\ readPos \div AlbumSize = q /\ readPos % AlbumSize = r
            /\ readPos = AlbumSize * q + r
            /\ EndFor(taken, readPos) \in r + 1..AlbumSize
    BY <1>3, EndOfRead
  <1>5. writeEnd' = EndFor(taken, readPos)
    BY <1>1 DEF writeEnd, EndFor
  <1>6. ServeInStep'
    <2>1. readPos % AlbumSize \in readPos % AlbumSize..writeEnd'
      BY <1>4, <1>5
    <2> QED  BY <1>1, <1>3, <2>1 DEF ServeInStep
  <1>7. Position = readPos /\ Position' = AlbumSize * q + r
    BY <1>1, <1>3, <1>4, Zenon DEF Position
  <1>8. Position' = Position /\ Position \in Int
    BY <1>3, <1>4, <1>7
  <1>9. LabelBefore'
    BY <1>1 DEF AlbumOK, LabelBefore
  <1> QED  BY <1>1, <1>2, <1>6, <1>8, <1>9, AlbumMoves

\* serve() reports what it has read.
LEMMA AlbumEnd == ASSUME AlbumOK, ServeEnd PROVE AlbumOK'
  <1>1. /\ at = "mark" /\ at' = "select" /\ photoPtr >= writeEnd
        /\ readPos' = AlbumSize * (readPos \div AlbumSize) + writeEnd
        /\ photoPtr' = writeEnd % AlbumSize
        /\ UNCHANGED <<taken, ready, mark, skipped, photoCount, limit, current, label>>
    BY DEF ServeEnd, viewerVars
  <1>2. PICK q \in Int, r \in 0..AlbumSize - 1 :
            /\ readPos \div AlbumSize = q
            /\ readPos = AlbumSize * q + r
            /\ AlbumSize * q \in Int
            /\ Position = AlbumSize * q + photoPtr
            /\ writeEnd \in r + 1..AlbumSize
            /\ AlbumSize * q + writeEnd <= limit
            /\ photoPtr \in r..writeEnd
    BY <1>1, WhileMarking
  <1>3. photoPtr = writeEnd /\ AlbumSize \in Nat \ {0} /\ writeEnd \in 1..AlbumSize
    BY <1>1, <1>2, BuddyAssumption
  <1>4. readPos' = AlbumSize * q + writeEnd
    BY <1>1, <1>2, Zenon
  <1>5. Position' = Position
    BY <1>1, <1>2, <1>3, <1>4, Zenon DEF Position
  <1>6. photoPtr' = readPos' % AlbumSize /\ photoPtr' \in 0..AlbumSize
    <2>1. CASE writeEnd = AlbumSize
      <3>1. AlbumSize % AlbumSize = 0
        <4>1. AlbumSize = AlbumSize * 1 + 0 /\ 1 \in Int /\ 0 \in 0..AlbumSize - 1
          BY <1>3
        <4> QED  BY <1>3, <4>1, DivModUnique
      <3>2. (AlbumSize * (q + 1) + 0) % AlbumSize = 0
        BY <1>3, DivModUnique
      <3>3. AlbumSize * (q + 1) + 0 = AlbumSize * q + AlbumSize
        BY <1>3, NextRound
      <3> QED  BY <1>1, <1>3, <1>4, <2>1, <3>1, <3>2, <3>3
    <2>2. CASE writeEnd # AlbumSize
      <3>1. writeEnd \in 0..AlbumSize - 1
        BY <1>3, <2>2
      <3>2. (AlbumSize * q + writeEnd) % AlbumSize = writeEnd
        BY <1>3, <3>1, DivModUnique
      <3>3. writeEnd % AlbumSize = writeEnd
        <4>1. writeEnd = AlbumSize * 0 + writeEnd
          BY <1>3, <3>1
        <4> QED  BY <1>3, <3>1, <4>1, DivModUnique
      <3> QED  BY <1>1, <1>3, <1>4, <3>2, <3>3
    <2> QED  BY <2>1, <2>2
  <1>7. readPos' \in 0..taken
    <2>1. readPos' = Position
      BY <1>2, <1>3, <1>4, Zenon
    <2>2. taken \in Nat
      BY DEF AlbumOK, AlbumTypeOK
    <2> QED  BY <2>1, <2>2, PositionBound
  <1>8. AlbumTypeOK'
    BY <1>1, <1>6, <1>7 DEF AlbumOK, AlbumTypeOK
  <1>9. ServeInStep' /\ LabelBefore'
    BY <1>1, <1>6 DEF ServeInStep, AlbumOK, LabelBefore
  <1> QED  BY <1>1, <1>5, <1>8, <1>9, PositionBound, AlbumMoves

\* serve() stops and so do its sessions.
LEMMA AlbumStop == ASSUME AlbumOK, ServeStop PROVE AlbumOK'
  <1>1. /\ at = "select" /\ at' = "stopped"
        /\ current' = [s \in Viewer |-> -1] /\ label' = [s \in Viewer |-> 0]
        /\ UNCHANGED <<taken, readPos, ready, mark, skipped, photoCount, photoPtr, limit>>
    BY DEF ServeStop, kernelVars
  <1>2. AlbumTypeOK'
    BY <1>1, BuddyAssumption DEF AlbumOK, AlbumTypeOK
  <1>3. Position' = Position
    BY <1>1 DEF Position
  <1>4. ServeInStep' /\ LabelBefore'
    BY <1>1 DEF ServeInStep, AlbumOK, LabelBefore
  <1> QED  BY <1>1, <1>2, <1>3, <1>4, PositionBound, AlbumMoves

\* serve() marks the next photo.
LEMMA AlbumMark == ASSUME AlbumOK, ServeMark PROVE AlbumOK'
  <1> DEFINE p == photoPtr
             c == photoCount
  <1>1. /\ at = "mark" /\ p < writeEnd
        /\ ready' = [ready EXCEPT ![p] = c]
        /\ mark' = [mark EXCEPT ![p] = PhotoIn(p)]
        /\ photoCount' = c + 1 /\ photoPtr' = p + 1
        /\ UNCHANGED <<taken, readPos, skipped, limit, at, current, label>>
    BY DEF ServeMark, kernelVars, viewerVars
  <1>2. PICK q \in Int, r \in 0..AlbumSize - 1 :
            /\ readPos \div AlbumSize = q /\ readPos % AlbumSize = r
            /\ readPos = AlbumSize * q + r
            /\ AlbumSize * q \in Int
            /\ Position = AlbumSize * q + p
            /\ writeEnd \in r + 1..AlbumSize
            /\ AlbumSize * q + writeEnd <= limit
            /\ p \in r..writeEnd
            /\ limit <= readPos + AlbumSize
    BY <1>1, WhileMarking
  <1>3. PICK m \in Int : m = AlbumSize * q
    BY <1>2
  <1>4. /\ readPos = m + r /\ Position = m + p /\ m + writeEnd <= limit
        /\ p \in r..writeEnd /\ writeEnd \in r + 1..AlbumSize
        /\ limit <= readPos + AlbumSize
    BY <1>2, <1>3, Zenon
  <1>5. /\ taken \in 0..MaxPhotos /\ taken \in Nat /\ limit \in 0..taken
        /\ MaxPhotos \in Nat
        /\ AlbumSize \in Nat \ {0}
        /\ ready \in [Slot -> 0..MaxPhotos] /\ mark \in [Slot -> 0..taken]
        /\ c \in Nat
    BY BuddyAssumption DEF AlbumOK, AlbumTypeOK
  <1>6. /\ p \in Slot /\ p \in Nat /\ p + 1 \in 0..AlbumSize
        /\ m + p + 1 \in limit - AlbumSize + 1..limit
    BY <1>1, <1>4, <1>5 DEF Slot
  <1> DEFINE new == Position + 1
  <1>7. PhotoIn(p) = new
    <2>1. PhotoIn(p) = AlbumSize * q + p + 1
      <3>1. limit \in Nat /\ p \in 0..AlbumSize - 1
        BY <1>5, <1>6 DEF Slot
      <3>2. AlbumSize * q + p + 1 \in limit - AlbumSize + 1..limit
        BY <1>3, <1>6, Zenon
      <3> HIDE DEF p
      <3> QED  BY <1>2, <3>1, <3>2, PhotoAtPlace
    <2> QED  BY <1>2, <2>1, Zenon
  <1>8. new \in 1..taken /\ Position \in Nat /\ c <= Position
    <2>1. Position \in Nat /\ c <= Position
      BY PositionBound DEF AlbumOK, MarksGiven
    <2>2. new = m + p + 1
      BY <1>4
    <2> HIDE DEF new
    <2>3. new <= limit
      BY <1>5, <1>6, <2>2
    <2> QED  BY <1>5, <2>1, <2>3 DEF new
  <1>9. Position' = new
    <2>1. Position' = AlbumSize * q + (p + 1)
      BY <1>1, <1>2 DEF Position
    <2>2. Position' = m + (p + 1)
      BY <1>3, <2>1
    <2> QED  BY <1>4, <1>6, <2>2
  <1>10. writeEnd' = writeEnd
    BY <1>1 DEF writeEnd
  <1> HIDE DEF new
  <1>11. /\ ready' \in [Slot -> 0..MaxPhotos] /\ mark' \in [Slot -> 0..taken]
         /\ ready'[p] = c /\ mark'[p] = new
         /\ \A i \in Slot \ {p} : ready'[i] = ready[i] /\ mark'[i] = mark[i]
    <2>1. c \in 0..MaxPhotos
      BY <1>5, <1>8 DEF new
    <2>2. new \in 0..taken
      BY <1>5, <1>8
    <2> QED  BY <1>1, <1>5, <1>6, <1>7, <2>1, <2>2
  <1>12. AlbumTypeOK'
    <2>1. c + 1 \in 0..MaxPhotos
      BY <1>5, <1>8 DEF new
    <2> QED  BY <1>1, <1>6, <1>11, <2>1 DEF AlbumOK, AlbumTypeOK
  <1>13. ServeInStep'
    <2>1. p + 1 \in r..writeEnd
      BY <1>1, <1>4, <1>6
    <2> QED  BY <1>1, <1>2, <1>10, <2>1 DEF AlbumOK, ServeInStep
  <1>14. ASSUME NEW i \in Slot
         PROVE  /\ ready[i] \in Nat /\ mark[i] \in Nat
                /\ ready[i] <= c /\ mark[i] <= Position /\ mark[i] < new
                /\ mark[i] = 0 => ready[i] = 0
                /\ mark[i] # 0 => ready[i] < c
                /\ mark[i] # 0 /\ ready[i] = c - 1 =>
                      mark[i] = Position \/ mark[i] + 1 \in skipped
    <2>1. ready[i] \in Nat /\ mark[i] \in Nat
      BY <1>5
    <2>2. /\ ready[i] <= c /\ mark[i] <= Position
          /\ mark[i] = 0 => ready[i] = 0
          /\ mark[i] # 0 => ready[i] < c
          /\ mark[i] # 0 /\ ready[i] = c - 1 =>
                mark[i] = Position \/ mark[i] + 1 \in skipped
      BY DEF AlbumOK, MarksGiven
    <2> QED  BY <1>8, <2>1, <2>2 DEF new
  <1>15. MarksFollowPhotos'
    <2> SUFFICES ASSUME NEW i \in Slot, NEW j \in Slot, mark'[i] # 0,
                        ready'[j] > ready'[i]
                 PROVE  mark'[j] > mark'[i]
      BY DEF MarksFollowPhotos
    <2>1. CASE i = p
      BY <1>5, <1>11, <1>14, <2>1
    <2>2. CASE i # p /\ j = p
      BY <1>8, <1>11, <1>14, <2>2
    <2>3. CASE i # p /\ j # p
      BY <1>11, <2>3 DEF AlbumOK, MarksFollowPhotos
    <2> QED  BY <2>1, <2>2, <2>3
  <1>16. NextIsNext'
    <2> SUFFICES ASSUME NEW i \in Slot, NEW j \in Slot, mark'[i] # 0,
                        ready'[j] = ready'[i] + 1
                 PROVE  mark'[j] = mark'[i] + 1 \/ mark'[i] + 1 \in skipped
      BY <1>1 DEF NextIsNext
    <2>1. CASE i = p
      <3>1. ready'[j] <= c
        BY <1>5, <1>11, <1>14
      <3>2. ready'[j] = c + 1
        BY <1>11, <2>1
      <3> QED  BY <1>5, <3>1, <3>2
    <2>2. CASE i # p /\ j = p
      <3>1. mark[i] # 0 /\ ready[i] + 1 = c /\ mark'[j] = new /\ mark'[i] = mark[i]
        BY <1>11, <2>2
      <3>2. mark[i] = Position \/ mark[i] + 1 \in skipped
        BY <1>5, <1>14, <3>1
      <3> QED  BY <3>1, <3>2 DEF new
    <2>3. CASE i # p /\ j # p
      BY <1>11, <2>3 DEF AlbumOK, NextIsNext
    <2> QED  BY <2>1, <2>2, <2>3
  <1>17. MarksGiven'
    <2>1. photoCount' <= Position'
      BY <1>1, <1>5, <1>8, <1>9 DEF new
    <2>2. ASSUME NEW i \in Slot
          PROVE  /\ ready'[i] <= c + 1 /\ mark'[i] <= new
                 /\ mark'[i] = 0 => ready'[i] = 0
                 /\ mark'[i] # 0 => ready'[i] < c + 1
                 /\ mark'[i] # 0 /\ ready'[i] = (c + 1) - 1 =>
                       mark'[i] = new \/ mark'[i] + 1 \in skipped
      <3>1. CASE i = p
        BY <1>5, <1>8, <1>11, <3>1
      <3>2. CASE i # p
        <4>1. ready'[i] = ready[i] /\ mark'[i] = mark[i]
          BY <1>11, <3>2
        <4>2. new \in Nat
          BY <1>8
        <4> QED  BY <1>5, <1>14, <4>1, <4>2
      <3> QED  BY <3>1, <3>2
    <2> QED  BY <1>1, <1>9, <2>1, <2>2 DEF MarksGiven
  <1>18. LabelBefore'
    <2> SUFFICES ASSUME NEW s \in Viewer, current[s] # -1
                 PROVE  label[s] <= mark'[current[s]]
      BY <1>1 DEF LabelBefore
    <2>1. current[s] \in Slot /\ label[s] \in Nat
      BY <1>5 DEF AlbumOK, AlbumTypeOK, Slot
    <2>2. label[s] <= mark[current[s]]
      BY DEF AlbumOK, LabelBefore
    <2>3. CASE current[s] = p
      BY <1>8, <1>11, <1>14, <2>1, <2>2, <2>3
    <2>4. CASE current[s] # p
      BY <1>11, <2>1, <2>2, <2>4
    <2> QED  BY <2>3, <2>4
  <1> QED  BY <1>12, <1>13, <1>15, <1>16, <1>17, <1>18 DEF AlbumOK

-----------------------------------------------------------------------------
(* What is in the slots *)

\* A slot is marked for a photo that belongs there and has been written.
LEMMA MarkedPhoto ==
  ASSUME AlbumOK, ServeMark
  PROVE  /\ photoPtr \in Slot
         /\ PhotoIn(photoPtr) \in 1..taken
         /\ (PhotoIn(photoPtr) - 1) % AlbumSize = photoPtr
  <1> DEFINE p == photoPtr
  <1>1. at = "mark" /\ p < writeEnd
    BY DEF ServeMark
  <1>2. PICK q \in Int, r \in 0..AlbumSize - 1 :
            /\ readPos = AlbumSize * q + r
            /\ AlbumSize * q \in Int
            /\ writeEnd \in r + 1..AlbumSize
            /\ AlbumSize * q + writeEnd <= limit
            /\ p \in r..writeEnd
            /\ limit <= readPos + AlbumSize
    BY <1>1, WhileMarking
  <1>3. PICK m \in Int : m = AlbumSize * q
    BY <1>2
  <1>4. /\ readPos = m + r /\ m + writeEnd <= limit
        /\ p \in r..writeEnd /\ writeEnd \in r + 1..AlbumSize
        /\ limit <= readPos + AlbumSize
    BY <1>2, <1>3, Zenon
  <1>5. /\ taken \in Nat /\ limit \in 0..taken /\ readPos \in Nat
        /\ AlbumSize \in Nat \ {0}
    BY BuddyAssumption DEF AlbumOK, AlbumTypeOK
  <1>6. /\ p \in 0..AlbumSize - 1 /\ limit \in Nat
        /\ m + p + 1 \in limit - AlbumSize + 1..limit
    BY <1>1, <1>4, <1>5
  <1>7. PhotoIn(p) = m + p + 1
    <2>1. AlbumSize * q + p + 1 \in limit - AlbumSize + 1..limit
      BY <1>3, <1>6, Zenon
    <2> HIDE DEF p
    <2>2. PhotoIn(p) = AlbumSize * q + p + 1
      BY <1>2, <1>6, <2>1, PhotoAtPlace
    <2> QED  BY <1>3, <2>2, Zenon
  <1>8. m >= 0
    <2>1. m > -AlbumSize
      BY <1>2, <1>4, <1>5
    <2>2. AlbumSize * 0 = 0
      BY <1>5
    <2>3. 0 > q => 0 >= m + AlbumSize
      BY <1>3, <1>5, <2>2, NextRound
    <2>4. q > 0 => m >= AlbumSize
      BY <1>3, <1>5, <2>2, NextRound
    <2>5. q = 0 => m = 0
      BY <1>3, <2>2
    <2> QED  BY <1>5, <2>1, <2>3, <2>4, <2>5
  <1>9. (m + p + 1 - 1) % AlbumSize = p
    <2>1. m + p + 1 - 1 = AlbumSize * q + p
      BY <1>3, <1>6
    <2>2. (AlbumSize * q + p) % AlbumSize = p
      BY <1>5, <1>6, DivModUnique
    <2> QED  BY <2>1, <2>2
  <1>10. m + p + 1 \in 1..taken /\ p \in Slot
    BY <1>5, <1>6, <1>8 DEF Slot
  <1>11. PhotoIn(p) \in 1..taken /\ (PhotoIn(p) - 1) % AlbumSize = p
    <2> DEFINE new == PhotoIn(p)
    <2>1. new = m + p + 1
      BY <1>7
    <2> HIDE DEF new, p
    <2>2. new \in 1..taken /\ (new - 1) % AlbumSize = p
      BY <1>5, <1>6, <1>9, <1>10, <2>1
    <2> QED  BY <2>2 DEF new
  <1> QED  BY <1>10, <1>11, Zenon

\* A session turns to a slot: it was marked for a photo that is there, or was.
LEMMA SlotsTurn ==
  ASSUME AlbumOK, SlotsOK, NEW s \in Viewer, NEW i \in Slot, TurnTo(s, i),
         UNCHANGED <<taken, album, mark>>
  PROVE  SlotsOK'
  <1>1. /\ album[i] \in 0..taken /\ mark[i] <= album[i]
        /\ label \in [Viewer -> 0..taken] /\ shown \in [Viewer -> 0..taken]
    BY DEF AlbumOK, AlbumTypeOK, SlotsOK, NewestInSlot
  <1>2. shown' \in [Viewer -> 0..taken]
    BY <1>1 DEF TurnTo
  <1>3. ASSUME NEW t \in Viewer PROVE label'[t] <= shown'[t]
    BY <1>1 DEF TurnTo, SlotsOK, NewestInSlot
  <1> QED  BY <1>2, <1>3 DEF SlotsOK, NewestInSlot

\* A slot only ever gets a newer photo, and is marked for one that it holds or held.
LEMMA SlotsStep ==
  ASSUME AlbumOK, SlotsOK, [PhotoNext]_photoVars
  PROVE  SlotsOK'
  <1>1. /\ taken \in Nat /\ AlbumSize \in Nat \ {0} /\ mark \in [Slot -> 0..taken]
        /\ album \in [Slot -> 0..taken] /\ shown \in [Viewer -> 0..taken]
        /\ label \in [Viewer -> 0..taken]
        /\ current \in [Viewer -> -1..AlbumSize - 1]
    BY BuddyAssumption DEF AlbumOK, AlbumTypeOK, SlotsOK
  <1>2. \A x \in Nat : x % AlbumSize \in Slot
    <2> SUFFICES ASSUME NEW x \in Nat PROVE x % AlbumSize \in Slot
      OBVIOUS
    <2>1. x \in Int
      OBVIOUS
    <2> QED  BY <1>1, <2>1, DivMod DEF Slot
  <1>3. CASE KernelWrite
    <2> DEFINE w == taken % AlbumSize
    <2>1. /\ taken' = taken + 1 /\ album' = [album EXCEPT ![w] = taken + 1]
          /\ UNCHANGED <<mark, label, shown>>
      BY <1>3 DEF KernelWrite, markVars, viewerVars
    <2>2. w \in Slot
      BY <1>1, <1>2
    <2>3. ASSUME NEW j \in 1..taken + 1 PROVE j <= album'[(j - 1) % AlbumSize]
      <3>1. CASE j = taken + 1
        <4>1. j - 1 = taken
          BY <1>1, <3>1
        <4>2. album'[w] = taken + 1
          BY <1>1, <2>1, <2>2
        <4> QED  BY <1>1, <3>1, <4>1, <4>2
      <3>2. CASE j # taken + 1
        <4> DEFINE k == (j - 1) % AlbumSize
        <4>1. j \in 1..taken /\ j - 1 \in Nat
          BY <1>1, <3>2
        <4>2. k \in Slot /\ j <= album[k]
          BY <1>2, <4>1 DEF SlotsOK, NewestInSlot
        <4> HIDE DEF k, w
        <4>3. album'[k] = IF k = w THEN taken + 1 ELSE album[k]
          BY <1>1, <2>1, <4>2
        <4>4. j <= album'[k]
          BY <1>1, <4>1, <4>2, <4>3
        <4> QED  BY <4>4 DEF k
      <3> QED  BY <3>1, <3>2
    <2> HIDE DEF w
    <2>4. /\ album' \in [Slot -> 0..taken + 1] /\ shown \in [Viewer -> 0..taken + 1]
          /\ \A i \in Slot : mark[i] <= album'[i]
      BY <1>1, <2>1, <2>2 DEF SlotsOK, NewestInSlot
    <2> QED  BY <2>1, <2>3, <2>4 DEF SlotsOK, NewestInSlot
  <1>4. CASE ServeMark
    <2> DEFINE p == photoPtr
               new == PhotoIn(photoPtr)
    <2>1. /\ mark' = [mark EXCEPT ![p] = new]
          /\ UNCHANGED <<taken, album, label, shown>>
      BY <1>4 DEF ServeMark, kernelVars, viewerVars
    <2>2. p \in Slot /\ new \in 1..taken /\ (new - 1) % AlbumSize = p
      BY <1>4, MarkedPhoto
    <2> HIDE DEF p, new
    <2>3. new <= album[p]
      BY <2>2 DEF SlotsOK, NewestInSlot
    <2>4. \A i \in Slot : mark'[i] <= album[i]
      BY <1>1, <2>1, <2>2, <2>3 DEF SlotsOK, NewestInSlot
    <2> QED  BY <2>1, <2>4 DEF SlotsOK, NewestInSlot
  <1>5. ASSUME NEW s \in Viewer, SessionStart(s) \/ PhotoRx(s) PROVE SlotsOK'
    <2>1. UNCHANGED <<taken, album, mark>>
      BY <1>5 DEF SessionStart, PhotoRx, kernelVars, markVars
    <2>2. \E i \in Slot : TurnTo(s, i)
      <3>1. CASE SessionStart(s)
        BY <1>1, <3>1 DEF SessionStart, Slot
      <3>2. CASE PhotoRx(s)
        <4>1. current[s] + 1 \in Nat
          BY <1>1, <3>2 DEF PhotoRx
        <4> QED  BY <1>2, <3>2, <4>1 DEF PhotoRx
      <3> QED  BY <1>5, <3>1, <3>2
    <2> QED  BY <2>1, <2>2, SlotsTurn
  <1>6. ASSUME NEW s \in Viewer, SessionEnd(s) PROVE SlotsOK'
    <2>1. /\ UNCHANGED <<taken, album, mark>>
          /\ label' = [label EXCEPT ![s] = 0] /\ shown' = [shown EXCEPT ![s] = 0]
      BY <1>6 DEF SessionEnd, kernelVars, markVars
    <2>2. shown' \in [Viewer -> 0..taken] /\ \A t \in Viewer : label'[t] <= shown'[t]
      BY <1>1, <2>1 DEF SlotsOK, NewestInSlot
    <2> QED  BY <2>1, <2>2 DEF SlotsOK, NewestInSlot
  <1>7. CASE ServeStop
    <2>1. /\ UNCHANGED <<taken, album, mark>>
          /\ label' = [s \in Viewer |-> 0] /\ shown' = [s \in Viewer |-> 0]
      BY <1>7 DEF ServeStop, kernelVars
    <2>2. shown' \in [Viewer -> 0..taken] /\ \A t \in Viewer : label'[t] <= shown'[t]
      BY <1>1, <2>1
    <2> QED  BY <2>1, <2>2 DEF SlotsOK, NewestInSlot
  <1>8. CASE \/ SetValue \/ InitializeParameter \/ ServeReset \/ ServeBegin
             \/ ServeEnd \/ UNCHANGED photoVars
    <2>1. UNCHANGED <<taken, album, mark, label, shown>>
      BY <1>8 DEF SetValue, InitializeParameter, ServeReset, ServeBegin, ServeEnd,
         photoVars, kernelVars, markVars, viewerVars
    <2> QED  BY <2>1 DEF SlotsOK, NewestInSlot
  <1> QED  BY <1>3, <1>4, <1>5, <1>6, <1>7, <1>8 DEF PhotoNext

\* The album starts without marks.
LEMMA PhotoStart == PhotoInit => PhotoInv
  <1> SUFFICES ASSUME PhotoInit PROVE AlbumOK /\ SlotsOK /\ ParamOK
    BY AlbumAndParam
  <1>1. ParamOK
    BY DEF PhotoInit, ParamOK, BufferAgrees
  <1>2. AlbumTypeOK
    BY BuddyAssumption DEF PhotoInit, AlbumTypeOK
  <1>3. Position = 0
    BY DEF PhotoInit, Position
  <1>4. 0 % AlbumSize = 0
    <2>1. AlbumSize \in Nat \ {0}
      BY BuddyAssumption
    <2> QED  BY <2>1
  <1>5. ServeInStep
    BY <1>4 DEF PhotoInit, ServeInStep
  <1>6. MarksFollowPhotos /\ MarksGiven /\ NextIsNext /\ LabelBefore
    BY <1>3 DEF PhotoInit, MarksFollowPhotos, MarksGiven, NextIsNext, LabelBefore
  <1>7. SlotsOK
    <2>1. /\ taken \in 0..AlbumSize /\ AlbumSize \in Nat \ {0}
          /\ album = [i \in Slot |-> IF i < taken THEN i + 1 ELSE 0]
      BY BuddyAssumption DEF PhotoInit
    <2>2. ASSUME NEW j \in 1..taken PROVE j <= album[(j - 1) % AlbumSize]
      <3>1. j - 1 \in 0..AlbumSize - 1 /\ j - 1 \in Slot
        BY <2>1 DEF Slot
      <3>2. (j - 1) % AlbumSize = j - 1
        BY <2>1, <3>1
      <3> QED  BY <2>1, <3>1, <3>2
    <2>3. album \in [Slot -> 0..taken]
      BY <2>1 DEF Slot
    <2>4. ASSUME NEW i \in Slot PROVE mark[i] <= album[i]
      BY <2>1 DEF PhotoInit, Slot
    <2>5. ASSUME NEW s \in Viewer PROVE label[s] <= shown[s]
      BY DEF PhotoInit
    <2>6. shown \in [Viewer -> 0..taken]
      BY <2>1 DEF PhotoInit
    <2> QED  BY <2>2, <2>3, <2>4, <2>5, <2>6 DEF SlotsOK, NewestInSlot
  <1> QED  BY <1>1, <1>2, <1>5, <1>6, <1>7 DEF AlbumOK

\* Every step keeps the invariant.
LEMMA PhotoStep == PhotoInv /\ [PhotoNext]_photoVars => PhotoInv'
  <1> SUFFICES ASSUME AlbumOK, SlotsOK, ParamOK, [PhotoNext]_photoVars
               PROVE  AlbumOK' /\ SlotsOK' /\ ParamOK'
    <2>1. PhotoInv' <=> AlbumOK' /\ SlotsOK' /\ ParamOK'
      BY AlbumAndParam, PTL
    <2> QED  BY <2>1, AlbumAndParam
  <1>1. ParamOK' /\ SlotsOK'
    BY ParamStep, SlotsStep
  <1>2. CASE SetValue \/ UNCHANGED photoVars
    <2>1. UNCHANGED <<taken, readPos, ready, mark, skipped, photoCount, photoPtr,
                      limit, at, current, label>>
      BY <1>2 DEF SetValue, photoVars, kernelVars, markVars, viewerVars
    <2>2. AlbumTypeOK' /\ LabelBefore'
      BY <2>1 DEF AlbumOK, AlbumTypeOK, LabelBefore
    <2> QED  BY <1>1, <2>1, <2>2, AlbumKept DEF markVars
  <1> QED
    BY <1>1, <1>2, AlbumKernel, AlbumSetup, AlbumReset, AlbumBegin, AlbumMark,
       AlbumEnd, AlbumStop, AlbumSession DEF PhotoNext

\* The marks in the album follow the photos the kernel took, and the parameters in
\* the buffer are those of the kernel: for every size of the album, through
\* overruns, whole rounds of the album and refused changes (buddy/Main.cpp).
THEOREM PhotoInvHolds == PhotoSpec => []PhotoInv
  BY PhotoStart, PhotoStep, PTL DEF PhotoSpec

\* A session that found the photo its slot was marked for goes on to a newer one,
\* and to the very next one unless that was skipped or one of the two slots has been
\* overwritten (buddy/SessionTaskData.cpp).
THEOREM PhotosInOrderHolds == PhotoSpec => PhotosInOrder
  <1>1. ASSUME PhotoInv, [PhotoNext]_photoVars, NEW s \in Viewer,
               current[s] # -1, current'[s] \notin {-1, current[s]}
        PROVE  \/ label[s] < shown[s]
               \/ /\ shown'[s] > shown[s]
                  /\ \/ shown'[s] = shown[s] + 1
                     \/ mark[current[s]] # shown[s] \/ label'[s] < shown'[s]
                     \/ shown[s] + 1 \in skipped \/ shown[s] = 0
    <2>1. /\ current \in [Viewer -> -1..AlbumSize - 1]
          /\ label \in [Viewer -> 0..taken] /\ mark \in [Slot -> 0..taken]
          /\ ready \in [Slot -> 0..MaxPhotos] /\ taken \in Nat /\ MaxPhotos \in Nat
          /\ album \in [Slot -> 0..taken] /\ shown \in [Viewer -> 0..taken]
      BY <1>1, BuddyAssumption DEF PhotoInv, PhotoTypeOK
    <2>2. PhotoRx(s)
      <3>1. CASE \E t \in Viewer : SessionStart(t) \/ PhotoRx(t) \/ SessionEnd(t)
        <4>1. PICK t \in Viewer : SessionStart(t) \/ PhotoRx(t) \/ SessionEnd(t)
          BY <3>1
        <4>2. t = s
          BY <1>1, <2>1, <4>1 DEF SessionStart, PhotoRx, SessionEnd, TurnTo
        <4>3. ~SessionStart(s) /\ ~SessionEnd(s)
          BY <1>1, <2>1 DEF SessionStart, SessionEnd, TurnTo
        <4> QED  BY <4>1, <4>2, <4>3
      <3>2. CASE ServeStop
        BY <1>1, <3>2 DEF ServeStop
      <3>3. CASE \/ KernelWrite \/ SetValue \/ InitializeParameter \/ ServeReset
                 \/ ServeBegin \/ ServeMark \/ ServeEnd \/ UNCHANGED photoVars
        <4>1. current' = current
          BY <3>3 DEF KernelWrite, SetValue, InitializeParameter, ServeReset,
             ServeBegin, ServeMark, ServeEnd, photoVars, viewerVars
        <4> QED  BY <1>1, <4>1
      <3> QED  BY <1>1, <3>1, <3>2, <3>3 DEF PhotoNext
    <2> DEFINE next == (current[s] + 1) % AlbumSize
               cur  == current[s]
    <2>3. /\ ready[next] - ready[cur] = 1
          /\ label'[s] = mark[next] /\ shown'[s] = album[next]
      BY <2>1, <2>2 DEF PhotoRx, TurnTo
    <2>4. cur \in Slot /\ next \in Slot
      <3>1. cur \in Slot /\ cur + 1 \in Int /\ AlbumSize \in Nat \ {0}
        BY <1>1, <2>1, BuddyAssumption DEF Slot
      <3> QED  BY <3>1, DivMod DEF Slot
    <2> HIDE DEF next, cur
    <2>5. /\ ready[next] \in Nat /\ ready[cur] \in Nat /\ mark[next] \in Nat
          /\ mark[cur] \in Nat /\ label[s] \in Nat /\ ready[next] = ready[cur] + 1
          /\ album[next] \in Nat /\ shown[s] \in Nat
      BY <2>1, <2>3, <2>4
    <2>6. label[s] <= mark[cur]
      BY <1>1 DEF PhotoInv, LabelBefore, cur
    <2>7. mark[next] # 0
      BY <1>1, <2>4, <2>5 DEF PhotoInv, MarksGiven
    <2>8. mark[cur] # 0 => mark[next] > mark[cur]
      BY <1>1, <2>4, <2>5 DEF PhotoInv, MarksFollowPhotos
    <2>9. mark[cur] # 0 => mark[next] = mark[cur] + 1 \/ mark[cur] + 1 \in skipped
      BY <1>1, <2>4, <2>5 DEF PhotoInv, NextIsNext
    <2>10. mark[next] <= album[next] /\ label[s] <= shown[s]
      BY <1>1, <2>4 DEF PhotoInv, NewestInSlot
    <2>11. label[s] = shown[s] => album[next] > shown[s]
      BY <2>5, <2>6, <2>7, <2>8, <2>10
    <2>12. label[s] = shown[s] /\ mark[cur] = shown[s] /\ shown[s] # 0
             /\ mark[next] = album[next] /\ shown[s] + 1 \notin skipped
              => album[next] = shown[s] + 1
      BY <2>5, <2>9
    <2> QED  BY <2>3, <2>5, <2>10, <2>11, <2>12 DEF cur
  <1>2. PhotoInv /\ [PhotoNext]_photoVars =>
            [\A s \in Viewer :
                current[s] # -1 /\ current'[s] \notin {-1, current[s]} =>
                    \/ label[s] < shown[s]
                    \/ /\ shown'[s] > shown[s]
                       /\ \/ shown'[s] = shown[s] + 1
                          \/ mark[current[s]] # shown[s] \/ label'[s] < shown'[s]
                          \/ shown[s] + 1 \in skipped \/ shown[s] = 0]_photoVars
    BY <1>1
  <1> QED  BY <1>2, PhotoInvHolds, PTL DEF PhotoSpec, PhotosInOrder
-----------------------------------------------------------------------------
(* The daemon's table of servers *)

\* The processes that wait to be reaped are finitely many.
LEMMA ZombiesFinite == IsFiniteSet(Zombies) /\ Cardinality(Zombies) \in Nat
  <1>1. IsFiniteSet(Pid)
    BY FS_Interval, DaemonAssumption DEF Pid
  <1>2. Zombies \subseteq Pid
    BY DEF Zombies
  <1> QED  BY <1>1, <1>2, FS_Subset, FS_CardinalityType

\* The kernel, the administrator and the steps of the daemon that only look at
\* signals leave the table and the processes alone.
LEMMA DaemonLooks ==
  ASSUME DaemonInv,
         ModelChange \/ Hangup \/ Reload \/ ModelEvent \/ DaemonExit
  PROVE  DaemonInv'
  <1>1. UNCHANGED <<appPid, proc, modelOf, sigchld>>
    BY DEF ModelChange, Hangup, Reload, ModelEvent, DaemonExit, signals
  <1>2. /\ actives' \subseteq AppId
        /\ {modelChanged', hup', rescan', exited'} \subseteq BOOLEAN
    <2> USE DEF DaemonInv, DaemonTypeOK, kernelSide, signals
    <2>1. CASE ModelChange
      BY <2>1 DEF ModelChange
    <2>2. CASE Hangup
      BY <2>2 DEF Hangup
    <2>3. CASE Reload
      BY <2>3 DEF Reload
    <2>4. CASE ModelEvent
      BY <2>4 DEF ModelEvent
    <2>5. CASE DaemonExit
      BY <2>5 DEF DaemonExit
    <2> QED  BY <2>1, <2>2, <2>3, <2>4, <2>5
  <1>3. DaemonTypeOK'
    BY <1>1, <1>2 DEF DaemonInv, DaemonTypeOK
  <1>4. WaitReturns'
    BY <1>1 DEF DaemonInv, WaitReturns, Zombies
  <1>5. TableExact'
    BY <1>1 DEF DaemonInv, TableExact
  <1> QED  BY <1>3, <1>4, <1>5 DEF DaemonInv

\* A server that ends is one more to reap, and raises at most one signal.
LEMMA DaemonChildExit == ASSUME DaemonInv, ChildExit PROVE DaemonInv'
  <1>1. PICK p \in Pid : /\ proc[p] \in {"running", "told"}
                         /\ proc' = [proc EXCEPT ![p] = "zombie"]
    BY DEF ChildExit
  <1>2. /\ UNCHANGED <<actives, modelChanged, appPid, modelOf, hup, rescan, exited>>
        /\ sigchld \in Nat /\ sigchld' \in {sigchld, sigchld + 1}
    BY DEF ChildExit, kernelSide, DaemonInv, DaemonTypeOK
  <1>3. proc \in [Pid -> {"unused", "running", "told", "zombie", "reaped"}]
    BY DEF DaemonInv, DaemonTypeOK
  <1>4. DaemonTypeOK'
    BY <1>1, <1>2, <1>3 DEF DaemonInv, DaemonTypeOK
  <1>5. WaitReturns'
    <2>1. p \notin Zombies /\ Zombies' = Zombies \cup {p}
      BY <1>1, <1>3 DEF Zombies
    <2>2. Cardinality(Zombies \cup {p}) = Cardinality(Zombies) + 1
      BY <2>1, ZombiesFinite, FS_AddElement
    <2>3. Cardinality(Zombies') = Cardinality(Zombies) + 1
      BY <2>1, <2>2
    <2> QED  BY <1>2, <2>3, ZombiesFinite DEF DaemonInv, WaitReturns
  <1>6. TableExact'
    BY <1>1, <1>2, <1>3 DEF DaemonInv, DaemonTypeOK, TableExact
  <1> QED  BY <1>4, <1>5, <1>6 DEF DaemonInv

\* wait() takes one child and one signal.
LEMMA DaemonReap == ASSUME DaemonInv, Reap PROVE DaemonInv'
  <1>1. PICK p \in Zombies :
          /\ proc' = [proc EXCEPT ![p] = "reaped"]
          /\ appPid' = [i \in AppId |-> IF appPid[i] = p THEN 0 ELSE appPid[i]]
    BY DEF Reap
  <1>2. /\ UNCHANGED <<actives, modelChanged, modelOf, hup, exited>>
        /\ rescan' = modelChanged
        /\ sigchld \in Nat /\ sigchld > 0 /\ sigchld' = sigchld - 1
    BY DEF Reap, kernelSide, DaemonInv, DaemonTypeOK
  <1>3. /\ proc \in [Pid -> {"unused", "running", "told", "zombie", "reaped"}]
        /\ appPid \in [AppId -> 0..MaxForks] /\ modelOf \in [Pid -> AppId]
        /\ p \in Pid /\ proc[p] = "zombie" /\ MaxForks \in Nat
    BY <1>1, DaemonAssumption DEF DaemonInv, DaemonTypeOK, Zombies
  <1>4. DaemonTypeOK'
    <2>1. appPid' \in [AppId -> 0..MaxForks]
      BY <1>1, <1>3
    <2>2. proc' \in [Pid -> {"unused", "running", "told", "zombie", "reaped"}]
      BY <1>1, <1>3
    <2> QED  BY <1>2, <2>1, <2>2 DEF DaemonInv, DaemonTypeOK
  <1>5. WaitReturns'
    <2>1. Zombies' = Zombies \ {p}
      BY <1>1, <1>3 DEF Zombies
    <2>2. Cardinality(Zombies \ {p}) = Cardinality(Zombies) - 1
      BY <1>1, ZombiesFinite, FS_RemoveElement
    <2>3. Cardinality(Zombies') = Cardinality(Zombies) - 1
      BY <2>1, <2>2
    <2> QED  BY <1>2, <2>3, ZombiesFinite DEF DaemonInv, WaitReturns
  <1>6. TableExact'
    <2>1. ASSUME NEW i \in AppId, appPid'[i] # 0
          PROVE  proc'[appPid'[i]] \in {"running", "zombie"} /\ modelOf'[appPid'[i]] = i
      <3>1. appPid'[i] = appPid[i] /\ appPid[i] # p /\ appPid[i] \in Pid
        BY <1>1, <1>3, <2>1 DEF Pid
      <3> QED  BY <1>1, <1>2, <1>3, <2>1, <3>1 DEF DaemonInv, TableExact
    <2>2. ASSUME NEW q \in Pid, proc'[q] = "running" PROVE appPid'[modelOf'[q]] = q
      <3>1. q # p /\ proc[q] = "running"
        BY <1>1, <1>3, <2>2
      <3> QED  BY <1>1, <1>2, <1>3, <3>1 DEF DaemonInv, TableExact
    <2> QED  BY <2>1, <2>2 DEF TableExact
  <1> QED  BY <1>4, <1>5, <1>6 DEF DaemonInv

\* The table after a scan in which serve() forked the processes f.
LEMMA DaemonRescan == ASSUME DaemonInv, Rescan PROVE DaemonInv'
  <1> DEFINE State == {"unused", "running", "told", "zombie", "reaped"}
  <1>1. PICK f \in [New -> Unused \cup {0}] :
          /\ Forked(f)
          /\ appPid' = [i \in AppId |-> IF i \in New THEN f[i]
                                     ELSE IF i \in Gone THEN 0 ELSE appPid[i]]
          /\ proc' = [p \in Pid |->
                IF \E i \in New : f[i] = p THEN "running"
                ELSE IF proc[p] = "running" /\ \E i \in Gone : appPid[i] = p
                THEN "told" ELSE proc[p]]
          /\ modelOf' = [p \in Pid |->
                IF \E i \in New : f[i] = p THEN CHOOSE i \in New : f[i] = p
                ELSE modelOf[p]]
    BY DEF Rescan
  <1>2. /\ UNCHANGED <<actives, sigchld, hup, exited>>
        /\ rescan' = FALSE /\ modelChanged' = FALSE
    BY DEF Rescan, signals
  <1>3. /\ proc \in [Pid -> State] /\ appPid \in [AppId -> 0..MaxForks]
        /\ modelOf \in [Pid -> AppId] /\ MaxForks \in Nat
        /\ actives \subseteq AppId
    BY DaemonAssumption DEF DaemonInv, DaemonTypeOK
  <1>4. /\ New \subseteq AppId /\ Gone \subseteq AppId
        /\ \A i \in New : appPid[i] = 0
        /\ \A i \in Gone : appPid[i] # 0
        /\ 0 \notin Pid /\ Unused \subseteq Pid
        /\ Pid \subseteq 0..MaxForks
        /\ \A x \in 0..MaxForks : x # 0 => x \in Pid
    BY <1>3 DEF New, Gone, Scanned, Pid, Unused
  \* A process that is forked was unused, and has one model.
  <1>5. ASSUME NEW i \in New, NEW p \in Pid, f[i] = p
        PROVE  /\ proc[p] = "unused" /\ proc'[p] = "running" /\ modelOf'[p] = i
    <2>1. p \in Unused
      BY <1>1, <1>4, <1>5
    <2>2. proc[p] = "unused"
      BY <2>1 DEF Unused
    <2>3. proc'[p] = "running"
      BY <1>1, <1>5
    <2>4. \A j \in New : f[j] = p => j = i
      BY <1>1, <1>4, <1>5 DEF Forked
    <2>5. (CHOOSE j \in New : f[j] = p) = i
      BY <1>5, <2>4
    <2> QED  BY <1>1, <1>5, <2>2, <2>3, <2>5
  \* Any other is left alone or told to end.
  <1>6. ASSUME NEW p \in Pid, \A i \in New : f[i] # p
        PROVE  /\ modelOf'[p] = modelOf[p]
               /\ proc'[p] = proc[p] \/ (proc[p] = "running" /\ proc'[p] = "told")
               /\ proc[p] = "running" /\ (\E i \in Gone : appPid[i] = p) =>
                     proc'[p] = "told"
               /\ (\A i \in Gone : appPid[i] # p) => proc'[p] = proc[p]
    <2>1. ~ \E i \in New : f[i] = p
      BY <1>6
    <2>2. modelOf'[p] = modelOf[p]
      BY <1>1, <2>1, Zenon
    <2>3. proc'[p] = IF proc[p] = "running" /\ \E i \in Gone : appPid[i] = p
                     THEN "told" ELSE proc[p]
      BY <1>1, <2>1, Zenon
    <2>4. CASE proc[p] = "running" /\ \E i \in Gone : appPid[i] = p
      BY <2>2, <2>3, <2>4, Zenon
    <2>5. CASE ~ (proc[p] = "running" /\ \E i \in Gone : appPid[i] = p)
      <3>1. proc'[p] = proc[p]
        BY <2>3, <2>5, Zenon
      <3> QED  BY <2>2, <2>5, <3>1
    <2> QED  BY <2>4, <2>5, Zenon
  <1>7. DaemonTypeOK'
    <2>1. appPid' \in [AppId -> 0..MaxForks]
      <3>1. \A i \in New : f[i] \in 0..MaxForks
        BY <1>1, <1>3, <1>4
      <3> QED  BY <1>1, <1>3, <3>1
    <2>2. modelOf' \in [Pid -> AppId]
      <3>1. \A p \in Pid : modelOf'[p] \in AppId
        BY <1>3, <1>4, <1>5, <1>6
      <3> QED  BY <1>1, <3>1
    <2>3. proc' \in [Pid -> State]
      <3>1. \A p \in Pid : proc'[p] \in State
        BY <1>3, <1>5, <1>6
      <3> QED  BY <1>1, <3>1
    <2> QED  BY <1>2, <2>1, <2>2, <2>3 DEF DaemonInv, DaemonTypeOK
  <1>8. WaitReturns'
    <2>1. \A p \in Pid : (proc'[p] = "zombie") = (proc[p] = "zombie")
      <3> SUFFICES ASSUME NEW p \in Pid
                   PROVE  (proc'[p] = "zombie") = (proc[p] = "zombie")
        OBVIOUS
      <3>1. CASE \E i \in New : f[i] = p
        BY <1>5, <3>1
      <3>2. CASE \A i \in New : f[i] # p
        BY <1>6, <3>2
      <3> QED  BY <3>1, <3>2
    <2>2. Zombies' = Zombies
      BY <2>1 DEF Zombies
    <2> QED  BY <1>2, <2>2 DEF DaemonInv, WaitReturns
  <1>9. ASSUME NEW i \in AppId, appPid'[i] # 0
        PROVE  proc'[appPid'[i]] \in {"running", "zombie"} /\ modelOf'[appPid'[i]] = i
    <2>1. CASE i \in New
      <3>1. appPid'[i] = f[i] /\ f[i] \in Pid
        BY <1>1, <1>4, <1>9, <2>1
      <3> QED  BY <1>5, <2>1, <3>1
    <2>2. CASE i \notin New
      <3>1. i \notin Gone /\ appPid'[i] = appPid[i] /\ appPid[i] \in Pid
        BY <1>1, <1>3, <1>4, <1>9, <2>2
      <3> DEFINE q == appPid[i]
      <3>2. proc[q] \in {"running", "zombie"} /\ modelOf[q] = i
        BY <1>9, <3>1 DEF DaemonInv, TableExact
      <3>3. \A j \in New : f[j] # q
        BY <1>5, <3>1, <3>2
      <3>4. \A j \in Gone : appPid[j] # q
        BY <1>4, <3>1, <3>2 DEF DaemonInv, TableExact
      <3> QED  BY <1>6, <3>1, <3>2, <3>3, <3>4
    <2> QED  BY <2>1, <2>2
  <1>10. ASSUME NEW p \in Pid, proc'[p] = "running" PROVE appPid'[modelOf'[p]] = p
    <2>1. CASE \E i \in New : f[i] = p
      BY <1>1, <1>4, <1>5, <2>1
    <2>2. CASE \A i \in New : f[i] # p
      <3>1. /\ proc[p] = "running" /\ modelOf'[p] = modelOf[p]
            /\ \A i \in Gone : appPid[i] # p
        BY <1>6, <1>10, <2>2
      <3>2. appPid[modelOf[p]] = p /\ modelOf[p] \in AppId
        BY <1>3, <3>1 DEF DaemonInv, TableExact
      <3>3. modelOf[p] \notin New /\ modelOf[p] \notin Gone
        BY <1>4, <3>1, <3>2
      <3> QED  BY <1>1, <3>1, <3>2, <3>3
    <2> QED  BY <2>1, <2>2
  <1>11. TableExact'
    BY <1>9, <1>10 DEF TableExact
  <1> QED  BY <1>7, <1>8, <1>11 DEF DaemonInv

\* main() of the buddy, for every number of kernel models and of processes:
\* wait() in the SIGCHLD branch always finds a child, and the table app[] holds
\* exactly the servers that run and were not told to end, each under its model.
THEOREM DaemonInvHolds == DaemonSpec => []DaemonInv
  <1>1. DaemonInit => DaemonInv
    <2> SUFFICES ASSUME DaemonInit PROVE DaemonInv
      OBVIOUS
    <2>1. MaxForks \in Nat /\ MaxApps \in Nat \ {0} /\ 0 \in AppId
      BY DaemonAssumption DEF AppId
    <2>2. DaemonTypeOK
      <3>1. appPid \in [AppId -> 0..MaxForks]
        BY <2>1 DEF DaemonInit
      <3>2. modelOf \in [Pid -> AppId]
        BY <2>1 DEF DaemonInit
      <3>3. proc \in [Pid -> {"unused", "running", "told", "zombie", "reaped"}]
        BY DEF DaemonInit
      <3> QED  BY <3>1, <3>2, <3>3 DEF DaemonInit, DaemonTypeOK
    <2>3. sigchld = 0
      BY DEF DaemonInit
    <2>4. WaitReturns
      BY <2>3, ZombiesFinite DEF WaitReturns
    <2>5. TableExact
      BY DEF DaemonInit, TableExact
    <2> QED  BY <2>2, <2>4, <2>5 DEF DaemonInv
  <1>2. DaemonInv /\ [DaemonNext]_daemonVars => DaemonInv'
    <2> SUFFICES ASSUME DaemonInv, [DaemonNext]_daemonVars PROVE DaemonInv'
      OBVIOUS
    <2>1. CASE UNCHANGED daemonVars
      BY <2>1 DEF daemonVars, DaemonInv, DaemonTypeOK, WaitReturns, TableExact,
                  Zombies
    <2> QED  BY <2>1, DaemonLooks, DaemonChildExit, DaemonReap, DaemonRescan
             DEF DaemonNext
  <1> QED  BY <1>1, <1>2, PTL DEF DaemonSpec
=============================================================================
