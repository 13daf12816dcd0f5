----------------------------- MODULE BuddyPhotos ----------------------------
(***************************************************************************)
(* The server of one EtherLab kernel model: the kernel writes photos into  *)
(* an album of rtB_count slots, serve() marks those that are ready, and    *)
(* the sessions follow the marks round the album without any lock.  The    *)
(* parameters are changed through the same device.                         *)
(*                                                                         *)
(* The kernel numbers its photos 1, 2, ...; number j is in slot            *)
(* (j - 1) % AlbumSize until j + AlbumSize is written, marked or not, and  *)
(* a session reads what it finds there.  What the kernel does is modelled  *)
(* from how serve() uses it.                                               *)
(***************************************************************************)
EXTENDS Integers, FiniteSets

CONSTANTS
    AlbumSize,      \* rtB_count
    Viewer,         \* sessions
    ParamVal,       \* values of a parameter, 0 among them
    PairedParam,    \* is the parameter paired with a signal?
    MaxPhotos,      \* bound: photos the kernel writes
    MaxStarts       \* bound: sessions started

ASSUME BuddyAssumption ==
    /\ AlbumSize \in Nat \ {0, 1}
    /\ 0 \in ParamVal /\ PairedParam \in BOOLEAN
    /\ MaxPhotos \in Nat /\ AlbumSize <= MaxPhotos
    /\ MaxStarts \in Nat

VARIABLES
    taken,          \* kernel: photos written
    album,          \* album: the photo that is in each slot
    readPos,        \* kernel: photos read, in its view
    ready,          \* photoReady
    mark,           \* the number of the photo a slot was marked for
    skipped,        \* photos that were never marked
    photoCount, photoPtr,
    limit,          \* photos written when data_p was obtained
    at,             \* where serve() is
    current,        \* current, -1: no session
    label,          \* history: the photo its slot was marked for
    shown,          \* the photo it found there
    starts,         \* sessions started so far
    valueBuf,       \* the buffer's value of a parameter
    kernelValue,    \* the kernel's
    unsent          \* initializeParameter() failed to send the value

photoVars == <<taken, album, readPos, ready, mark, skipped, photoCount, photoPtr,
               limit, at, current, label, shown, starts, valueBuf, kernelValue,
               unsent>>
kernelVars == <<taken, album, readPos>>
markVars == <<ready, mark, skipped, photoCount, photoPtr, limit, at>>
viewerVars == <<current, label, shown, starts>>
paramVars == <<valueBuf, kernelValue, unsent>>

Slot == 0..AlbumSize - 1

-----------------------------------------------------------------------------
(* The kernel                                                               *)

\* It never waits for a reader.
KernelWrite ==
    /\ taken < MaxPhotos
    /\ taken' = taken + 1
    /\ album' = [album EXCEPT ![taken % AlbumSize] = taken + 1]
    /\ UNCHANGED <<readPos, markVars, viewerVars, paramVars>>

\* GET_WRITE_PTRS: the end of what can be read in one go, or -ENOSPC
Overrun == taken - readPos > AlbumSize
writeEnd ==
    IF limit \div AlbumSize > readPos \div AlbumSize THEN AlbumSize
                                                    ELSE limit % AlbumSize

\* The photo in slot i when data_p was obtained
PhotoIn(i) == CHOOSE j \in limit - AlbumSize + 1..limit : (j - 1) % AlbumSize = i

-----------------------------------------------------------------------------
(* Parameters                                                               *)

\* setValue(): the change is sent; on failure the old value is put back.
Change(old, new) ==
    \/ valueBuf' = new /\ kernelValue' = new /\ unsent' = FALSE
    \/ valueBuf' = old /\ UNCHANGED <<kernelValue, unsent>>

SetValue ==
    /\ at \in {"select", "mark"}
    /\ \E v \in ParamVal : Change(valueBuf, v)
    /\ UNCHANGED <<kernelVars, markVars, viewerVars>>

\* postfork_nrt_setup() and setupPersistent(): a stored value is copied into the
\* buffer first, so that a failure puts back the new value.  A parameter paired
\* with a signal keeps a value that is not zero.
InitializeParameter ==
    /\ at = "setup"
    /\ at' = "select"
    /\ \/ UNCHANGED paramVars                           \* no data stored
       \/ PairedParam /\ valueBuf # 0 /\ UNCHANGED paramVars
       \/ /\ ~PairedParam \/ valueBuf = 0
          /\ \E v \in ParamVal :
                \/ Change(valueBuf, v) /\ valueBuf' = v
                \/ valueBuf' = v /\ unsent' = TRUE /\ UNCHANGED kernelValue
    /\ readPos' = taken                                  \* RESET_BLOCKIO_RP
    /\ photoPtr' = taken % AlbumSize
    /\ UNCHANGED <<taken, album, ready, mark, skipped, photoCount, limit, viewerVars>>

PhotoInit ==
    /\ taken \in 0..AlbumSize /\ readPos = 0
    /\ album = [i \in Slot |-> IF i < taken THEN i + 1 ELSE 0]
    /\ ready = [i \in Slot |-> 0]
    /\ mark = [i \in Slot |-> 0]
    /\ skipped = {}
    /\ photoCount = 0 /\ photoPtr = 0 /\ limit = 0
    /\ at = "setup"
    /\ current = [s \in Viewer |-> -1]
    /\ label = [s \in Viewer |-> 0]
    /\ shown = [s \in Viewer |-> 0]
    /\ starts = 0
    /\ valueBuf \in ParamVal /\ kernelValue = valueBuf       \* GET_PARAM
    /\ unsent = FALSE

-----------------------------------------------------------------------------
(* serve()                                                                  *)

\* Mistake: serve() goes on where it was.
ServeResetKeepsPtr ==
    /\ at = "select"
    /\ Overrun
    /\ readPos' = taken
    /\ skipped' = skipped \cup readPos + 1..taken
    /\ UNCHANGED <<taken, album, photoPtr, ready, mark, photoCount, limit, at,
                   viewerVars, paramVars>>

\* The kernel has overrun the reader: start again where it writes.
ServeReset ==
    /\ at = "select"
    /\ Overrun
    /\ readPos' = taken
    /\ photoPtr' = taken % AlbumSize
    /\ skipped' = skipped \cup readPos + 1..taken
    /\ UNCHANGED <<taken, album, ready, mark, photoCount, limit, at, viewerVars,
                   paramVars>>

ServeBegin ==
    /\ at = "select"
    /\ taken # readPos /\ ~Overrun
    /\ limit' = taken
    /\ at' = "mark"
    /\ UNCHANGED <<kernelVars, ready, mark, skipped, photoCount, photoPtr,
                   viewerVars, paramVars>>

\* One photo is marked as ready.  Nothing reads the events found in it.
ServeMark ==
    /\ at = "mark"
    /\ photoPtr < writeEnd
    /\ ready' = [ready EXCEPT ![photoPtr] = photoCount]
    /\ mark' = [mark EXCEPT ![photoPtr] = PhotoIn(photoPtr)]
    /\ photoCount' = photoCount + 1
    /\ photoPtr' = photoPtr + 1
    /\ UNCHANGED <<kernelVars, skipped, limit, at, viewerVars, paramVars>>

\* SET_BLOCKIO_RP returns the place to go on from.
ServeEnd ==
    /\ at = "mark"
    /\ photoPtr >= writeEnd
    /\ readPos' = AlbumSize * (readPos \div AlbumSize) + writeEnd
    /\ photoPtr' = writeEnd % AlbumSize
    /\ at' = "select"
    /\ UNCHANGED <<taken, album, ready, mark, skipped, photoCount, limit, viewerVars,
                   paramVars>>

\* A signal other than SIGHUP, or an error: stopServers() ends the sessions.
ServeStop ==
    /\ at = "select"
    /\ at' = "stopped"
    /\ current' = [s \in Viewer |-> -1]
    /\ label' = [s \in Viewer |-> 0]
    /\ shown' = [s \in Viewer |-> 0]
    /\ UNCHANGED <<kernelVars, ready, mark, skipped, photoCount, photoPtr, limit,
                   starts, paramVars>>

-----------------------------------------------------------------------------
(* Sessions                                                                 *)

\* The session turns to a slot and works with the photo that is there: it copies
\* the time and the statistics (updateStatistics()); getValue() reads the slot when
\* the values are sent, and finds this photo or one that the kernel wrote since.
TurnTo(s, i) ==
    /\ current' = [current EXCEPT ![s] = i]
    /\ label' = [label EXCEPT ![s] = mark[i]]
    /\ shown' = [shown EXCEPT ![s] = album[i]]

\* SessionTaskData starts at the first slot, before any photo it knows of.
SessionStart(s) ==
    /\ at \in {"select", "mark"}
    /\ current[s] = -1
    /\ starts < MaxStarts
    /\ starts' = starts + 1
    /\ TurnTo(s, 0)
    /\ UNCHANGED <<kernelVars, markVars, paramVars>>

\* Mistake: any other number in the next slot is taken for a new photo.
PhotoRxOther(s) ==
    LET next == (current[s] + 1) % AlbumSize
    IN  /\ current[s] # -1
        /\ ready[next] # ready[current[s]]
        /\ TurnTo(s, next)
        /\ UNCHANGED <<kernelVars, markVars, starts, paramVars>>

\* rxPdo(), in the constructor as well
PhotoRx(s) ==
    LET next == (current[s] + 1) % AlbumSize
    IN  /\ current[s] # -1
        /\ ready[next] - ready[current[s]] = 1
        /\ TurnTo(s, next)
        /\ UNCHANGED <<kernelVars, markVars, starts, paramVars>>

SessionEnd(s) ==
    /\ current[s] # -1
    /\ current' = [current EXCEPT ![s] = -1]
    /\ label' = [label EXCEPT ![s] = 0]
    /\ shown' = [shown EXCEPT ![s] = 0]
    /\ UNCHANGED <<kernelVars, markVars, starts, paramVars>>

PhotoNext ==
    \/ KernelWrite \/ SetValue \/ InitializeParameter
    \/ ServeReset \/ ServeBegin \/ ServeMark \/ ServeEnd \/ ServeStop
    \/ \E s \in Viewer : SessionStart(s) \/ PhotoRx(s) \/ SessionEnd(s)

PhotoSpec == PhotoInit /\ [][PhotoNext]_photoVars

-----------------------------------------------------------------------------
(* Properties                                                               *)

PhotoTypeOK ==
    /\ taken \in 0..MaxPhotos /\ readPos \in 0..taken
    /\ album \in [Slot -> 0..taken]
    /\ ready \in [Slot -> 0..MaxPhotos] /\ mark \in [Slot -> 0..taken]
    /\ skipped \subseteq 1..taken
    /\ photoCount \in 0..MaxPhotos /\ photoPtr \in 0..AlbumSize /\ limit \in 0..taken
    /\ at \in {"setup", "select", "mark", "stopped"}
    /\ current \in [Viewer -> -1..AlbumSize - 1]
    /\ label \in [Viewer -> 0..taken] /\ shown \in [Viewer -> 0..taken]
    /\ {valueBuf, kernelValue} \subseteq ParamVal /\ unsent \in BOOLEAN

\* A session goes on to a newer photo although it follows the marks without a
\* lock and serve() may have gone round the album, or started again at another
\* place, meanwhile; and it misses none, unless its photo was overwritten or the
\* kernel had overrun serve().  Only a session that found its slot overwritten
\* already, and so was ahead of the marks, may go back to an older photo.
PhotosInOrder ==
    [][\A s \in Viewer :
          current[s] # -1 /\ current'[s] \notin {-1, current[s]} =>
              \/ label[s] < shown[s]
              \/ /\ shown'[s] > shown[s]
                 /\ \/ shown'[s] = shown[s] + 1
                    \/ mark[current[s]] # shown[s] \/ label'[s] < shown'[s]
                    \/ shown[s] + 1 \in skipped \/ shown[s] = 0]_photoVars

\* The numbers in the album follow the photos that slots were marked for: one with
\* the successor of another's number was marked for a later photo.
MarksFollowPhotos ==
    \A i, j \in Slot : mark[i] # 0 /\ ready[j] > ready[i] => mark[j] > mark[i]

\* The buffer the clients read is what the kernel has, also after a refused
\* change; only a stored value that could not be sent is not.
BufferAgrees == unsent \/ valueBuf = kernelValue

\* Photos serve() is done with: it marked them or they were skipped.
Position ==
    IF at = "mark" THEN AlbumSize * (readPos \div AlbumSize) + photoPtr ELSE readPos

\* serve() is where the kernel believes it to be, and while it marks photos it
\* stays between where it began and what it may read.
ServeInStep ==
    /\ at = "setup" => readPos = 0
    /\ at # "mark" => photoPtr = readPos % AlbumSize
    /\ at = "mark" =>
          /\ limit \in readPos + 1..readPos + AlbumSize
          /\ photoPtr \in readPos % AlbumSize..writeEnd

\* The numbers and photos in the album are those given out so far; a slot without
\* a photo has the number 0, and the photo after the last one is still to come,
\* or was skipped.
MarksGiven ==
    /\ photoCount <= Position
    /\ \A i \in Slot :
          /\ ready[i] <= photoCount /\ mark[i] <= Position
          /\ mark[i] = 0 => ready[i] = 0
          /\ mark[i] # 0 => ready[i] < photoCount
          /\ mark[i] # 0 /\ ready[i] = photoCount - 1 =>
                mark[i] = Position \/ mark[i] + 1 \in skipped

\* The photo after another is in the slot with the next number, or was skipped.
NextIsNext ==
    \A i, j \in Slot : mark[i] # 0 /\ ready[j] = ready[i] + 1 =>
        mark[j] = mark[i] + 1 \/ mark[i] + 1 \in skipped

\* A session's slot was marked for the photo it is marked for now or an older one.
LabelBefore == \A s \in Viewer : current[s] # -1 => label[s] <= mark[current[s]]

\* A slot holds the latest photo that belongs there, which is the one it was marked
\* for or a newer one, and so is what a session finds there.
NewestInSlot ==
    /\ \A j \in 1..taken : j <= album[(j - 1) % AlbumSize]
    /\ \A i \in Slot : mark[i] <= album[i]
    /\ \A s \in Viewer : label[s] <= shown[s]

\* The album and the parameters of Main::serve(): the marks follow the photos and
\* the buffer agrees with the kernel, through overruns and refused changes.
PhotoInv ==
    /\ PhotoTypeOK /\ MarksFollowPhotos /\ BufferAgrees
    /\ ServeInStep /\ MarksGiven /\ NextIsNext /\ LabelBefore /\ NewestInSlot
=============================================================================
