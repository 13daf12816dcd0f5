--------------------------- MODULE ListRefinement ---------------------------
(***************************************************************************)
(* The subscription request list implements ListReplicas.                  *)
(***************************************************************************)
EXTENDS SignalList

\* The slot of the last request that is in the rt copy lists
FirstSlot == IF applied THEN NextSlot(rp) ELSE rp

\* Requests from slot i up to slot j, and the slot k places behind slot i
Distance(i, j) == IF i <= j THEN j - i ELSE j - i + ListSize
SlotBehind(i, k) == IF i + k < ListSize THEN i + k ELSE i + k - ListSize

PendingCount == Distance(FirstSlot, wp) + IF Unpublished THEN 1 ELSE 0

\* The versions of the lists the rt task has yet to apply
PendingLists == [k \in 1..PendingCount |-> after[SlotBehind(FirstSlot, k)]]

Replicas == INSTANCE ListReplicas WITH
    Item <- Signal, ListOf <- WidthOf,
    master <- signalCopyList, replica <- copyList, pending <- PendingLists

\* Every step of Task::subscribe() and Task::processSignalList() is a change of
\* the lists by one signal, a step of the rt copy lists to the next version, or
\* is not seen at all.
ReplicasFollow == Replicas!ReplicasSpec
=============================================================================
