---------------------------- MODULE ListReplicas ----------------------------
(***************************************************************************)
(* What Task::subscribe() and Task::processSignalList() promise together:  *)
(* one side changes its lists of signals, a signal at a time; the other    *)
(* side goes through exactly the same versions, in order and each at once. *)
(* There is no ring, no mutex and no pointer here.                         *)
(***************************************************************************)
EXTENDS Integers, Sequences

CONSTANTS
    Item,           \* what is in the lists
    ListOf          \* ListOf[x]: the list x belongs to

VARIABLES
    master,         \* the lists of the side that changes them
    replica,        \* the lists of the side that follows
    pending         \* the versions of master that replica has not seen

replicaVars == <<master, replica, pending>>

Elements(list) == {list[i] : i \in DOMAIN list}

ReplicasInit ==
    /\ master = [w \in 0..3 |-> <<>>]
    /\ replica = master
    /\ pending = <<>>

\* An item is added at the end of its list.
Add(x) ==
    /\ x \notin Elements(master[ListOf[x]])
    /\ master' = [master EXCEPT ![ListOf[x]] = Append(@, x)]

\* An item is taken away; the others of its list may change their places.
Drop(x) ==
    /\ x \in Elements(master[ListOf[x]])
    /\ Elements(master'[ListOf[x]]) = Elements(master[ListOf[x]]) \ {x}
    /\ Len(master'[ListOf[x]]) = Len(master[ListOf[x]]) - 1
    /\ \A w \in (0..3) \ {ListOf[x]} : master'[w] = master[w]

Change(x) ==
    /\ Add(x) \/ Drop(x)
    /\ pending' = Append(pending, master')
    /\ replica' = replica

Follow ==
    /\ pending # <<>>
    /\ replica' = Head(pending)
    /\ pending' = Tail(pending)
    /\ master' = master

ReplicasNext == (\E x \in Item : Change(x)) \/ Follow

ReplicasSpec == ReplicasInit /\ [][ReplicasNext]_replicaVars
=============================================================================
