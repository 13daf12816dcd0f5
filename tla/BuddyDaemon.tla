----------------------------- MODULE BuddyDaemon ----------------------------
(***************************************************************************)
(* main() of the buddy: it watches which kernel models are active, forks a *)
(* server for each, terminates the server of one that has gone, and reaps  *)
(* its children.                                                           *)
(*                                                                         *)
(* Processes are numbered as they are forked.  SIGCHLD reaches the daemon  *)
(* through libdaemon's pipe; signals that are raised while one is pending  *)
(* may be lost.                                                            *)
(***************************************************************************)
EXTENDS Integers, FiniteSets

CONSTANTS
    MaxApps,        \* MAX_APPS
    MaxForks,       \* bound: servers forked
    MaxChanges,     \* bound: starts and stops of models
    MaxHangups      \* bound: SIGHUPs

ASSUME DaemonAssumption ==
    MaxApps \in Nat \ {0} /\ {MaxForks, MaxChanges, MaxHangups} \subseteq Nat

VARIABLES
    actives,        \* kernel: the models that run
    modelChanged,   \* kernel: is etl_main readable?
    changes,        \* starts and stops so far
    appPid,         \* app[]: pid of the server, 0: none
    proc,           \* what has become of each process
    modelOf,        \* the model a process was forked for
    sigchld,        \* SIGCHLDs in the pipe
    hangups,        \* SIGHUPs so far; hup: one is in the pipe
    hup,
    rescan,         \* rescan
    exited          \* has the daemon left its loop?

daemonVars == <<actives, modelChanged, changes, appPid, proc, modelOf, sigchld,
                hangups, hup, rescan, exited>>
kernelSide == <<actives, modelChanged, changes>>
signals == <<sigchld, hangups, hup>>

AppId == 0..MaxApps - 1
Pid == 1..MaxForks
Unused == {p \in Pid : proc[p] = "unused"}
Zombies == {p \in Pid : proc[p] = "zombie"}
Children == {p \in Pid : proc[p] \in {"running", "told", "zombie"}}

DaemonInit ==
    /\ actives \in SUBSET AppId
    /\ modelChanged = FALSE /\ changes = 0
    /\ appPid = [i \in AppId |-> 0]
    /\ proc = [p \in Pid |-> "unused"]
    /\ modelOf = [p \in Pid |-> 0]
    /\ sigchld = 0 /\ hangups = 0 /\ hup = FALSE
    /\ rescan = TRUE
    /\ exited = FALSE

-----------------------------------------------------------------------------
(* The kernel, the children and the administrator                           *)

ModelChange ==
    /\ changes < MaxChanges
    /\ \E i \in AppId : actives' = IF i \in actives THEN actives \ {i}
                                                    ELSE actives \cup {i}
    /\ modelChanged' = TRUE
    /\ changes' = changes + 1
    /\ UNCHANGED <<appPid, proc, modelOf, signals, rescan, exited>>

\* A server ends, because it was told to or because its device failed.
ChildExit ==
    /\ \E p \in Pid :
          /\ proc[p] \in {"running", "told"}
          /\ proc' = [proc EXCEPT ![p] = "zombie"]
    /\ sigchld' \in {sigchld + 1} \cup {sigchld : x \in 1..sigchld}
    /\ UNCHANGED <<kernelSide, appPid, modelOf, hangups, hup, rescan, exited>>

Hangup ==
    /\ hangups < MaxHangups
    /\ hangups' = hangups + 1
    /\ hup' = TRUE
    /\ UNCHANGED <<kernelSide, appPid, proc, modelOf, sigchld, rescan, exited>>

-----------------------------------------------------------------------------
(* The daemon                                                               *)

\* "apps and app_id < MAX_APPS": the scan ends at the last active model.
Scanned == {i \in AppId : \E j \in actives : i <= j}

New == {i \in actives : appPid[i] = 0}
Gone == {i \in Scanned \ actives : appPid[i] # 0}

\* serve(): the processes forked for the new models.  Any step of it may fail;
\* the entry is then 0.
Forked(f) ==
    /\ \A i \in New : f[i] \in Unused \cup {0}
    /\ \A i, j \in New : i # j /\ f[i] # 0 => f[i] # f[j]

Rescan ==
    /\ ~exited /\ rescan
    /\ \E f \in [New -> Unused \cup {0}] :
          /\ Forked(f)
          /\ appPid' = [i \in AppId |-> IF i \in New THEN f[i]
                                     ELSE IF i \in Gone THEN 0 ELSE appPid[i]]
          /\ proc' = [p \in Pid |->
                IF \E i \in New : f[i] = p THEN "running"
                ELSE IF proc[p] = "running" /\ \E i \in Gone : appPid[i] = p
                THEN "told" ELSE proc[p]]              \* kill(SIGTERM)
          /\ modelOf' = [p \in Pid |->
                IF \E i \in New : f[i] = p THEN CHOOSE i \in New : f[i] = p
                ELSE modelOf[p]]
    /\ rescan' = FALSE
    /\ modelChanged' = FALSE
    /\ UNCHANGED <<actives, changes, signals, exited>>

\* Mistake: one SIGCHLD reaps all children that have ended.
ReapAll ==
    /\ ~exited /\ ~rescan
    /\ sigchld > 0
    /\ sigchld' = sigchld - 1
    /\ proc' = [p \in Pid |-> IF p \in Zombies THEN "reaped" ELSE proc[p]]
    /\ appPid' = [i \in AppId |-> IF appPid[i] \in Zombies THEN 0 ELSE appPid[i]]
    /\ rescan' = modelChanged
    /\ UNCHANGED <<kernelSide, modelOf, hangups, hup, exited>>

\* SIGCHLD: wait() returns some child that has ended; its entry is cleared.
Reap ==
    /\ ~exited /\ ~rescan
    /\ sigchld > 0
    /\ sigchld' = sigchld - 1
    /\ \E p \in Zombies :
          /\ proc' = [proc EXCEPT ![p] = "reaped"]
          /\ appPid' = [i \in AppId |-> IF appPid[i] = p THEN 0 ELSE appPid[i]]
    /\ rescan' = modelChanged
    /\ UNCHANGED <<kernelSide, modelOf, hangups, hup, exited>>

\* SIGHUP
Reload ==
    /\ ~exited /\ ~rescan
    /\ hup
    /\ hup' = FALSE
    /\ rescan' = TRUE
    /\ UNCHANGED <<kernelSide, appPid, proc, modelOf, sigchld, hangups, exited>>

\* Mistake: etl_main is looked at only along with a signal.
ModelEventWithSignal ==
    /\ ~exited /\ ~rescan
    /\ hup
    /\ modelChanged
    /\ rescan' = TRUE
    /\ UNCHANGED <<kernelSide, appPid, proc, modelOf, signals, exited>>

\* etl_main is readable and no signal is pending.
ModelEvent ==
    /\ ~exited /\ ~rescan
    /\ sigchld = 0 /\ ~hup
    /\ modelChanged
    /\ rescan' = TRUE
    /\ UNCHANGED <<kernelSide, appPid, proc, modelOf, signals, exited>>

\* SIGINT or SIGTERM, or select() fails.
DaemonExit ==
    /\ ~exited /\ ~rescan
    /\ exited' = TRUE
    /\ UNCHANGED <<kernelSide, appPid, proc, modelOf, signals, rescan>>

DaemonNext ==
    \/ ModelChange \/ ChildExit \/ Hangup
    \/ Rescan \/ Reap \/ Reload \/ ModelEvent \/ DaemonExit

DaemonSpec == DaemonInit /\ [][DaemonNext]_daemonVars

\* The daemon keeps running.
DaemonRuns == Rescan \/ Reap \/ Reload \/ ModelEvent
DaemonFairSpec == DaemonSpec /\ WF_daemonVars(DaemonRuns)

-----------------------------------------------------------------------------
(* Properties                                                               *)

DaemonTypeOK ==
    /\ actives \subseteq AppId /\ {modelChanged, hup, rescan, exited} \subseteq BOOLEAN
    /\ appPid \in [AppId -> 0..MaxForks] /\ modelOf \in [Pid -> AppId]
    /\ proc \in [Pid -> {"unused", "running", "told", "zombie", "reaped"}]
    /\ sigchld \in Nat

\* wait() never blocks the daemon: for every SIGCHLD in the pipe there is a child
\* to reap, although signals are lost and children reaped in any order.
WaitReturns == sigchld <= Cardinality(Zombies)

\* The table is exact: an entry is a child of that very model that has neither
\* been told to end nor been reaped, no server has two entries, and a server that
\* runs unasked has one.
TableExact ==
    /\ \A i \in AppId : appPid[i] # 0 =>
          proc[appPid[i]] \in {"running", "zombie"} /\ modelOf[appPid[i]] = i
    /\ \A p \in Pid : proc[p] = "running" => appPid[modelOf[p]] = p

\* The server of a model that has gone is told to end, however the change falls in
\* with signals, rescans and other models, unless the daemon ends or the model runs
\* again.  Models behind the last active one are not looked at: there, a server is
\* left to find out for itself.
GoneServersEnd ==
    \A i \in AppId :
        i \in Gone ~> (appPid[i] = 0 \/ i \in actives \/ i \notin Scanned \/ exited)

\* The daemon's loop in main(): its table is exact and waiting for a child never
\* blocks it, through lost signals and failed forks.
DaemonInv == DaemonTypeOK /\ WaitReturns /\ TableExact
=============================================================================
