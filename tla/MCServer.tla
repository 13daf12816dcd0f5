------------------------------ MODULE MCServer ------------------------------
(***************************************************************************)
(* The MSR server, from its fork to its end: the shared memory the         *)
(* variables are laid out in, the tree of directories in which clients     *)
(* find them, the sessions that come and go, and the subscriptions that    *)
(* send the values.  A behaviour is one of a single component (part).      *)
(***************************************************************************)
EXTENDS ShmemLayout, Directory, MsrServer, Subscriptions

CONSTANTS s1, ch1, ch2, c1, c2

VARIABLE part

-----------------------------------------------------------------------------
(* A double, an int32 packed with a character, and three characters         *)

MCVarTypes == {[memSize |-> 8, align |-> 8], [memSize |-> 5, align |-> 4],
               [memSize |-> 3, align |-> 1]}

-----------------------------------------------------------------------------
(* Paths that name the same place, a directory and a variable at once, or   *)
(* hide what lies below; a compound                                         *)

Hide(name, tag) == [text |-> name \o "<hide>", name |-> name, tag |-> tag]

Char == [size |-> 1, fields |-> <<>>]
Pair == [size |-> 4,
         fields |-> <<[name |-> "a", type |-> Char, dim |-> <<1>>, offset |-> 0],
                      [name |-> "b", type |-> Char, dim |-> <<3>>, offset |-> 1]>>]

MCSources == {
    [path |-> <<Plain("a")>>, type |-> Char, dim |-> <<1>>],
    [path |-> <<Plain("a"), Plain("0")>>, type |-> Char, dim |-> <<2>>],
    [path |-> <<Plain("a")>>, type |-> Pair, dim |-> <<2>>],
    [path |-> <<Plain("b"), Hide("", "p"), Plain("a")>>, type |-> Char,
     dim |-> <<2, 2>>],
    [path |-> <<Plain("Taskinfo"), Hide("0", "all")>>, type |-> Char, dim |-> <<3>>]}

-----------------------------------------------------------------------------
(* Two channels of one signal                                               *)

MCSignalOf == (ch1 :> s1) @@ (ch2 :> s1)

-----------------------------------------------------------------------------
MCInit ==
    /\ part \in {"layout", "directory", "server", "subscriptions"}
    /\ LayoutInit /\ DirInit /\ ServerInit /\ SubInit
    /\ part # "server" => isActive = FALSE
    /\ part # "directory" => itemize = FALSE /\ insertRoot = Root

MCNext ==
    \/ /\ part = "layout" /\ LayoutNext
       /\ UNCHANGED <<part, dirVars, serverVars, subVars>>
    \/ /\ part = "directory" /\ DirNext
       /\ UNCHANGED <<part, layoutVars, serverVars, subVars>>
    \/ /\ part = "server" /\ ServerNext
       /\ UNCHANGED <<part, layoutVars, dirVars, subVars>>
    \/ /\ part = "subscriptions" /\ SubNext
       /\ UNCHANGED <<part, layoutVars, dirVars, serverVars>>

\* The fairness of ServerFairSpec and SubFairSpec, each while its component
\* runs
MCSpec ==
    /\ MCInit /\ [][MCNext]_<<part, layoutVars, dirVars, serverVars, subVars>>
    /\ WF_serverVars(part = "server" /\ ServerRuns)
    /\ SF_serverVars(part = "server" /\ AcceptLock)
    /\ WF_serverVars(part = "server" /\ MainRuns)
    /\ \A s \in SessionObj :
          /\ WF_serverVars(part = "server" /\ SessionRuns(s))
          /\ WF_serverVars(part = "server" /\ parent = "run" /\ RtAnswers(s))
          /\ WF_serverVars(part = "server" /\ ~isActive /\ Leave(s))
          /\ SF_serverVars(part = "server" /\ SessionClosed(s))
    /\ WF_subVars(part = "subscriptions" /\ NextFrame)
=============================================================================
