---------------------------- MODULE MCParameters ----------------------------
(* Small instances of the parameters.                                       *)
EXTENDS Parameters, TLC

CONSTANTS p1, p2, c1, c2

\* Clients are alike; used where only invariants are checked.
Clients == Permutations(Session)

\* In shared memory p2 comes behind p1; the application has them the other way
\* round, and with something else between.
MCShmBehind == [p \in Param |-> IF p = p1 /\ p2 \in Param THEN p2 ELSE Null]
MCAppBehind == [p \in Param |-> IF p = p2 /\ p1 \in Param THEN p1 ELSE Null]

\* Nobody has read, set, saved or been told of p2.
Untouched ==
    /\ \A s \in Session :
          /\ \A x \in Part : /\ seen[s][<<p2, x>>] = Null
                             /\ <<p2, x>> \notin changed[s]
          /\ p2 \notin aic[s]
          /\ call[s] # Null /\ IsSet(s) =>
                Target(s) # p2 /\ call[s].sdo.over = {}
    /\ overrun = {}
    /\ saver = Null /\ db[p2] = Null

\* Bounds: one command for any parameter, or several that fit the first one; the
\* application ends and starts again with one client only.
Explored ==
    /\ calls <= 1 \/ (Untouched /\ \A s \in Session : aic[s] = {})
    /\ MayRestart => \/ calls <= 1 /\ sess[c2] = Null
                     \/ rtAlive /\ Untouched

MCSpec == ParamInit /\ [][ParamNext /\ Explored']_paramVars

MCFairSpec ==
    /\ MCSpec
    /\ WF_paramVars(Supervisor)
    /\ \A s \in Session :
           /\ WF_paramVars(ParamCall(s))
           /\ WF_paramVars(CollectNotices(s))
           /\ WF_paramVars(FollowNotice(s))
=============================================================================
