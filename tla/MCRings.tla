------------------------------ MODULE MCRings -------------------------------
(***************************************************************************)
(* The rings between a writer and readers that run at their own pace: the  *)
(* requests of the sessions to the real time task, who wait for room; the  *)
(* events and the photos of a kernel model, which wait for nobody and      *)
(* overrun their readers.  A behaviour is one of a single component (part).*)
(***************************************************************************)
EXTENDS ListRefinement, Events, BuddyPhotos, TLC

CONSTANTS s1, s2, s3, st1, st2, e1, t1, c1, c2

VARIABLE part

\* Three signals in one copy list: only from three on does it matter which one
\* fills the gap of a removed signal.
MCWidthOf == (s1 :> 0) @@ (s2 :> 0) @@ (s3 :> 0)

MCOwner == (e1 :> t1)

MCInit ==
    /\ part \in {"requests", "events", "photos"}
    /\ ListInit /\ EventInit /\ PhotoInit
    /\ part # "photos" => taken = 0 /\ valueBuf = 0

MCNext ==
    \/ part = "requests" /\ ListNext /\ UNCHANGED <<part, eventVars, photoVars>>
    \/ part = "events" /\ EventNext /\ UNCHANGED <<part, listVars, photoVars>>
    \/ part = "photos" /\ PhotoNext /\ UNCHANGED <<part, listVars, eventVars>>

\* The fairness of ListFairSpec, while the request list runs
MCSpec ==
    /\ MCInit /\ [][MCNext]_<<part, listVars, eventVars, photoVars>>
    /\ WF_listVars(part = "requests" /\ ProcessRequest)
    /\ WF_listVars(part = "requests" /\ ReleaseSlot)
    /\ WF_listVars(part = "requests" /\ SubscribeCall)
=============================================================================
