----------------------------- MODULE MCSession ------------------------------
(***************************************************************************)
(* What a session of the MSR protocol works with: the events it is sent,   *)
(* the parser of its commands, the stream to the client and the cache of   *)
(* TLS sessions.  Session::run calls them one after the other and none of  *)
(* them looks into another.  Beside them the daemon that starts a server   *)
(* for each kernel model.  A behaviour is one of a single component (part).*)
(***************************************************************************)
EXTENDS Events, MCXmlParser, SessionStream, TlsSessionDB, BuddyDaemon

CONSTANTS e1, e2, t1, t2, c1, own, odd, old, bad, root

VARIABLE part

-----------------------------------------------------------------------------
(* Two elements of events, each set by a thread of its own; TLS without and *)
(* with verification, a CRL that loads and one that does not; chains with a *)
(* revoked, blacklisted or unreadable certificate                           *)

MCOwner == (e1 :> t1) @@ (e2 :> t2)

MCNoTLS == [tls |-> FALSE, lists |-> <<>>]
MCConfigs == {
    MCNoTLS,
    [tls |-> TRUE, lists |-> <<>>],
    [tls |-> TRUE, lists |-> [
        ca  |-> {{[file |-> TRUE, loads |-> TRUE, cert |-> root]}},
        crl |-> {{[file |-> TRUE, loads |-> TRUE, cert |-> old],
                  [file |-> TRUE, loads |-> FALSE, cert |-> own],
                  [file |-> FALSE, loads |-> FALSE, cert |-> bad]}}]]}
MCChains == {<<own>>, <<own, root>>, <<own, bad, root>>, <<old, root>>, <<odd, root>>}

-----------------------------------------------------------------------------
MCInit ==
    /\ part \in {"events", "parser", "stream", "cache", "daemon"}
    /\ EventInit /\ ParserInit /\ SessInit /\ DbInit /\ DaemonInit
    /\ part # "parser" => input = Short \o Long
    /\ part # "stream" => config = MCNoTLS
    /\ part # "daemon" => actives = {}
    /\ config.lists = <<>> => chain = <<own>>

MCNext ==
    \/ /\ part = "events" /\ EventNext
       /\ UNCHANGED <<part, parserVars, streamSessVars, dbVars, daemonVars>>
    \/ /\ part = "parser" /\ ParserNext
       /\ UNCHANGED <<part, eventVars, streamSessVars, dbVars, daemonVars>>
    \/ /\ part = "stream" /\ SessNext
       /\ UNCHANGED <<part, eventVars, parserVars, dbVars, daemonVars>>
    \/ /\ part = "cache" /\ DbNext
       /\ UNCHANGED <<part, eventVars, parserVars, streamSessVars, daemonVars>>
    \/ /\ part = "daemon" /\ DaemonNext
       /\ UNCHANGED <<part, eventVars, parserVars, streamSessVars, dbVars>>

\* The fairness of EventFairSpec, SessFairSpec and DaemonFairSpec, each while
\* its component runs
MCSpec ==
    /\ MCInit
    /\ [][MCNext]_<<part, eventVars, parserVars, streamSessVars, dbVars, daemonVars>>
    /\ \A t \in Thread : WF_eventVars(part = "events" /\ MovePtr(t))
    /\ WF_eventVars(part = "events" /\ MainLoop)
    /\ \A s \in Session : WF_eventVars(part = "events" /\ SessionLoop(s))
    /\ WF_streamSessVars(part = "stream" /\ SessNext)
    /\ WF_streamSessVars(part = "stream" /\ WorkDone)
    /\ SF_streamSessVars(part = "stream" /\ FlushSent)
    /\ WF_daemonVars(part = "daemon" /\ DaemonRuns)
=============================================================================
