---------------------------- MODULE SessionStream ---------------------------
(***************************************************************************)
(* The byte stream of one session: the put area of the std::streambuf      *)
(* PdServ::Session, written by xsputn(), emptied by flush() in clear text  *)
(* or through GnuTLS, and the way from one to the other: <starttls>, the   *)
(* handshake in xsgetn() and the verification of the client.               *)
(*                                                                         *)
(* The characters a session writes are numbered 1, 2, ... in the order it  *)
(* writes them.  The session's thread is the only one that touches this    *)
(* state; what interleaves with it is the network, whose answers are       *)
(* chosen freely at every call.                                            *)
(***************************************************************************)
EXTENDS Integers, Sequences, SequencesExt

CONSTANTS
    BufSize,        \* bufsize, the length of the put area
    MaxPut,         \* bound: characters of one element
    MaxChars,       \* bound: characters of a session
    Configs,        \* configurations: is there a section tls, its lists ca and crl
    Chains,         \* certificate chains clients present, the signer last
    Unreadable      \* certificates GnuTLS cannot import

ASSUME SessionStreamAssumption ==
    /\ BufSize \in Nat \ {0}
    /\ MaxPut \in Nat \ {0}
    /\ MaxChars \in Nat
    /\ \A c \in Configs : c.tls \in BOOLEAN /\ DOMAIN c.lists \subseteq {"ca", "crl"}

VARIABLES
    config,         \* the configuration of the process
    chain,          \* the certificates this client presents
    tls,            \* state: "NoTLS", "InitTLS", "RunTLS"
    eof,            \* p_eof
    outbuf,         \* the characters from pbase() to pptr()
    put,            \* number of characters written so far
    todo,           \* characters xsputn() has yet to copy
    good,           \* xmlstream.good()
    record,         \* what GnuTLS keeps of a send it could not finish
    wire,           \* what the client has received: character, encrypted?
    reply,          \* the number of the <tls> reply that TLS begins with, 0 before
    pc, next        \* where the session's thread is; where flush() returns to

streamSessVars == <<config, chain, tls, eof, outbuf, put, todo, good, record,
                    wire, reply, pc, next>>

-----------------------------------------------------------------------------

Numbers(a, b) == [i \in 1..b - a + 1 |-> a + i - 1]

SessInit ==
    /\ config \in Configs
    /\ chain \in Chains
    /\ tls = "NoTLS"
    /\ eof = FALSE /\ good = TRUE
    /\ outbuf = <<>> /\ record = <<>> /\ wire = <<>>
    /\ put = 0 /\ todo = 0 /\ reply = 0
    /\ pc = "setup" /\ next = "work"

Goto(where) == pc' = where

-----------------------------------------------------------------------------
(* Configuration.  An item of the lists ca and crl is a set of files: one   *)
(* file, or what is found in a directory and those below it.  A file is     *)
(* [file, loads, cert]: it names a certificate to trust, a CRL that revokes *)
(* it, or, being no file with contents, only the id of its key; GnuTLS may  *)
(* be unable to load it, which is only warned about.                        *)

\* The files of a list, all directories searched
ConfigFiles(list) == IF list \in DOMAIN config.lists THEN UNION config.lists[list] ELSE {}

\* A list that is configured turns the verification of clients on, even an
\* empty one.
verifyClient == config.lists # <<>>

\* The certificates GnuTLS is to trust
TrustList == {c.cert : c \in {f \in ConfigFiles("ca") : f.file /\ f.loads}}

\* What is no file with contents names a key id.
blacklist == {c.cert : c \in {f \in ConfigFiles("crl") : ~f.file}}

\* What is one goes to GnuTLS, if it can be loaded.
Revoked == {c.cert : c \in {f \in ConfigFiles("crl") : f.file /\ f.loads}}

\* gnutls_certificate_verify_peers2()
VerifyPeers(certs) ==
    /\ Last(certs) \in TrustList
    /\ Range(certs) \cap Revoked = {}

\* gnutls_verify_client()
VerifyClient(certs) ==
    /\ certs # <<>>
    /\ Range(certs) \cap (blacklist \cup Unreadable) = {}
    /\ VerifyPeers(certs)

\* The settings of a session with which a handshake can succeed: there are
\* credentials, and the client is asked for its certificates if need be.
InitTlsSessionData == config.tls /\ (verifyClient => VerifyClient(chain))

\* setupTLS() has nothing to do, or every call succeeds; the server starts, and
\* Session::initial() greets the client.
SetupTLS ==
    /\ pc = "setup"
    /\ Goto("work")
    /\ UNCHANGED <<config, chain, tls, eof, outbuf, put, todo, good, record, wire,
                   reply, next>>

\* GnuTLS, the DH parameters, the priority string or the key of the server
\* fail: startServers() returns and no server ever listens.
SetupFails ==
    /\ pc = "setup" /\ config.tls
    /\ Goto("refused")
    /\ UNCHANGED <<config, chain, tls, eof, outbuf, put, todo, good, record, wire,
                   reply, next>>

-----------------------------------------------------------------------------
(* Writing                                                                  *)

\* An element is written to xmlstream, which ignores it once it is bad.
Element(n, where) ==
    /\ put + n <= MaxChars
    /\ IF good THEN todo' = n /\ next' = where /\ Goto("copy")
               ELSE Goto(where) /\ UNCHANGED <<todo, next>>

\* xsputn(): as much as fits goes into the buffer; a full buffer is flushed.
Copy ==
    LET n == IF todo < BufSize - Len(outbuf) THEN todo ELSE BufSize - Len(outbuf)
    IN  /\ pc = "copy"
        /\ outbuf' = outbuf \o Numbers(put + 1, put + n)
        /\ put' = put + n
        /\ todo' = todo - n
        /\ Goto(IF Len(outbuf) + n = BufSize THEN "flush" ELSE next)
        /\ UNCHANGED <<config, chain, tls, eof, good, record, wire, reply, next>>

\* xsputn() after flush(true): it goes on unless the stream is at its end; what
\* it did not take makes xmlstream bad.
AfterPartial(failed) ==
    /\ Goto(IF failed \/ todo = 0 THEN next ELSE "copy")
    /\ todo' = IF failed THEN 0 ELSE todo
    /\ good' = (good /\ ~(failed /\ todo > 0))

\* sync() after flush(false); a failure makes xmlstream bad, unless it is
\* xsgetn() that calls sync().
AfterSync(failed, done) ==
    /\ Goto(IF done THEN next ELSE "sync")
    /\ good' = (good /\ ~(failed /\ next # "handshaken"))
    /\ UNCHANGED todo

AfterFlush(failed, done) ==
    IF pc = "flush" THEN AfterPartial(failed) ELSE AfterSync(failed, done)

\* Mistake: what is left is not moved to the start of the buffer.
RemainAll(n) == outbuf

\* What is left is copied to the start of the buffer.
Remain(n) == SubSeq(outbuf, n + 1, Len(outbuf))

\* flush() with nothing to do
FlushNothing ==
    /\ pc \in {"flush", "sync"}
    /\ eof \/ outbuf = <<>>
    /\ AfterFlush(eof, TRUE)
    /\ UNCHANGED <<config, chain, tls, eof, outbuf, put, record, wire, reply, next>>

\* write() takes n characters.
FlushClear ==
    /\ pc \in {"flush", "sync"} /\ ~eof /\ outbuf # <<>>
    /\ tls = "NoTLS"
    /\ \E n \in 1..Len(outbuf) :
          /\ wire' = wire \o [i \in 1..n |-> <<outbuf[i], FALSE>>]
          /\ outbuf' = Remain(n)
          /\ AfterFlush(FALSE, n = Len(outbuf))
    /\ UNCHANGED <<config, chain, tls, eof, put, record, reply, next>>

\* gnutls_record_send() sends a record, or the rest of one it kept, whose length
\* it returns whatever it is called with now.
FlushRecord ==
    /\ pc \in {"flush", "sync"} /\ ~eof /\ outbuf # <<>>
    /\ tls = "RunTLS"
    /\ \E r \in IF record # <<>> THEN {record}
                ELSE {SubSeq(outbuf, 1, n) : n \in 1..Len(outbuf)} :
          /\ wire' = wire \o [i \in DOMAIN r |-> <<r[i], TRUE>>]
          /\ outbuf' = Remain(Len(r))
          /\ AfterFlush(FALSE, Len(r) = Len(outbuf))
    /\ record' = <<>>
    /\ UNCHANGED <<config, chain, tls, eof, put, reply, next>>

\* The network takes nothing now (EAGAIN, EINTR, GNUTLS_E_AGAIN); GnuTLS keeps
\* the record it was given.
FlushAgain ==
    /\ pc \in {"flush", "sync"} /\ ~eof /\ outbuf # <<>>
    /\ tls # "InitTLS"
    /\ IF tls = "RunTLS" /\ record = <<>>
       THEN \E n \in 1..Len(outbuf) : record' = SubSeq(outbuf, 1, n)
       ELSE UNCHANGED record
    /\ AfterFlush(FALSE, TRUE)
    /\ UNCHANGED <<config, chain, tls, eof, outbuf, put, wire, reply, next>>

\* The connection is closed or broken.
FlushFatal ==
    /\ pc \in {"flush", "sync"} /\ ~eof /\ outbuf # <<>>
    /\ tls # "InitTLS"
    /\ eof' = TRUE
    /\ AfterFlush(TRUE, TRUE)
    /\ UNCHANGED <<config, chain, tls, outbuf, put, record, wire, reply, next>>

\* flush() during the handshake: sync() is ignored; a full buffer is -ENOSPC,
\* which has the value of GNUTLS_E_AGAIN: gnutls_error_is_fatal() is false.
FlushHandshake ==
    /\ pc \in {"flush", "sync"} /\ ~eof /\ outbuf # <<>>
    /\ tls = "InitTLS"
    /\ AfterFlush(FALSE, TRUE)
    /\ UNCHANGED <<config, chain, tls, eof, outbuf, put, record, wire, reply, next>>

-----------------------------------------------------------------------------
(* Session::run()                                                           *)

\* Mistake: output waits until the buffer is full.
TopNoFlush ==
    /\ pc = "top"
    /\ Goto(IF good THEN "input" ELSE "closed")
    /\ UNCHANGED <<config, chain, tls, eof, outbuf, put, todo, good, record, wire,
                   reply, next>>

\* The top of the loop: end on a bad stream, else flush.
Top ==
    /\ pc = "top"
    /\ IF good THEN Goto("sync") /\ next' = "input"
               ELSE Goto("closed") /\ UNCHANGED next
    /\ UNCHANGED <<config, chain, tls, eof, outbuf, put, todo, good, record, wire, reply>>

\* Nothing is pending, or read() and gnutls_record_recv() return data or EAGAIN,
\* or the handshake goes on.
Input ==
    /\ pc = "input"
    /\ Goto("work")
    /\ UNCHANGED <<config, chain, tls, eof, outbuf, put, todo, good, record, wire,
                   reply, next>>

\* The client has gone or there is an error; a handshake may fail for any reason.
InputEof ==
    /\ pc = "input"
    /\ eof' = TRUE
    /\ Goto("closed")
    /\ UNCHANGED <<config, chain, tls, outbuf, put, todo, good, record, wire,
                   reply, next>>

\* gnutls_handshake() succeeds: what was held back is sent.
Handshake ==
    /\ pc = "input"
    /\ tls = "InitTLS"
    /\ InitTlsSessionData
    /\ tls' = "RunTLS"
    /\ Goto("sync") /\ next' = "handshaken"
    /\ UNCHANGED <<config, chain, eof, outbuf, put, todo, good, record, wire, reply>>

Handshaken ==
    /\ pc = "handshaken"
    /\ Goto(IF eof THEN "closed" ELSE "work")
    /\ UNCHANGED <<config, chain, tls, eof, outbuf, put, todo, good, record, wire,
                   reply, next>>

\* Answers, notices and process data
Write ==
    /\ pc = "work"
    /\ \E n \in 1..MaxPut : Element(n, "work")
    /\ UNCHANGED <<config, chain, tls, eof, outbuf, put, good, record, wire, reply>>

\* <starttls>, at any time and any number of times: the reply is written and
\* flushed, in the way of the state the session is in.
StartTLS ==
    /\ pc = "work"
    /\ reply' = IF tls = "NoTLS" THEN put + 1 ELSE reply
    /\ Element(1, "replied")
    /\ UNCHANGED <<config, chain, tls, eof, outbuf, put, good, record, wire>>

StartTLSFlush ==
    /\ pc = "replied"
    /\ Goto("sync") /\ next' = "starttls"
    /\ UNCHANGED <<config, chain, tls, eof, outbuf, put, todo, good, record, wire, reply>>

\* PdServ::Session::startTLS(): a new TLS session replaces the one there may have
\* been, and what that one kept is gone with it.
StartTLSInit ==
    /\ pc = "starttls"
    /\ tls' = "InitTLS"
    /\ record' = <<>>
    /\ Goto("work")
    /\ UNCHANGED <<config, chain, eof, outbuf, put, todo, good, wire, reply, next>>

\* gnutls_init() fails, or the program was built without GnuTLS.  Nobody looks at
\* the result, and the session goes on as before: in clear text, if it was.  If it
\* was not, the pointer to its TLS session may have been lost, with which the next
\* call of GnuTLS ends the process.
StartTLSFails ==
    /\ pc = "starttls"
    /\ \E where \in {"work"} \cup (IF tls = "NoTLS" THEN {} ELSE {"crashed"}) :
          Goto(where)
    /\ UNCHANGED <<config, chain, tls, eof, outbuf, put, todo, good, record, wire,
                   reply, next>>

WorkDone ==
    /\ pc = "work"
    /\ Goto("top")
    /\ UNCHANGED <<config, chain, tls, eof, outbuf, put, todo, good, record, wire,
                   reply, next>>

SessNext ==
    \/ SetupTLS \/ SetupFails \/ Copy
    \/ FlushNothing \/ FlushClear \/ FlushRecord \/ FlushAgain \/ FlushFatal
    \/ FlushHandshake \/ Top \/ Input \/ InputEof \/ Handshake \/ Handshaken \/ Write
    \/ StartTLS \/ StartTLSFlush \/ StartTLSInit \/ StartTLSFails \/ WorkDone

\* flush() gets rid of something, or gives up.
FlushSent == FlushClear \/ FlushRecord \/ FlushFatal

SessSpec == SessInit /\ [][SessNext]_streamSessVars

\* The thread runs, and a network that is offered output again and again takes
\* some of it or fails.
SessFairSpec ==
    /\ SessSpec
    /\ WF_streamSessVars(SessNext)
    /\ WF_streamSessVars(WorkDone)
    /\ SF_streamSessVars(FlushSent)

-----------------------------------------------------------------------------
(* Properties                                                               *)

SessTypeOK ==
    /\ config \in Configs /\ chain \in Chains
    /\ tls \in {"NoTLS", "InitTLS", "RunTLS"}
    /\ {eof, good} \subseteq BOOLEAN
    /\ put \in 0..MaxChars /\ todo \in 0..MaxPut /\ reply \in 0..MaxChars
    /\ outbuf \in Seq(1..MaxChars) /\ Len(outbuf) <= BufSize
    /\ record \in Seq(1..MaxChars) /\ wire \in Seq((1..MaxChars) \X BOOLEAN)
    /\ pc \in {"copy", "flush", "sync", "top", "input", "handshaken", "work",
               "replied", "starttls", "closed", "setup", "refused", "crashed"}
    /\ next \in {"input", "handshaken", "work", "replied", "starttls"}

\* What the client has received and what is in the buffer is what was written,
\* each character once and in order, however the network cuts it up and whichever
\* record GnuTLS sends again.
OutputInOrder ==
    /\ [i \in DOMAIN wire |-> wire[i][1]] \o outbuf = Numbers(1, put)
    /\ IsPrefix(record, outbuf)

\* Once TLS has begun, nothing written behind the reply it began with leaves or has
\* left in clear text.  Until then everything does, also behind the reply of a
\* <starttls> that failed.
ClearBeforeReply ==
    tls # "NoTLS" => \A i \in DOMAIN wire : wire[i][1] > reply => wire[i][2]

\* Everything written reaches the client or the connection ends, except that a
\* handshake may be under way for ever and that the process may crash.
OutputDelivered ==
    \A k \in 1..MaxChars :
        put >= k ~> (Len(wire) >= k \/ eof \/ tls = "InitTLS" \/ pc = "crashed")

\* xsputn() and sync() return to where they were called; characters are left to
\* copy in xsputn() only, and what is left fits into the session.
FlushReturns ==
    /\ pc \in {"copy", "flush"} => next \in {"work", "replied"}
    /\ pc = "sync" => next \in {"input", "handshaken", "starttls"}
    /\ pc \notin {"copy", "flush"} => todo = 0
    /\ put + todo <= MaxChars

\* From <starttls> to Session::startTLS()
Replying ==
    \/ pc \in {"copy", "flush"} /\ next = "replied"
    \/ pc = "sync" /\ next = "starttls"
    \/ pc \in {"replied", "starttls"}

\* Until a session in clear text begins TLS it writes its reply and no more.
ReplyAlone ==
    tls = "NoTLS" /\ Replying => reply # 0 /\ put + todo <= reply

\* Nothing is encrypted before a <starttls>, GnuTLS keeps a record of the present
\* TLS session only, and a client that got something encrypted passed the
\* verification, however often it started TLS.
HandshakeFirst ==
    /\ tls = "NoTLS" => \A i \in DOMAIN wire : ~wire[i][2]
    /\ tls # "NoTLS" => reply # 0
    /\ tls # "RunTLS" => record = <<>>
    /\ tls = "RunTLS" \/ (\E i \in DOMAIN wire : wire[i][2]) => InitTlsSessionData

\* The output of Session.cpp: in order, once, and never in clear text behind the
\* reply TLS began with.
OutputInv ==
    /\ SessTypeOK /\ OutputInOrder /\ ClearBeforeReply
    /\ FlushReturns /\ ReplyAlone /\ HandshakeFirst
=============================================================================
