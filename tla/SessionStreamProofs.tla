------------------------- MODULE SessionStreamProofs -------------------------
(***************************************************************************)
(* Proofs about the byte stream of a session, for every size of the put    *)
(* area, every configuration and every chain of certificates, however the  *)
(* network cuts up what it is given; about the cache of TLS sessions; and  *)
(* about the buffer of the parser, for every text the client may send.     *)
(***************************************************************************)
EXTENDS SessionStream, TlsSessionDB, XmlParser, FiniteSetTheorems,
        SequenceTheorems, WellFoundedInduction, TLAPS

Chars == 1..MaxChars
Sent  == Chars \X BOOLEAN

(* Sequences of characters *)

\* The characters xsputn() copies in one go.
LEMMA NumbersFrom ==
  ASSUME NEW a \in Nat, NEW n \in Nat, a + n <= MaxChars
  PROVE  /\ Numbers(a + 1, a + n) \in Seq(Chars)
         /\ Len(Numbers(a + 1, a + n)) = n
         /\ \A i \in 1..n : Numbers(a + 1, a + n)[i] = a + i
  <1>1. Numbers(a + 1, a + n) = [i \in 1..n |-> a + i]
    BY DEF Numbers
  <1>2. \A i \in 1..n : a + i \in Chars
    BY SessionStreamAssumption DEF Chars
  <1> QED  BY <1>1, <1>2

\* What the client w has, what the buffer o and GnuTLS r hold, place by place,
\* when p characters were written.
InPlace(w, o, r, p) ==
    /\ p = Len(w) + Len(o)
    /\ \A i \in 1..Len(w) : w[i][1] = i
    /\ \A i \in 1..Len(o) : o[i] = Len(w) + i
    /\ Len(r) <= Len(o)
    /\ \A i \in 1..Len(r) : r[i] = o[i]

\* OutputInOrder place by place.
LEMMA OrderByPlace ==
  ASSUME NEW w \in Seq(Sent), NEW o \in Seq(Chars), NEW r \in Seq(Chars),
         NEW p \in Nat
  PROVE  InPlace(w, o, r, p) <=>
             /\ [i \in DOMAIN w |-> w[i][1]] \o o = Numbers(1, p)
             /\ IsPrefix(r, o)
  <1> DEFINE f == [i \in DOMAIN w |-> w[i][1]]
  <1>1. /\ DOMAIN w = 1..Len(w) /\ Len(w) \in Nat /\ Len(o) \in Nat
        /\ f \in Seq(Chars) /\ Len(f) = Len(w)
        /\ \A i \in 1..Len(w) : f[i] = w[i][1]
    BY DEF Sent
  <1>2. Numbers(1, p) = [i \in 1..p |-> i]
    BY DEF Numbers
  <1> HIDE DEF f
  <1>3. PICK c : /\ c = f \o o
                 /\ c \in Seq(Chars)
                 /\ Len(c) = Len(f) + Len(o)
                 /\ \A i \in 1..Len(f) + Len(o) :
                        c[i] = IF i <= Len(f) THEN f[i] ELSE o[i - Len(f)]
    <2>1. f \in Seq(Chars)
      BY <1>1
    <2>2. /\ f \o o \in Seq(Chars)
          /\ Len(f \o o) = Len(f) + Len(o)
          /\ \A i \in 1..Len(f) + Len(o) :
                 (f \o o)[i] = IF i <= Len(f) THEN f[i] ELSE o[i - Len(f)]
      BY <2>1, ConcatProperties, Zenon
    <2> QED  BY <2>2, Zenon
  <1>4. IsPrefix(r, o) <=> Len(r) <= Len(o) /\ \A i \in 1..Len(r) : r[i] = o[i]
    BY DEF IsPrefix
  <1>5. ASSUME c = Numbers(1, p)
        PROVE  /\ p = Len(w) + Len(o)
               /\ \A i \in 1..Len(w) : w[i][1] = i
               /\ \A i \in 1..Len(o) : o[i] = Len(w) + i
    <2>1. Len(c) = p
      BY <1>2, <1>5
    <2>2. Len(w) + Len(o) = p
      BY <1>1, <1>3, <2>1
    <2>3. \A i \in 1..p : c[i] = i
      BY <1>2, <1>5
    <2>4. ASSUME NEW i \in 1..Len(o) PROVE o[i] = Len(w) + i
      <3>1. Len(w) + i \in 1..p /\ ~(Len(w) + i <= Len(w))
        BY <1>1, <2>2
      <3>2. c[Len(w) + i] = o[(Len(w) + i) - Len(w)]
        BY <1>1, <1>3, <2>2, <3>1
      <3>3. (Len(w) + i) - Len(w) = i
        BY <1>1
      <3> QED  BY <2>3, <3>1, <3>2, <3>3
    <2>5. ASSUME NEW i \in 1..Len(w) PROVE w[i][1] = i
      <3>1. i \in 1..p /\ i <= Len(w)
        BY <1>1, <2>2
      <3>2. c[i] = f[i]
        BY <1>1, <1>3, <2>2, <3>1
      <3> QED  BY <1>1, <2>3, <3>1, <3>2
    <2> QED  BY <2>2, <2>4, <2>5
  <1>6. ASSUME p = Len(w) + Len(o),
               \A i \in 1..Len(w) : w[i][1] = i,
               \A i \in 1..Len(o) : o[i] = Len(w) + i
        PROVE  c = Numbers(1, p)
    <2>1. ASSUME NEW i \in 1..p PROVE c[i] = i
      <3>1. CASE i <= Len(w)
        <4>1. i \in 1..Len(w)
          BY <1>1, <3>1
        <4>2. c[i] = f[i]
          BY <1>1, <1>3, <1>6, <3>1
        <4> QED  BY <1>1, <1>6, <4>1, <4>2
      <3>2. CASE ~(i <= Len(w))
        <4>1. i - Len(w) \in 1..Len(o)
          BY <1>1, <1>6, <3>2
        <4>2. c[i] = o[i - Len(w)]
          BY <1>1, <1>3, <1>6, <3>2
        <4>3. o[i - Len(w)] = Len(w) + (i - Len(w))
          BY <1>6, <4>1
        <4> QED  BY <1>1, <4>2, <4>3
      <3> QED  BY <3>1, <3>2
    <2>2. Len(c) = p
      BY <1>1, <1>3, <1>6
    <2>3. c \in Seq(Chars)
      BY <1>3
    <2> QED  BY <1>2, <2>1, <2>2, <2>3
  <1> QED  BY <1>3, <1>4, <1>5, <1>6, Zenon DEF InPlace, f

\* xsputn() adds characters to the end of the buffer.
LEMMA PlacesCopied ==
  ASSUME NEW w \in Seq(Sent), NEW o \in Seq(Chars), NEW r \in Seq(Chars),
         NEW p \in Nat, InPlace(w, o, r, p), NEW n \in Nat, p + n <= MaxChars
  PROVE  /\ o \o Numbers(p + 1, p + n) \in Seq(Chars)
         /\ Len(o \o Numbers(p + 1, p + n)) = Len(o) + n
         /\ InPlace(w, o \o Numbers(p + 1, p + n), r, p + n)
  <1>1. PICK m \in Seq(Chars) : /\ m = Numbers(p + 1, p + n)
                                /\ Len(m) = n
                                /\ \A i \in 1..n : m[i] = p + i
    BY NumbersFrom
  <1>2. PICK c : /\ c = o \o m
                 /\ c \in Seq(Chars)
                 /\ Len(c) = Len(o) + Len(m)
                 /\ \A i \in 1..Len(o) + Len(m) :
                        c[i] = IF i <= Len(o) THEN o[i] ELSE m[i - Len(o)]
    <2>1. /\ o \o m \in Seq(Chars)
          /\ Len(o \o m) = Len(o) + Len(m)
          /\ \A i \in 1..Len(o) + Len(m) :
                 (o \o m)[i] = IF i <= Len(o) THEN o[i] ELSE m[i - Len(o)]
      BY ConcatProperties, Zenon
    <2> QED  BY <2>1, Zenon
  <1>3. Len(w) \in Nat /\ Len(o) \in Nat /\ Len(r) \in Nat
    OBVIOUS
  <1>4. /\ c \in Seq(Chars)
        /\ Len(c) = Len(o) + n
        /\ \A i \in 1..Len(o) + n :
               c[i] = IF i <= Len(o) THEN o[i] ELSE m[i - Len(o)]
    BY <1>1, <1>2
  <1>5. ASSUME NEW i \in 1..Len(o) + n PROVE c[i] = Len(w) + i
    <2>1. CASE i <= Len(o)
      BY <1>3, <1>4, <2>1 DEF InPlace
    <2>2. CASE ~(i <= Len(o))
      <3>1. i - Len(o) \in 1..n /\ i \in Nat
        BY <1>3, <2>2
      <3>2. c[i] = p + (i - Len(o))
        BY <1>1, <1>4, <2>2, <3>1
      <3> QED  BY <1>3, <3>1, <3>2 DEF InPlace
    <2> QED  BY <2>1, <2>2
  <1>6. InPlace(w, c, r, p + n)
    BY <1>3, <1>4, <1>5 DEF InPlace
  <1> QED  BY <1>1, <1>2, <1>4, <1>6, Zenon

\* The client has c and the buffer q left, once n characters of o went to a client
\* that had w, encrypted or not.
Taken(w, o, n, e, c, q) ==
    /\ Len(c) = Len(w) + n
    /\ \A i \in 1..Len(w) : c[i] = w[i]
    /\ \A i \in 1..n : c[Len(w) + i] = <<o[i], e>>
    /\ Len(q) = Len(o) - n
    /\ \A i \in 1..Len(o) - n : q[i] = o[n + i]

\* The sequences after write() or gnutls_record_send() took n characters.
LEMMA SentSequences ==
  ASSUME NEW w \in Seq(Sent), NEW o \in Seq(Chars), NEW n \in 1..Len(o),
         NEW e \in BOOLEAN
  PROVE  \E c \in Seq(Sent), q \in Seq(Chars) :
            /\ c = w \o [i \in 1..n |-> <<o[i], e>>]
            /\ q = SubSeq(o, n + 1, Len(o))
            /\ Taken(w, o, n, e, c, q)
  <1>1. Len(w) \in Nat /\ Len(o) \in Nat /\ n \in Nat /\ n <= Len(o)
    OBVIOUS
  <1>2. PICK s \in Seq(Sent) : /\ s = [i \in 1..n |-> <<o[i], e>>]
                               /\ Len(s) = n
                               /\ \A i \in 1..n : s[i] = <<o[i], e>>
    <2>1. \A i \in 1..n : <<o[i], e>> \in Sent
      BY <1>1 DEF Sent
    <2> DEFINE t == [i \in 1..n |-> <<o[i], e>>]
    <2>2. t \in [1..n -> Sent] /\ \A i \in 1..n : t[i] = <<o[i], e>>
      BY <2>1, Zenon
    <2>3. t \in Seq(Sent) /\ Len(t) = n
      <3> HIDE DEF t
      <3> QED  BY <1>1, <2>2
    <2> QED  BY <2>2, <2>3, Zenon
  <1>3. PICK c : /\ c = w \o s
                 /\ c \in Seq(Sent)
                 /\ Len(c) = Len(w) + Len(s)
                 /\ \A i \in 1..Len(w) + Len(s) :
                        c[i] = IF i <= Len(w) THEN w[i] ELSE s[i - Len(w)]
    <2>1. /\ w \o s \in Seq(Sent)
          /\ Len(w \o s) = Len(w) + Len(s)
          /\ \A i \in 1..Len(w) + Len(s) :
                 (w \o s)[i] = IF i <= Len(w) THEN w[i] ELSE s[i - Len(w)]
      BY ConcatProperties, Zenon
    <2> QED  BY <2>1, Zenon
  <1>4. /\ Len(c) = Len(w) + n
        /\ \A i \in 1..Len(w) : c[i] = w[i]
        /\ \A i \in 1..n : c[Len(w) + i] = <<o[i], e>>
    <2>1. /\ Len(c) = Len(w) + n
          /\ \A i \in 1..Len(w) + n :
                 c[i] = IF i <= Len(w) THEN w[i] ELSE s[i - Len(w)]
      BY <1>2, <1>3
    <2>2. ASSUME NEW i \in 1..Len(w) PROVE c[i] = w[i]
      <3>1. i \in 1..Len(w) + n /\ i <= Len(w)
        BY <1>1
      <3> QED  BY <2>1, <3>1
    <2>3. ASSUME NEW i \in 1..n PROVE c[Len(w) + i] = <<o[i], e>>
      <3>1. /\ Len(w) + i \in 1..Len(w) + n
            /\ ~(Len(w) + i <= Len(w))
            /\ (Len(w) + i) - Len(w) = i
        BY <1>1
      <3>2. c[Len(w) + i] = s[i]
        BY <2>1, <3>1
      <3> QED  BY <1>2, <3>2, Zenon
    <2> QED  BY <2>1, <2>2, <2>3
  <1>5. PICK q : /\ q = SubSeq(o, n + 1, Len(o))
                 /\ q \in Seq(Chars)
                 /\ Len(q) = Len(o) - n
                 /\ \A i \in 1..Len(o) - n : q[i] = o[n + i]
    <2>1. /\ \A i \in n + 1..Len(o) : o[i] \in Chars
          /\ n + 1 \in Int /\ Len(o) \in Int
      BY <1>1
    <2>2. /\ SubSeq(o, n + 1, Len(o)) \in Seq(Chars)
          /\ Len(SubSeq(o, n + 1, Len(o))) =
                 IF n + 1 <= Len(o) THEN Len(o) - (n + 1) + 1 ELSE 0
          /\ \A i \in 1..Len(o) - (n + 1) + 1 :
                 SubSeq(o, n + 1, Len(o))[i] = o[n + 1 + i - 1]
      BY <2>1, SubSeqProperties
    <2>3. PICK q : /\ q = SubSeq(o, n + 1, Len(o))
                   /\ q \in Seq(Chars)
                   /\ Len(q) = IF n + 1 <= Len(o) THEN Len(o) - (n + 1) + 1 ELSE 0
                   /\ \A i \in 1..Len(o) - (n + 1) + 1 : q[i] = o[n + 1 + i - 1]
      BY <2>2, Zenon
    <2>4. Len(q) = Len(o) - n
      BY <1>1, <2>3
    <2>5. ASSUME NEW i \in 1..Len(o) - n PROVE q[i] = o[n + i]
      <3>1. i \in 1..Len(o) - (n + 1) + 1 /\ n + 1 + i - 1 = n + i
        BY <1>1
      <3> QED  BY <2>3, <3>1, Zenon
    <2> QED  BY <2>3, <2>4, <2>5, Zenon
  <1>6. Taken(w, o, n, e, c, q)
    BY <1>4, <1>5, Zenon DEF Taken
  <1> QED  BY <1>2, <1>3, <1>5, <1>6, Zenon

\* The places after n characters were taken.
LEMMA PlacesSent ==
  ASSUME NEW w \in Seq(Sent), NEW o \in Seq(Chars), NEW r \in Seq(Chars),
         NEW p \in Nat, InPlace(w, o, r, p), NEW n \in 1..Len(o),
         NEW e \in BOOLEAN, NEW c \in Seq(Sent), NEW q \in Seq(Chars),
         Taken(w, o, n, e, c, q)
  PROVE  /\ InPlace(c, q, <<>>, p)
         /\ \A i \in DOMAIN c : \/ i \in DOMAIN w /\ c[i] = w[i]
                                \/ c[i][1] = i /\ c[i][2] = e
  <1>0. /\ Len(c) = Len(w) + n
        /\ \A i \in 1..Len(w) : c[i] = w[i]
        /\ \A i \in 1..n : c[Len(w) + i] = <<o[i], e>>
        /\ Len(q) = Len(o) - n
        /\ \A i \in 1..Len(o) - n : q[i] = o[n + i]
    BY DEF Taken
  <1>1. /\ p = Len(w) + Len(o)
        /\ \A i \in 1..Len(w) : w[i][1] = i
        /\ \A i \in 1..Len(o) : o[i] = Len(w) + i
    BY DEF InPlace
  <1>2. /\ Len(w) \in Nat /\ Len(o) \in Nat /\ n \in Nat /\ n <= Len(o)
        /\ DOMAIN c = 1..Len(w) + n
        /\ DOMAIN w = 1..Len(w)
    BY <1>0
  <1>3. ASSUME NEW i \in 1..Len(w) + n, ~(i <= Len(w))
        PROVE  c[i][1] = i /\ c[i][2] = e
    <2>1. /\ i - Len(w) \in 1..n /\ i - Len(w) \in 1..Len(o)
          /\ Len(w) + (i - Len(w)) = i
      BY <1>2, <1>3
    <2>2. c[Len(w) + (i - Len(w))] = <<o[i - Len(w)], e>>
      BY <1>0, <2>1, Zenon
    <2>3. o[i - Len(w)] = Len(w) + (i - Len(w))
      BY <1>1, <2>1, Zenon
    <2>4. c[i] = <<i, e>>
      BY <2>1, <2>2, <2>3, Zenon
    <2> QED  BY <2>4
  <1>4. ASSUME NEW i \in 1..Len(w) + n, i <= Len(w)
        PROVE  i \in DOMAIN w /\ c[i] = w[i] /\ c[i][1] = i
    <2>1. i \in 1..Len(w)
      BY <1>2, <1>4
    <2> QED  BY <1>0, <1>1, <1>2, <2>1, Zenon
  <1>5. ASSUME NEW i \in 1..Len(q) PROVE q[i] = Len(c) + i
    <2>0. Len(c) = Len(w) + n /\ Len(q) = Len(o) - n
      BY <1>0
    <2>1. i \in 1..Len(o) - n /\ n + i \in 1..Len(o)
      BY <1>2, <2>0
    <2>2. q[i] = Len(w) + (n + i)
      BY <1>0, <1>1, <2>1, Zenon
    <2>3. Len(w) + (n + i) = Len(c) + i
      BY <1>2, <2>0, <2>1
    <2> QED  BY <2>2, <2>3
  <1>6. Len(c) + Len(q) = Len(w) + Len(o)
    <2>1. Len(c) = Len(w) + n /\ Len(q) = Len(o) - n
      BY <1>0
    <2> QED  BY <1>2, <2>1
  <1>7. InPlace(c, q, <<>>, p)
    <2>1. \A i \in 1..Len(c) : c[i][1] = i
      BY <1>0, <1>2, <1>3, <1>4
    <2>2. Len(<<>>) <= Len(q) /\ \A i \in 1..Len(<<>>) : <<>>[i] = q[i]
      OBVIOUS
    <2> QED  BY <1>1, <1>5, <1>6, <2>1, <2>2, Zenon DEF InPlace
  <1> QED  BY <1>2, <1>3, <1>4, <1>7, Zenon

-----------------------------------------------------------------------------
(* The thread                                                               *)

\* The part of the invariant that says where the session's thread is.
ControlOK ==
    /\ tls \in {"NoTLS", "InitTLS", "RunTLS"}
    /\ eof \in BOOLEAN /\ good \in BOOLEAN
    /\ put \in 0..MaxChars /\ todo \in 0..MaxPut /\ reply \in 0..MaxChars
    /\ pc \in {"copy", "flush", "sync", "top", "input", "handshaken", "work",
               "replied", "starttls", "closed", "setup", "refused",
               "crashed"}
    /\ next \in {"input", "handshaken", "work", "replied", "starttls"}
    /\ FlushReturns /\ ReplyAlone
    /\ tls # "NoTLS" => reply # 0

\* The part that says what was written, and where it is.
DataOK ==
    /\ config \in Configs /\ chain \in Chains
    /\ outbuf \in Seq(Chars) /\ Len(outbuf) <= BufSize
    /\ record \in Seq(Chars) /\ wire \in Seq(Sent)
    /\ OutputInOrder /\ ClearBeforeReply
    /\ tls = "NoTLS" => \A i \in DOMAIN wire : ~wire[i][2]
    /\ tls # "RunTLS" => record = <<>>
    /\ tls = "RunTLS" \/ (\E i \in DOMAIN wire : wire[i][2]) => InitTlsSessionData

\* The two parts are the invariant.
LEMMA ControlAndData == OutputInv <=> ControlOK /\ DataOK
  <1>1. {eof, good} \subseteq BOOLEAN <=> eof \in BOOLEAN /\ good \in BOOLEAN
    OBVIOUS
  <1> QED  BY <1>1, Zenon DEF OutputInv, SessTypeOK, ControlOK, DataOK,
           HandshakeFirst, Chars, Sent

\* flush() returns to where it was called.
LEMMA AfterFlushControl ==
  ASSUME ControlOK, NEW failed \in BOOLEAN, NEW done \in BOOLEAN,
         pc \in {"flush", "sync"}, AfterFlush(failed, done), eof' \in BOOLEAN,
         UNCHANGED <<tls, put, reply, next>>
  PROVE  ControlOK'
  <1>1. CASE pc = "flush"
    <2>1. /\ pc' = IF failed \/ todo = 0 THEN next ELSE "copy"
          /\ todo' = IF failed THEN 0 ELSE todo
          /\ good' \in BOOLEAN
      BY <1>1 DEF AfterFlush, AfterPartial, Goto
    <2>2. \/ pc' = next /\ todo' = 0
          \/ pc' = "copy" /\ todo' = todo
      BY <2>1
    <2> QED
      BY <1>1, <2>1, <2>2, SessionStreamAssumption
         DEF ControlOK, FlushReturns, ReplyAlone, Replying
  <1>2. CASE pc = "sync"
    <2>1. /\ pc' = IF done THEN next ELSE "sync"
          /\ todo' = todo
          /\ good' \in BOOLEAN
      BY <1>2 DEF AfterFlush, AfterSync, Goto
    <2> QED  BY <1>2, <2>1 DEF ControlOK, FlushReturns, ReplyAlone, Replying
  <1> QED  BY <1>1, <1>2

\* Every way flush() may end.
LEMMA FlushControl ==
  ASSUME ControlOK, DataOK,
         FlushNothing \/ FlushClear \/ FlushRecord \/ FlushAgain \/ FlushFatal
             \/ FlushHandshake
  PROVE  ControlOK'
  <1>1. /\ pc \in {"flush", "sync"}
        /\ eof' \in BOOLEAN
        /\ UNCHANGED <<tls, put, reply, next>>
    BY DEF FlushNothing, FlushClear, FlushRecord, FlushAgain, FlushFatal,
       FlushHandshake, ControlOK
  <1>2. \E failed, done \in BOOLEAN : AfterFlush(failed, done)
    <2>1. CASE FlushNothing
      BY <2>1 DEF FlushNothing, ControlOK
    <2>2. CASE FlushClear
      BY <2>2 DEF FlushClear
    <2>3. CASE FlushRecord
      BY <2>3 DEF FlushRecord
    <2>4. CASE FlushAgain \/ FlushFatal \/ FlushHandshake
      BY <2>4 DEF FlushAgain, FlushFatal, FlushHandshake
    <2> QED  BY <2>1, <2>2, <2>3, <2>4
  <1> QED  BY <1>1, <1>2, AfterFlushControl

\* Every other step of the session's thread.
LEMMA RunControl ==
  ASSUME ControlOK, DataOK,
         \/ SetupTLS \/ SetupFails \/ Copy \/ Top \/ Input \/ InputEof
         \/ Handshake \/ Handshaken \/ Write \/ StartTLS \/ StartTLSFlush
         \/ StartTLSInit \/ StartTLSFails \/ WorkDone
  PROVE  ControlOK'
  <1> USE DEF ControlOK, FlushReturns, ReplyAlone, Replying, Goto
  <1>1. CASE SetupTLS \/ SetupFails \/ Top \/ Input \/ InputEof
    BY <1>1 DEF SetupTLS, SetupFails, Top, Input, InputEof
  <1>2. CASE Handshake \/ Handshaken \/ StartTLSFlush \/ WorkDone
    BY <1>2 DEF Handshake, Handshaken, StartTLSFlush, WorkDone
  <1>6. CASE StartTLSInit \/ StartTLSFails
    <2>1. /\ pc = "starttls" /\ pc' \in {"work", "crashed"}
          /\ tls' \in {tls, "InitTLS"}
          /\ UNCHANGED <<eof, good, put, todo, reply, next>>
      BY <1>6 DEF StartTLSInit, StartTLSFails
    <2>2. tls' # "NoTLS" => reply # 0
      BY <2>1
    <2> QED  BY <2>1, <2>2
  <1>3. CASE Write
    BY <1>3, SessionStreamAssumption DEF Write, Element
  <1>4. CASE StartTLS
    BY <1>4, SessionStreamAssumption DEF StartTLS, Element
  <1>5. CASE Copy
    <2> DEFINE room == BufSize - Len(outbuf)
               n    == IF todo < room THEN todo ELSE room
    <2>1. Len(outbuf) \in Nat /\ Len(outbuf) <= BufSize /\ BufSize \in Nat
      BY SessionStreamAssumption DEF DataOK
    <2>2. /\ pc = "copy"
          /\ put' = put + n
          /\ todo' = todo - n
          /\ pc' = IF Len(outbuf) + n = BufSize THEN "flush" ELSE next
          /\ UNCHANGED <<tls, eof, good, reply, next>>
      BY <1>5 DEF Copy
    <2>3. n \in 0..todo /\ (Len(outbuf) + n # BufSize => n = todo)
      BY <2>1
    <2> HIDE DEF n
    <2>4. put' + todo' = put + todo /\ todo' \in 0..todo /\ put' \in 0..MaxChars
      BY <2>2, <2>3, SessionStreamAssumption
    <2>5. Replying' => Replying
      BY <2>2
    <2>6. ReplyAlone'
      <3>1. ReplyAlone
        OBVIOUS
      <3> HIDE DEF Replying
      <3> QED  BY <2>2, <2>4, <2>5, <3>1
    <2>7. FlushReturns' /\ (tls' # "NoTLS" => reply' # 0)
      BY <2>2, <2>3, <2>4
    <2>8. pc' \in {"copy", "flush", "sync", "top", "input", "handshaken", "work",
                   "replied", "starttls", "closed", "setup", "refused", "crashed"}
      BY <2>2
    <2>9. todo' \in 0..MaxPut
      BY <2>4, SessionStreamAssumption
    <2> HIDE DEF FlushReturns, ReplyAlone, Replying
    <2>10. /\ tls' \in {"NoTLS", "InitTLS", "RunTLS"} /\ reply' \in 0..MaxChars
           /\ eof' \in BOOLEAN /\ good' \in BOOLEAN
           /\ next' \in {"input", "handshaken", "work", "replied", "starttls"}
      BY <2>2
    <2> QED  BY <2>4, <2>6, <2>7, <2>8, <2>9, <2>10
  <1> QED  BY <1>1, <1>2, <1>3, <1>4, <1>5, <1>6

-----------------------------------------------------------------------------
(* The characters                                                           *)

\* Who passes the verification depends on the configuration and the client only.
LEMMA VerificationKept ==
  ASSUME UNCHANGED <<config, chain>>
  PROVE  InitTlsSessionData' <=> InitTlsSessionData
  BY DEF InitTlsSessionData, verifyClient, VerifyClient, VerifyPeers, blacklist,
     Revoked, TrustList, ConfigFiles

\* OutputInOrder place by place, in the state and in the next one.
LEMMA OrderIsPlace ==
  ASSUME wire \in Seq(Sent), outbuf \in Seq(Chars), record \in Seq(Chars),
         put \in Nat
  PROVE  OutputInOrder <=> InPlace(wire, outbuf, record, put)
  BY OrderByPlace, Zenon DEF OutputInOrder

\* The same of the state after a step.
LEMMA OrderIsPlacePrimed ==
  ASSUME wire' \in Seq(Sent), outbuf' \in Seq(Chars), record' \in Seq(Chars),
         put' \in Nat, InPlace(wire', outbuf', record', put')
  PROVE  OutputInOrder'
  BY OrderByPlace, Zenon DEF OutputInOrder

\* What the invariant says of the characters, place by place.
LEMMA Places ==
  ASSUME ControlOK, DataOK
  PROVE  /\ wire \in Seq(Sent) /\ outbuf \in Seq(Chars) /\ record \in Seq(Chars)
         /\ put \in Nat /\ put + todo <= MaxChars /\ todo \in Nat
         /\ InPlace(wire, outbuf, record, put)
         /\ Len(outbuf) \in Nat /\ Len(wire) \in Nat /\ Len(outbuf) <= BufSize
         /\ DOMAIN wire = 1..Len(wire)
  <1>1. /\ wire \in Seq(Sent) /\ outbuf \in Seq(Chars) /\ record \in Seq(Chars)
        /\ put \in Nat /\ put + todo <= MaxChars /\ todo \in Nat
        /\ OutputInOrder /\ Len(outbuf) <= BufSize
    BY DEF ControlOK, DataOK, FlushReturns
  <1>2. InPlace(wire, outbuf, record, put)
    BY <1>1, OrderIsPlace
  <1> QED  BY <1>1, <1>2

\* Steps that touch neither the characters nor TLS.
LEMMA DataKept ==
  ASSUME DataOK,
         UNCHANGED <<config, chain, outbuf, put, record, wire, tls, reply>>
  PROVE  DataOK'
  <1>1. InitTlsSessionData' <=> InitTlsSessionData
    BY VerificationKept
  <1>2. OutputInOrder' /\ ClearBeforeReply'
    BY DEF DataOK, OutputInOrder, ClearBeforeReply
  <1> QED  BY <1>1, <1>2 DEF DataOK

\* xsputn() copies.
LEMMA CopyData ==
  ASSUME ControlOK, DataOK, Copy
  PROVE  DataOK'
  <1> DEFINE room == BufSize - Len(outbuf)
             n    == IF todo < room THEN todo ELSE room
  <1>1. /\ outbuf' = outbuf \o Numbers(put + 1, put + n)
        /\ put' = put + n
        /\ UNCHANGED <<config, chain, tls, record, wire, reply>>
    BY DEF Copy
  <1>2. /\ n \in Nat /\ put + n <= MaxChars /\ Len(outbuf) + n <= BufSize
        /\ put + n \in Nat
    BY Places, SessionStreamAssumption
  <1> HIDE DEF n
  <1>3. /\ outbuf' \in Seq(Chars)
        /\ Len(outbuf') = Len(outbuf) + n
        /\ InPlace(wire, outbuf', record, put + n)
    <2>1. /\ wire \in Seq(Sent) /\ outbuf \in Seq(Chars) /\ record \in Seq(Chars)
          /\ put \in Nat /\ InPlace(wire, outbuf, record, put)
      BY Places
    <2>2. /\ outbuf \o Numbers(put + 1, put + n) \in Seq(Chars)
          /\ Len(outbuf \o Numbers(put + 1, put + n)) = Len(outbuf) + n
          /\ InPlace(wire, outbuf \o Numbers(put + 1, put + n), record, put + n)
      BY <1>2, <2>1, PlacesCopied, Zenon
    <2> QED  BY <1>1, <2>2, Zenon
  <1>4. OutputInOrder'
    BY <1>1, <1>2, <1>3, Places, OrderIsPlacePrimed
  <1>5. ClearBeforeReply'
    BY <1>1 DEF DataOK, ClearBeforeReply
  <1>6. InitTlsSessionData' <=> InitTlsSessionData
    BY <1>1, VerificationKept
  <1> QED  BY <1>1, <1>2, <1>3, <1>4, <1>5, <1>6 DEF DataOK

\* The first n characters of the buffer leave, encrypted or not.
LEMMA SendData ==
  ASSUME ControlOK, DataOK, NEW n \in 1..Len(outbuf), NEW e \in BOOLEAN,
         wire' = wire \o [i \in 1..n |-> <<outbuf[i], e>>],
         outbuf' = SubSeq(outbuf, n + 1, Len(outbuf)),
         record' = <<>>,
         tls = IF e THEN "RunTLS" ELSE "NoTLS",
         UNCHANGED <<config, chain, tls, put, reply>>
  PROVE  DataOK'
  <1>1. /\ wire' \in Seq(Sent)
        /\ outbuf' \in Seq(Chars)
        /\ Len(outbuf') = Len(outbuf) - n
        /\ InPlace(wire', outbuf', <<>>, put)
        /\ \A i \in DOMAIN wire' : \/ i \in DOMAIN wire /\ wire'[i] = wire[i]
                                   \/ wire'[i][1] = i /\ wire'[i][2] = e
    <2>1. /\ wire \in Seq(Sent) /\ outbuf \in Seq(Chars) /\ record \in Seq(Chars)
          /\ put \in Nat /\ InPlace(wire, outbuf, record, put)
      BY Places
    <2>2. PICK c \in Seq(Sent), q \in Seq(Chars) :
              /\ c = wire \o [i \in 1..n |-> <<outbuf[i], e>>]
              /\ q = SubSeq(outbuf, n + 1, Len(outbuf))
              /\ Taken(wire, outbuf, n, e, c, q)
      BY <2>1, SentSequences, Zenon
    <2>3. wire' = c /\ outbuf' = q
      BY <2>2, Zenon
    <2>4. /\ InPlace(c, q, <<>>, put)
          /\ \A i \in DOMAIN c : \/ i \in DOMAIN wire /\ c[i] = wire[i]
                                 \/ c[i][1] = i /\ c[i][2] = e
      <3>1. Taken(wire, outbuf, n, e, c, q)
        BY <2>2, Zenon
      <3> QED  BY <2>1, <3>1, PlacesSent
    <2>5. Len(q) = Len(outbuf) - n
      BY <2>2, Zenon DEF Taken
    <2> QED  BY <2>3, <2>4, <2>5, Zenon
  <1>2. record' \in Seq(Chars)
    OBVIOUS
  <1>3. OutputInOrder'
    BY <1>1, <1>2, Places, OrderIsPlacePrimed
  <1>4. Len(outbuf') <= BufSize
    BY <1>1, Places, SessionStreamAssumption
  <1>5. ClearBeforeReply'
    <2> SUFFICES ASSUME tls # "NoTLS", NEW i \in DOMAIN wire', wire'[i][1] > reply
                 PROVE  wire'[i][2]
      BY DEF ClearBeforeReply
    <2>1. CASE i \in DOMAIN wire /\ wire'[i] = wire[i]
      BY <2>1 DEF DataOK, ClearBeforeReply
    <2>2. CASE wire'[i][2] = e
      BY <2>2, Zenon
    <2> QED  BY <1>1, <2>1, <2>2
  <1>6. tls' = "NoTLS" => \A i \in DOMAIN wire' : ~wire'[i][2]
    <2> SUFFICES ASSUME ~e, NEW i \in DOMAIN wire' PROVE ~wire'[i][2]
      OBVIOUS
    <2>1. CASE i \in DOMAIN wire /\ wire'[i] = wire[i]
      BY <2>1 DEF DataOK
    <2>2. CASE wire'[i][2] = e
      BY <2>2, Zenon
    <2> QED  BY <1>1, <2>1, <2>2
  <1>8. tls' = "RunTLS" \/ (\E i \in DOMAIN wire' : wire'[i][2]) => InitTlsSessionData
    <2>1. CASE e
      BY <2>1 DEF DataOK
    <2>2. CASE ~e
      BY <1>6, <2>2
    <2> QED  BY <2>1, <2>2
  <1>7. InitTlsSessionData' <=> InitTlsSessionData
    BY VerificationKept
  <1>9. tls' # "RunTLS" => record' = <<>>
    OBVIOUS
  <1> QED  BY <1>1, <1>2, <1>3, <1>4, <1>5, <1>6, <1>7, <1>8, <1>9 DEF DataOK

\* write()
LEMMA ClearData ==
  ASSUME ControlOK, DataOK, FlushClear
  PROVE  DataOK'
  <1>1. PICK n \in 1..Len(outbuf) :
            /\ wire' = wire \o [i \in 1..n |-> <<outbuf[i], FALSE>>]
            /\ outbuf' = SubSeq(outbuf, n + 1, Len(outbuf))
    BY Zenon DEF FlushClear, Remain
  <1>2. /\ tls = "NoTLS" /\ record' = record
        /\ UNCHANGED <<config, chain, tls, put, reply>>
    BY Zenon DEF FlushClear
  <1>3. record' = <<>>
    BY <1>2 DEF DataOK
  <1> QED  BY <1>1, <1>2, <1>3, SendData, Zenon

\* gnutls_record_send()
LEMMA RecordData ==
  ASSUME ControlOK, DataOK, FlushRecord
  PROVE  DataOK'
  <1>1. PICK r \in IF record # <<>> THEN {record}
                   ELSE {SubSeq(outbuf, 1, n) : n \in 1..Len(outbuf)} :
            /\ wire' = wire \o [i \in DOMAIN r |-> <<r[i], TRUE>>]
            /\ outbuf' = SubSeq(outbuf, Len(r) + 1, Len(outbuf))
    BY Zenon DEF FlushRecord, Remain
  <1>2. /\ tls = "RunTLS" /\ record' = <<>>
        /\ UNCHANGED <<config, chain, tls, put, reply>>
    BY Zenon DEF FlushRecord
  <1>3. /\ Len(r) \in 1..Len(outbuf)
        /\ DOMAIN r = 1..Len(r)
        /\ \A i \in 1..Len(r) : r[i] = outbuf[i]
    <2>1. CASE record # <<>>
      <3>1. /\ record \in Seq(Chars) /\ outbuf \in Seq(Chars)
            /\ Len(record) <= Len(outbuf)
            /\ \A i \in 1..Len(record) : record[i] = outbuf[i]
        BY Places DEF InPlace
      <3>2. r = record
        BY <1>1, <2>1
      <3> QED  BY <2>1, <3>1, <3>2
    <2>2. CASE record = <<>>
      <3>1. PICK n \in 1..Len(outbuf) : r = SubSeq(outbuf, 1, n)
        BY <1>1, <2>2
      <3>2. outbuf \in Seq(Chars)
        BY Places
      <3> QED  BY <3>1, <3>2
    <2> QED  BY <2>1, <2>2
  <1>4. wire' = wire \o [i \in 1..Len(r) |-> <<outbuf[i], TRUE>>]
    <2>1. [i \in DOMAIN r |-> <<r[i], TRUE>>] =
              [i \in 1..Len(r) |-> <<outbuf[i], TRUE>>]
      BY <1>3, Zenon
    <2> QED  BY <1>1, <2>1, Zenon
  <1> QED  BY <1>1, <1>2, <1>3, <1>4, SendData, Zenon

\* GnuTLS keeps a record.
LEMMA AgainData ==
  ASSUME ControlOK, DataOK, FlushAgain
  PROVE  DataOK'
  <1>1. /\ UNCHANGED <<config, chain, tls, outbuf, put, wire, reply>>
        /\ tls # "InitTLS"
    BY DEF FlushAgain
  <1>2. CASE tls = "RunTLS" /\ record = <<>>
    <2>1. PICK n \in 1..Len(outbuf) : record' = SubSeq(outbuf, 1, n)
      BY <1>2 DEF FlushAgain
    <2>2. /\ record' \in Seq(Chars)
          /\ Len(record') = n
          /\ \A i \in 1..n : record'[i] = outbuf[i]
      BY <2>1, Places
    <2>3. InPlace(wire, outbuf, record', put)
      <3>1. InPlace(wire, outbuf, record, put) /\ n <= Len(outbuf)
        BY Places
      <3> QED  BY <2>2, <3>1, Zenon DEF InPlace
    <2>4. OutputInOrder'
      <3>1. wire' \in Seq(Sent) /\ outbuf' \in Seq(Chars) /\ put' \in Nat
        BY <1>1, Places
      <3>2. InPlace(wire', outbuf', record', put')
        BY <1>1, <2>3
      <3> QED  BY <2>2, <3>1, <3>2, OrderIsPlacePrimed
    <2>5. ClearBeforeReply'
      BY <1>1 DEF DataOK, ClearBeforeReply
    <2>6. InitTlsSessionData' <=> InitTlsSessionData
      BY <1>1, VerificationKept
    <2> QED  BY <1>1, <1>2, <2>2, <2>4, <2>5, <2>6 DEF DataOK
  <1>3. CASE ~(tls = "RunTLS" /\ record = <<>>)
    <2>1. record' = record
      BY <1>3 DEF FlushAgain
    <2> QED  BY <1>1, <2>1, DataKept
  <1> QED  BY <1>2, <1>3

\* Everything the client has was written.
LEMMA WrittenOnly ==
  ASSUME ControlOK, DataOK, NEW i \in DOMAIN wire
  PROVE  wire[i][1] \in Nat /\ wire[i][1] <= put
  <1>1. /\ InPlace(wire, outbuf, record, put) /\ DOMAIN wire = 1..Len(wire)
        /\ Len(wire) \in Nat /\ Len(outbuf) \in Nat
    BY Places
  <1>2. wire[i][1] = i /\ put = Len(wire) + Len(outbuf)
    BY <1>1, Zenon DEF InPlace
  <1> QED  BY <1>1, <1>2

\* The answer to <starttls>, Session::startTLS() and the handshake.
LEMMA TlsData ==
  ASSUME ControlOK, DataOK, StartTLS \/ StartTLSInit \/ Handshake
  PROVE  DataOK'
  <1>1. UNCHANGED <<config, chain, outbuf, put, wire>>
    BY DEF StartTLS, StartTLSInit, Handshake
  <1>2. InitTlsSessionData' <=> InitTlsSessionData
    BY <1>1, VerificationKept
  <1>4. CASE StartTLS
    <2>1. /\ reply' = IF tls = "NoTLS" THEN put + 1 ELSE reply
          /\ tls' = tls /\ record' = record
      BY <1>4 DEF StartTLS
    <2>2. ClearBeforeReply'
      BY <1>1, <2>1 DEF DataOK, ClearBeforeReply
    <2>3. OutputInOrder'
      BY <1>1, <2>1 DEF DataOK, OutputInOrder
    <2> QED  BY <1>1, <1>2, <2>1, <2>2, <2>3 DEF DataOK
  <1>5. CASE StartTLSInit
    <2>1. /\ tls' = "InitTLS" /\ reply' = reply /\ pc = "starttls"
          /\ record' = <<>>
      BY <1>5 DEF StartTLSInit
    <2>2. ClearBeforeReply'
      <3> SUFFICES ASSUME NEW i \in DOMAIN wire, wire[i][1] > reply
                   PROVE  wire[i][2]
        BY <1>1, <2>1 DEF ClearBeforeReply
      <3>1. CASE tls # "NoTLS"
        BY <3>1 DEF DataOK, ClearBeforeReply
      <3>2. CASE tls = "NoTLS"
        <4>1. /\ put + todo <= reply /\ todo \in Nat /\ put \in Nat
              /\ reply \in Nat
          BY <2>1, <3>2 DEF ControlOK, ReplyAlone, Replying
        <4>2. wire[i][1] \in Nat /\ wire[i][1] <= put
          BY WrittenOnly
        <4> QED  BY <4>1, <4>2
      <3> QED  BY <3>1, <3>2
    <2>3. InPlace(wire', outbuf', record', put')
      <3>1. InPlace(wire, outbuf, record, put) /\ Len(outbuf) \in Nat
        BY Places
      <3>2. Len(<<>>) <= Len(outbuf) /\ \A i \in 1..Len(<<>>) : <<>>[i] = outbuf[i]
        BY <3>1
      <3> QED  BY <1>1, <2>1, <3>1, <3>2, Zenon DEF InPlace
    <2>4. record' \in Seq(Chars)
      BY <2>1
    <2>5. OutputInOrder'
      BY <1>1, <2>3, <2>4, Places, OrderIsPlacePrimed
    <2> QED  BY <1>1, <1>2, <2>1, <2>2, <2>4, <2>5 DEF DataOK
  <1>6. CASE Handshake
    <2>1. /\ tls' = "RunTLS" /\ tls = "InitTLS" /\ reply' = reply
          /\ InitTlsSessionData /\ record' = record
      BY <1>6 DEF Handshake
    <2>2. ClearBeforeReply'
      BY <1>1, <2>1 DEF DataOK, ClearBeforeReply
    <2>3. OutputInOrder'
      BY <1>1, <2>1 DEF DataOK, OutputInOrder
    <2> QED  BY <1>1, <1>2, <2>1, <2>2, <2>3 DEF DataOK
  <1> QED  BY <1>4, <1>5, <1>6

-----------------------------------------------------------------------------
(* Theorems                                                                 *)

\* A session starts with nothing written and no TLS.
LEMMA OutputStart == SessInit => OutputInv
  <1> SUFFICES ASSUME SessInit PROVE OutputInv
    OBVIOUS
  <1>1. ControlOK
    <2>1. /\ tls = "NoTLS" /\ pc = "setup" /\ next = "work"
          /\ eof \in BOOLEAN /\ good \in BOOLEAN
          /\ put = 0 /\ todo = 0 /\ reply = 0
      BY DEF SessInit
    <2>2. 0 \in 0..MaxChars /\ 0 \in 0..MaxPut
      BY SessionStreamAssumption
    <2>3. FlushReturns /\ ReplyAlone
      BY <2>1, SessionStreamAssumption DEF FlushReturns, ReplyAlone, Replying
    <2> QED  BY <2>1, <2>2, <2>3 DEF ControlOK
  <1>2. wire = <<>> /\ outbuf = <<>> /\ record = <<>> /\ put = 0
    BY DEF SessInit
  <1>3. InPlace(wire, outbuf, record, put)
    BY <1>2 DEF InPlace
  <1>4. wire \in Seq(Sent) /\ outbuf \in Seq(Chars) /\ record \in Seq(Chars)
    BY <1>2
  <1>5. OutputInOrder
    BY <1>2, <1>3, <1>4, OrderIsPlace
  <1>6. DataOK
    BY <1>2, <1>4, <1>5, SessionStreamAssumption
       DEF SessInit, DataOK, ClearBeforeReply
  <1> QED  BY <1>1, <1>6, ControlAndData

\* Every step keeps the invariant.
LEMMA OutputStep == OutputInv /\ [SessNext]_streamSessVars => OutputInv'
  <1> SUFFICES ASSUME ControlOK, DataOK, [SessNext]_streamSessVars
               PROVE  ControlOK' /\ DataOK'
    <2>1. OutputInv' <=> ControlOK' /\ DataOK'
      BY ControlAndData, PTL
    <2> QED  BY <2>1, ControlAndData
  <1>1. CASE UNCHANGED streamSessVars
    <2>1. DataOK'
      BY <1>1, DataKept DEF streamSessVars
    <2>2. ControlOK'
      BY <1>1 DEF streamSessVars, ControlOK, FlushReturns, ReplyAlone, Replying
    <2> QED  BY <2>1, <2>2
  <1>2. CASE FlushClear \/ FlushRecord \/ FlushAgain
    BY <1>2, FlushControl, ClearData, RecordData, AgainData
  <1>3. CASE FlushNothing \/ FlushFatal \/ FlushHandshake
    <2>1. UNCHANGED <<config, chain, outbuf, put, record, wire, tls, reply>>
      BY <1>3 DEF FlushNothing, FlushFatal, FlushHandshake
    <2> QED  BY <1>3, <2>1, FlushControl, DataKept
  <1>4. CASE Copy \/ StartTLS \/ StartTLSInit \/ Handshake
    BY <1>4, RunControl, CopyData, TlsData
  <1>5. CASE \/ SetupTLS \/ SetupFails \/ Top \/ Input \/ InputEof
             \/ Handshaken \/ Write \/ StartTLSFlush \/ StartTLSFails \/ WorkDone
    <2>1. UNCHANGED <<config, chain, outbuf, put, record, wire, tls, reply>>
      BY <1>5 DEF SetupTLS, SetupFails, Top, Input, InputEof, Handshaken, Write,
         StartTLSFlush, StartTLSFails, WorkDone
    <2> QED  BY <1>5, <2>1, RunControl, DataKept
  <1> QED  BY <1>1, <1>2, <1>3, <1>4, <1>5 DEF SessNext

\* The output of a session reaches the client in order, each character once, and
\* once TLS has begun nothing written behind the answer to <starttls> in clear text:
\* for every size of the buffer, whichever part write() takes, whichever record
\* GnuTLS sends again, and however often <starttls> is sent and gnutls_init() fails
\* (Session::flush, xsputn, startTLS).
THEOREM OutputInvHolds == SessSpec => []OutputInv
  BY OutputStart, OutputStep, PTL DEF SessSpec

-----------------------------------------------------------------------------
(* The cache of TLS sessions                                                *)

\* list.remove() takes one iterator out of a list that has it once.
LEMMA WithoutFacts ==
  ASSUME list \in Seq(DbKey), NEW k,
         \A i, j \in DOMAIN list : list[i] = list[j] => i = j
  PROVE  /\ Without(k) \in Seq(DbKey)
         /\ Len(Without(k)) <= Len(list)
         /\ Range(Without(k)) = Range(list) \ {k}
         /\ \A i, j \in DOMAIN Without(k) : Without(k)[i] = Without(k)[j] => i = j
  <1> DEFINE L       == Len(list)
             kept    == {i \in DOMAIN list : list[i] # k}
             Rank(i) == Cardinality({j \in kept : j <= i})
             Nth(n)  == CHOOSE i \in kept : Rank(i) = n
             W       == Without(k)
  <1>1. L \in Nat /\ DOMAIN list = 1..L /\ \A i \in 1..L : list[i] \in DbKey
    OBVIOUS
  <1>2. W = [n \in 1..Cardinality(kept) |-> list[Nth(n)]]
    BY DEF Without
  <1>3. \A i \in Nat : Cardinality(1..i) = i /\ IsFiniteSet(1..i)
    <2> SUFFICES ASSUME NEW i \in Nat PROVE Cardinality(1..i) = i /\ IsFiniteSet(1..i)
      OBVIOUS
    <2>1. /\ IsFiniteSet(1..i)
          /\ Cardinality(1..i) = IF 1 > i THEN 0 ELSE i - 1 + 1
      BY FS_Interval
    <2> QED  BY <2>1
  <1>4. CASE k \notin Range(list)
    <2>1. kept = 1..L
      BY <1>1, <1>4 DEF Range
    <2>2. ASSUME NEW i \in 1..L PROVE Rank(i) = i
      <3>1. {j \in kept : j <= i} = 1..i
        BY <1>1, <2>1
      <3>2. Cardinality(1..i) = i
        BY <1>1, <1>3
      <3> HIDE DEF kept
      <3> QED  BY <3>1, <3>2
    <2>3. Cardinality(kept) = L
      BY <1>1, <1>3, <2>1
    <2> HIDE DEF kept, Rank
    <2>4. ASSUME NEW n \in 1..L PROVE Nth(n) = n
      BY <2>1, <2>2
    <2> HIDE DEF W, Nth
    <2>5. W = list
      BY <1>1, <1>2, <2>3, <2>4
    <2> QED  BY <1>1, <1>4, <2>5 DEF W, Range
  <1>5. CASE k \in Range(list)
    <2>1. PICK p \in 1..L : list[p] = k
      BY <1>1, <1>5 DEF Range
    <2>2. kept = (1..L) \ {p}
      BY <1>1, <2>1
    <2>3. ASSUME NEW i \in 1..L, i < p PROVE Rank(i) = i
      <3>1. {j \in kept : j <= i} = 1..i
        BY <1>1, <2>2, <2>3
      <3>2. Cardinality(1..i) = i
        BY <1>1, <1>3
      <3> HIDE DEF kept
      <3> QED  BY <3>1, <3>2
    <2>4. ASSUME NEW i \in 1..L, i > p PROVE Rank(i) = i - 1
      <3>1. {j \in kept : j <= i} = (1..i) \ {p}
        BY <1>1, <2>2, <2>4
      <3>2. p \in 1..i /\ i \in Nat
        BY <1>1, <2>1, <2>4
      <3>3. Cardinality(1..i) = i /\ IsFiniteSet(1..i)
        BY <1>3, <3>2
      <3> HIDE DEF kept
      <3>4. Cardinality((1..i) \ {p}) = Cardinality(1..i) - 1
        BY <3>2, <3>3, FS_RemoveElement
      <3> QED  BY <3>1, <3>3, <3>4
    <2>5. Cardinality(kept) = L - 1
      <3>1. Cardinality((1..L) \ {p}) = Cardinality(1..L) - 1
        BY <1>1, <1>3, FS_RemoveElement
      <3> QED  BY <1>1, <1>3, <2>2, <3>1
    <2> HIDE DEF kept, Rank
    <2>6. ASSUME NEW n \in 1..L - 1 PROVE Nth(n) = IF n < p THEN n ELSE n + 1
      <3>1. CASE n < p
        <4>1. n \in kept /\ Rank(n) = n
          BY <1>1, <2>2, <2>3, <3>1
        <4>2. \A i \in kept : Rank(i) = n => i = n
          BY <1>1, <2>2, <2>3, <2>4, <3>1
        <4> QED  BY <3>1, <4>1, <4>2
      <3>2. CASE ~(n < p)
        <4>1. n + 1 \in kept /\ Rank(n + 1) = n
          BY <1>1, <2>2, <2>4, <3>2
        <4>2. \A i \in kept : Rank(i) = n => i = n + 1
          BY <1>1, <2>2, <2>3, <2>4, <3>2
        <4> QED  BY <3>2, <4>1, <4>2
      <3> QED  BY <3>1, <3>2
    <2> HIDE DEF W, Nth
    <2>7. W = [n \in 1..L - 1 |-> list[IF n < p THEN n ELSE n + 1]]
      BY <1>2, <2>5, <2>6
    <2>8. W \in Seq(DbKey) /\ Len(W) = L - 1 /\ DOMAIN W = 1..L - 1
      BY <1>1, <2>7
    <2>9. \A n \in 1..L - 1 : W[n] = list[IF n < p THEN n ELSE n + 1]
      BY <2>7
    <2>10. Range(W) = Range(list) \ {k}
      <3>1. ASSUME NEW n \in 1..L - 1 PROVE W[n] \in Range(list) /\ W[n] # k
        BY <1>1, <2>1, <2>9 DEF Range
      <3>2. ASSUME NEW i \in 1..L, list[i] # k PROVE \E n \in 1..L - 1 : W[n] = list[i]
        <4>1. CASE i < p
          BY <1>1, <2>1, <2>9, <4>1
        <4>2. CASE i > p
          <5>1. i - 1 \in 1..L - 1 /\ W[i - 1] = list[i]
            BY <1>1, <2>1, <2>9, <4>2
          <5> QED  BY <5>1
        <4> QED  BY <1>1, <2>1, <3>2, <4>1, <4>2
      <3>3. Range(W) = {W[n] : n \in 1..L - 1} /\ Range(list) = {list[i] : i \in 1..L}
        BY <1>1, <2>8 DEF Range
      <3> HIDE DEF L
      <3> QED  BY <3>1, <3>2, <3>3
    <2>11. \A i, j \in 1..L - 1 : W[i] = W[j] => i = j
      BY <1>1, <2>9
    <2> QED  BY <1>1, <2>8, <2>10, <2>11 DEF W
  <1> QED  BY <1>4, <1>5

\* The cache and its list agree for any keys, data and limit, and the list stays
\* within the limit (TlsSessionDB::store, erase and retrieve).
THEOREM CacheExactHolds == DbSpec => []CacheExact
  <1>1. DbInit => CacheExact
    BY TlsSessionDBAssumption DEF DbInit, CacheExact, Range
  <1>2. CacheExact /\ [DbNext]_dbVars => CacheExact'
    <2> SUFFICES ASSUME CacheExact, [DbNext]_dbVars PROVE CacheExact'
      OBVIOUS
    <2>1. /\ list \in Seq(DbKey) /\ map \in [Range(list) -> DbData]
          /\ DOMAIN map = Range(list)
          /\ \A i, j \in DOMAIN list : list[i] = list[j] => i = j
          /\ Len(list) <= DbSize + 1 /\ DbSize \in Nat /\ Len(list) \in Nat
      BY TlsSessionDBAssumption DEF CacheExact
    <2>2. ASSUME NEW k \in DbKey, NEW v \in DbData, Store(k, v) PROVE CacheExact'
      <3> DEFINE W    == Without(k)
                 e    == IF Len(W) > DbSize THEN Len(W) - DbSize ELSE 0
                 rest == SubSeq(W, e + 1, Len(W))
                 gone == {W[i] : i \in 1..e}
      <3>1. /\ W \in Seq(DbKey) /\ Len(W) <= Len(list) /\ Range(W) = Range(list) \ {k}
            /\ \A i, j \in DOMAIN W : W[i] = W[j] => i = j
        BY <2>1, WithoutFacts
      <3>2. /\ map' = [i \in (Range(list) \cup {k}) \ gone |->
                          IF i \in DOMAIN map THEN map[i] ELSE v]
            /\ list' = Append(rest, k)
        BY <2>1, <2>2 DEF Store, Insert, Restrict
      <3> HIDE DEF W
      <3>3. /\ Len(W) \in Nat /\ e \in Nat /\ e <= Len(W) /\ Len(W) - e <= DbSize
            /\ DOMAIN W = 1..Len(W)
        BY <2>1, <3>1
      <3> HIDE DEF e
      <3>4. /\ rest \in Seq(DbKey) /\ Len(rest) = Len(W) - e
            /\ \A i \in 1..Len(W) - e : rest[i] = W[e + i]
        <4>1. /\ rest \in Seq(DbKey)
              /\ Len(rest) = IF e + 1 <= Len(W) THEN Len(W) - (e + 1) + 1 ELSE 0
              /\ \A i \in 1..Len(W) - (e + 1) + 1 : rest[i] = W[e + 1 + i - 1]
          BY <3>1, <3>3
        <4> HIDE DEF rest
        <4>2. Len(rest) = Len(W) - e
          <5>1. CASE e + 1 <= Len(W)
            BY <3>3, <4>1, <5>1
          <5>2. CASE ~(e + 1 <= Len(W))
            <6>1. Len(rest) = 0
              BY <4>1, <5>2
            <6>2. e = Len(W)
              <7>1. \A a, b \in Nat : a <= b /\ ~(a + 1 <= b) => a = b
                OBVIOUS
              <7> QED  BY <3>3, <5>2, <7>1, Zenon
            <6> QED  BY <3>3, <6>1, <6>2
          <5> QED  BY <5>1, <5>2
        <4>3. ASSUME NEW i \in 1..Len(W) - e PROVE rest[i] = W[e + i]
          <5>1. i \in 1..Len(W) - (e + 1) + 1 /\ e + 1 + i - 1 = e + i
            BY <3>3
          <5> QED  BY <4>1, <5>1
        <4> QED  BY <4>1, <4>2, <4>3
      <3> HIDE DEF rest
      <3>5. /\ list' \in Seq(DbKey) /\ Len(list') = Len(W) - e + 1
            /\ DOMAIN list' = 1..Len(W) - e + 1
            /\ \A i \in 1..Len(W) - e : list'[i] = W[e + i]
            /\ list'[Len(W) - e + 1] = k
        BY <3>2, <3>3, <3>4
      <3>6. \A i \in 1..Len(W) : W[i] # k /\ W[i] \in Range(list)
        <4>1. \A i \in 1..Len(W) : W[i] \in Range(W)
          BY <3>3 DEF Range
        <4> QED  BY <3>1, <4>1
      <3>7. ASSUME NEW i \in DOMAIN list', NEW j \in DOMAIN list', list'[i] = list'[j]
            PROVE  i = j
        <4>1. CASE i \in 1..Len(W) - e /\ j \in 1..Len(W) - e
          <5>1. W[e + i] = W[e + j] /\ e + i \in DOMAIN W /\ e + j \in DOMAIN W
            BY <3>3, <3>5, <3>7, <4>1
          <5>2. e + i = e + j
            BY <3>1, <5>1
          <5> QED  BY <3>3, <4>1, <5>2
        <4>2. \A n \in 1..Len(W) - e : list'[n] # k
          <5> SUFFICES ASSUME NEW n \in 1..Len(W) - e PROVE list'[n] # k
            OBVIOUS
          <5>1. e + n \in 1..Len(W)
            BY <3>3
          <5>2. list'[n] = W[e + n]
            BY <3>5
          <5> QED  BY <3>6, <5>1, <5>2
        <4>3. \A n \in DOMAIN list' : n \in 1..Len(W) - e \/ n = Len(W) - e + 1
          BY <3>3, <3>5
        <4> QED  BY <3>5, <3>7, <4>1, <4>2, <4>3
      <3>8. Range(list)' = (Range(list) \cup {k}) \ gone
        <4>1. ASSUME NEW i \in DOMAIN list'
              PROVE  list'[i] \in Range(list) \cup {k} /\ list'[i] \notin gone
          <5>1. CASE i \in 1..Len(W) - e
            <6>1. list'[i] = W[e + i] /\ e + i \in 1..Len(W)
              BY <3>3, <3>5, <5>1
            <6>2. \A j \in 1..e : j \in DOMAIN W /\ j # e + i
              BY <3>3, <5>1
            <6>3. \A j \in 1..e : W[j] # W[e + i]
              BY <3>1, <3>3, <6>1, <6>2
            <6> QED  BY <3>6, <6>1, <6>3
          <5>2. CASE i = Len(W) - e + 1
            <6>1. \A j \in 1..e : W[j] # k
              BY <3>3, <3>6
            <6> QED  BY <3>5, <5>2, <6>1
          <5> QED  BY <3>3, <3>5, <5>1, <5>2
        <4>2. ASSUME NEW x \in Range(list), x # k, x \notin gone
              PROVE  \E i \in DOMAIN list' : list'[i] = x
          <5>1. PICK i \in 1..Len(W) : W[i] = x
            <6>1. x \in Range(W) /\ Range(W) = {W[i] : i \in 1..Len(W)}
              BY <3>1, <3>3, <4>2 DEF Range
            <6> QED  BY <6>1
          <5>2. i > e
            BY <3>3, <4>2, <5>1
          <5>3. i - e \in 1..Len(W) - e /\ list'[i - e] = x
            BY <3>3, <3>5, <5>1, <5>2
          <5> QED  BY <3>3, <3>5, <5>3
        <4>3. \E i \in DOMAIN list' : list'[i] = k
          BY <3>3, <3>5
        <4>4. Range(list)' = {list'[i] : i \in DOMAIN list'}
          BY DEF Range
        <4>5. k \notin gone
          BY <3>3, <3>6
        <4> QED  BY <4>1, <4>2, <4>3, <4>4, <4>5
      <3> HIDE DEF gone
      <3>9. map' \in [Range(list)' -> DbData]
        BY <2>1, <3>2, <3>8
      <3> QED  BY <2>1, <3>3, <3>5, <3>7, <3>9 DEF CacheExact
    <2>3. ASSUME NEW k \in DbKey, Erase(k) PROVE CacheExact'
      <3> DEFINE W == Without(k)
      <3>1. /\ W \in Seq(DbKey) /\ Len(W) <= Len(list) /\ Range(W) = Range(list) \ {k}
            /\ \A i, j \in DOMAIN W : W[i] = W[j] => i = j
        BY <2>1, WithoutFacts
      <3>2. list' = W /\ map' = [i \in Range(list) \ {k} |-> map[i]]
        BY <2>1, <2>3 DEF Erase, Restrict
      <3> HIDE DEF W
      <3>3. Range(list)' = Range(list) \ {k}
        BY <3>1, <3>2 DEF Range
      <3>4. map' \in [Range(list)' -> DbData]
        BY <2>1, <3>2, <3>3
      <3>5. Len(W) <= DbSize + 1
        BY <2>1, <3>1
      <3> QED  BY <3>1, <3>2, <3>4, <3>5 DEF CacheExact
    <2>4. ASSUME NEW k \in DbKey, Retrieve(k) PROVE CacheExact'
      BY <2>4 DEF Retrieve, CacheExact, Range
    <2>5. CASE UNCHANGED dbVars
      BY <2>5 DEF dbVars, CacheExact, Range
    <2> QED  BY <2>2, <2>3, <2>4, <2>5 DEF DbNext
  <1> QED  BY <1>1, <1>2, PTL DEF DbSpec

-----------------------------------------------------------------------------
(* The parser in its buffer                                                 *)

\* The states of operator bool()
ParserStates == {"FindElementStart", "FindElementEnd", "FindArgumentName",
                 "FindQuotedArgumentValue", "FindArgumentValue", "FindTLSEnd"}

\* What the buffer holds
ParserChar == STRING \cup {NUL}

\* The members of XmlParser
ParserRec == [buf : Seq(ParserChar), pos : Nat, name : Nat, argument : Int,
              attribute : Seq(Int \X Int), quote : ParserChar, starttls : BOOLEAN,
              state : ParserStates, res : {"more", "wait", "command", "invalid"}]

\* A pointer of an attribute, between the tag and position k
NameTo(p, a, k) == a[1] \in p.name..k
ValueTo(p, a, k, wild) ==
    a[2] = NoValue \/ (wild /\ a[2] = Wild) \/ a[2] \in p.name..k

\* name and all pointers of attributes lie between the tag and position k.
UpTo(p, k, wild) ==
    /\ p.name <= k
    /\ \A i \in DOMAIN p.attribute :
          NameTo(p, p.attribute[i], k) /\ ValueTo(p, p.attribute[i], k, wild)

\* A '\0' lies behind the start of every string that the parser points to.
Ended(p, wild) == \E k \in 1..Len(p.buf) : p.buf[k] = NUL /\ UpTo(p, k, wild)

\* What operator bool() keeps.  Between elements the pointers are stale and may
\* point anywhere, only name stays below the length of the buffer; while an element
\* is read they lie between its tag and parsePos.
ParserShape(p, len, wild) ==
    /\ p \in ParserRec
    /\ p.pos \in 1..Len(p.buf) + 1
    /\ Len(p.buf) <= len
    /\ p.name >= 1 /\ (p.name = 1 \/ p.name < len)
    /\ p.state = "FindElementStart" /\ p.res \in {"wait", "invalid"}
         => p.pos + 1 >= Len(p.buf)
    /\ p.state # "FindElementStart" => UpTo(p, p.pos, wild)
    /\ p.state = "FindArgumentName" => p.argument \in p.name..p.pos
    /\ p.state = "FindTLSEnd" \/ p.res = "command" => Ended(p, wild)
    /\ p.res = "command" => p.state = "FindElementStart"

\* A set of naturals that is not empty has a least element.
LEMMA LeastOf ==
  ASSUME NEW T, T \subseteq Nat, T # {}
  PROVE  Min(T) \in T
  <1>1. PICK i \in T : \A j \in T : ~ (<<j, i>> \in OpToRel(<, Nat))
    BY WFMin, NatLessThanWellFounded
  <1>2. \A j \in T : <<j, i>> \in OpToRel(<, Nat) <=> j < i
    BY DEF OpToRel
  <1>3. \A j \in T : ~ (j < i)
    BY <1>1, <1>2, Zenon
  <1>4. i \in Nat /\ \A j \in T : j \in Nat
    OBVIOUS
  <1>5. \A j \in T : i =< j
    BY <1>3, <1>4
  <1>6. \E x \in T : \A y \in T : x =< y
    BY <1>5
  <1> QED  BY <1>6, Zenon DEF Min

\* Scanning from parsePos ends at a character that is sought or at inputEnd.
LEMMA FirstFrom ==
  ASSUME NEW n \in Nat, NEW pos \in 1..n + 1, NEW I, I \subseteq pos..n
  PROVE  LET f == IF I # {} THEN Min(I) ELSE 0
         IN  (IF f = 0 THEN n + 1 ELSE f) \in pos..n + 1
  <1>1. CASE I = {}
    BY <1>1
  <1>2. CASE I # {}
    <2>1. I \subseteq Nat
      OBVIOUS
    <2>2. Min(I) \in I
      BY <1>2, <2>1, LeastOf
    <2>3. Min(I) \in pos..n
      BY <2>2
    <2>4. Min(I) # 0 /\ Min(I) \in pos..n + 1
      BY <2>3
    <2> QED  BY <1>2, <2>4
  <1> QED  BY <1>1, <1>2

\* Find() does not leave the text that is read and never goes back.
LEMMA FindFacts ==
  ASSUME NEW p \in ParserRec, p.pos \in 1..Len(p.buf) + 1, NEW chars
  PROVE  Find(p, chars) \in p.pos..Len(p.buf) + 1
  <1> DEFINE I == {i \in p.pos..Len(p.buf) : p.buf[i] \in chars}
             f == IF I # {} THEN Min(I) ELSE 0
  <1>1. Len(p.buf) \in Nat
    BY DEF ParserRec
  <1>2. Find(p, chars) = IF f = 0 THEN Len(p.buf) + 1 ELSE f
    BY DEF Find, End, SelectInSubSeq
  <1>3. I \subseteq p.pos..Len(p.buf)
    OBVIOUS
  <1> HIDE DEF I
  <1> QED  BY <1>1, <1>2, <1>3, FirstFrom

\* Pointers up to k are pointers up to anything behind k.
LEMMA UpToMore ==
  ASSUME NEW wild, NEW p \in ParserRec, NEW k \in Nat, NEW m \in Nat, k <= m,
         UpTo(p, k, wild)
  PROVE  UpTo(p, m, wild)
  <1>1. p.name \in Nat
    BY DEF ParserRec
  <1>2. p.name <= m
    BY <1>1 DEF UpTo
  <1>3. \A x : x \in p.name..k => x \in p.name..m
    BY <1>1
  <1> QED  BY <1>2, <1>3 DEF UpTo, NameTo, ValueTo

\* Pointers are where they were as long as name and attributes are.
LEMMA UpToSame ==
  ASSUME NEW wild, NEW p, NEW r, r.name = p.name, r.attribute = p.attribute, NEW k
  PROVE  UpTo(r, k, wild) <=> UpTo(p, k, wild)
  BY DEF UpTo, NameTo, ValueTo

\* "return false" moves parsePos and nothing else.
LEMMA WaitFacts ==
  ASSUME NEW p \in ParserRec, NEW i \in Nat
  PROVE  LET r == Wait(p, i)
         IN  /\ r \in ParserRec /\ r.pos = i /\ r.res = "wait"
             /\ r.buf = p.buf /\ r.name = p.name /\ r.argument = p.argument
             /\ r.attribute = p.attribute /\ r.state = p.state
             /\ r.quote = p.quote /\ r.starttls = p.starttls
  BY DEF Wait, ParserRec

\* Going round the loop moves parsePos and changes the state.
LEMMA MoreFacts ==
  ASSUME NEW p \in ParserRec, NEW i \in Nat, NEW s \in ParserStates
  PROVE  LET r == More(p, i, s)
         IN  /\ r \in ParserRec /\ r.pos = i /\ r.res = "more" /\ r.state = s
             /\ r.buf = p.buf /\ r.name = p.name /\ r.argument = p.argument
             /\ r.attribute = p.attribute
             /\ r.quote = p.quote /\ r.starttls = p.starttls
  BY DEF More, ParserRec

\* A '\0' in the text leaves all members alone.
LEMMA ClobberFacts ==
  ASSUME NEW p \in ParserRec, NEW i \in 1..Len(p.buf)
  PROVE  LET r == Clobber(p, i)
         IN  /\ r \in ParserRec /\ Len(r.buf) = Len(p.buf) /\ r.buf[i] = NUL
             /\ r.pos = p.pos /\ r.name = p.name /\ r.argument = p.argument
             /\ r.attribute = p.attribute /\ r.state = p.state /\ r.res = p.res
             /\ r.quote = p.quote /\ r.starttls = p.starttls
  <1> DEFINE b == [p.buf EXCEPT ![i] = NUL]
             r == [p EXCEPT !.buf = b]
  <1>0. NUL \in ParserChar
    BY DEF ParserChar
  <1>1. p.buf \in Seq(ParserChar)
    BY DEF ParserRec
  <1>2. b \in Seq(ParserChar) /\ Len(b) = Len(p.buf) /\ b[i] = NUL
    BY <1>0, <1>1
  <1>3. Clobber(p, i) = r
    BY DEF Clobber
  <1> HIDE DEF b
  <1>4. /\ r \in ParserRec /\ r.buf = b
        /\ r.pos = p.pos /\ r.name = p.name /\ r.argument = p.argument
        /\ r.attribute = p.attribute /\ r.state = p.state /\ r.res = p.res
        /\ r.quote = p.quote /\ r.starttls = p.starttls
    BY <1>2 DEF ParserRec
  <1> QED  BY <1>2, <1>3, <1>4

\* What all positions of the scan have in common
ParserBase(p, len) ==
    /\ p \in ParserRec /\ Len(p.buf) <= len
    /\ p.name >= 1 /\ (p.name = 1 \/ p.name < len)

\* The common part of all states
LEMMA ShapeBase ==
  ASSUME NEW wild, NEW p, NEW len, ParserShape(p, len, wild)
  PROVE  /\ ParserBase(p, len) /\ p.pos \in 1..Len(p.buf) + 1
         /\ Len(p.buf) \in Nat /\ p.name \in Nat
  BY DEF ParserShape, ParserBase, ParserRec

\* Going round the loop, in any state but the one after <starttls
LEMMA ShapeMore ==
  ASSUME NEW wild, NEW q, NEW len, ParserBase(q, len), NEW i \in 1..Len(q.buf) + 1,
         NEW s \in ParserStates, s # "FindTLSEnd",
         s # "FindElementStart" => UpTo(q, i, wild),
         s = "FindArgumentName" => q.argument \in q.name..i
  PROVE  ParserShape(More(q, i, s), len, wild)
  <1> DEFINE r == More(q, i, s)
  <1>1. q \in ParserRec /\ Len(q.buf) \in Nat /\ i \in Nat
    BY DEF ParserBase, ParserRec
  <1>2. /\ r \in ParserRec /\ r.pos = i /\ r.res = "more" /\ r.state = s
        /\ r.buf = q.buf /\ r.name = q.name /\ r.argument = q.argument
        /\ r.attribute = q.attribute
    BY <1>1, MoreFacts
  <1> HIDE DEF r
  <1>3. UpTo(r, i, wild) <=> UpTo(q, i, wild)
    BY <1>2, UpToSame
  <1>4. ParserShape(r, len, wild)
    BY <1>2, <1>3 DEF ParserShape, ParserBase
  <1> QED  BY <1>4 DEF r

\* Returning false keeps the state, and the scan goes on where it stopped.
LEMMA ShapeWait ==
  ASSUME NEW wild, NEW p, NEW len, ParserShape(p, len, wild),
         NEW i \in p.pos..Len(p.buf) + 1,
         p.state = "FindElementStart" => i + 1 >= Len(p.buf)
  PROVE  ParserShape(Wait(p, i), len, wild)
  <1> DEFINE r == Wait(p, i)
  <1>1. ParserBase(p, len) /\ p.pos \in 1..Len(p.buf) + 1 /\ Len(p.buf) \in Nat
    BY ShapeBase
  <1>2. p \in ParserRec /\ i \in Nat /\ p.pos \in Nat /\ p.pos <= i /\ i \in 1..Len(p.buf) + 1
    BY <1>1 DEF ParserBase
  <1>3. /\ r \in ParserRec /\ r.pos = i /\ r.res = "wait"
        /\ r.buf = p.buf /\ r.name = p.name /\ r.argument = p.argument
        /\ r.attribute = p.attribute /\ r.state = p.state
    BY <1>2, WaitFacts
  <1> HIDE DEF r
  <1>4. \A k : UpTo(r, k, wild) <=> UpTo(p, k, wild)
    BY <1>3, UpToSame
  <1>5. p.state # "FindElementStart" => UpTo(r, i, wild)
    <2>1. p.state # "FindElementStart" => UpTo(p, p.pos, wild)
      BY DEF ParserShape
    <2>2. p.state # "FindElementStart" => UpTo(p, i, wild)
      BY <1>2, <2>1, UpToMore
    <2> QED  BY <1>4, <2>2
  <1>6. p.state = "FindTLSEnd" => Ended(r, wild)
    <2>1. p.state = "FindTLSEnd" => Ended(p, wild)
      BY DEF ParserShape
    <2> QED  BY <1>3, <1>4, <2>1 DEF Ended
  <1>7. p.state = "FindArgumentName" => r.argument \in r.name..i
    <2>1. p.state = "FindArgumentName" => p.argument \in p.name..p.pos
      BY DEF ParserShape
    <2>2. p.name \in Nat
      BY <1>2 DEF ParserRec
    <2> QED  BY <1>2, <1>3, <2>1, <2>2
  <1>8. ParserShape(r, len, wild)
    BY <1>1, <1>2, <1>3, <1>5, <1>6, <1>7 DEF ParserShape, ParserBase
  <1> QED  BY <1>8 DEF r

\* A piece of the buffer is overwritten with '\0'.
LEMMA ShapeClobber ==
  ASSUME NEW p, NEW len, ParserBase(p, len), NEW i \in 1..Len(p.buf)
  PROVE  ParserBase(Clobber(p, i), len)
  <1>1. p \in ParserRec
    BY DEF ParserBase
  <1> DEFINE r == Clobber(p, i)
  <1>2. r \in ParserRec /\ Len(r.buf) = Len(p.buf) /\ r.name = p.name
    BY <1>1, ClobberFacts
  <1> HIDE DEF r
  <1>3. ParserBase(r, len)
    BY <1>2 DEF ParserBase
  <1> QED  BY <1>3 DEF r

\* The case FindArgumentValue
LEMMA ValueShape ==
  ASSUME NEW wild, NEW p, NEW len, ParserShape(p, len, wild),
         p.state # "FindElementStart"
  PROVE  ParserShape(FindArgumentValue(p), len, wild)
  <1> DEFINE i == Find(p, {" ", ">"})
  <1>1. /\ ParserBase(p, len) /\ p \in ParserRec /\ p.pos \in 1..Len(p.buf) + 1
        /\ Len(p.buf) \in Nat
    BY ShapeBase DEF ParserBase
  <1>2. i \in p.pos..Len(p.buf) + 1
    BY <1>1, FindFacts
  <1>3. FindArgumentValue(p) = IF i = Len(p.buf) + 1 THEN Wait(p, i)
                                                   ELSE More(p, i, "FindElementEnd")
    BY DEF FindArgumentValue, End
  <1> HIDE DEF i
  <1>4. ParserShape(Wait(p, i), len, wild)
    BY <1>2, ShapeWait
  <1>5. ParserShape(More(p, i, "FindElementEnd"), len, wild)
    <2>1. UpTo(p, p.pos, wild)
      BY DEF ParserShape
    <2>2. i \in Nat /\ p.pos \in Nat /\ p.pos <= i /\ i \in 1..Len(p.buf) + 1
      BY <1>1, <1>2
    <2>3. UpTo(p, i, wild)
      BY <1>1, <2>1, <2>2, UpToMore
    <2>4. "FindElementEnd" \in ParserStates
      BY DEF ParserStates
    <2> QED  BY <1>1, <2>2, <2>3, <2>4, ShapeMore
  <1> QED  BY <1>3, <1>4, <1>5

\* The case FindQuotedArgumentValue, and the one it falls through to
LEMMA QuotedShape ==
  ASSUME NEW wild, NEW p, NEW len, ParserShape(p, len, wild),
         p.state = "FindQuotedArgumentValue"
  PROVE  ParserShape(FindQuotedArgumentValue(p), len, wild)
  <1> DEFINE i == Find(p, {p.quote})
             q == Clobber(p, i)
             r == More(q, i + 1, "FindElementEnd")
  <1>1. /\ ParserBase(p, len) /\ p \in ParserRec /\ p.pos \in 1..Len(p.buf) + 1
        /\ Len(p.buf) \in Nat
    BY ShapeBase DEF ParserBase
  <1>2. i \in p.pos..Len(p.buf) + 1
    BY <1>1, FindFacts
  <1>3. FindQuotedArgumentValue(p) =
           IF i + 1 >= Len(p.buf) + 1 THEN Wait(p, i) ELSE FindArgumentValue(r)
    BY DEF FindQuotedArgumentValue, End
  <1> HIDE DEF i
  <1>4. CASE i + 1 >= Len(p.buf) + 1
    BY <1>2, <1>3, <1>4, ShapeWait
  <1>5. CASE ~ (i + 1 >= Len(p.buf) + 1)
    <2>1. /\ i \in 1..Len(p.buf) /\ i + 1 \in 1..Len(p.buf) + 1 /\ i + 1 \in Nat
          /\ p.pos \in Nat /\ p.pos <= i + 1
      BY <1>1, <1>2, <1>5
    <2>2. ParserBase(q, len)
      BY <1>1, <2>1, ShapeClobber
    <2>3. Len(q.buf) = Len(p.buf) /\ q.name = p.name /\ q.attribute = p.attribute
      BY <1>1, <2>1, ClobberFacts
    <2> HIDE DEF q
    <2>4. UpTo(p, p.pos, wild)
      BY DEF ParserShape
    <2>5. UpTo(p, i + 1, wild)
      BY <1>1, <2>1, <2>4, UpToMore
    <2>6. UpTo(q, i + 1, wild)
      BY <2>3, <2>5, UpToSame
    <2>7. "FindElementEnd" \in ParserStates
      BY DEF ParserStates
    <2>8. i + 1 \in 1..Len(q.buf) + 1
      BY <2>1, <2>3
    <2>9. ParserShape(r, len, wild)
      BY <2>2, <2>6, <2>7, <2>8, ShapeMore
    <2>10. r.state = "FindElementEnd"
      BY <2>1, <2>2, <2>7, MoreFacts DEF ParserBase
    <2> HIDE DEF r
    <2>11. ParserShape(FindArgumentValue(r), len, wild)
      BY <2>9, <2>10, ValueShape
    <2> QED  BY <1>3, <1>5, <2>11
  <1> QED  BY <1>4, <1>5

\* The case FindElementStart: name is set where the tag begins.
LEMMA StartShape ==
  ASSUME NEW wild, NEW p, NEW len \in Nat, ParserShape(p, len, wild),
         p.state = "FindElementStart"
  PROVE  ParserShape(FindElementStart(p), len, wild)
  <1> DEFINE i == Find(p, {"<"})
             q == [p EXCEPT !.name = i + 1]
             m == More(q, i + 1, "FindElementEnd")
             r == [m EXCEPT !.attribute = <<>>, !.starttls = FALSE]
  <1>1. /\ ParserBase(p, len) /\ p \in ParserRec /\ p.pos \in 1..Len(p.buf) + 1
        /\ Len(p.buf) \in Nat
    BY ShapeBase DEF ParserBase
  <1>2. i \in p.pos..Len(p.buf) + 1
    BY <1>1, FindFacts
  <1>3. FindElementStart(p) =
           IF i + 2 >= Len(p.buf) + 1 THEN Wait(p, i)
           ELSE IF p.buf[i + 1] \notin Letter THEN More(q, i + 1, "FindElementStart")
           ELSE r
    BY DEF FindElementStart, End
  <1> HIDE DEF i
  <1>4. CASE i + 2 >= Len(p.buf) + 1
    <2>1. i + 1 >= Len(p.buf)
      BY <1>1, <1>2, <1>4
    <2> QED  BY <1>2, <1>3, <1>4, <2>1, ShapeWait
  <1>5. CASE ~ (i + 2 >= Len(p.buf) + 1)
    <2>1. i \in Nat /\ i + 1 \in 1..Len(p.buf) + 1 /\ i + 1 < Len(p.buf) /\ i + 1 >= 1
      BY <1>1, <1>2, <1>5
    <2>2. /\ q \in ParserRec /\ q.buf = p.buf /\ q.name = i + 1
          /\ q.attribute = p.attribute
      <3>1. \A n \in Nat : LET w == [p EXCEPT !.name = n]
                          IN  /\ w \in ParserRec /\ w.buf = p.buf /\ w.name = n
                              /\ w.attribute = p.attribute
        BY <1>1 DEF ParserRec
      <3>2. i + 1 \in Nat
        BY <2>1
      <3> QED  BY <3>1, <3>2
    <2> HIDE DEF q
    <2>3. ParserBase(q, len)
      <3>1. Len(p.buf) <= len
        BY <1>1 DEF ParserBase
      <3>2. i + 1 < len
        BY <1>1, <2>1, <3>1
      <3> QED  BY <2>1, <2>2, <3>1, <3>2 DEF ParserBase
    <2>4. {"FindElementStart", "FindElementEnd"} \subseteq ParserStates
      BY DEF ParserStates
    <2>5. i + 1 \in 1..Len(q.buf) + 1
      BY <2>1, <2>2
    <2>6. ParserShape(More(q, i + 1, "FindElementStart"), len, wild)
      BY <2>3, <2>4, <2>5, ShapeMore
    <2>7. /\ m \in ParserRec /\ m.pos = i + 1 /\ m.res = "more"
          /\ m.state = "FindElementEnd" /\ m.buf = p.buf /\ m.name = i + 1
      <3>1. i + 1 \in Nat
        BY <2>1
      <3>2. "FindElementEnd" \in ParserStates
        BY <2>4
      <3>3. /\ m \in ParserRec /\ m.pos = i + 1 /\ m.res = "more"
            /\ m.state = "FindElementEnd" /\ m.buf = q.buf /\ m.name = q.name
        BY <2>2, <3>1, <3>2, MoreFacts
      <3> QED  BY <2>2, <3>3
    <2> HIDE DEF m
    <2>8. /\ r \in ParserRec /\ r.pos = i + 1 /\ r.res = "more"
          /\ r.state = "FindElementEnd" /\ r.buf = p.buf /\ r.name = i + 1
          /\ r.attribute = <<>>
      <3>1. <<>> \in Seq(Int \X Int)
        OBVIOUS
      <3>2. /\ r \in ParserRec /\ r.pos = m.pos /\ r.res = m.res
            /\ r.state = m.state /\ r.buf = m.buf /\ r.name = m.name
            /\ r.attribute = <<>>
        BY <2>7, <3>1 DEF ParserRec
      <3> QED  BY <2>7, <3>2
    <2> HIDE DEF r
    <2>9. UpTo(r, i + 1, wild)
      BY <2>1, <2>8 DEF UpTo
    <2>10. ParserShape(r, len, wild)
      <3>1. r.name >= 1 /\ r.name < len /\ Len(r.buf) <= len
        BY <2>2, <2>3, <2>8, <1>1, <2>1 DEF ParserBase
      <3>2. r.pos \in 1..Len(r.buf) + 1
        BY <2>1, <2>8
      <3> QED  BY <2>8, <2>9, <3>1, <3>2 DEF ParserShape
    <2> QED  BY <1>3, <1>5, <2>6, <2>10
  <1> QED  BY <1>4, <1>5

\* Text before parsePos may be overwritten while an element is being read.
LEMMA ShapeRewrite ==
  ASSUME NEW wild, NEW p, NEW len, ParserShape(p, len, wild),
         p.state # "FindElementStart",
         p.state # "FindTLSEnd", NEW b \in Seq(ParserChar), Len(b) = Len(p.buf)
  PROVE  LET q == [p EXCEPT !.buf = b]
         IN  /\ ParserShape(q, len, wild) /\ q.buf = b /\ q.pos = p.pos /\ q.name = p.name
             /\ q.attribute = p.attribute /\ q.state = p.state
             /\ q.argument = p.argument /\ q.starttls = p.starttls
  <1> DEFINE q == [p EXCEPT !.buf = b]
  <1>1. p \in ParserRec
    BY DEF ParserShape
  <1>2. /\ q \in ParserRec /\ q.buf = b /\ q.pos = p.pos /\ q.name = p.name
        /\ q.attribute = p.attribute /\ q.state = p.state /\ q.res = p.res
        /\ q.argument = p.argument /\ q.starttls = p.starttls
    BY <1>1 DEF ParserRec
  <1> HIDE DEF q
  <1>3. UpTo(q, p.pos, wild) <=> UpTo(p, p.pos, wild)
    BY <1>2, UpToSame
  <1>4. ParserShape(q, len, wild)
    BY <1>2, <1>3 DEF ParserShape
  <1> QED  BY <1>2, <1>4 DEF q

\* A complete element: a '\0' ends its last string.
LEMMA CompleteShape ==
  ASSUME NEW wild, NEW q, NEW len, ParserBase(q, len), Ended(q, wild),
         NEW i \in 1..Len(q.buf) + 1,
         UpTo(q, i, wild)
  PROVE  ParserShape(ElementComplete(q, i), len, wild)
  <1>1. q \in ParserRec /\ Len(q.buf) \in Nat /\ i \in Nat
    BY DEF ParserBase, ParserRec
  <1>2. {"FindTLSEnd", "FindElementStart"} \subseteq ParserStates
    BY DEF ParserStates
  <1>3. ParserShape(More(q, i, "FindTLSEnd"), len, wild)
    <2> DEFINE r == More(q, i, "FindTLSEnd")
    <2>1. /\ r \in ParserRec /\ r.pos = i /\ r.res = "more" /\ r.state = "FindTLSEnd"
          /\ r.buf = q.buf /\ r.name = q.name /\ r.attribute = q.attribute
      BY <1>1, <1>2, MoreFacts
    <2> HIDE DEF r
    <2>2. \A k : UpTo(r, k, wild) <=> UpTo(q, k, wild)
      BY <2>1, UpToSame
    <2>3. Ended(r, wild)
      BY <2>1, <2>2 DEF Ended
    <2>4. ParserShape(r, len, wild)
      BY <2>1, <2>2, <2>3 DEF ParserShape, ParserBase
    <2> QED  BY <2>4 DEF r
  <1>4. ParserShape([More(q, i, "FindElementStart") EXCEPT !.res = "command"], len, wild)
    <2> DEFINE m == More(q, i, "FindElementStart")
               r == [m EXCEPT !.res = "command"]
    <2>1. /\ m \in ParserRec /\ m.pos = i /\ m.state = "FindElementStart"
          /\ m.buf = q.buf /\ m.name = q.name /\ m.attribute = q.attribute
      BY <1>1, <1>2, MoreFacts
    <2> HIDE DEF m
    <2>2. /\ r \in ParserRec /\ r.pos = m.pos /\ r.res = "command" /\ r.state = m.state
          /\ r.buf = m.buf /\ r.name = m.name /\ r.attribute = m.attribute
      BY <2>1 DEF ParserRec
    <2> HIDE DEF r
    <2>3. \A k : UpTo(r, k, wild) <=> UpTo(q, k, wild)
      BY <2>1, <2>2, UpToSame
    <2>4. Ended(r, wild)
      BY <2>1, <2>2, <2>3 DEF Ended
    <2>5. ParserShape(r, len, wild)
      BY <2>1, <2>2, <2>4 DEF ParserShape, ParserBase
    <2> QED  BY <2>5 DEF r, m
  <1> QED  BY <1>3, <1>4 DEF ElementComplete

\* The case FindElementEnd: blanks become '\0', then the element ends or the name
\* of an argument begins.
LEMMA EndShape ==
  ASSUME NEW wild, NEW p, NEW len, ParserShape(p, len, wild),
         p.state = "FindElementEnd"
  PROVE  ParserShape(FindElementEnd(p), len, wild)
  <1> DEFINE I == {j \in p.pos..Len(p.buf) : p.buf[j] # " "}
             f == IF I # {} THEN Min(I) ELSE 0
             i == IF f = 0 THEN Len(p.buf) + 1 ELSE f
             b == SubSeq(p.buf, 1, p.pos - 1) \o [j \in 1..i - p.pos |-> NUL]
                     \o SubSeq(p.buf, i, Len(p.buf))
             q == [p EXCEPT !.buf = b]
             L == Len(p.buf)
  <1>1. /\ ParserBase(p, len) /\ p \in ParserRec /\ p.pos \in 1..L + 1
        /\ L \in Nat /\ p.buf \in Seq(ParserChar)
    BY ShapeBase DEF ParserBase, ParserRec
  <1>2. i \in p.pos..L + 1
    <2>1. I \subseteq p.pos..L
      OBVIOUS
    <2> HIDE DEF I, L
    <2>2. (IF f = 0 THEN L + 1 ELSE f) \in p.pos..L + 1
      BY <1>1, <2>1, FirstFrom
    <2> QED  BY <2>2 DEF L
  <1>3. FindElementEnd(p) =
           IF i = L + 1 THEN Wait(q, i)
           ELSE IF p.buf[i] = "/"
           THEN IF i + 1 >= L + 1 THEN Wait(q, i)
                ELSE IF p.buf[i + 1] = ">" THEN ElementComplete(Clobber(q, i), i + 2)
                ELSE More(Clobber(q, i), i + 2, "FindElementStart")
           ELSE IF p.buf[i] = ">" THEN ElementComplete(Clobber(q, i), i + 1)
           ELSE IF p.buf[i] \notin Letter THEN More(q, i, "FindElementStart")
           ELSE [More(q, i, "FindArgumentName") EXCEPT !.argument = i]
    BY DEF FindElementEnd, End, SelectInSubSeq
  <1> HIDE DEF i, L
  <1>4. b \in Seq(ParserChar) /\ Len(b) = L
    <2> DEFINE x == SubSeq(p.buf, 1, p.pos - 1)
               y == [j \in 1..i - p.pos |-> NUL]
               z == SubSeq(p.buf, i, L)
    <2>0. i - p.pos \in Nat /\ p.pos - 1 \in 0..L /\ i \in 1..L + 1
          /\ Len(p.buf) = L
      BY <1>1, <1>2 DEF L
    <2>1. x \in Seq(ParserChar) /\ Len(x) = p.pos - 1
      BY <1>1, <2>0
    <2>2. y \in Seq(ParserChar) /\ Len(y) = i - p.pos
      <3>1. NUL \in ParserChar
        BY DEF ParserChar
      <3> QED  BY <2>0, <3>1
    <2>3. z \in Seq(ParserChar) /\ Len(z) = L - i + 1
      BY <1>1, <2>0
    <2> HIDE DEF x, y, z
    <2>4. (x \o y) \o z \in Seq(ParserChar)
          /\ Len((x \o y) \o z) = (p.pos - 1) + (i - p.pos) + (L - i + 1)
      <3>1. x \o y \in Seq(ParserChar) /\ Len(x \o y) = (p.pos - 1) + (i - p.pos)
        BY <2>1, <2>2
      <3> QED  BY <2>3, <3>1
    <2>5. (p.pos - 1) + (i - p.pos) + (L - i + 1) = L
      BY <1>1, <1>2
    <2> QED  BY <2>4, <2>5 DEF x, y, z, L
  <1> HIDE DEF b
  <1>5. /\ ParserShape(q, len, wild) /\ q.buf = b /\ q.pos = p.pos /\ q.name = p.name
        /\ q.attribute = p.attribute /\ q.state = "FindElementEnd"
    BY <1>4, ShapeRewrite DEF L
  <1> HIDE DEF q
  <1>6. /\ ParserBase(q, len) /\ q \in ParserRec /\ Len(q.buf) = L
        /\ q.pos \in Nat /\ i \in Nat /\ q.pos <= i
    BY <1>1, <1>2, <1>4, <1>5, ShapeBase DEF ParserBase
  <1>7. UpTo(q, q.pos, wild)
    BY <1>5 DEF ParserShape
  <1>8. \A k \in Nat : i <= k => UpTo(q, k, wild)
    <2> SUFFICES ASSUME NEW k \in Nat, i <= k PROVE UpTo(q, k, wild)
      OBVIOUS
    <2>1. q.pos <= k
      BY <1>6
    <2> QED  BY <1>6, <1>7, <2>1, UpToMore
  <1>9. ParserShape(Wait(q, i), len, wild)
    <2>1. i \in q.pos..Len(q.buf) + 1
      BY <1>2, <1>5, <1>6
    <2> QED  BY <1>5, <2>1, ShapeWait
  <1>10. {"FindElementStart", "FindArgumentName"} \subseteq ParserStates
    BY DEF ParserStates
  <1>11. ASSUME i # L + 1, NEW k \in {i + 1, i + 2}, k <= L + 1
         PROVE  /\ ParserShape(ElementComplete(Clobber(q, i), k), len, wild)
                /\ ParserShape(More(Clobber(q, i), k, "FindElementStart"), len, wild)
    <2> DEFINE c == Clobber(q, i)
    <2>1. /\ i \in 1..Len(q.buf) /\ k \in Nat /\ i <= k /\ k \in 1..L + 1
      BY <1>1, <1>2, <1>6, <1>11
    <2>2. /\ ParserBase(c, len)
      BY <1>6, <2>1, ShapeClobber
    <2>3. /\ Len(c.buf) = L /\ c.buf[i] = NUL /\ c.name = q.name
          /\ c.attribute = q.attribute
      BY <1>6, <2>1, ClobberFacts
    <2> HIDE DEF c
    <2>4. UpTo(c, i, wild) /\ UpTo(c, k, wild)
      <3>1. UpTo(q, i, wild) /\ UpTo(q, k, wild)
        BY <1>6, <1>8, <2>1
      <3> QED  BY <2>3, <3>1, UpToSame
    <2>5. Ended(c, wild)
      <3>1. i \in 1..Len(c.buf)
        BY <1>6, <2>1, <2>3
      <3> QED  BY <2>3, <2>4, <3>1 DEF Ended
    <2>6. k \in 1..Len(c.buf) + 1
      BY <2>1, <2>3
    <2>7. ParserShape(ElementComplete(c, k), len, wild)
      BY <2>2, <2>4, <2>5, <2>6, CompleteShape
    <2>8. ParserShape(More(c, k, "FindElementStart"), len, wild)
      BY <1>10, <2>2, <2>6, ShapeMore
    <2> QED  BY <2>7, <2>8 DEF c
  <1>12. ParserShape(More(q, i, "FindElementStart"), len, wild)
    <2>1. i \in 1..Len(q.buf) + 1
      BY <1>1, <1>2, <1>6
    <2> QED  BY <1>6, <1>10, <2>1, ShapeMore
  <1>13. ParserShape([More(q, i, "FindArgumentName") EXCEPT !.argument = i], len, wild)
    <2> DEFINE m == More(q, i, "FindArgumentName")
               r == [m EXCEPT !.argument = i]
    <2>1. /\ m \in ParserRec /\ m.pos = i /\ m.state = "FindArgumentName"
          /\ m.buf = q.buf /\ m.name = q.name /\ m.attribute = q.attribute
          /\ m.res = "more"
      BY <1>6, <1>10, MoreFacts
    <2> HIDE DEF m
    <2>2. /\ r \in ParserRec /\ r.pos = m.pos /\ r.res = m.res /\ r.state = m.state
          /\ r.buf = m.buf /\ r.name = m.name /\ r.attribute = m.attribute
          /\ r.argument = i
      <3>1. \A n \in Int :
               LET w == [m EXCEPT !.argument = n]
               IN  /\ w \in ParserRec /\ w.pos = m.pos /\ w.res = m.res
                   /\ w.state = m.state /\ w.buf = m.buf /\ w.name = m.name
                   /\ w.attribute = m.attribute /\ w.argument = n
        BY <2>1 DEF ParserRec
      <3>2. i \in Int
        BY <1>6
      <3> QED  BY <3>1, <3>2
    <2> HIDE DEF r
    <2>3. UpTo(r, i, wild)
      <3>1. UpTo(q, i, wild)
        BY <1>6, <1>8
      <3> QED  BY <2>1, <2>2, <3>1, UpToSame
    <2>4. r.argument \in r.name..r.pos
      <3>1. r.name <= i
        BY <2>3 DEF UpTo
      <3>2. r.name \in Nat
        BY <2>2 DEF ParserRec
      <3> QED  BY <1>6, <2>1, <2>2, <3>1, <3>2
    <2>5. r.pos \in 1..Len(r.buf) + 1
      BY <1>1, <1>2, <1>6, <2>1, <2>2
    <2>6. ParserShape(r, len, wild)
      BY <1>6, <2>1, <2>2, <2>3, <2>4, <2>5 DEF ParserShape, ParserBase
    <2> QED  BY <2>6 DEF r, m
  <1>14. i # L + 1 => i + 1 <= L + 1
    BY <1>1, <1>2
  <1>15. ~ (i + 1 >= L + 1) => i + 2 <= L + 1
    BY <1>1, <1>2, <1>6
  <1> QED  BY <1>3, <1>9, <1>11, <1>12, <1>13, <1>14, <1>15, Zenon

\* One more attribute whose pointers lie before k
LEMMA AppendUpTo ==
  ASSUME NEW wild, NEW q \in ParserRec, NEW k, UpTo(q, k, wild), NEW a \in Int \X Int,
         NameTo(q, a, k), ValueTo(q, a, k, wild),
         NEW r, r.name = q.name, r.attribute = Append(q.attribute, a)
  PROVE  UpTo(r, k, wild)
  <1>1. q.attribute \in Seq(Int \X Int)
    BY DEF ParserRec
  <1>2. r.name <= k
    BY DEF UpTo
  <1>3. ASSUME NEW i \in DOMAIN r.attribute
        PROVE  NameTo(r, r.attribute[i], k) /\ ValueTo(r, r.attribute[i], k, wild)
    <2>1. \/ i \in DOMAIN q.attribute /\ r.attribute[i] = q.attribute[i]
          \/ r.attribute[i] = a
      BY <1>1
    <2> QED  BY <2>1 DEF UpTo, NameTo, ValueTo
  <1> QED  BY <1>2, <1>3 DEF UpTo

\* An attribute is added, and the scan goes on at i.
LEMMA AttributeShape ==
  ASSUME NEW wild, NEW q, NEW len, ParserBase(q, len), NEW k \in Nat,
         UpTo(q, k, wild),
         NEW i \in 1..Len(q.buf) + 1, k <= i,
         NEW a \in Int \X Int, NameTo(q, a, i), ValueTo(q, a, i, wild),
         NEW s \in ParserStates, s \notin {"FindTLSEnd", "FindArgumentName"},
         NEW c \in ParserChar, NEW t \in BOOLEAN
  PROVE  /\ ParserShape(More([q EXCEPT !.attribute = Append(@, a)], i, s), len, wild)
         /\ ParserShape(More([q EXCEPT !.attribute = Append(@, a), !.quote = c], i, s),
                        len, wild)
         /\ ParserShape(More([q EXCEPT !.attribute = Append(@, a), !.starttls = t], i, s),
                        len, wild)
  <1>1. q \in ParserRec /\ Len(q.buf) \in Nat /\ i \in Nat
    BY DEF ParserBase, ParserRec
  <1>2. UpTo(q, i, wild)
    BY <1>1, UpToMore
  <1> DEFINE b == Append(q.attribute, a)
             x == [q EXCEPT !.attribute = b]
             y == [q EXCEPT !.attribute = b, !.quote = c]
             z == [q EXCEPT !.attribute = b, !.starttls = t]
  <1>3. b \in Seq(Int \X Int)
    BY <1>1 DEF ParserRec
  <1> HIDE DEF b
  <1>4. /\ x \in ParserRec /\ x.buf = q.buf /\ x.name = q.name /\ x.attribute = b
    BY <1>1, <1>3 DEF ParserRec
  <1>5. /\ y \in ParserRec /\ y.buf = q.buf /\ y.name = q.name /\ y.attribute = b
    BY <1>1, <1>3 DEF ParserRec
  <1>6. /\ z \in ParserRec /\ z.buf = q.buf /\ z.name = q.name /\ z.attribute = b
    BY <1>1, <1>3 DEF ParserRec
  <1>7. ASSUME NEW w \in ParserRec, w.buf = q.buf, w.name = q.name, w.attribute = b
        PROVE  ParserShape(More(w, i, s), len, wild)
    <2>1. ParserBase(w, len)
      BY <1>7 DEF ParserBase
    <2>2. UpTo(w, i, wild)
      BY <1>1, <1>2, <1>7, AppendUpTo DEF b
    <2>3. i \in 1..Len(w.buf) + 1
      BY <1>7
    <2> QED  BY <2>1, <2>2, <2>3, ShapeMore
  <1> HIDE DEF x, y, z
  <1>8. /\ ParserShape(More(x, i, s), len, wild) /\ ParserShape(More(y, i, s), len, wild)
        /\ ParserShape(More(z, i, s), len, wild)
    BY <1>4, <1>5, <1>6, <1>7
  <1> QED  BY <1>8 DEF x, y, z, b

\* The case FindArgumentName: a flag, or a value with or without quotes
LEMMA NameShape ==
  ASSUME NEW wild, NEW p, NEW len, ParserShape(p, len, wild),
         p.state = "FindArgumentName"
  PROVE  ParserShape(FindArgumentName(p), len, wild)
  <1> DEFINE i == Find(p, {"=", " ", "/", ">", NUL})
             L == Len(p.buf)
             t == IF p.argument = p.name THEN p.buf[p.name] = "T" ELSE p.starttls
             q == Clobber(p, i)
             x == More([p EXCEPT !.attribute = Append(@, <<p.argument, NoValue>>),
                                 !.starttls = t], i, "FindElementEnd")
             y == More([q EXCEPT !.attribute = Append(@, <<p.argument, i + 1>>)],
                       i + 2, "FindArgumentValue")
             z == More([q EXCEPT !.attribute = Append(@, <<p.argument, i + 2>>),
                                 !.quote = p.buf[i + 1]],
                       i + 2, "FindQuotedArgumentValue")
  <1>1. /\ ParserBase(p, len) /\ p \in ParserRec /\ p.pos \in 1..L + 1 /\ L \in Nat
    BY ShapeBase DEF ParserBase
  <1>2. i \in p.pos..L + 1
    BY <1>1, FindFacts
  <1>3. FindArgumentName(p) =
           IF i = L + 1 THEN Wait(p, i)
           ELSE IF p.buf[i] # "=" THEN x
           ELSE IF i + 1 >= L + 1 THEN Wait(p, i)
           ELSE IF p.buf[i + 1] \notin {"\"", "'"} THEN y
           ELSE IF i + 2 >= L + 1 THEN Wait(p, i)
           ELSE z
    BY DEF FindArgumentName, End
  <1> HIDE DEF i, t, q
  <1>4. ParserShape(Wait(p, i), len, wild)
    BY <1>2, ShapeWait
  <1>5. /\ p.pos \in Nat /\ i \in Nat /\ p.pos <= i /\ i \in 1..L + 1
        /\ p.name \in Nat /\ p.argument \in Int /\ p.argument \in p.name..p.pos
        /\ UpTo(p, p.pos, wild)
    BY <1>1, <1>2 DEF ParserShape, ParserRec
  <1>6. /\ "FindElementEnd" \in ParserStates /\ "FindArgumentValue" \in ParserStates
        /\ "FindQuotedArgumentValue" \in ParserStates
    BY DEF ParserStates
  <1>7. t \in BOOLEAN
    <2>1. p.starttls \in BOOLEAN
      BY <1>1 DEF ParserRec
    <2>2. (p.buf[p.name] = "T") \in BOOLEAN
      OBVIOUS
    <2> QED  BY <2>1, <2>2, Zenon DEF t
  <1>8. NUL \in ParserChar
    BY DEF ParserChar
  <1>9. ParserShape(x, len, wild)
    <2> DEFINE a == <<p.argument, NoValue>>
    <2>1. a \in Int \X Int /\ a[1] = p.argument /\ a[2] = NoValue
      BY <1>5 DEF NoValue
    <2>2. NameTo(p, a, i) /\ ValueTo(p, a, i, wild)
      BY <1>5, <2>1 DEF NameTo, ValueTo
    <2> HIDE DEF a
    <2>3. ParserShape(More([p EXCEPT !.attribute = Append(@, a), !.starttls = t], i,
                           "FindElementEnd"), len, wild)
      BY <1>1, <1>5, <1>6, <1>7, <1>8, <2>1, <2>2, AttributeShape
    <2> QED  BY <2>3 DEF a
  <1>10. ASSUME ~ (i + 1 >= L + 1)
         PROVE  /\ ParserBase(q, len) /\ UpTo(q, p.pos, wild)
                /\ i + 2 \in 1..Len(q.buf) + 1 /\ i + 2 \in Nat /\ p.pos <= i + 2
                /\ q.name = p.name
                /\ p.argument \in q.name..i + 2
                /\ i + 1 \in q.name..i + 2 /\ i + 2 \in q.name..i + 2
                /\ p.buf[i + 1] \in ParserChar
    <2>1. i \in 1..L /\ i + 1 \in 1..L /\ i + 2 \in 1..L + 1 /\ p.pos <= i + 2
      BY <1>1, <1>5, <1>10
    <2>2. ParserBase(q, len) /\ Len(q.buf) = L /\ q.name = p.name
          /\ q.attribute = p.attribute
      BY <1>1, <2>1, ShapeClobber, ClobberFacts DEF q
    <2>3. UpTo(q, p.pos, wild)
      BY <1>5, <2>2, UpToSame
    <2>4. p.argument \in p.name..i + 2 /\ i + 1 \in p.name..i + 2
          /\ i + 2 \in p.name..i + 2 /\ i + 2 \in Nat
      BY <1>5, <2>1
    <2>5. p.buf[i + 1] \in ParserChar
      BY <1>1, <2>1 DEF ParserRec
    <2> QED  BY <2>1, <2>2, <2>3, <2>4, <2>5
  <1>11. ~ (i + 1 >= L + 1) => ParserShape(y, len, wild)
    <2> HAVE ~ (i + 1 >= L + 1)
    <2> DEFINE a == <<p.argument, i + 1>>
    <2>1. a \in Int \X Int /\ a[1] = p.argument /\ a[2] = i + 1
      BY <1>5
    <2> HIDE DEF a
    <2>2. NameTo(q, a, i + 2) /\ ValueTo(q, a, i + 2, wild)
      BY <1>10, <2>1 DEF NameTo, ValueTo
    <2>3. ParserShape(More([q EXCEPT !.attribute = Append(@, a)], i + 2,
                           "FindArgumentValue"), len, wild)
      BY <1>5, <1>6, <1>7, <1>8, <1>10, <2>1, <2>2, AttributeShape
    <2> QED  BY <2>3 DEF a
  <1>12. ~ (i + 1 >= L + 1) => ParserShape(z, len, wild)
    <2> HAVE ~ (i + 1 >= L + 1)
    <2> DEFINE a == <<p.argument, i + 2>>
               c == p.buf[i + 1]
    <2>1. a \in Int \X Int /\ a[1] = p.argument /\ a[2] = i + 2
      BY <1>5
    <2> HIDE DEF a
    <2>2. NameTo(q, a, i + 2) /\ ValueTo(q, a, i + 2, wild)
      BY <1>10, <2>1 DEF NameTo, ValueTo
    <2>3. c \in ParserChar
      BY <1>10
    <2> HIDE DEF c
    <2>4. ParserShape(More([q EXCEPT !.attribute = Append(@, a), !.quote = c], i + 2,
                           "FindQuotedArgumentValue"), len, wild)
      BY <1>5, <1>6, <1>7, <1>10, <2>1, <2>2, <2>3, AttributeShape
    <2> QED  BY <2>4 DEF a, c
  <1> HIDE DEF x, y, z, L
  <1> QED  BY <1>3, <1>4, <1>9, <1>11, <1>12

\* The case FindTLSEnd: the line of starttls has ended, or something else follows.
LEMMA TlsShape ==
  ASSUME NEW wild, NEW p, NEW len, ParserShape(p, len, wild), p.state = "FindTLSEnd",
         p.pos <= Len(p.buf)
  PROVE  ParserShape(FindTLSEnd(p), len, wild)
  <1> DEFINE i == IF p.buf[p.pos] = "\r" THEN p.pos + 1 ELSE p.pos
             L == Len(p.buf)
             m == More(p, i + 1, "FindElementStart")
             r == [m EXCEPT !.res = "command"]
  <1>1. /\ ParserBase(p, len) /\ p \in ParserRec /\ p.pos \in 1..L + 1 /\ L \in Nat
    BY ShapeBase DEF ParserBase
  <1>2. FindTLSEnd(p) = IF i = L + 1 THEN Wait(p, p.pos)
                        ELSE IF p.buf[i] # "\n" THEN More(p, i, "FindElementStart")
                        ELSE r
    BY DEF FindTLSEnd, End
  <1>3. i \in 1..L + 1
    BY <1>1
  <1> HIDE DEF i
  <1>4. ParserShape(Wait(p, p.pos), len, wild)
    <2>1. p.pos \in p.pos..Len(p.buf) + 1
      BY <1>1
    <2> QED  BY <2>1, ShapeWait
  <1>5. "FindElementStart" \in ParserStates
    BY DEF ParserStates
  <1>6. ParserShape(More(p, i, "FindElementStart"), len, wild)
    BY <1>1, <1>3, <1>5, ShapeMore
  <1>7. ASSUME i # L + 1 PROVE ParserShape(r, len, wild)
    <2>1. i + 1 \in Nat /\ i + 1 \in 1..L + 1
      BY <1>1, <1>3, <1>7
    <2>2. /\ m \in ParserRec /\ m.pos = i + 1 /\ m.state = "FindElementStart"
          /\ m.buf = p.buf /\ m.name = p.name /\ m.attribute = p.attribute
      <3>1. i + 1 \in Nat
        BY <2>1
      <3>2. p \in ParserRec
        BY <1>1
      <3> QED  BY <1>5, <3>1, <3>2, MoreFacts
    <2> HIDE DEF m
    <2>3. /\ r \in ParserRec /\ r.pos = m.pos /\ r.res = "command" /\ r.state = m.state
          /\ r.buf = m.buf /\ r.name = m.name /\ r.attribute = m.attribute
      BY <2>2 DEF ParserRec
    <2> HIDE DEF r
    <2>4. \A k : UpTo(r, k, wild) <=> UpTo(p, k, wild)
      BY <2>2, <2>3, UpToSame
    <2>5. Ended(p, wild)
      BY DEF ParserShape
    <2>6. Ended(r, wild)
      BY <2>2, <2>3, <2>4, <2>5 DEF Ended
    <2>7. r.pos \in 1..Len(r.buf) + 1
      BY <2>1, <2>2, <2>3
    <2> QED  BY <1>1, <2>2, <2>3, <2>6, <2>7 DEF ParserShape, ParserBase
  <1> HIDE DEF r, m, L
  <1> QED  BY <1>2, <1>4, <1>6, <1>7

\* One turn of the loop in operator bool(), whatever the state
LEMMA StepShape ==
  ASSUME NEW wild, NEW p, NEW len \in Nat, ParserShape(p, len, wild),
         p.pos <= Len(p.buf)
  PROVE  ParserShape(ParseStep(p), len, wild)
  <1>1. p.state \in ParserStates
    BY DEF ParserShape, ParserRec
  <1>2. CASE p.state = "FindElementStart"
    BY <1>2, StartShape DEF ParseStep
  <1>3. CASE p.state = "FindElementEnd"
    BY <1>3, EndShape DEF ParseStep
  <1>4. CASE p.state = "FindArgumentName"
    BY <1>4, NameShape DEF ParseStep
  <1>5. CASE p.state = "FindQuotedArgumentValue"
    BY <1>5, QuotedShape DEF ParseStep
  <1>6. CASE p.state = "FindArgumentValue"
    BY <1>6, ValueShape DEF ParseStep
  <1>7. CASE p.state = "FindTLSEnd"
    BY <1>7, TlsShape DEF ParseStep
  <1> QED  BY <1>1, <1>2, <1>3, <1>4, <1>5, <1>6, <1>7 DEF ParserStates

\* The inductive invariant
ParserInd ==
    /\ input \in Seq(STRING)
    /\ bufLen \in Nat /\ bufLen < BufLenMax + BufIncrement
    /\ moved \in BOOLEAN
    /\ ParserShape(parser, bufLen, moved)

\* Without attributes nothing points to no text.
LEMMA ShapeEmpty ==
  ASSUME NEW wild, NEW other, NEW p, NEW len, ParserShape(p, len, wild),
         p.attribute = <<>>
  PROVE  ParserShape(p, len, other)
  <1>1. DOMAIN p.attribute = {}
    OBVIOUS
  <1>2. \A k : UpTo(p, k, wild) => UpTo(p, k, other)
    BY <1>1 DEF UpTo
  <1>3. Ended(p, wild) => Ended(p, other)
    BY <1>2 DEF Ended
  <1> QED  BY <1>2, <1>3 DEF ParserShape

\* read() appends what it got.
LEMMA TakeShape ==
  ASSUME NEW wild, NEW p, NEW len \in Nat, ParserShape(p, len, wild),
         NEW b \in Seq(STRING),
         NEW len2 \in Nat, len <= len2, Len(p.buf) + Len(b) <= len2
  PROVE  ParserShape([p EXCEPT !.buf = @ \o b, !.res = "more"], len2, wild)
  <1> DEFINE c == p.buf \o b
             r == [p EXCEPT !.buf = c, !.res = "more"]
  <1>1. /\ p \in ParserRec /\ p.buf \in Seq(ParserChar) /\ Len(p.buf) \in Nat
        /\ p.pos \in 1..Len(p.buf) + 1 /\ p.name \in Nat
    BY DEF ParserShape, ParserRec
  <1>2. /\ c \in Seq(ParserChar) /\ Len(c) = Len(p.buf) + Len(b)
        /\ \A k \in 1..Len(p.buf) : c[k] = p.buf[k]
    <2>1. b \in Seq(ParserChar)
      BY DEF ParserChar
    <2> QED  BY <1>1, <2>1
  <1>3. Len(b) \in Nat
    OBVIOUS
  <1> HIDE DEF c
  <1>4. /\ r \in ParserRec /\ r.buf = c /\ r.pos = p.pos /\ r.name = p.name
        /\ r.argument = p.argument /\ r.attribute = p.attribute
        /\ r.state = p.state /\ r.res = "more"
    BY <1>1, <1>2 DEF ParserRec
  <1> HIDE DEF r
  <1>5. \A k : UpTo(r, k, wild) <=> UpTo(p, k, wild)
    BY <1>4, UpToSame
  <1>6. ASSUME Ended(p, wild) PROVE Ended(r, wild)
    <2>1. PICK k \in 1..Len(p.buf) : p.buf[k] = NUL /\ UpTo(p, k, wild)
      BY <1>6 DEF Ended
    <2>2. k \in 1..Len(r.buf)
      BY <1>1, <1>2, <1>3, <1>4
    <2>3. r.buf[k] = NUL /\ UpTo(r, k, wild)
      BY <1>2, <1>4, <1>5, <2>1
    <2> QED  BY <2>2, <2>3 DEF Ended
  <1>7. r.pos \in 1..Len(r.buf) + 1 /\ Len(r.buf) <= len2
    BY <1>1, <1>2, <1>3, <1>4
  <1>8. r.name >= 1 /\ (r.name = 1 \/ r.name < len2)
    <2>1. p.name >= 1 /\ (p.name = 1 \/ p.name < len)
      BY DEF ParserShape
    <2> QED  BY <1>1, <1>4, <2>1
  <1>9. ParserShape(r, len2, wild)
    BY <1>4, <1>5, <1>6, <1>7, <1>8 DEF ParserShape
  <1> QED  BY <1>9 DEF r, c

\* The pointers of one attribute, moved.
LEMMA MovePointers ==
  ASSUME NEW name \in Nat, name >= 1, NEW k \in Nat, name <= k,
         NEW x \in Int, x \in name..k, NEW y \in Int,
         y = NoValue \/ y = Wild \/ y \in name..k
  PROVE  /\ x + (1 - name) \in 1..k + (1 - name)
         /\ LET v == IF y \in {NoValue, Wild} THEN Wild ELSE y + (1 - name)
            IN  v \in Int /\ (v = Wild \/ v \in 1..k + (1 - name))
  BY DEF NoValue, Wild

\* moveData() keeps every pointer on the text it points to.
LEMMA MoveFacts ==
  ASSUME NEW wild, NEW p, NEW len \in Nat, ParserShape(p, len, wild), p.name <= p.pos
  PROVE  LET r == MoveData(p)
             diff == 1 - p.name
         IN  /\ r \in ParserRec
             /\ Len(r.buf) = Len(p.buf) + diff
             /\ \A k \in p.name..Len(p.buf) :
                   k + diff \in 1..Len(r.buf) /\ r.buf[k + diff] = p.buf[k]
             /\ r.pos = p.pos + diff /\ r.name = 1 /\ r.argument = p.argument + diff
             /\ r.state = p.state /\ r.res = p.res
             /\ \A k \in Nat : UpTo(p, k, wild) => UpTo(r, k + diff, TRUE)
  <1> DEFINE diff == 1 - p.name
             L == Len(p.buf)
             b == SubSeq(p.buf, p.name, L)
             A == [i \in DOMAIN p.attribute |-> <<p.attribute[i][1] + diff,
                      IF p.attribute[i][2] \in {NoValue, Wild} THEN Wild
                      ELSE p.attribute[i][2] + diff>>]
             r == [p EXCEPT !.buf = b, !.pos = p.pos + diff, !.name = 1,
                            !.argument = p.argument + diff, !.attribute = A]
  <1>1. /\ p \in ParserRec /\ p.buf \in Seq(ParserChar) /\ L \in Nat
        /\ p.pos \in 1..L + 1 /\ p.name \in Nat /\ p.name >= 1
        /\ p.argument \in Int /\ p.attribute \in Seq(Int \X Int)
    BY DEF ParserShape, ParserRec
  <1>2. /\ diff \in Int /\ p.name \in 1..L + 1 /\ p.pos + diff \in Nat
        /\ p.argument + diff \in Int /\ L + diff \in Nat
    <2> HIDE DEF L
    <2>1. p.pos \in Nat /\ p.pos <= L + 1 /\ p.name <= p.pos
      BY <1>1
    <2>2. diff \in Int /\ p.name \in 1..L + 1 /\ L + diff \in Nat
      BY <1>1, <2>1
    <2>3. p.pos + diff \in Nat /\ p.argument + diff \in Int
      BY <1>1, <2>1
    <2> QED  BY <2>2, <2>3
  <1>3. /\ b \in Seq(ParserChar) /\ Len(b) = L + diff
        /\ \A k \in p.name..L : k + diff \in 1..Len(b) /\ b[k + diff] = p.buf[k]
    <2>1. /\ b \in Seq(ParserChar) /\ Len(b) = L - p.name + 1
          /\ \A j \in 1..L - p.name + 1 : b[j] = p.buf[p.name + j - 1]
      <3>1. \A m \in 1..L + 1 :
               LET d == SubSeq(p.buf, m, L)
               IN  /\ d \in Seq(ParserChar) /\ Len(d) = L - m + 1
                   /\ \A j \in 1..L - m + 1 : d[j] = p.buf[m + j - 1]
        <4> SUFFICES ASSUME NEW m \in 1..L + 1
                     PROVE  LET d == SubSeq(p.buf, m, L)
                            IN  /\ d \in Seq(ParserChar) /\ Len(d) = L - m + 1
                                /\ \A j \in 1..L - m + 1 : d[j] = p.buf[m + j - 1]
          OBVIOUS
        <4>1. SubSeq(p.buf, m, L) = [j \in 1..L - m + 1 |-> p.buf[m + j - 1]]
          BY <1>1
        <4>2. \A j \in 1..L - m + 1 : p.buf[m + j - 1] \in ParserChar
          BY <1>1
        <4>3. L - m + 1 \in Nat
          BY <1>1
        <4> QED  BY <4>1, <4>2, <4>3
      <3> QED  BY <1>2, <3>1
    <2> HIDE DEF b
    <2>2. Len(b) = L + diff
      BY <1>1, <2>1
    <2>3. ASSUME NEW k \in p.name..L
          PROVE  k + diff \in 1..Len(b) /\ b[k + diff] = p.buf[k]
      <3>1. k + diff \in 1..L - p.name + 1 /\ p.name + (k + diff) - 1 = k
        BY <1>1
      <3> QED  BY <2>1, <3>1
    <2> QED  BY <2>1, <2>2, <2>3
  <1>4. /\ A \in Seq(Int \X Int) /\ DOMAIN A = DOMAIN p.attribute
        /\ \A i \in DOMAIN A :
              /\ A[i][1] = p.attribute[i][1] + diff
              /\ A[i][2] = IF p.attribute[i][2] \in {NoValue, Wild} THEN Wild
                           ELSE p.attribute[i][2] + diff
    <2>1. DOMAIN p.attribute = 1..Len(p.attribute) /\ Len(p.attribute) \in Nat
      BY <1>1
    <2>2. \A i \in DOMAIN p.attribute : p.attribute[i] \in Int \X Int
      BY <1>1
    <2>3. ASSUME NEW i \in DOMAIN p.attribute PROVE A[i] \in Int \X Int
      <3> DEFINE x == p.attribute[i][1]
                 y == p.attribute[i][2]
                 v == IF y \in {NoValue, Wild} THEN Wild ELSE y + diff
      <3>1. x \in Int /\ y \in Int
        BY <2>2
      <3>2. A[i] = <<x + diff, v>>
        OBVIOUS
      <3> HIDE DEF x, y, A
      <3>3. v \in Int /\ x + diff \in Int
        BY <1>2, <3>1 DEF Wild, NoValue
      <3> HIDE DEF v
      <3> QED  BY <3>2, <3>3
    <2>4. A \in Seq(Int \X Int)
      <3>1. A = [i \in 1..Len(p.attribute) |-> A[i]]
        BY <2>1
      <3>2. \A i \in 1..Len(p.attribute) : A[i] \in Int \X Int
        BY <2>1, <2>3
      <3> DEFINE n == Len(p.attribute)
                 S == Int \X Int
      <3> HIDE DEF A, n, S
      <3>3. [i \in 1..n |-> A[i]] \in Seq(S)
        BY <2>1, <3>2 DEF n, S
      <3> QED  BY <3>1, <3>3 DEF n, S
    <2> QED  BY <2>4
  <1>5. MoveData(p) = r
    BY DEF MoveData
  <1> HIDE DEF b, A
  <1>6. /\ r \in ParserRec /\ r.buf = b /\ r.pos = p.pos + diff /\ r.name = 1
        /\ r.argument = p.argument + diff /\ r.attribute = A
        /\ r.state = p.state /\ r.res = p.res
    <2>1. \A x \in Nat, y \in Int :
             LET w == [p EXCEPT !.buf = b, !.pos = x, !.name = 1,
                                !.argument = y, !.attribute = A]
             IN  /\ w \in ParserRec /\ w.buf = b /\ w.pos = x /\ w.name = 1
                 /\ w.argument = y /\ w.attribute = A
                 /\ w.state = p.state /\ w.res = p.res
      BY <1>1, <1>3, <1>4 DEF ParserRec
    <2> QED  BY <1>2, <2>1
  <1> HIDE DEF r
  <1>7. ASSUME NEW k \in Nat, UpTo(p, k, wild) PROVE UpTo(r, k + diff, TRUE)
    <2>1. p.name <= k
      BY <1>7 DEF UpTo
    <2>2. ASSUME NEW i \in DOMAIN A
          PROVE  /\ A[i][1] \in 1..k + diff
                 /\ A[i][2] = Wild \/ A[i][2] \in 1..k + diff
      <3> DEFINE x == p.attribute[i][1]
                 y == p.attribute[i][2]
      <3>1. i \in DOMAIN p.attribute
        BY <1>4, <2>2
      <3>2. p.attribute[i] \in Int \X Int
        BY <1>1, <3>1
      <3>3. x \in Int /\ y \in Int
        BY <3>2
      <3>4. x \in p.name..k /\ (y = NoValue \/ y = Wild \/ y \in p.name..k)
        BY <1>7, <3>1 DEF UpTo, NameTo, ValueTo
      <3>5. /\ A[i][1] = x + (1 - p.name)
            /\ A[i][2] = IF y \in {NoValue, Wild} THEN Wild ELSE y + (1 - p.name)
        BY <1>4, <2>2
      <3> HIDE DEF x, y
      <3> DEFINE v == IF y \in {NoValue, Wild} THEN Wild ELSE y + (1 - p.name)
      <3>6. /\ x + (1 - p.name) \in 1..k + (1 - p.name)
            /\ v = Wild \/ v \in 1..k + (1 - p.name)
        BY <1>1, <2>1, <3>3, <3>4, MovePointers
      <3> HIDE DEF v
      <3>7. A[i][2] = v
        BY <3>5 DEF v
      <3> QED  BY <3>5, <3>6, <3>7
    <2>3. 1 <= k + diff
      BY <1>1, <2>1
    <2> HIDE DEF diff
    <2> QED  BY <1>6, <2>2, <2>3 DEF UpTo, NameTo, ValueTo
  <1> HIDE DEF diff
  <1>8. r \in ParserRec /\ Len(r.buf) = Len(p.buf) + diff
    BY <1>3, <1>6
  <1>9. \A k \in p.name..Len(p.buf) :
           k + diff \in 1..Len(r.buf) /\ r.buf[k + diff] = p.buf[k]
    BY <1>3, <1>6
  <1> QED  BY <1>5, <1>6, <1>7, <1>8, <1>9 DEF diff

\* What operator bool() relies on holds after moveData().
LEMMA MoveShape ==
  ASSUME NEW wild, NEW p, NEW len \in Nat, ParserShape(p, len, wild), p.name <= p.pos
  PROVE  ParserShape(MoveData(p), len, TRUE)
  <1> DEFINE r == MoveData(p)
             diff == 1 - p.name
             L == Len(p.buf)
  <1>1. /\ p \in ParserRec /\ L \in Nat /\ p.pos \in 1..L + 1 /\ p.name \in Nat
        /\ p.pos \in Nat /\ p.name >= 1 /\ L <= len /\ p.argument \in Int
    BY DEF ParserShape, ParserRec
  <1>2. /\ r \in ParserRec /\ Len(r.buf) = L + diff
        /\ \A k \in p.name..L :
              k + diff \in 1..Len(r.buf) /\ r.buf[k + diff] = p.buf[k]
        /\ r.pos = p.pos + diff /\ r.name = 1 /\ r.argument = p.argument + diff
        /\ r.state = p.state /\ r.res = p.res
        /\ \A k \in Nat : UpTo(p, k, wild) => UpTo(r, k + diff, TRUE)
    BY MoveFacts
  <1> HIDE DEF r
  <1>3. r.pos \in 1..Len(r.buf) + 1 /\ Len(r.buf) <= len
    <2>1. p.pos + diff \in 1..(L + diff) + 1 /\ L + diff <= len
      BY <1>1
    <2> QED  BY <1>2, <2>1
  <1>4. r.state = "FindElementStart" /\ r.res \in {"wait", "invalid"}
          => r.pos + 1 >= Len(r.buf)
    <2>1. r.state = "FindElementStart" /\ r.res \in {"wait", "invalid"}
            => p.pos + 1 >= L
      BY <1>2 DEF ParserShape
    <2>2. p.pos + 1 >= L => (p.pos + diff) + 1 >= L + diff
      BY <1>1
    <2> HIDE DEF diff
    <2> QED  BY <1>2, <2>1, <2>2
  <1>5. r.state # "FindElementStart" => UpTo(r, r.pos, TRUE)
    <2>1. r.state # "FindElementStart" => UpTo(p, p.pos, wild)
      BY <1>2 DEF ParserShape
    <2> HIDE DEF diff
    <2> QED  BY <1>1, <1>2, <2>1
  <1>6. r.state = "FindArgumentName" => r.argument \in r.name..r.pos
    <2>1. r.state = "FindArgumentName" => p.argument \in p.name..p.pos
      BY <1>2 DEF ParserShape
    <2>2. p.argument \in p.name..p.pos => p.argument + diff \in 1..p.pos + diff
      BY <1>1
    <2> HIDE DEF diff
    <2> QED  BY <1>2, <2>1, <2>2
  <1>7. ASSUME Ended(p, wild) PROVE Ended(r, TRUE)
    <2>1. PICK k \in 1..L : p.buf[k] = NUL /\ UpTo(p, k, wild)
      BY <1>7 DEF Ended
    <2>2. p.name <= k
      BY <2>1 DEF UpTo
    <2>3. k \in p.name..L /\ k \in Nat
      BY <1>1, <2>1, <2>2
    <2> HIDE DEF diff, L
    <2>4. k + diff \in 1..Len(r.buf) /\ r.buf[k + diff] = NUL /\ UpTo(r, k + diff, TRUE)
      BY <1>2, <2>1, <2>3
    <2> QED  BY <2>4 DEF Ended
  <1>8. r.state = "FindTLSEnd" \/ r.res = "command" => Ended(r, TRUE)
    BY <1>2, <1>7 DEF ParserShape
  <1>9. r.res = "command" => r.state = "FindElementStart"
    BY <1>2 DEF ParserShape
  <1> HIDE DEF diff, L
  <1>10. r.name >= 1 /\ r.name = 1
    BY <1>2
  <1>11. ParserShape(r, len, TRUE)
    BY <1>2, <1>3, <1>4, <1>5, <1>6, <1>8, <1>9, <1>10, Zenon DEF ParserShape
  <1> QED  BY <1>11 DEF r

\* When the buffer is full, name lies before parsePos: no text is lost and no
\* character before the buffer is read.
LEMMA FullBehindName ==
  ASSUME ParserInd, Full
  PROVE  /\ parser.name <= parser.pos /\ parser.pos <= End(parser)
         /\ parser.state = "FindElementStart" => parser.pos + 1 >= Len(parser.buf)
  <1>1. /\ parser \in ParserRec /\ Len(parser.buf) \in Nat /\ parser.name \in Nat
        /\ parser.pos \in 1..Len(parser.buf) + 1 /\ Len(parser.buf) = bufLen
        /\ parser.name = 1 \/ parser.name < bufLen
    BY DEF ParserInd, ParserShape, ParserRec, Full
  <1>2. parser.pos <= End(parser)
    BY <1>1 DEF End
  <1>3. parser.state # "FindElementStart" => parser.name <= parser.pos
    BY DEF ParserInd, ParserShape, UpTo
  <1>4. \/ parser.res \in {"wait", "invalid"}
        \/ parser.pos = Len(parser.buf) + 1
    <2>1. parser.res \in {"more", "wait", "command", "invalid"}
      BY <1>1 DEF ParserRec
    <2>2. ~ (parser.pos < Len(parser.buf) + 1) => parser.pos = Len(parser.buf) + 1
      BY <1>1
    <2> QED  BY <2>1, <2>2 DEF Full, Parsing, End
  <1>5. parser.state = "FindElementStart" => parser.pos + 1 >= Len(parser.buf)
    <2>1. parser.state = "FindElementStart" /\ parser.res \in {"wait", "invalid"}
            => parser.pos + 1 >= Len(parser.buf)
      BY DEF ParserInd, ParserShape
    <2>2. parser.pos = Len(parser.buf) + 1 => parser.pos + 1 >= Len(parser.buf)
      BY <1>1
    <2> QED  BY <1>4, <2>1, <2>2
  <1>6. parser.state = "FindElementStart" => parser.name <= parser.pos
    BY <1>1, <1>5
  <1> QED  BY <1>2, <1>3, <1>5, <1>6

\* Take() after a step p of read().
LEMMA TakeInd ==
  ASSUME NEW wild, input \in Seq(STRING), NEW p, NEW len \in Nat,
         ParserShape(p, len, wild),
         NEW n \in Int, bufLen' \in Nat, len <= bufLen',
         n \in 1..bufLen' - Len(p.buf), Take(p, n)
  PROVE  input' \in Seq(STRING) /\ ParserShape(parser', bufLen', wild)
  <1> DEFINE b == SubSeq(input, 1, n)
  <1>1. /\ n \in 1..Len(input) /\ Len(input) \in Nat
        /\ parser' = [p EXCEPT !.buf = @ \o b, !.res = "more"]
        /\ input' = SubSeq(input, n + 1, Len(input))
    BY DEF Take
  <1>2. b \in Seq(STRING) /\ Len(b) = n
    BY <1>1
  <1>3. input' \in Seq(STRING)
    BY <1>1
  <1>4. Len(p.buf) \in Nat
    BY DEF ParserShape, ParserRec
  <1> HIDE DEF b
  <1>5. Len(p.buf) + Len(b) <= bufLen'
    BY <1>2, <1>4
  <1> QED  BY <1>1, <1>2, <1>3, <1>5, TakeShape

\* An empty buffer and a parser waiting for the start of an element.
LEMMA ParserStart ==
  ParserInit => ParserInd
  <1> SUFFICES ASSUME ParserInit PROVE ParserInd
    OBVIOUS
  <1>1. input \in Seq(STRING)
    BY ParserAssumption DEF ParserInit
  <1>2. bufLen \in Nat /\ bufLen < BufLenMax + BufIncrement /\ bufLen = 0
    BY ParserAssumption DEF ParserInit
  <1>3. /\ parser.buf = <<>> /\ parser.pos = 1 /\ parser.name = 1
        /\ parser.state = "FindElementStart" /\ parser.res = "wait"
    BY DEF ParserInit
  <1>4. parser \in ParserRec
    BY DEF ParserInit, ParserRec, ParserStates, ParserChar
  <1>5. ParserShape(parser, bufLen, moved)
    BY <1>2, <1>3, <1>4 DEF ParserShape
  <1>6. moved \in BOOLEAN
    BY DEF ParserInit
  <1> QED  BY <1>1, <1>2, <1>5, <1>6 DEF ParserInd

\* Every step of read() and of operator bool() keeps the inductive invariant.
LEMMA ParserStep ==
  ParserInd /\ [ParserNext]_parserVars => ParserInd'
  <1> SUFFICES ASSUME ParserInd, [ParserNext]_parserVars PROVE ParserInd'
    OBVIOUS
  <1>1. /\ input \in Seq(STRING) /\ bufLen \in Nat
        /\ bufLen < BufLenMax + BufIncrement /\ ParserShape(parser, bufLen, moved)
        /\ BufLenMax \in Nat /\ BufIncrement \in Nat /\ moved \in BOOLEAN
    BY ParserAssumption DEF ParserInd
  <1>2. parser \in ParserRec /\ Len(parser.buf) \in Nat
    BY <1>1 DEF ParserShape, ParserRec
  <1>3. CASE Parse
    <2>1. /\ parser' = ParseStep(parser) /\ bufLen' = bufLen /\ input' = input
          /\ parser.pos < Len(parser.buf) + 1
      BY <1>3 DEF Parse, Parsing, End
    <2>2. parser.pos <= Len(parser.buf)
      BY <1>1, <1>2, <2>1 DEF ParserShape
    <2>3. ParserShape(parser', bufLen', moved)
      BY <1>1, <2>1, <2>2, StepShape
    <2>4. ParserShape(parser', bufLen', moved')
      <3>1. moved' = (moved /\ parser'.attribute # <<>>)
        BY <1>3 DEF Parse
      <3>2. CASE parser'.attribute = <<>>
        BY <2>3, <3>2, ShapeEmpty
      <3>3. CASE parser'.attribute # <<>>
        BY <1>1, <2>3, <3>1, <3>3
      <3> QED  BY <3>2, <3>3
    <2>5. moved' \in BOOLEAN
      BY <1>3 DEF Parse
    <2> QED  BY <1>1, <2>1, <2>4, <2>5 DEF ParserInd
  <1>4. CASE ReadRefuse
    <2>1. /\ parser' = [parser EXCEPT !.res = "invalid"] /\ bufLen' = bufLen
          /\ input' = input /\ moved' = moved
      BY <1>4 DEF ReadRefuse
    <2>2. parser.state = "FindElementStart" => parser.pos + 1 >= Len(parser.buf)
      BY <1>4, FullBehindName DEF ReadRefuse
    <2> DEFINE r == [parser EXCEPT !.res = "invalid"]
    <2>3. /\ r \in ParserRec /\ r.buf = parser.buf /\ r.pos = parser.pos
          /\ r.name = parser.name /\ r.argument = parser.argument
          /\ r.attribute = parser.attribute /\ r.state = parser.state
          /\ r.res = "invalid"
      BY <1>2 DEF ParserRec
    <2> HIDE DEF r
    <2>4. \A k : UpTo(r, k, moved) <=> UpTo(parser, k, moved)
      BY <2>3, UpToSame
    <2>5. Ended(parser, moved) => Ended(r, moved)
      BY <2>3, <2>4 DEF Ended
    <2>6. ParserShape(r, bufLen, moved)
      BY <1>1, <2>2, <2>3, <2>4, <2>5 DEF ParserShape
    <2> QED  BY <1>1, <2>1, <2>6 DEF ParserInd, r
  <1>5. CASE ReadMove
    <2>1. bufLen' = bufLen /\ moved' = TRUE
      BY <1>5 DEF ReadMove
    <2>2. PICK n \in 1..bufLen - Len(MoveData(parser).buf) : Take(MoveData(parser), n)
      BY <1>5 DEF ReadMove
    <2>3. ParserShape(MoveData(parser), bufLen, TRUE)
      BY <1>1, <1>5, FullBehindName, MoveShape DEF ReadMove
    <2>4. n \in Int /\ n \in 1..bufLen' - Len(MoveData(parser).buf)
          /\ bufLen' \in Nat /\ bufLen <= bufLen'
      BY <1>1, <2>1, <2>2
    <2>5. input' \in Seq(STRING) /\ ParserShape(parser', bufLen', TRUE)
      BY <1>1, <2>2, <2>3, <2>4, TakeInd
    <2> QED  BY <1>1, <2>1, <2>5 DEF ParserInd
  <1>6. CASE ReadGrow
    <2>1. bufLen' = bufLen + BufIncrement /\ bufLen < BufLenMax /\ moved' = TRUE
      BY <1>6 DEF ReadGrow
    <2>2. PICK n \in 1..bufLen' - Len(MoveData(parser).buf) : Take(MoveData(parser), n)
      BY <1>6 DEF ReadGrow
    <2>3. ParserShape(MoveData(parser), bufLen, TRUE)
      BY <1>1, <1>6, FullBehindName, MoveShape DEF ReadGrow
    <2>4. n \in Int /\ bufLen' \in Nat /\ bufLen <= bufLen'
          /\ bufLen' < BufLenMax + BufIncrement
      BY <1>1, <2>1, <2>2
    <2>5. input' \in Seq(STRING) /\ ParserShape(parser', bufLen', TRUE)
      BY <1>1, <2>2, <2>3, <2>4, TakeInd
    <2> QED  BY <2>1, <2>4, <2>5 DEF ParserInd
  <1>7. CASE ReadReset
    <2> DEFINE q == [parser EXCEPT !.buf = <<>>, !.pos = 1]
    <2>1. bufLen' = bufLen /\ parser.state = "FindElementStart" /\ moved' = moved
      BY <1>7 DEF ReadReset
    <2>2. PICK n \in 1..bufLen : Take(q, n)
      BY <1>7 DEF ReadReset
    <2>3. /\ q \in ParserRec /\ q.buf = <<>> /\ q.pos = 1 /\ q.name = parser.name
          /\ q.argument = parser.argument /\ q.attribute = parser.attribute
          /\ q.state = parser.state /\ q.res = parser.res
      <3>1. <<>> \in Seq(ParserChar)
        OBVIOUS
      <3> QED  BY <1>2, <3>1 DEF ParserRec
    <2> HIDE DEF q
    <2>4. Len(q.buf) = 0
      BY <2>3
    <2> DEFINE b == SubSeq(input, 1, n)
               c == q.buf \o b
               r == [q EXCEPT !.buf = c, !.res = "more"]
    <2>5. /\ n \in 1..Len(input) /\ Len(input) \in Nat
          /\ parser' = r /\ input' = SubSeq(input, n + 1, Len(input))
      BY <1>1, <2>2 DEF Take
    <2>6. c \in Seq(ParserChar) /\ Len(c) = n /\ input' \in Seq(STRING)
      <3>1. b \in Seq(STRING) /\ Len(b) = n
        BY <1>1, <2>5
      <3>2. b \in Seq(ParserChar)
        BY <1>1, <2>5 DEF ParserChar
      <3>3. input' \in Seq(STRING)
        BY <1>1, <2>5
      <3> HIDE DEF b
      <3> QED  BY <2>3, <2>4, <3>1, <3>2, <3>3
    <2> HIDE DEF c
    <2>7. /\ r \in ParserRec /\ r.buf = c /\ r.pos = 1 /\ r.name = parser.name
          /\ r.state = "FindElementStart" /\ r.res = "more"
      BY <2>1, <2>3, <2>6 DEF ParserRec
    <2> HIDE DEF r
    <2>8. r.pos \in 1..Len(r.buf) + 1 /\ Len(r.buf) <= bufLen
      BY <1>1, <2>2, <2>6, <2>7
    <2>9. ParserShape(r, bufLen, moved)
      BY <1>1, <2>7, <2>8 DEF ParserShape
    <2> QED  BY <1>1, <2>1, <2>5, <2>6, <2>9 DEF ParserInd
  <1>8. CASE ReadAppend
    <2>1. bufLen' = bufLen /\ moved' = moved
      BY <1>8 DEF ReadAppend
    <2>2. PICK n \in 1..bufLen - Len(parser.buf) : Take(parser, n)
      BY <1>8 DEF ReadAppend
    <2>3. n \in Int /\ n \in 1..bufLen' - Len(parser.buf)
          /\ bufLen' \in Nat /\ bufLen <= bufLen'
      BY <1>1, <2>1, <2>2
    <2>4. input' \in Seq(STRING) /\ ParserShape(parser', bufLen', moved)
      BY <1>1, <2>2, <2>3, TakeInd
    <2> QED  BY <1>1, <2>1, <2>4 DEF ParserInd
  <1>9. CASE UNCHANGED parserVars
    BY <1>1, <1>9 DEF ParserInd, parserVars
  <1> QED  BY <1>3, <1>4, <1>5, <1>6, <1>7, <1>8, <1>9 DEF ParserNext

\* The inductive invariant implies what the session run checks.
LEMMA ParserIndSafe ==
  ParserInd => ParserInv
  <1> SUFFICES ASSUME ParserInd PROVE BufferBounded /\ StringsEnd
    BY DEF ParserInv
  <1>1. BufferBounded
    <2>1. Len(parser.buf) <= bufLen /\ bufLen < BufLenMax + BufIncrement
      BY DEF ParserInd, ParserShape
    <2> QED  BY <2>1, FullBehindName DEF BufferBounded
  <1>2. ASSUME parser.res = "command"
        PROVE  \E k \in 1..Len(parser.buf) :
                  /\ parser.buf[k] = NUL
                  /\ parser.name \in 1..k
                  /\ \A i \in DOMAIN parser.attribute :
                        /\ parser.attribute[i][1] \in 1..k
                        /\ \/ parser.attribute[i][2] \in {NoValue} \cup 1..k
                           \/ parser.attribute[i][2] = Wild /\ moved
    <2>1. /\ parser.name \in Nat /\ parser.name >= 1 /\ Len(parser.buf) \in Nat
      BY DEF ParserInd, ParserShape, ParserRec
    <2>2. PICK k \in 1..Len(parser.buf) : parser.buf[k] = NUL /\ UpTo(parser, k, moved)
      BY <1>2 DEF ParserInd, ParserShape, Ended
    <2>3. parser.name \in 1..k
      BY <2>1, <2>2 DEF UpTo
    <2>4. \A x : x \in parser.name..k => x \in 1..k
      BY <2>1, <2>2
    <2>5. ASSUME NEW i \in DOMAIN parser.attribute
          PROVE  /\ parser.attribute[i][1] \in 1..k
                 /\ \/ parser.attribute[i][2] \in {NoValue} \cup 1..k
                    \/ parser.attribute[i][2] = Wild /\ moved
      <3>1. /\ parser.attribute[i][1] \in parser.name..k
            /\ \/ parser.attribute[i][2] = NoValue
               \/ moved /\ parser.attribute[i][2] = Wild
               \/ parser.attribute[i][2] \in parser.name..k
        BY <2>2 DEF UpTo, NameTo, ValueTo
      <3> QED  BY <2>4, <3>1
    <2> QED  BY <2>2, <2>3, <2>5
  <1> QED  BY <1>1, <1>2 DEF StringsEnd

\* The parser stays in its buffer, whatever text arrives in whatever pieces: read()
\* never writes behind bufEnd, moves the text only from a name that lies in it, and
\* the buffer never grows past bufLenMax by more than one increment; and whenever
\* operator bool() returns true the tag and all names and values begin in the
\* buffer and a '\0' ends the last of them.  The exception is stated: once the text
\* of a command was moved, the null value of a flag in it points to no text.
THEOREM ParserInBuffer == ParserSpec => []ParserInv
  BY ParserStart, ParserStep, ParserIndSafe, PTL DEF ParserSpec

=============================================================================
