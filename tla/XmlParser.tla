----------------------------- MODULE XmlParser ------------------------------
(***************************************************************************)
(* The parser of the MSR protocol: XmlParser::read() fills a buffer from   *)
(* the session's stream in pieces of any size, moving or growing it when   *)
(* it is full, and operator bool() scans it in place, ending the strings   *)
(* it finds with '\0' and stopping anywhere until more input arrives.      *)
(*                                                                         *)
(* buf is the text from buf to inputEnd; positions count from 1, so that   *)
(* inputEnd is Len(buf) + 1.  Characters are one-letter strings; the       *)
(* letter T stands for the word starttls, every other letter for itself.   *)
(***************************************************************************)
EXTENDS Integers, Sequences, SequencesExt, TLC

CONSTANTS
    Letter,         \* what isalpha() accepts, T among them
    Inputs,         \* what clients send: pairs of a text and its commands
    BufIncrement,   \* bufIncrement
    BufLenMax       \* bufLenMax

ASSUME ParserAssumption ==
    /\ "T" \in Letter
    /\ \A i \in Inputs : Len(i) = 2 /\ i[1] \in Seq(STRING)
    /\ BufIncrement \in Nat \ {0} /\ BufLenMax \in Nat

VARIABLES
    input,          \* what the client has sent and the parser has not read
    expected,       \* the commands the client means
    parser,         \* the members of XmlParser
    bufLen,         \* bufEnd - buf
    commands,       \* the commands handed to processCommand()
    moved           \* history: was the text moved since attribute was emptied?

parserVars == <<input, expected, parser, bufLen, commands, moved>>

NUL == "nul"
NoValue == 0        \* the null pointer of an attribute without a value
Wild == -1          \* a pointer to no text of this buffer

Flag == <<"flag">>  \* what a command shows of an attribute without a value
Stray == <<"wild">> \* and of one whose value points to no text

-----------------------------------------------------------------------------
(* Attribute values                                                         *)

Entity == (<<"&", "g", "t", ";">> :> ">") @@ (<<"&", "l", "t", ";">> :> "<")
       @@ (<<"&", "a", "m", "p", ";">> :> "&")
       @@ (<<"&", "q", "u", "o", "t", ";">> :> "\"")
       @@ (<<"&", "a", "p", "o", "s", ";">> :> "'")

\* XmlElement::Attribute::setEscaped(), which clients do alike
Escape(s) ==
    FlattenSeq([i \in DOMAIN s |->
        IF \E e \in DOMAIN Entity : Entity[e] = s[i]
        THEN CHOOSE e \in DOMAIN Entity : Entity[e] = s[i] ELSE <<s[i]>>])

\* getString()
Unescape(s) ==
    LET Coded(i) == {e \in DOMAIN Entity : IsPrefix(e, SubSeq(s, i, Len(s)))}
        from[i \in 1..Len(s) + 1] ==
            IF i > Len(s) THEN <<>>
            ELSE IF Coded(i) = {} THEN <<s[i]>> \o from[i + 1]
            ELSE LET e == CHOOSE e \in Coded(i) : TRUE
                 IN  <<Entity[e]>> \o from[i + Len(e)]
    IN  from[1]

-----------------------------------------------------------------------------
(* operator bool(): one operator per parse state.  Each returns the parser  *)
(* with res "more": go round the loop, "wait": return false, or "command":  *)
(* return true.  A case without break has set the next state and left       *)
(* characters to read, so falling through is going round the loop; only     *)
(* behind a quoted value the next case runs under another state.            *)

End(p) == Len(p.buf) + 1

\* The first of some characters from parsePos on, or inputEnd
Find(p, chars) ==
    LET i == SelectInSubSeq(p.buf, p.pos, Len(p.buf), LAMBDA c : c \in chars)
    IN  IF i = 0 THEN End(p) ELSE i

Wait(p, pos) == [p EXCEPT !.pos = pos, !.res = "wait"]
More(p, pos, state) == [p EXCEPT !.pos = pos, !.state = state, !.res = "more"]
Clobber(p, i) == [p EXCEPT !.buf[i] = NUL]

\* The element is complete; starttls still needs the end of its line.
ElementComplete(p, pos) ==
    IF p.starttls THEN More(p, pos, "FindTLSEnd")
    ELSE [More(p, pos, "FindElementStart") EXCEPT !.res = "command"]

FindArgumentValue(p) ==
    LET i == Find(p, {" ", ">"})
    IN  IF i = End(p) THEN Wait(p, i) ELSE More(p, i, "FindElementEnd")

FindQuotedArgumentValue(p) ==
    LET i == Find(p, {p.quote})
    IN  IF i + 1 >= End(p) THEN Wait(p, i)
        ELSE FindArgumentValue(More(Clobber(p, i), i + 1, "FindElementEnd"))

FindArgumentName(p) ==
    LET i == Find(p, {"=", " ", "/", ">", NUL})
    IN  IF i = End(p) THEN Wait(p, i)
        ELSE IF p.buf[i] # "="
        THEN More([p EXCEPT !.attribute = Append(@, <<p.argument, NoValue>>),
                            !.starttls = IF p.argument = p.name
                                         THEN p.buf[p.name] = "T" ELSE @],
                  i, "FindElementEnd")
        ELSE IF i + 1 >= End(p) THEN Wait(p, i)
        ELSE IF p.buf[i + 1] \notin {"\"", "'"}
        THEN More([Clobber(p, i) EXCEPT
                      !.attribute = Append(@, <<p.argument, i + 1>>)],
                  i + 2, "FindArgumentValue")
        ELSE IF i + 2 >= End(p) THEN Wait(p, i)
        ELSE More([Clobber(p, i) EXCEPT
                      !.attribute = Append(@, <<p.argument, i + 2>>),
                      !.quote = p.buf[i + 1]],
                  i + 2, "FindQuotedArgumentValue")

FindElementEnd(p) ==
    LET blank(c) == c # " "
        f == SelectInSubSeq(p.buf, p.pos, Len(p.buf), blank)
        i == IF f = 0 THEN End(p) ELSE f
        q == [p EXCEPT !.buf = SubSeq(@, 1, p.pos - 1) \o [j \in 1..i - p.pos |-> NUL]
                               \o SubSeq(@, i, Len(@))]
    IN  IF i = End(p) THEN Wait(q, i)
        ELSE IF p.buf[i] = "/"
        THEN IF i + 1 >= End(p) THEN Wait(q, i)
             ELSE IF p.buf[i + 1] = ">" THEN ElementComplete(Clobber(q, i), i + 2)
             ELSE More(Clobber(q, i), i + 2, "FindElementStart")
        ELSE IF p.buf[i] = ">" THEN ElementComplete(Clobber(q, i), i + 1)
        ELSE IF p.buf[i] \notin Letter THEN More(q, i, "FindElementStart")
        ELSE [More(q, i, "FindArgumentName") EXCEPT !.argument = i]

FindElementStart(p) ==
    LET i == Find(p, {"<"})
        q == [p EXCEPT !.name = i + 1]
    IN  IF i + 2 >= End(p) THEN Wait(p, i)
        ELSE IF p.buf[i + 1] \notin Letter THEN More(q, i + 1, "FindElementStart")
        ELSE [More(q, i + 1, "FindElementEnd") EXCEPT
                  !.attribute = <<>>, !.starttls = FALSE]

FindTLSEnd(p) ==
    LET i == IF p.buf[p.pos] = "\r" THEN p.pos + 1 ELSE p.pos
    IN  IF i = End(p) THEN Wait(p, p.pos)
        ELSE IF p.buf[i] # "\n" THEN More(p, i, "FindElementStart")
        ELSE [More(p, i + 1, "FindElementStart") EXCEPT !.res = "command"]

ParseStep(p) ==
    CASE p.state = "FindElementStart"        -> FindElementStart(p)
      [] p.state = "FindElementEnd"          -> FindElementEnd(p)
      [] p.state = "FindArgumentName"        -> FindArgumentName(p)
      [] p.state = "FindQuotedArgumentValue" -> FindQuotedArgumentValue(p)
      [] p.state = "FindArgumentValue"       -> FindArgumentValue(p)
      [] p.state = "FindTLSEnd"              -> FindTLSEnd(p)

\* The string that starts at position i
Text(p, i) ==
    SubSeq(p.buf, i, SelectInSubSeq(p.buf, i, Len(p.buf), LAMBDA c : c = NUL) - 1)

\* tag(), and what find() and getString() return for each attribute
CommandOf(p) ==
    [tag |-> Text(p, p.name),
     attribute |-> [i \in 1..Len(p.attribute) - 1 |->
         LET a == p.attribute[i + 1]
         IN  <<Text(p, a[1]),
               CASE a[2] = NoValue -> Flag
                 [] a[2] = Wild    -> Stray
                 [] OTHER          -> Unescape(Text(p, a[2]))>>]]

-----------------------------------------------------------------------------
(* read()                                                                   *)

ParserInit ==
    /\ \E i \in Inputs : input = i[1] /\ expected = i[2]
    /\ parser = [buf |-> <<>>, pos |-> 1, name |-> 1, argument |-> 1,
                 attribute |-> <<>>, quote |-> NUL, starttls |-> FALSE,
                 state |-> "FindElementStart", res |-> "wait"]
    /\ bufLen = 0
    /\ commands = <<>>
    /\ moved = FALSE

\* Mistake: the attributes found so far are left where they were.
MoveDataOnly(p) ==
    LET diff == 1 - p.name
    IN  [p EXCEPT !.buf = SubSeq(p.buf, p.name, Len(p.buf)),
                  !.pos = @ + diff, !.name = 1, !.argument = @ + diff]

\* moveData(): everything from name on goes to the start of a buffer.  The null
\* pointer of an attribute without a value is shifted with the others and is null
\* no more.
MoveData(p) ==
    LET diff == 1 - p.name
    IN  [p EXCEPT !.buf = SubSeq(p.buf, p.name, Len(p.buf)),
                  !.pos = @ + diff, !.name = 1, !.argument = @ + diff,
                  !.attribute = [i \in DOMAIN @ |-> <<@[i][1] + diff,
                      IF @[i][2] \in {NoValue, Wild} THEN Wild ELSE @[i][2] + diff>>]]

\* n characters are appended, and read() returns.
Take(p, n) ==
    /\ n \in 1..Len(input)
    /\ parser' = [p EXCEPT !.buf = @ \o SubSeq(input, 1, n), !.res = "more"]
    /\ input' = SubSeq(input, n + 1, Len(input))
    /\ UNCHANGED <<expected, commands>>

\* Is "while (parser) processCommand()" of Session::run() under way?
Parsing ==
    parser.res \in {"more", "command"} /\ parser.pos < End(parser)

\* One turn of the loop in operator bool(), and processCommand() when it returns
\* true.
Parse ==
    /\ Parsing
    /\ parser' = ParseStep(parser)
    /\ commands' = IF parser'.res = "command"
                   THEN Append(commands, CommandOf(parser')) ELSE commands
    /\ moved' = (moved /\ parser'.attribute # <<>>)
    /\ UNCHANGED <<input, expected, bufLen>>

Full == ~Parsing /\ Len(parser.buf) = bufLen
HasRoom == ~Parsing /\ Len(parser.buf) < bufLen

\* read(): the buffer is full and there is room before name.
ReadMove ==
    /\ Full
    /\ parser.name > 2
    /\ \E n \in 1..bufLen - Len(MoveData(parser).buf) : Take(MoveData(parser), n)
    /\ moved' = TRUE
    /\ UNCHANGED bufLen

\* read(): the buffer is full and may grow.
ReadGrow ==
    /\ Full
    /\ parser.name <= 2
    /\ bufLen < BufLenMax
    /\ bufLen' = bufLen + BufIncrement
    /\ \E n \in 1..bufLen' - Len(MoveData(parser).buf) : Take(MoveData(parser), n)
    /\ moved' = TRUE

\* read(): everything is parsed, the buffer is filled from its start again.
ReadReset ==
    /\ HasRoom
    /\ parser.state = "FindElementStart"
    /\ parser.pos = End(parser)
    /\ \E n \in 1..bufLen : Take([parser EXCEPT !.buf = <<>>, !.pos = 1], n)
    /\ UNCHANGED <<bufLen, moved>>

ReadAppend ==
    /\ HasRoom
    /\ parser.state # "FindElementStart" \/ parser.pos # End(parser)
    /\ \E n \in 1..bufLen - Len(parser.buf) : Take(parser, n)
    /\ UNCHANGED <<bufLen, moved>>

\* read(): the command is too long.  inputEnd is 0, invalid() is true and the
\* session ends.
ReadRefuse ==
    /\ Full
    /\ parser.name <= 2
    /\ bufLen >= BufLenMax
    /\ parser.res # "invalid" /\ input # <<>>
    /\ parser' = [parser EXCEPT !.res = "invalid"]
    /\ UNCHANGED <<input, expected, bufLen, commands, moved>>

ParserNext ==
    Parse \/ ReadRefuse \/ ReadMove \/ ReadGrow \/ ReadReset \/ ReadAppend

\* The client sends what it has to send and the session reads it.
ParserSpec == ParserInit /\ [][ParserNext]_parserVars

-----------------------------------------------------------------------------
(* Properties                                                               *)

\* A command as the client means it, but for attributes without a value that have
\* been shifted (FlagsKept).
Means(cmd, meant) ==
    /\ cmd.tag = meant.tag
    /\ DOMAIN cmd.attribute = DOMAIN meant.attribute
    /\ \A j \in DOMAIN meant.attribute :
          \/ cmd.attribute[j] = meant.attribute[j]
          \/ /\ meant.attribute[j][2] = Flag
             /\ cmd.attribute[j] = <<meant.attribute[j][1], Stray>>

\* The parser hands over the commands the client means, each once and in order, with
\* all attributes and the values given for them, whatever pieces the text arrives in
\* and whenever the buffer is moved; nothing is missing once all is read.  It says
\* nothing of what the session makes of a flag: that is FlagsKept.
CommandsExact ==
    /\ Len(commands) <= Len(expected)
    /\ \A i \in DOMAIN commands : Means(commands[i], expected[i])
    /\ (input = <<>> /\ ~Parsing) => Len(commands) = Len(expected)

\* "Found an attribute without a value. Consider it to be a boolean which evaluates
\* to true" (XmlParser.cpp): isTrue() finds the null pointer of such an attribute in
\* every command that is handed over, and never reads a text that is not there.
FlagsKept ==
    \A i \in DOMAIN commands : \A j \in DOMAIN commands[i].attribute :
        commands[i].attribute[j][2] # Stray

\* read() writes inside the buffer, name lies in it whenever the text is moved,
\* and the buffer does not grow past its limit by more than one increment.
BufferBounded ==
    /\ Len(parser.buf) <= bufLen
    /\ bufLen < BufLenMax + BufIncrement
    /\ Full => parser.name <= parser.pos /\ parser.pos <= End(parser)

\* When operator bool() returns true, the tag and all names and values begin in
\* the buffer, and a '\0' in the buffer ends the last of them, if the text of this
\* command was not moved.  If it was, pointers that were null are the exception.
StringsEnd ==
    parser.res = "command" =>
        \E k \in 1..Len(parser.buf) :
            /\ parser.buf[k] = NUL
            /\ parser.name \in 1..k
            /\ \A i \in DOMAIN parser.attribute :
                  /\ parser.attribute[i][1] \in 1..k
                  /\ \/ parser.attribute[i][2] \in {NoValue} \cup 1..k
                     \/ parser.attribute[i][2] = Wild /\ moved

\* The parser of XmlParser.cpp stays inside its buffer wherever the text is cut and
\* however often it is moved, and so does what the session reads of a command that
\* was not moved.
ParserInv == BufferBounded /\ StringsEnd
=============================================================================
