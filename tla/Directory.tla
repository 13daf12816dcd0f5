------------------------------ MODULE Directory -----------------------------
(***************************************************************************)
(* The tree of variables of the MSR server: the constructor enters every   *)
(* signal and parameter of the application under its path, takes vectors   *)
(* and compound types apart, and copes with variables of the same name.    *)
(*                                                                         *)
(* A node is a number; dir[n] is the node with its parent pointer, its     *)
(* name and its map of children.  A component of a path is a record: its   *)
(* text, the name that is left when a tag such as <hide> is taken off ("": *)
(* nothing is left), and the tag.  The persistent tag and everything else  *)
(* that only ends up in an XML attribute is left out.                      *)
(***************************************************************************)
EXTENDS Integers, Sequences, SequencesExt, FiniteSets, TLC

CONSTANTS
    Sources,        \* variables of an application: [path, type, dim]
    Prefix,         \* pathprefix
    Tasks,          \* number of tasks
    BufferLimit,    \* parserbufferlimit, 0: none
    MaxSources      \* bound: signals and parameters

ASSUME DirectoryAssumption ==
    /\ Tasks \in Nat \ {0} /\ BufferLimit \in Nat /\ MaxSources \in Nat
    \* every path names something
    /\ \A v \in Sources : \E i \in DOMAIN v.path : v.path[i].name # ""

VARIABLES
    dir,            \* the nodes of the tree; the first one is variableDirectory
    channels, parameters,
    parameterMap,   \* the msr parameter of each parameter of the application
    itemize,        \* splitvectors
    insertRoot,
    maxInput,       \* maxInputBufferSize
    task,           \* the task whose signals are entered; Tasks: parameters
    count           \* signals and parameters so far

dirVars == <<dir, channels, parameters, parameterMap, itemize, insertRoot,
             maxInput, task, count>>

Root == 1
NoVariable == [kind |-> "dir", hidden |-> FALSE, offset |-> 0, memSize |-> 0,
               children |-> <<>>]
NewNode(var) == [parent |-> 0, name |-> "", children |-> <<>>, hyper |-> FALSE,
                 var |-> var]
Plain(name) == [text |-> name, name |-> name, tag |-> "none"]

-----------------------------------------------------------------------------
(* DirectoryNode and HyperDirNode                                           *)

\* Mistake: the child keeps its name.
AdoptKeepsName(d, n, child, name) ==
    [d EXCEPT ![n].children = (name :> child) @@ @, ![child].parent = n,
              ![child].name = IF @ = "" THEN name ELSE @]

Adopt(d, n, child, name) ==
    [d EXCEPT ![n].children = (name :> child) @@ @,
              ![child].parent = n, ![child].name = name]

Has(d, n, name) == name \in DOMAIN d[n].children

\* create(): the tree, and the node
Create(d, n, name) ==
    IF Has(d, n, name) THEN <<d, d[n].children[name]>>
    ELSE <<Adopt(Append(d, NewNode(NoVariable)), n, Len(d) + 1, name), Len(d) + 1>>

\* HyperDirNode::insertLeaf()
InsertNumbered(d, n, child) ==
    Adopt(d, n, child, ToString(Cardinality(DOMAIN d[n].children)))

\* insertLeaf(): a normal node is replaced by a HyperDirNode that takes both.
InsertLeaf(d, n, child) ==
    IF d[n].hyper THEN InsertNumbered(d, n, child)
    ELSE LET h == Len(d) + 1
             e == Adopt(Append(d, [NewNode(NoVariable) EXCEPT !.hyper = TRUE]),
                        d[n].parent, h, d[n].name)
         IN  InsertNumbered(InsertNumbered(e, h, n), h, child)

InsertChild(d, n, child, name) ==
    IF Has(d, n, name) THEN InsertLeaf(d, d[n].children[name], child)
                       ELSE Adopt(d, n, child, name)

RECURSIVE InsertQ(_, _, _, _)
InsertQ(d, n, child, dirQ) ==
    IF Len(dirQ) = 1 THEN InsertChild(d, n, child, dirQ[1])
    ELSE LET made == Create(d, n, dirQ[1])
         IN  InsertQ(made[1], made[2], child, Tail(dirQ))

\* pathInsert() takes the text as it is; traditionalPathInsert() removes the tags.
Names(path, traditional) ==
    SelectSeq([i \in DOMAIN path |->
                  IF traditional THEN path[i].name ELSE path[i].text],
              LAMBDA name : name # "")

\* What traditionalPathInsert() finds out about hiding: the last tag counts.
HiddenBy(path) ==
    FoldLeft(LAMBDA h, c : IF c.tag = "none" THEN h ELSE c.tag, "unhide", path)

\* path(), as the sequence of its names
RECURSIVE Path(_, _)
Path(d, n) == IF n = Root THEN <<>> ELSE Append(Path(d, d[n].parent), d[n].name)

\* find(): 0 when there is no such node
Find(d, names) ==
    FoldLeft(LAMBDA n, name : IF n # 0 /\ Has(d, n, name)
                              THEN d[n].children[name] ELSE 0, Root, names)

\* list(): the nodes that are reported; a hidden variable is not.
List(d, names) ==
    LET n == Find(d, names)
    IN  IF n = 0 THEN {}
        ELSE {c \in Range(d[n].children) : ~d[c].var.hidden}

-----------------------------------------------------------------------------
(* DataType::Iterator and Server::CreateVariable                            *)
(*                                                                          *)
(* s: what the constructor has built, c: the arguments of dispatch()        *)

Nelem(dim) == FoldLeft(LAMBDA x, y : x * y, 1, dim)
IsScalar(dim) == Nelem(dim) = 1
IsPrimary(type) == type.fields = <<>>

\* createVariable() of CreateChannel and CreateParameter
CreateVariable(s, c, dim) ==
    LET hide   == HiddenBy(c.path)
        hidden == itemize /\ hide \in {"all"} \cup IF c.kind = "channel"
                                                   THEN {"c", "k"} ELSE {"p"}
        n      == Len(s.dir) + 1
        var    == [kind |-> c.kind, hidden |-> hidden, offset |-> c.offset,
                   memSize |-> c.type.size * Nelem(dim), children |-> <<>>]
        d      == Append(IF c.parent = 0 THEN s.dir
                         ELSE [s.dir EXCEPT ![c.parent].var.children = Append(@, n)],
                         NewNode(var))
    IN  [dir |-> InsertQ(d, insertRoot, n, Names(c.path, itemize)),
         made |-> Append(s.made, n), stop |-> hidden \/ ~itemize,
         parent |-> n, root |-> IF c.parent = 0 THEN n ELSE s.root]

\* newVariable(): a vector as a whole, then its elements
NewVariable(s, c) ==
    IF IsPrimary(c.type) /\ ((c.dimIdx = 0 /\ c.elemIdx = 0) \/ ~itemize)
        THEN CreateVariable(s, c, c.dim)
    ELSE IF IsPrimary(c.type) /\ c.dimIdx = Len(c.dim)
        THEN CreateVariable(s, c, <<1>>)
    ELSE [s EXCEPT !.stop = FALSE, !.parent = c.parent]

\* The bytes between the elements of the next dimension
Stride(c) == c.size \div c.dim[c.dimIdx + 1]

\* newDimension(): the number of the element goes on with the path.
NewDimension(c, i) ==
    [c EXCEPT !.size = Stride(c), !.dimIdx = @ + 1, !.elemIdx = i,
              !.path = Append(@, Plain(ToString(i))), !.offset = @ + i * Stride(c)]

\* newField(): so does the name of a field; its size is the one of the type,
\* whatever the field's dimension.
NewField(c, f) ==
    [c EXCEPT !.type = f.type, !.size = f.type.size, !.dim = f.dim, !.dimIdx = 0,
              !.elemIdx = 0, !.path = Append(@, Plain(f.name)),
              !.offset = @ + f.offset]

RECURSIVE Dispatch(_, _)
Dispatch(s, c) ==
    LET t     == NewVariable(s, c)
        inner == [c EXCEPT !.parent = t.parent]
        Dim(r, i)   == Dispatch(r, NewDimension(inner, i))
        Field(r, f) == Dispatch(r, NewField(inner, f))
    IN  IF t.stop THEN t
        ELSE IF ~IsScalar(c.dim) /\ c.dimIdx # Len(c.dim)
            THEN FoldLeft(Dim, t, [i \in 1..c.dim[c.dimIdx + 1] |-> i - 1])
        ELSE FoldLeft(Field, t, c.type.fields)

\* Iterator(): what there is when variable v has been entered
Enter(v, kind) ==
    Dispatch([dir |-> dir, made |-> <<>>, stop |-> FALSE, parent |-> 0, root |-> 0],
             [kind |-> kind, type |-> v.type, size |-> v.type.size * Nelem(v.dim),
              dim |-> v.dim, dimIdx |-> 0, elemIdx |-> 0, path |-> v.path,
              parent |-> 0, offset |-> 0])

-----------------------------------------------------------------------------
(* The constructor of Server                                                *)

DirInit ==
    /\ itemize \in BOOLEAN
    /\ \/ dir = <<NewNode(NoVariable)>> /\ insertRoot = Root
       \/ LET made == Create(<<NewNode(NoVariable)>>, Root, Prefix)
          IN  dir = made[1] /\ insertRoot = made[2]
    /\ channels = <<>> /\ parameters = <<>> /\ parameterMap = <<>>
    /\ maxInput = 0 /\ task = 0 /\ count = 0

\* A signal of createChannels()
CreateChannel(v) ==
    /\ task < Tasks /\ count < MaxSources
    /\ LET s == Enter(v, "channel")
       IN  dir' = s.dir /\ channels' = channels \o s.made
    /\ count' = count + 1
    /\ UNCHANGED <<parameters, parameterMap, itemize, insertRoot, maxInput, task>>

\* The end of createChannels(): the signals about the task itself
CreateTaskinfo ==
    LET Signals == <<"TaskTime", "ExecTime", "Period", "Overrun">>
        info    == Create(dir, Root, "Taskinfo")
        t       == Create(info[1], info[2], ToString(task))
        Add(d, name) == InsertChild(Append(d, NewNode([NoVariable EXCEPT
                                          !.kind = "channel", !.memSize = 8])),
                               t[2], Len(d) + 1, name)
    IN  /\ task < Tasks
        /\ dir' = FoldLeft(Add, t[1], Signals)
        /\ channels' = channels \o [i \in 1..4 |-> Len(t[1]) + i]
        /\ task' = task + 1
        /\ UNCHANGED <<parameters, parameterMap, itemize, insertRoot, maxInput,
                       count>>

\* A parameter of createParameters().  Every primary field of a compound
\* parameter takes the place of the one before in parameterMap.
CreateParameter(v) ==
    LET s    == Enter(v, "parameter")
        size == v.type.size * Nelem(v.dim)
    IN  /\ task = Tasks /\ count < MaxSources
        /\ dir' = s.dir
        /\ parameters' = parameters \o s.made
        /\ parameterMap' = Append(parameterMap,
               [root |-> s.root, primary |-> IsPrimary(v.type), size |-> size,
                own |-> s.made])
        /\ maxInput' = IF 4 * size > maxInput THEN 4 * size ELSE maxInput
        /\ count' = count + 1
        /\ UNCHANGED <<channels, itemize, insertRoot, task>>

\* The tree is complete; the thread starts.
DirectoryReady ==
    /\ task = Tasks
    /\ task' = Tasks + 1
    /\ maxInput' = IF BufferLimit # 0 /\ maxInput > BufferLimit
                   THEN BufferLimit ELSE maxInput
    /\ UNCHANGED <<dir, channels, parameters, parameterMap, itemize, insertRoot,
                   count>>

DirNext ==
    \/ \E v \in Sources : CreateChannel(v) \/ CreateParameter(v)
    \/ CreateTaskinfo \/ DirectoryReady

DirSpec == DirInit /\ [][DirNext]_dirVars

-----------------------------------------------------------------------------
(* Parameter::inform()                                                      *)

\* The parameters a session is told of when the bytes begin..end-1 have changed.
\* The children are in the order of their offset, and the first one behind the
\* bytes ends the search.
RECURSIVE InformOf(_, _, _)
InformOf(n, begin, end) ==
    LET v    == dir[n].var
        kids == {v.children[i] : i \in {j \in DOMAIN v.children :
                    \A k \in 1..j : dir[v.children[k]].var.offset < end}}
    IN  IF begin >= v.offset + v.memSize \/ v.offset >= end THEN {}
        ELSE {n} \cup UNION {InformOf(k, begin, end) : k \in kids}

-----------------------------------------------------------------------------
(* Properties                                                               *)

Variables == Range(channels) \cup Range(parameters)

\* Every channel and every parameter is found under the path it is announced
\* with, also when others of the same name were entered before or after it, when
\* its node became the child of another, and when it shares its path with a
\* directory.
VariablesFound == \A n \in Variables : Find(dir, Path(dir, n)) = n

\* A client that lists the directory of a variable sees it, unless it is hidden.
VisibleListed ==
    \A n \in Variables : ~dir[n].var.hidden => n \in List(dir, Front(Path(dir, n)))

\* The parameters for the elements of a parameter of a primary type cover it
\* from the first to the last byte, one after the other.
ElementsCover ==
    \A p \in Range(parameterMap) :
        LET v == dir[p.root].var
            c == [i \in DOMAIN v.children |-> dir[v.children[i]].var]
        IN  p.primary /\ c # <<>> =>
                /\ c[1].offset = 0
                /\ \A i \in 1..Len(c) - 1 : c[i + 1].offset = c[i].offset + c[i].memSize
                /\ Last(c).offset + Last(c).memSize = p.size

\* When a part of a parameter of a primary type changes, its clients are told of
\* exactly those parameters that lie in the part or share bytes with it.
InformExact ==
    \A p \in Range(parameterMap) : p.primary =>
        \A begin \in 0..p.size - 1 : \A end \in begin + 1..p.size :
            InformOf(p.root, begin, end) =
                {n \in Range(p.own) : /\ dir[n].var.offset < end
                                      /\ begin < dir[n].var.offset + dir[n].var.memSize}

\* The tree of DirectoryNode.cpp and the variables Server.cpp enters into it: each
\* is found, listed, covered by its elements and told of changes.
DirectoryInv == VariablesFound /\ VisibleListed /\ ElementsCover /\ InformExact
=============================================================================
