---------------------------- MODULE TlsSessionDB ----------------------------
(***************************************************************************)
(* The cache of TLS sessions that all clients share: a map of bounded size *)
(* and a list of iterators into it, the one stored last at its end.  Every *)
(* operation runs under tls_mutex.                                         *)
(***************************************************************************)
EXTENDS Integers, Sequences, SequencesExt, FiniteSets

CONSTANTS
    DbKey,          \* session ids
    DbData,         \* session data
    DbSize          \* maxSize

ASSUME TlsSessionDBAssumption == DbSize \in Nat

VARIABLES
    map,            \* map
    list,           \* list: the keys of the iterators in it
    fault           \* the process has been killed by a memory fault

dbVars == <<map, list, fault>>

DbInit ==
    /\ map = <<>> /\ list = <<>>
    /\ fault = FALSE

\* list.remove(): the other iterators, in their order
Without(k) ==
    LET kept   == {i \in DOMAIN list : list[i] # k}
        Nth(n) == CHOOSE i \in kept : Cardinality({j \in kept : j <= i}) = n
    IN  [n \in 1..Cardinality(kept) |-> list[Nth(n)]]

\* map.insert(): a key that is there keeps its data.
Insert(k, v) == [i \in DOMAIN map \cup {k} |-> IF i \in DOMAIN map THEN map[i] ELSE v]

\* Mistake: the iterator stays where it is in the list.
StoreNoRemove(k, v) ==
    LET excess == IF Len(list) > DbSize THEN Len(list) - DbSize ELSE 0
        all    == Insert(k, v)
    IN  /\ ~fault
        /\ map' = Restrict(all, DOMAIN all \ {list[i] : i \in 1..excess})
        /\ list' = Append(SubSeq(list, excess + 1, Len(list)), k)
        /\ UNCHANGED fault

\* store() of data that is not too large.  The oldest go while there are more than
\* maxSize others.
Store(k, v) ==
    LET others == Without(k)
        excess == IF Len(others) > DbSize THEN Len(others) - DbSize ELSE 0
        all    == Insert(k, v)
    IN  /\ ~fault
        /\ map' = Restrict(all, DOMAIN all \ {others[i] : i \in 1..excess})
        /\ list' = Append(SubSeq(others, excess + 1, Len(others)), k)
        /\ UNCHANGED fault

\* erase()
Erase(k) ==
    /\ ~fault
    /\ k \in DOMAIN map
    /\ list' = Without(k)
    /\ map' = Restrict(map, DOMAIN map \ {k})
    /\ UNCHANGED fault

\* retrieve() of a key that is there: the conversion to gnutls_datum_t copies the
\* data to the address that equals its length.
Retrieve(k) ==
    /\ ~fault
    /\ k \in DOMAIN map
    /\ fault' = TRUE
    /\ UNCHANGED <<map, list>>

DbNext ==
    \E k \in DbKey : (\E v \in DbData : Store(k, v)) \/ Erase(k) \/ Retrieve(k)

DbSpec == DbInit /\ [][DbNext]_dbVars

-----------------------------------------------------------------------------
(* Properties                                                               *)

\* Every entry of TlsSessionDB::map has exactly one iterator in the list and the
\* list has no other: none refers to an erased entry, and none is kept for ever.
\* There is one entry more than maxSize at most.
CacheExact ==
    /\ list \in Seq(DbKey) /\ map \in [Range(list) -> DbData]
    /\ \A i, j \in DOMAIN list : list[i] = list[j] => i = j
    /\ Len(list) <= DbSize + 1
=============================================================================
