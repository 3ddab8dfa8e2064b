----------------------------- MODULE MCFormats -----------------------------
(***************************************************************************)
(* Formats and Lookups for TLC: the inputs, one of either at a time.       *)
(***************************************************************************)
EXTENDS Formats

CONSTANT MaxValue   \* length of the longest value in a report

VARIABLE lookup     \* the input of Lookups

L == INSTANCE Lookups WITH input <- lookup

Levels == {<<>>, <<"a">>, <<"b">>, <<"a", "b">>}

----------------------------------------------------------------------------
Node(key, n) == [parse_type |-> "NODE", key |-> key, value |-> [i \in 1..n |-> "v"]]
List(type, key, members) == [parse_type |-> type, key |-> key, value |-> members]

Nodes   == {Node("k", n) : n \in 1..MaxValue}
Structs == {List("STRUCT", "k", [i \in 1..n |-> Node("m", IF i = j THEN 4 ELSE 1)])
              : n \in 1..3, j \in 1..3}
Arrays  == {List("ARRAY_BASE", "k", [i \in 1..n |-> Node(NULL, IF i = j THEN 4 ELSE 1)])
              : n \in 1..3, j \in 1..3}
Tables  == {List("ARRAY_STRUCT", "k",
                 [i \in 1..n |-> List("STRUCT", NULL, [k \in 1..m |-> Node("m", 1)])])
              : n \in 1..3, m \in 1..3}

Properties == Nodes \cup Structs \cup Arrays \cup Tables

ReportsOfTwo == SequencesOf(Properties, 2)
                \cup [1..3 -> Nodes \cup {List("STRUCT", "k", <<Node("m", 1)>>)}]
----------------------------------------------------------------------------
Init == InputInit /\ L!LookupInit

NextInput  == lookup = L!NoInput /\ InputNext /\ UNCHANGED lookup
NextLookup == kind = "none" /\ (L!TakeText \/ L!PutBack) /\ UNCHANGED <<kind, input>>

Next == NextInput \/ NextLookup

Spec == Init /\ [][Next]_<<kind, input, lookup>>

(* A name is looked up in the object it is asked of (json_parser.c:47).    *)
ValueIsFound == L!ValueIsFound
=============================================================================
