------------------------------ MODULE Lookups ------------------------------
(***************************************************************************)
(* What Json finds in a text against the member of the object the text     *)
(* stands for: every text of a bounded set and path of one or two names.   *)
(* A behaviour takes one input after the other.                            *)
(***************************************************************************)
EXTENDS Json

VARIABLE input

----------------------------------------------------------------------------
(* Texts to look names up in. *)

Key == {<<"a">>, <<"b">>, <<"a", "b">>}

Quoted(s) == <<Quote>> \o s \o <<Quote>>

Texts == {Quoted(<<>>), Quoted(<<"b">>), Quoted(<<"t">>), <<"1">>, <<"-", "1", ".", "2">>,
          <<"t", "r", "u", "e">>, <<"[", "1", ",", "1", "]">>, <<"[", "[", "]", "[", "]", "]">>}

ObjectText(o) ==
  <<"{">> \o FlattenSeq([i \in DOMAIN o |-> (IF i = 1 THEN <<>> ELSE <<",">>)
                                             \o Quoted(o[i].key) \o <<":">> \o o[i].text]) \o <<"}">>

Member(key, text, object) == [key |-> key, text |-> text, object |-> object]

Flat == {<<>>} \cup {<<Member(k, v, <<>>)>> : k \in Key, v \in Texts}
Inner == Flat \cup {<<Member(k[1], <<"1">>, <<>>), Member(k[2], Quoted(<<"b">>), <<>>)>> : k \in Key \X Key}

Values == {Member(k, v, <<>>) : k \in Key, v \in Texts}
          \cup {Member(k, ObjectText(o), o) : k \in Key, o \in Inner}
Paths  == {<<k>> : k \in Key} \cup (Key \X Key)

(* No key of the object is a longer one than the name it begins with.      *)
Distinct(o, name) == \A i \in DOMAIN o : IsPrefix(name, o[i].key) => o[i].key = name

Named(o, name) == SelectInSeq(o, LAMBDA p : p.key = name /\ p.text # Quoted(<<>>))

(* The text of the value the path leads to, a string without its quotes.   *)
RECURSIVE Lookup(_, _)
Lookup(path, o) ==
  LET i == Named(o, Head(path))
  IN  IF i = 0 THEN NULL
      ELSE IF Len(path) > 1 THEN Lookup(Tail(path), o[i].object)
      ELSE IF o[i].text[1] = Quote THEN SubSeq(o[i].text, 2, Len(o[i].text) - 1)
      ELSE o[i].text

RECURSIVE DistinctOn(_, _)
DistinctOn(path, o) ==
  /\ Distinct(o, Head(path))
  /\ Len(path) > 1 => LET i == Named(o, Head(path))
                      IN  i > 0 => DistinctOn(Tail(path), o[i].object)

----------------------------------------------------------------------------
NoInput == [object |-> <<>>, path |-> <<>>]

LookupInit == input = NoInput

TakeText ==
  /\ input = NoInput
  /\ \E v \in Values, p \in Paths :
       \/ input' = [object |-> <<v>>, path |-> p]
       \/ \E w \in Values : v.key # w.key /\ input' = [object |-> <<v, w>>, path |-> p]

PutBack == input # NoInput /\ input' = NoInput

----------------------------------------------------------------------------
(* A name is looked up in the object it is asked of: the value found is    *)
(* that of the name, if no other name there begins with it, wherever it    *)
(* stands among others; and a name that is not there is not found.         *)
ValueIsFound ==
  input # NoInput =>
    LET found == LITE_json_value_of(input.path, ObjectText(input.object))
        value == Lookup(input.path, input.object)
    IN  DistinctOn(input.path, input.object) =>
          /\ value # NULL => found = value
          /\ value = NULL /\ Len(input.path) = 1 => found = NULL
=============================================================================
