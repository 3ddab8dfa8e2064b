-------------------------------- MODULE Json --------------------------------
(***************************************************************************)
(* How the SDK finds a value in a JSON text: src/utils/json_parser.c and   *)
(* LITE_json_value_of of json_token.c.  A text is the sequence of its      *)
(* characters; a place is an index, 0 stands for the pointer NULL.         *)
(***************************************************************************)
EXTENDS Naturals, Sequences, SequencesExt

CONSTANT NULL

Quote == "\""
Digit == {"0", "1", "2"}   \* the digits of the texts the model reads

From(str, pos) == SubSeq(str, pos, Len(str))

(* The first place from pos on with a character of chars; none from NULL.  *)
Find(str, pos, chars) ==
  IF pos = 0 THEN 0 ELSE SelectInSubSeq(str, pos, Len(str), LAMBDA c : c \in chars)

(* The text begins, after blanks, with the bracket of an object.           *)
json_get_object(str) ==
  LET pos == SelectInSeq(str, LAMBDA c : c # " ")
  IN  IF pos > 0 /\ str[pos] = "{" THEN pos ELSE 0

(* Faulty variant: the first closing bracket ends the value.               *)
MarkEnd_NoDepth(str, start, open, close) == Find(str, start + 1, {close})

(* The bracket that closes the one at start: as many of its kind have been *)
(* opened as closed before it.                                             *)
MarkEnd(str, start, open, close) ==
  LET Count(c, end) == Len(SelectSeq(SubSeq(str, start + 1, end - 1), LAMBDA x : x = c))
      ends == {e \in (start + 1)..Len(str) :
                 str[e] = close /\ Count(open, e) = Count(close, e)}
  IN  IF ends = {} THEN 0 ELSE Min(ends)

Words == {<<"t", "r", "u", "e">>, <<"f", "a", "l", "s", "e">>, <<"n", "u", "l", "l">>}

(* A string at quote, without its quotes, and any other value at start:    *)
(* where it is, its length (0 if it has no end) and what follows it.       *)
String(quote, len) == [val |-> quote + 1, len |-> len, next |-> quote + len + 2]
Plain(start, len)  == [val |-> start, len |-> len, next |-> start + len]

(* Characters from start up to end, or none if there is no end.            *)
Length(start, end) == IF end = 0 THEN 0 ELSE end - start

NumberEnd(str, start) ==
  SelectInSubSeq(str, start + 1, Len(str), LAMBDA c : c \notin Digit \cup {"."})

(* The value that begins at start.                                         *)
Value(str, start) ==
  CASE start = 0 -> Plain(0, 0)
    [] start > 0 /\ str[start] = Quote ->
         String(start, Length(start + 1, Find(str, start + 1, {Quote})))
    [] start > 0 /\ str[start] = "{" ->
         Plain(start, Length(start - 1, MarkEnd(str, start, "{", "}")))
    [] start > 0 /\ str[start] = "[" ->
         Plain(start, Length(start - 1, MarkEnd(str, start, "[", "]")))
    [] start > 0 /\ str[start] \in {"-"} \cup Digit ->
         Plain(start, Length(start, NumberEnd(str, start)))
    [] start > 0 /\ str[start] \in {"t", "f", "n"} ->
         Plain(start, Max({0} \cup {Len(w) : w \in {v \in Words : IsPrefix(v, From(str, start))}}))

(* A name between two quotes, and the value behind the next colon.         *)
Pair(str, open, close, colon) ==
  [key |-> open + 1, klen |-> close - (open + 1),
   value |-> Value(str, Find(str, colon, {Quote, "{", "[", "-", "t", "f", "n"} \cup Digit))]

(* The next name and value from pos on; pos is NULL behind the last one.   *)
json_get_next_object(str, pos) ==
  LET open  == Find(str, pos, {Quote})
      close == IF open = 0 THEN 0 ELSE Find(str, open + 1, {Quote})
  IN  IF close = 0 THEN [key |-> 0, klen |-> 0, value |-> Plain(0, 0)]
      ELSE Pair(str, open, close, Find(str, close, {":"}))

(* json_get_value_by_name_cb: the name is compared over its own length.    *)
IsNamed(str, pair, name) == IsPrefix(name, From(str, pair.key))

(* json_object_for_each_kv with the callback, from a pair on: goes on past *)
(* the end of the object, in the text that follows it.                     *)
RECURSIVE Search(_, _, _)
Search(str, pair, name) ==
  IF pair.value.next = 0 \/ (pair.klen > 0 /\ pair.value.len > 0 /\ IsNamed(str, pair, name))
  THEN pair.value
  ELSE Search(str, json_get_next_object(str, pair.value.next), name)

json_get_value_by_name(str, name) ==
  Search(str, json_get_next_object(str, json_get_object(str)), name)

(* A path of names, "a.b" as <<a, b>>: each name but the last moves src to *)
(* the value it has; the text after that value stays in sight.             *)
RECURSIVE LITE_json_value_of(_, _)
LITE_json_value_of(path, src) ==
  LET found == json_get_value_by_name(src, Head(path))
  IN  IF found.val = 0 THEN NULL
      ELSE IF Len(path) = 1
      THEN SubSeq(src, found.val, found.val + found.len - 1)
      ELSE LITE_json_value_of(Tail(path), From(src, found.val))
=============================================================================
