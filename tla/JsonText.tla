------------------------------- MODULE JsonText -------------------------------
(***************************************************************************)
(* Text to items and back (cJSON.c).  A text is a sequence of tokens.  A   *)
(* string is what follows its opening quote; how numbers and keys are      *)
(* spelled is left out, and a key is a token of its own.                   *)
(***************************************************************************)
EXTENDS JsonHeap, JsonString

CONSTANTS
  NestingLimit    \* CJSON_NESTING_LIMIT, 1000 unless it is configured

ASSUME TextAssumption == NestingLimit \in Nat

Sign(t) == [t |-> t, v |-> <<>>]
Word(t, v) == [t |-> t, v |-> v]

-----------------------------------------------------------------------------
(* Printing *)

TooDeep == Sign("too deep")

\* Mutant: one level more than the parser takes
NestsOneMore(depth) == depth <= NestingLimit

\* An array or an object inside this many others is printed
Nests(depth) == depth < NestingLimit

RECURSIVE Joined(_)
Joined(parts) ==
  IF parts = <<>> THEN <<>>
  ELSE Head(parts) \o (IF Tail(parts) = <<>> THEN <<>> ELSE <<Sign(",")>>)
         \o Joined(Tail(parts))

RECURSIVE PrintValue(_, _)

\* print_array
PrintArray(members, depth) ==
  IF ~Nests(depth) THEN <<TooDeep>>
  ELSE <<Sign("[")>>
         \o Joined([j \in 1 .. Len(members) |-> PrintValue(members[j].item, depth + 1)])
         \o <<Sign("]")>>

\* print_object without format
PrintObject(members, depth) ==
  IF ~Nests(depth) THEN <<TooDeep>>
  ELSE <<Sign("{")>>
         \o Joined([j \in 1 .. Len(members) |->
                      <<Word("name", <<members[j].key>>), Sign(":")>>
                        \o PrintValue(members[j].item, depth + 1)])
         \o <<Sign("}")>>

\* print_value
PrintValue(tree, depth) ==
  CASE tree.kind = "string"   -> <<Word("string", PrintString(tree.value))>>
    [] tree.kind \in Scalars \ {"string"} -> <<Word(tree.kind, tree.value)>>
    [] tree.kind = "array"    -> PrintArray(tree.members, depth)
    [] tree.kind = "object"   -> PrintObject(tree.members, depth)
    [] tree.kind = "invalid"  -> <<TooDeep>>

PrintItem(m, a) == PrintValue(Tree(m, a), 0)

\* cJSON_PrintUnformatted returns a text
Printed(text) == TooDeep \notin Range(text)

-----------------------------------------------------------------------------
(* Parsing.  An outcome is the heap, the position reached, and success.    *)

Outcome(h, i, ok) == [h |-> h, i |-> i, ok |-> ok]

\* buffer_skip_whitespace
RECURSIVE Skip(_, _)
Skip(text, i) ==
  IF i <= Len(text) /\ text[i].t = "blank" THEN Skip(text, i + 1) ELSE i

Is(text, i, t) == i <= Len(text) /\ text[i].t = t

\* Mutant: only the first item of the list is given back
FailsLeaking(h, i, head) ==
  Outcome(IF head = Null THEN h
          ELSE Heap([h.m EXCEPT ![head] = Free], h.left), i, FALSE)

\* goto fail of parse_array and parse_object
Fails(h, i, head) == Outcome(Heap(Delete(h.m, head), h.left), i, FALSE)

\* goto success
Succeeds(h, i, item, kind, head, last) ==
  Outcome(Heap([h.m EXCEPT ![item].kind = kind, ![item].child = head,
                           ![IF head = Null THEN item ELSE head].prev =
                              IF head = Null THEN @ ELSE last], h.left),
          i, TRUE)

RECURSIVE ParseValue(_, _, _, _, _)

\* An item at the end of the list
LinkedAfter(h, last, a) ==
  IF last = Null THEN h
  ELSE Heap([h.m EXCEPT ![last].next = a, ![a].prev = last], h.left)

\* parse_array from a bracket or a comma on: an element into the item a
ParseElement(h, text, a, i, depth) ==
  ParseValue(h, text, a, Skip(text, i + 1), depth)

\* parse_object from a brace or a comma on: a key, a colon and a value
ParseMember(h, text, a, i, depth) ==
  LET name == Skip(text, i + 1)
      colon == Skip(text, name + 1)
      named == Heap([h.m EXCEPT ![a].key = text[name].v[1]], h.left)
  IN  IF Is(text, name, "name") /\ Is(text, colon, ":")
      THEN ParseValue(named, text, a, Skip(text, colon + 1), depth)
      ELSE Outcome(h, name, FALSE)

\* The loop of both; i is at the bracket or the comma before the element
RECURSIVE ParseList(_, _, _, _, _, _, _, _)
ParseList(h, text, item, i, depth, kind, head, last) ==
  LET n == Allocate(h, Blank)
      first == IF head = Null THEN n.at ELSE head
      Into(g) == IF kind = "array" THEN ParseElement(g, text, n.at, i, depth)
                 ELSE ParseMember(g, text, n.at, i, depth)
      Goes(r, end) ==
        IF Is(text, end, ",")
        THEN ParseList(r.h, text, item, end, depth, kind, first, n.at)
        ELSE IF Is(text, end, IF kind = "array" THEN "]" ELSE "}")
        THEN Succeeds(r.h, end + 1, item, kind, first, n.at)
        ELSE Fails(r.h, end, first)
      After(r) == IF r.ok THEN Goes(r, Skip(text, r.i)) ELSE Fails(r.h, r.i, first)
  IN  IF n.at = Null THEN Fails(n.h, i, head) ELSE After(Into(LinkedAfter(n.h, last, n.at)))

\* parse_string, into an item that is there already
ParseString(h, item, raw, i) ==
  LET Into(read) ==
        IF read.ok
        THEN Outcome(Heap([h.m EXCEPT ![item].kind = "string",
                                      ![item].value = CString(read.bytes)], h.left),
                     i + 1, TRUE)
        ELSE Outcome(h, i, FALSE)
  IN  Into(ReadString(raw))

\* parse_value, likewise
ParseValue(h, text, item, i, depth) ==
  LET kind == IF Is(text, i, "[") THEN "array" ELSE "object"
      inside == Skip(text, i + 1)
  IN  IF i > Len(text) THEN Outcome(h, i, FALSE)
      ELSE IF text[i].t = "string" THEN ParseString(h, item, text[i].v, i)
      ELSE IF text[i].t \in Scalars
      THEN Outcome(Heap([h.m EXCEPT ![item].kind = text[i].t,
                                    ![item].value = text[i].v], h.left),
                   i + 1, TRUE)
      ELSE IF ~(Is(text, i, "[") \/ Is(text, i, "{")) \/ depth >= NestingLimit
           \/ inside > Len(text)
      THEN Outcome(h, i, FALSE)
      ELSE IF Is(text, inside, IF kind = "array" THEN "]" ELSE "}")
      THEN Succeeds(h, inside + 1, item, kind, Null, Null)
      ELSE ParseList(h, text, item, i, depth + 1, kind, Null, Null)

\* cJSON_Parse, which does not mind what follows the value
Parse(h, text) ==
  LET n == Allocate(h, Blank)
      Ends(r) == IF r.ok THEN [h |-> r.h, at |-> n.at]
                 ELSE [h |-> Heap(Delete(r.h.m, n.at), r.h.left), at |-> Null]
  IN  IF n.at = Null THEN n
      ELSE Ends(ParseValue(n.h, text, n.at, Skip(text, 1), 0))

=============================================================================
