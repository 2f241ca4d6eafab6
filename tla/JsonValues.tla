------------------------------ MODULE JsonValues ------------------------------
(***************************************************************************)
(* What cJSON promises its caller, without memory or links: the caller     *)
(* holds documents, each a value, and a call changes the one it names the  *)
(* way the headers and the RFCs they cite say, and no other.               *)
(*                                                                         *)
(* A value is a record of a kind, a scalar and the members, each a key and *)
(* a value; the elements of an array have no key.                          *)
(***************************************************************************)
EXTENDS JsonPatch

VARIABLES
  docs,   \* the value of each document the caller holds
  call    \* the last call: its arguments and how it ended

-----------------------------------------------------------------------------
(* Parts of a value *)

\* The value at a path of positions
RECURSIVE At(_, _)
At(v, path) ==
  IF path = <<>> THEN v ELSE At(v.members[Head(path)].item, Tail(path))

\* v with w at a path, and with other members there
RECURSIVE PutAt(_, _, _)
PutAt(v, path, w) ==
  IF path = <<>> THEN w
  ELSE [v EXCEPT !.members[Head(path)].item = PutAt(@, Tail(path), w)]
Put(v, path, members) == PutAt(v, path, [At(v, path) EXCEPT !.members = members])

Member(key, v) == [key |-> key, item |-> v]

\* The members of an object have no order
RECURSIVE Unordered(_)
Unordered(v) ==
  [kind |-> v.kind, value |-> v.value,
   members |-> {<<IF v.kind = "object" THEN v.members[j].key ELSE j,
                  Unordered(v.members[j].item)>> : j \in 1 .. Len(v.members)}]

Same(v, w) == Unordered(v) = Unordered(w)

\* No object has two members of one name
RECURSIVE Distinct(_)
Distinct(v) ==
  /\ v.kind = "object" =>
       \A j, l \in 1 .. Len(v.members) :
         Order(v.members[j].key, FALSE) = Order(v.members[l].key, FALSE) => j = l
  /\ \A j \in 1 .. Len(v.members) : Distinct(v.members[j].item)

\* There is an item in it that has no type, such as a removed document
RECURSIVE Hollow(_)
Hollow(v) == v.kind = "invalid" \/ \E j \in DOMAIN v.members : Hollow(v.members[j].item)

RECURSIVE Keys(_)
Keys(v) == {v.members[j].key : j \in 1 .. Len(v.members)}
             \cup UNION {Keys(v.members[j].item) : j \in 1 .. Len(v.members)}

\* The names in ks are told apart without regard to case
OneCase(ks) == \A k, l \in ks : Order(k, FALSE) = Order(l, FALSE) => k = l

\* strcmp puts the names in ks in the order they have without regard to case
CaseInOrder(ks) ==
  \A k, l \in ks : Order(k, FALSE) < Order(l, FALSE) => Order(k, TRUE) < Order(l, TRUE)

\* The names below the members of v
InnerKeys(v) == UNION {Keys(v.members[j].item) : j \in 1 .. Len(v.members)}

StepKeys(p) == {NameOf(s) : s \in Range(p.path \o p.from)}

\* No member of an object is null, which a merge patch cannot say
RECURSIVE NoNullMember(_)
NoNullMember(v) ==
  v.kind = "object" =>
    \A j \in 1 .. Len(v.members) :
      /\ v.members[j].item.kind # "null"
      /\ NoNullMember(v.members[j].item)

-----------------------------------------------------------------------------
(* RFC 6902 *)

\* The position a step leads to, 0 for none
Position(v, s) ==
  IF v.kind = "array" /\ s.t = "index"
  THEN IF s.n + 1 <= Len(v.members) THEN s.n + 1 ELSE 0
  ELSE IF v.kind = "object" /\ NameOf(s) \in {v.members[j].key : j \in 1 .. Len(v.members)}
  THEN CHOOSE j \in 1 .. Len(v.members) : v.members[j].key = NameOf(s)
  ELSE 0

\* The positions a pointer leads over
RECURSIVE Positions(_, _)
Positions(v, path) ==
  IF path = <<>> THEN <<>>
  ELSE <<Position(v, Head(path))>>
         \o Positions(v.members[Position(v, Head(path))].item, Tail(path))

Without(v, path) ==
  LET q == Positions(v, path)
  IN  Put(v, Front(q), RemoveAt(At(v, Front(q)).members, Last(q)))

With(v, path, item) ==
  LET q == Positions(v, Front(path))
      at == At(v, q)
      s == Last(path)
      old == Position(at, s)
  IN  IF path = <<>> THEN item
      ELSE Put(v, q,
             IF at.kind = "object"
             THEN Append(IF old = 0 THEN at.members ELSE RemoveAt(at.members, old),
                         Member(NameOf(s), item))
             ELSE IF s.t = "end" THEN Append(at.members, Member(NoKey, item))
             ELSE InsertAt(at.members, s.n + 1, Member(NoKey, item)))

Patched(v, p) ==
  CASE p.op = "test" -> v
    [] p.op = "remove" -> IF p.path = <<>> THEN NoValue ELSE Without(v, p.path)
    [] p.op = "add" -> With(v, p.path, p.value)
    [] p.op = "replace" -> IF p.path = <<>> THEN p.value
                           ELSE With(Without(v, p.path), p.path, p.value)
    [] p.op = "copy" -> With(v, p.path, At(v, Positions(v, p.from)))
    [] p.op = "move" -> With(Without(v, p.from), p.path, At(v, Positions(v, p.from)))

-----------------------------------------------------------------------------
(* RFC 8259 *)

\* The code point that bytes of UTF-8 begin with, and how many bytes it has
Width(bytes) == CASE bytes[1] < 192 -> 1 [] bytes[1] \in 192 .. 223 -> 2
                  [] bytes[1] \in 224 .. 239 -> 3 [] OTHER -> 4
CodePoint(bytes) ==
  LET n == Width(bytes)
      lead == IF n = 1 THEN bytes[1] ELSE bytes[1] % (2 ^ (7 - n))
  IN  FoldLeft(LAMBDA c, b : 64 * c + (b % 64), lead, SubSeq(bytes, 2, n))

\* A code point in units of 16 bits
Units(c) == IF c < 65536 THEN <<c>>
            ELSE <<55296 + ((c - 65536) \div 1024), 56320 + ((c - 65536) % 1024)>>

\* The literals of units, in small letters
Literals(units) ==
  FoldLeft(LAMBDA r, u : r \o <<Backslash, SmallU>>
                           \o [j \in 1 .. 4 |-> HexDigit((u \div 16 ^ (4 - j)) % 16)],
           <<>>, units)
Small(raw) == [j \in DOMAIN raw |-> IF raw[j] \in 65 .. 70 THEN raw[j] + 32 ELSE raw[j]]

\* What is written up to the closing quote stands for the bytes of a C string,
\* one after the other; \u0000 ends it
RECURSIVE Stands(_, _)
Stands(raw, bytes) ==
  LET literals == Literals(Units(CodePoint(bytes)))
      n == Len(literals)
  IN  IF raw = <<Quote>> THEN bytes = <<>>
      ELSE IF Len(raw) >= 6 /\ SubSeq(raw, 1, 6) = Literals(<<0>>) THEN bytes = <<>>
      ELSE IF bytes = <<>> THEN FALSE
      ELSE IF raw[1] # Backslash THEN raw[1] = bytes[1] /\ Stands(Tail(raw), Tail(bytes))
      ELSE IF raw[2] # SmallU
      THEN /\ <<raw[2], bytes[1]>> \in Escapes \cup {<<47, 47>>}
           /\ Stands(SubSeq(raw, 3, Len(raw)), Tail(bytes))
      ELSE /\ Len(raw) >= n
           /\ Small(SubSeq(raw, 1, n)) = literals
           /\ Stands(SubSeq(raw, n + 1, Len(raw)),
                     SubSeq(bytes, Width(bytes) + 1, Len(bytes)))

\* The tokens a value is printed as and those it was read from; what follows it
\* does not matter
ReadFrom(v, text) ==
  LET tokens == SelectSeq(text, LAMBDA w : w.t # "blank")
      RECURSIVE Words(_)
      Words(u) ==       \* the tokens of a value, its strings as bytes
        CASE u.kind \in Scalars -> <<Word(u.kind, u.value)>>
          [] u.kind = "array" ->
               <<Sign("[")>> \o Joined([j \in DOMAIN u.members |-> Words(u.members[j].item)])
                 \o <<Sign("]")>>
          [] u.kind = "object" ->
               <<Sign("{")>>
                 \o Joined([j \in DOMAIN u.members |->
                              <<Word("name", <<u.members[j].key>>), Sign(":")>>
                                \o Words(u.members[j].item)])
                 \o <<Sign("}")>>
      words == Words(v)
  IN  /\ Len(words) <= Len(tokens)
      /\ \A j \in DOMAIN words :
           /\ words[j].t = tokens[j].t
           /\ IF words[j].t = "string" THEN Stands(tokens[j].v, words[j].v)
              ELSE words[j].v = tokens[j].v

-----------------------------------------------------------------------------
(* The calls; c is the one made *)

Members(c) == At(docs[c.doc], c.path).members

\* The document and the one moved into it, or out of it
Edited(c, members) ==
  [a \in DOMAIN docs |-> IF a = c.doc THEN Put(docs[a], c.path, members) ELSE docs[a]]
Except(d, b) == [a \in DOMAIN d \ {b} |-> d[a]]

Adds(c) ==
  docs' = Except(Edited(c, Append(Members(c), Member(c.key, docs[c.arg]))), c.arg)
Inserts(c) ==
  docs' = Except(Edited(c, InsertAt(Members(c), c.at, Member(NoKey, docs[c.arg]))),
                 c.arg)
Replaces(c) ==
  docs' = Except(Edited(c, ReplaceAt(Members(c), c.at, Member(c.key, docs[c.arg]))),
                 c.arg)
Detaches(c) ==
  docs' = Edited(c, RemoveAt(Members(c), c.at)) @@ c.new :> Members(c)[c.at].item
Removes(c) == docs' = Edited(c, RemoveAt(Members(c), c.at))

Sets(c) ==
  docs' = IF c.ok
          THEN [docs EXCEPT ![c.doc] =
                  PutAt(@, c.path, [At(@, c.path) EXCEPT !.value = c.value])]
          ELSE docs

\* A document that was not there, or none when memory has run out
Makes(c, v) ==
  /\ c.new \notin DOMAIN docs
  /\ docs' = IF c.ok THEN docs @@ c.new :> v ELSE docs

\* d holds the documents there were before, those in as with their objects put
\* in another order perhaps
Rearranges(d, as) ==
  \A a \in DOMAIN d \cap DOMAIN docs :
    Same(d[a], docs[a]) /\ (a \notin as => d[a] = docs[a])

\* A patch that succeeds does what the RFC says; one that fails may have done
\* a part of it, and either way no other document is touched
Applies(c) ==
  /\ DOMAIN docs' = DOMAIN docs
  /\ Rearranges(Except(docs', c.doc), {c.arg})
  /\ /\ c.ok
     /\ Distinct(docs[c.doc]) /\ Distinct(c.patch.value)
     /\ OneCase(Keys(docs[c.doc]) \cup Keys(c.patch.value) \cup StepKeys(c.patch)
                  \cup (IF c.arg = Null THEN {} ELSE Keys(docs[c.arg])))
     /\ c.arg # Null => Distinct(docs[c.arg])
     => /\ Same(docs'[c.doc], Patched(docs[c.doc], c.patch))
        /\ c.patch.op = "test" =>
             Same(At(docs[c.doc], Positions(docs[c.doc], c.patch.path)), docs[c.arg])

Follows(c) ==
  /\ DOMAIN docs' = DOMAIN docs \cup {c.new}
  /\ Rearranges(docs', {c.doc, c.arg})
  /\ /\ Distinct(docs[c.doc]) /\ Distinct(docs[c.arg])
     /\ OneCase(Keys(docs[c.doc]) \cup Keys(docs[c.arg]))
     => Same(docs'[c.new], docs[c.arg])

\* A merge patch leads from one document to the other where the order of strcmp,
\* by which their members are told apart, is the one they have been sorted in:
\* without regard to case, or only below the members
Merges(c) ==
  /\ DOMAIN docs' = DOMAIN docs \cup {c.new}
  /\ Rearranges(docs', {c.doc, c.arg})
  /\ /\ Distinct(docs[c.doc]) /\ Distinct(docs[c.arg])
     /\ OneCase(Keys(docs[c.doc]) \cup Keys(docs[c.arg]))
     /\ IF c.sensitive
        THEN CaseInOrder(InnerKeys(docs[c.doc]) \cup InnerKeys(docs[c.arg]))
        ELSE CaseInOrder(Keys(docs[c.doc]) \cup Keys(docs[c.arg]))
     /\ NoNullMember(docs[c.arg])
     => Same(docs'[c.new], docs[c.arg])

\* Two documents are found equal when they are, whatever the order of members
Compares(c) ==
  /\ Distinct(docs[c.doc]) /\ Distinct(docs[c.arg])
  /\ OneCase(Keys(docs[c.doc]) \cup Keys(docs[c.arg]))
  => (c.ok <=> Same(docs[c.doc], docs[c.arg]) /\ ~Hollow(docs[c.doc]))

\* A pointer that is found leads to the item it was asked for
Points(c) ==
  /\ Distinct(docs[c.doc])
  /\ OneCase(Keys(docs[c.doc]))
  => Positions(docs[c.doc], c.pointer) = c.path

Init ==
  /\ docs = [a \in {} |-> NoValue]
  /\ call = [op |-> "none"]

\* What a call does
Effect(c) ==
  CASE c.op = "create"    -> Makes(c, Value(c.kind, c.value, <<>>))
    [] c.op = "duplicate" -> Makes(c, At(docs[c.doc], c.path))
    [] c.op = "parse"     -> \/ ~c.ok /\ UNCHANGED docs
                             \/ /\ c.ok
                                /\ Makes(c, docs'[c.new])
                                /\ ReadFrom(docs'[c.new], c.text)
    [] c.op = "list"      -> Makes(c, Value("array", <<>>,
                               [j \in DOMAIN c.values |->
                                  Member(NoKey, Value(c.kind, c.values[j], <<>>))]))
    [] c.op = "delete"    -> docs' = Except(docs, c.doc)
    [] c.op = "add"       -> Adds(c)
    [] c.op = "addnew"    -> docs' = IF c.ok THEN Edited(c, Append(Members(c),
                                       Member(c.key, Value(c.kind, c.value, <<>>))))
                                     ELSE docs
    [] c.op = "insert"    -> Inserts(c)
    [] c.op = "replace"   -> Replaces(c)
    [] c.op = "detach"    -> Detaches(c)
    [] c.op = "remove"    -> Removes(c)
    [] c.op = "set"       -> Sets(c)
    [] c.op = "sort"      -> DOMAIN docs' = DOMAIN docs /\ Rearranges(docs', {c.doc})
    [] c.op = "compare"   -> UNCHANGED docs /\ Compares(c)
    [] c.op = "find"      -> UNCHANGED docs /\ Points(c)
    [] c.op = "patch"     -> Applies(c)
    [] c.op = "generate"  -> Follows(c)
    [] c.op = "merge"     -> Merges(c)

Spec == Init /\ [][Effect(call')]_<<docs, call>>

=============================================================================
