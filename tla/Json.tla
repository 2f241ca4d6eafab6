--------------------------------- MODULE Json ---------------------------------
(***************************************************************************)
(* A caller of cJSON and of cJSON_Utils: it makes, reads, edits, patches   *)
(* and deletes documents in one memory, which may run out in the middle of *)
(* a call that allocates.                                                  *)
(*                                                                         *)
(* The caller keeps the rules of the headers: what it adds it owns, and is *)
(* not above the place it goes to.  It keeps one more, which they do not   *)
(* state: it adds nothing to an object that has been sorted in place.      *)
(***************************************************************************)
EXTENDS JsonPatch

CONSTANTS
  Texts,       \* the texts it may parse
  Items,       \* the items it may create: pairs of a kind and a scalar
  Rows,        \* the arrays it may create at once: a kind and the scalars
  Names,       \* the keys it uses
  Patching,    \* the patches it may apply
  Shortages,   \* how many allocations succeed in a call that may fail
  MaxCalls

ASSUME CallerAssumption ==
  /\ \A i \in Items : i[1] \in Kinds /\ i[2] \in Seq(Nat)
  /\ \A r \in Rows : r[1] \in {"number", "string"} /\ r[2] \in Seq(Seq(Nat))
  /\ Names \subseteq 0 .. 2 * WordBound - 1
  /\ Shortages \subseteq Nat
  /\ MaxCalls \in Nat

VARIABLES
  mem,      \* the items
  mine,     \* documents the caller holds
  sorted,   \* history: objects that have been sorted in place
  call,     \* history: the last call, its arguments and how it ended
  calls     \* the number of calls

vars == <<mem, mine, sorted, call, calls>>

-----------------------------------------------------------------------------

Enough == Heap(mem, MaxItems)

RECURSIVE Paths(_, _)
Paths(m, a) ==
  {<<>>} \cup UNION {{<<j>> \o q : q \in Paths(m, Children(m, a)[j])} :
                       j \in 1 .. Len(Children(m, a))}

RECURSIVE ItemOn(_, _, _)
ItemOn(m, a, path) ==
  IF path = <<>> THEN a ELSE ItemOn(m, Children(m, a)[Head(path)], Tail(path))

\* An array or object in one of the caller's documents
Lists == {l \in [doc : mine, path : UNION {Paths(mem, a) : a \in mine}] :
            /\ l.path \in Paths(mem, l.doc)
            /\ mem[ItemOn(mem, l.doc, l.path)].kind \in {"array", "object"}}

ListOf(l) == ItemOn(mem, l.doc, l.path)

Objects(m, as) ==
  {o \in UNION {Owned(m, a) : a \in as} : m[o].kind = "object"}

\* A call that ends with the memory m, the caller holding ds; it may have
\* sorted the objects of as
Ends(c, m, ds, as) ==
  /\ calls' = calls + 1
  /\ call' = c
  /\ mem' = m
  /\ mine' = ds
  /\ sorted' = {o \in sorted \cup Objects(mem, as) : m[o] # Free}

Keeps(m) == m.at # Null

-----------------------------------------------------------------------------
(* Making documents *)

\* cJSON_CreateX
Create(kind, value) ==
  LET r == Allocate(Enough, [Blank EXCEPT !.kind = kind, !.value = value])
  IN  /\ Keeps(r)
      /\ Ends([op |-> "create", kind |-> kind, value |-> value, new |-> r.at,
               ok |-> TRUE], r.h.m, mine \cup {r.at}, {})

\* cJSON_CreateIntArray and those like it: the items are linked as they come,
\* and the first one's prev is set at the end
CreateList(kind, values, left) ==
  LET n == Allocate(Heap(mem, left), Blank)
      Start == [h |-> n.h, head |-> Null, last |-> Null, ok |-> Keeps(n)]
      Link(r, e) ==
        IF ~Keeps(e) THEN [r EXCEPT !.h = Fails(e.h, 0, r.head).h, !.ok = FALSE]
        ELSE [r EXCEPT !.h = LinkedAfter(e.h, r.last, e.at), !.last = e.at,
                       !.head = IF r.head = Null THEN e.at ELSE @]
      Step(r, v) ==
        IF ~r.ok THEN r
        ELSE Link(r, Allocate(r.h, [Blank EXCEPT !.kind = kind, !.value = v]))
  IN  \E r \in {FoldLeft(Step, Start, values)} :
        Ends([op |-> "list", kind |-> kind, values |-> values, new |-> n.at,
              ok |-> r.ok],
             IF r.ok THEN Succeeds(r.h, 0, n.at, "array", r.head, r.last).h.m
             ELSE Delete(r.h.m, n.at),
             IF r.ok THEN mine \cup {n.at} ELSE mine, {})

\* cJSON_Duplicate of an item and all below it
DuplicateItem(a, path, left) ==
  LET i == ItemOn(mem, a, path)
  IN  \E r \in {Duplicate(Heap(mem, left), mem[i].key, Tree(mem, i))} :
      Ends([op |-> "duplicate", doc |-> a, path |-> path, new |-> r.at,
            ok |-> Keeps(r)],
           r.h.m, IF Keeps(r) THEN mine \cup {r.at} ELSE mine, {})

\* cJSON_Parse
ParseText(text, left) ==
  \E r \in {Parse(Heap(mem, left), text)} :
    Ends([op |-> "parse", text |-> text, new |-> r.at, ok |-> Keeps(r)],
         r.h.m, IF Keeps(r) THEN mine \cup {r.at} ELSE mine, {})

DeleteItem(a) ==
  Ends([op |-> "delete", doc |-> a], Delete(mem, a), mine \ {a}, {})

-----------------------------------------------------------------------------
(* Editing lists; l is where the list is *)

ListCall(op, l, at, key, arg, new) ==
  [op |-> op, doc |-> l.doc, path |-> l.path, at |-> at, key |-> key, arg |-> arg,
   new |-> new]

\* cJSON_AddItemToArray and cJSON_AddItemToObject
AddItem(l, key, b) ==
  LET p == ListOf(l)
      object == mem[p].kind = "object"
  IN  /\ b # l.doc
      /\ p \notin sorted
      /\ key = NoKey <=> ~object
      /\ Ends(ListCall("add", l, 0, key, b, Null),
              IF object THEN AddToObject(mem, p, key, b)
              ELSE AddToArray([mem EXCEPT ![b].key = NoKey], p, b),
              mine \ {b}, {})

\* cJSON_AddNumberToObject and those like it: nothing is left when it fails
AddNew(l, key, item, left) ==
  LET p == ListOf(l)
      n == Allocate(Heap(mem, left), [Blank EXCEPT !.kind = item[1], !.value = item[2]])
  IN  /\ mem[p].kind = "object"
      /\ p \notin sorted
      /\ Ends([op |-> "addnew", doc |-> l.doc, path |-> l.path, key |-> key,
               kind |-> item[1], value |-> item[2], ok |-> Keeps(n)],
              IF Keeps(n) THEN AddToObject(n.h.m, p, key, n.at) ELSE mem, mine, {})

\* cJSON_InsertItemInArray
InsertItem(l, at, b) ==
  LET p == ListOf(l)
      m == [mem EXCEPT ![b].key = NoKey]
      after == ItemAt(mem, p, at - 1)
  IN  /\ b # l.doc
      /\ mem[p].kind = "array"
      /\ at \in 1 .. Len(Children(mem, p)) + 1
      /\ Ends(ListCall("insert", l, at, NoKey, b, Null),
              IF after = Null THEN AddToArray(m, p, b)
              ELSE InsertBefore(m, p, after, b),
              mine \ {b}, {})

\* cJSON_ReplaceItemInArray and cJSON_ReplaceItemInObject
ReplaceMember(l, at, b) ==
  LET p == ListOf(l)
      i == Children(mem, p)[at]
  IN  /\ b # l.doc
      /\ at \in 1 .. Len(Children(mem, p))
      /\ mem[p].kind = "object" => Lookup(mem, p, mem[i].key, FALSE) = i
      /\ Ends(ListCall("replace", l, at, mem[i].key, b, Null),
              ReplaceItem([mem EXCEPT ![b].key = mem[i].key], p, i, b),
              mine \ {b}, {})

\* cJSON_DetachItemFromArray and cJSON_DetachItemFromObject
DetachMember(l, at) ==
  LET i == Children(mem, ListOf(l))[at]
  IN  /\ at \in 1 .. Len(Children(mem, ListOf(l)))
      /\ Ends(ListCall("detach", l, at, NoKey, Null, i),
              DetachItem(mem, ListOf(l), i), mine \cup {i}, {})

\* cJSON_DeleteItemFromArray and cJSON_DeleteItemFromObject
RemoveMember(l, at) ==
  LET i == Children(mem, ListOf(l))[at]
  IN  /\ at \in 1 .. Len(Children(mem, ListOf(l)))
      /\ Ends(ListCall("remove", l, at, NoKey, Null, Null),
              Delete(DetachItem(mem, ListOf(l), i), i), mine, {})

\* cJSONUtils_SortObject
Sort(l, sensitive) ==
  /\ mem[ListOf(l)].kind = "object"
  /\ Ends([op |-> "sort", doc |-> l.doc],
          SortObject(mem, ListOf(l), sensitive), mine, {l.doc})

-----------------------------------------------------------------------------
(* Setting scalars *)

SetCall(a, path, v, ok) == [op |-> "set", doc |-> a, path |-> path, value |-> v, ok |-> ok]

\* cJSON_SetValuestring: in place, or in new memory for a longer string
SetValuestring(a, path, v, room) ==
  LET i == ItemOn(mem, a, path)
  IN  /\ mem[i].kind = "string"
      /\ \E ok \in {Len(v) <= Len(mem[i].value) \/ room} :
           Ends(SetCall(a, path, v, ok),
                IF ok THEN [mem EXCEPT ![i].value = v] ELSE mem, mine, {})

\* cJSON_SetNumberHelper
SetNumber(a, path, v) ==
  LET i == ItemOn(mem, a, path)
  IN  /\ mem[i].kind = "number"
      /\ Ends(SetCall(a, path, v, TRUE), [mem EXCEPT ![i].value = v], mine, {})

-----------------------------------------------------------------------------
(* Looking *)

RECURSIVE Compare(_, _, _, _)

\* Every member of a has an equal one in b
Included(m, a, b, sensitive) ==
  \A j \in 1 .. Len(Children(m, a)) :
    LET i == Children(m, a)[j]
        other == Lookup(m, b, m[i].key, sensitive)
    IN  other # Null /\ Compare(m, i, other, sensitive)

\* cJSON_Compare
Compare(m, a, b, sensitive) ==
  /\ m[a].kind = m[b].kind
  /\ m[a].kind # "invalid"
  /\ \/ a = b
     \/ m[a].kind \in Scalars /\ m[a].value = m[b].value
     \/ /\ m[a].kind = "array"
        /\ Len(Children(m, a)) = Len(Children(m, b))
        /\ \A j \in 1 .. Len(Children(m, a)) :
             Compare(m, Children(m, a)[j], Children(m, b)[j], sensitive)
     \/ /\ m[a].kind = "object"
        /\ Included(m, a, b, sensitive)
        /\ Included(m, b, a, sensitive)

CompareItems(a, b, sensitive) ==
  Ends([op |-> "compare", doc |-> a, arg |-> b, ok |-> Compare(mem, a, b, sensitive)],
       mem, mine, {})

\* cJSONUtils_FindPointerFromObjectTo: the pointers that lead to the target, of
\* which there is one or none
RECURSIVE PointersTo(_, _, _)
PointersTo(m, a, target) ==
  LET s == Children(m, a)
      Step(j) == IF IsArray(m, a) THEN Index(j - 1) ELSE Key(m[s[j]].key)
  IN  IF a = target THEN {<<>>}
      ELSE UNION {{<<Step(j)>> \o q : q \in PointersTo(m, s[j], target)} :
                    j \in 1 .. Len(s)}

FindPointer(a, path) ==
  \E pointer \in PointersTo(mem, a, ItemOn(mem, a, path)) :
    Ends([op |-> "find", doc |-> a, path |-> path, pointer |-> pointer],
         mem, mine, {})

-----------------------------------------------------------------------------
(* Patches *)

\* cJSONUtils_ApplyPatches of one patch; b is the value of a test
Apply(a, p, b, left, sensitive) ==
  /\ p.op = "test" <=> b # Null
  /\ a # b
  /\ p.op = "test" \/ Objects(mem, {a}) \cap sorted = {}
  /\ \E r \in {ApplyPatch(Heap(mem, left), a, p, b, sensitive)} :
       Ends([op |-> "patch", doc |-> a, patch |-> p, arg |-> b,
             ok |-> r.status = 0], r.h.m, mine,
            IF p.op = "test" THEN {a, b} ELSE {})

\* Patches from one document to another, applied to a copy of the first
Generate(a, b, sensitive) ==
  /\ a # b
  /\ \E g \in {GeneratePatches(mem, a, b, sensitive)} :
     \E d \in {Duplicate(Heap(g.m, MaxItems), NoKey, Tree(g.m, a))} :
       /\ Keeps(d)
       /\ \E r \in {ApplyPatches(d.h, d.at, g.ps, sensitive)} :
            /\ r.status # 8
            /\ Ends([op |-> "generate", doc |-> a, arg |-> b, new |-> d.at,
                     ok |-> r.status = 0], r.h.m, mine \cup {d.at}, {a, b})

\* The same with a merge patch
GenerateMerge(a, b, sensitive) ==
  /\ a # b
  /\ \E g \in {GenerateMergePatch(mem, a, b, sensitive)} :
     \E d \in {Duplicate(Heap(g.m, MaxItems), NoKey, Tree(g.m, a))} :
       /\ Keeps(d)
       /\ \E r \in {IF g.patch = NoPatch THEN d
                    ELSE MergePatch(d.h, d.at, g.patch, sensitive)} :
            /\ Keeps(r)
            /\ Ends([op |-> "merge", doc |-> a, arg |-> b, new |-> r.at,
                     sensitive |-> sensitive, ok |-> TRUE], r.h.m, mine \cup {r.at}, {a, b})

-----------------------------------------------------------------------------

Init ==
  /\ mem = [a \in Address |-> Free]
  /\ mine = {}
  /\ sorted = {}
  /\ call = [op |-> "none"]
  /\ calls = 0

More == calls < MaxCalls

Makes ==
  /\ More
  /\ \/ \E i \in Items : Create(i[1], i[2])
     \/ \E left \in Shortages :
          \/ \E text \in Texts : ParseText(text, left)
          \/ \E r \in Rows : CreateList(r[1], r[2], left)
          \/ \E a \in mine : \E path \in Paths(mem, a) :
               DuplicateItem(a, path, left)
     \/ \E a \in mine : DeleteItem(a)

Edits ==
  /\ More
  /\ \E l \in Lists :
       \/ \E b \in mine : \E key \in Names \cup {NoKey} : AddItem(l, key, b)
       \/ \E key \in Names, item \in Items, left \in Shortages :
            AddNew(l, key, item, left)
       \/ \E at \in 1 .. MaxItems :
            \/ \E b \in mine : InsertItem(l, at, b) \/ ReplaceMember(l, at, b)
            \/ DetachMember(l, at)
            \/ RemoveMember(l, at)
       \/ \E s \in BOOLEAN : Sort(l, s)

Sets ==
  /\ More
  /\ \E a \in mine : \E path \in Paths(mem, a) : \E r \in Rows : \E v \in Range(r[2]) :
       \/ r[1] = "string" /\ \E room \in BOOLEAN : SetValuestring(a, path, v, room)
       \/ r[1] = "number" /\ SetNumber(a, path, v)

Looks ==
  /\ More
  /\ \E a \in mine :
       \/ \E b \in mine : \E s \in BOOLEAN : CompareItems(a, b, s)
       \/ \E path \in Paths(mem, a) : FindPointer(a, path)

PatchesDocs ==
  /\ More
  /\ \E a \in mine : \E s \in BOOLEAN :
       \/ \E p \in Patching : \E b \in mine \cup {Null} : \E left \in Shortages :
            Apply(a, p, b, left, s)
       \/ \E b \in mine : Generate(a, b, s) \/ GenerateMerge(a, b, s)

Next == Makes \/ Edits \/ Sets \/ Looks \/ PatchesDocs

Spec == Init /\ [][Next]_vars

-----------------------------------------------------------------------------
(* Properties *)

\* Every item that is allocated is in exactly one place, a document of the
\* caller or a list in one: nothing leaks, nothing freed is still linked, and
\* nothing is deleted twice, whatever fails on the way.  Every list can be
\* walked both ways, and its first item points to its last unless the object
\* has been sorted in place.
WellFormed ==
  /\ {a \in Address : mem[a] # Free} = UNION {Owned(mem, a) : a \in mine}
  /\ \A a, b \in mine : a # b => Owned(mem, a) \cap Owned(mem, b) = {}
  /\ \A a \in mine : mem[a].next = Null
  /\ LET f == [p \in Address |-> Children(mem, p)]
     IN  /\ mem \in Memory /\ OwnedOnce(f)
         /\ \A p \in Address :
              IF p \notin sorted THEN Threaded(mem, p, f[p])
              ELSE \A j \in 2 .. Len(f[p]) : mem[f[p][j]].prev = f[p][j - 1]

\* What is printed can be parsed, and stands for the same value: the limit of
\* nesting is the same both ways, and so are the escapes.
RoundTrip ==
  \A a \in mine :
    LET text == PrintItem(mem, a)
        r == Parse(Heap([b \in Address |-> Free], MaxItems), text)
    IN  Printed(text) => r.at # Null /\ Tree(r.h.m, r.at) = Tree(mem, a)

\* Items and links implement values: each call does to the value of the
\* document it names what the headers and RFC 6902 and 7396 say, and nothing
\* to the others; generated patches lead from the one document to the other.
Values == INSTANCE JsonValues WITH docs <- [a \in mine |-> Tree(mem, a)]

ImplementsValues == Values!Spec

=============================================================================
