------------------------------- MODULE JsonHeap -------------------------------
(***************************************************************************)
(* What cJSON.c and cJSON_Utils.c do with whole lists and trees of items:  *)
(* looking up, deleting, sorting, duplicating.                             *)
(***************************************************************************)
EXTENDS JsonLinks

\* There are no more words than this
WordBound == 1000

\* compare_strings: strcmp, for which all capitals come before all small letters,
\* or the same of what tolower makes of both
Order(k, sensitive) ==
  IF sensitive /\ k % 2 = 1 THEN WordBound + k \div 2 ELSE k \div 2

-----------------------------------------------------------------------------
(* Lists; m is the memory *)

\* The items from a on
RECURSIVE From(_, _)
From(m, a) == IF a = Null THEN <<>> ELSE <<a>> \o From(m, m[a].next)

Children(m, p) == From(m, m[p].child)

\* cJSON_IsArray and cJSON_IsObject, which are asked of no item as well
IsArray(m, a) == a # Null /\ m[a].kind = "array"
IsObject(m, a) == a # Null /\ m[a].kind = "object"

\* An item and all below it
RECURSIVE Owned(_, _)
Owned(m, a) ==
  {a} \cup UNION {Owned(m, Children(m, a)[j]) : j \in 1 .. Len(Children(m, a))}

\* cJSON_Delete: the item, those after it in its list, and all below them
Delete(m, a) ==
  LET gone == UNION {Owned(m, From(m, a)[j]) : j \in 1 .. Len(From(m, a))}
  IN  [b \in Address |-> IF b \in gone THEN Free ELSE m[b]]

\* get_array_item, whose index begins at 0
ItemAt(m, p, which) ==
  IF which + 1 \in 1 .. Len(Children(m, p)) THEN Children(m, p)[which + 1] ELSE Null

\* strcmp or case_insensitive_strcmp; an item may have no key
SameKey(k, l, sensitive) == k # NoKey /\ Order(k, sensitive) = Order(l, sensitive)

\* get_object_item: the first with the key
Lookup(m, p, key, sensitive) ==
  LET s == Children(m, p)
      js == {j \in 1 .. Len(s) : SameKey(m[s[j]].key, key, sensitive)}
  IN  IF js = {} THEN Null ELSE s[CHOOSE j \in js : \A l \in js : j <= l]

\* add_item_to_object
AddToObject(m, p, key, i) == AddToArray([m EXCEPT ![i].key = key], p, i)

\* cJSON_ReplaceItemViaPointer
ReplaceItem(m, p, i, r) == Delete(PutInPlace(m, p, i, r), i)

-----------------------------------------------------------------------------
(* Sorting *)

\* The merge of two sorted lists takes the second's item of two equal ones
RECURSIVE Merged(_, _, _, _)
Merged(m, s, t, sensitive) ==
  IF s = <<>> THEN t ELSE IF t = <<>> THEN s
  ELSE IF Order(m[s[1]].key, sensitive) < Order(m[t[1]].key, sensitive)
  THEN <<s[1]>> \o Merged(m, Tail(s), t, sensitive)
  ELSE <<t[1]>> \o Merged(m, s, Tail(t), sensitive)

\* The items of s linked in that order; the first keeps what it points to
Linked(m, s) ==
  [a \in Address |->
     IF a \notin Range(s) THEN m[a]
     ELSE LET j == CHOOSE l \in 1 .. Len(s) : s[l] = a
          IN  [m[a] EXCEPT !.next = IF j < Len(s) THEN s[j + 1] ELSE Null,
                           !.prev = IF j > 1 THEN s[j - 1] ELSE @]]

\* Two sorted lists as one
MergeLists(m, a, b, sensitive) ==
  LET r == Merged(m, From(m, a), From(m, b), sensitive)
  IN  [m |-> Linked(m, r), at |-> r[1]]

\* sort_list: each half, then both
RECURSIVE SortList(_, _, _)
SortList(m, list, sensitive) ==
  LET s == From(m, list)
      k == (Len(s) + 1) \div 2
      Both(a, b) == MergeLists(b.m, a.at, b.at, sensitive)
      Second(a) == Both(a, SortList(a.m, s[k + 1], sensitive))
  IN  IF \A j \in 1 .. Len(s) - 1 :
           Order(m[s[j]].key, sensitive) < Order(m[s[j + 1]].key, sensitive)
      THEN [m |-> m, at |-> list]
      ELSE Second(SortList([m EXCEPT ![s[k]].next = Null, ![s[k + 1]].prev = Null],
                           list, sensitive))

\* sort_object
SortObject(m, p, sensitive) ==
  LET Starts(r) == [r.m EXCEPT ![p].child = r.at]
  IN  Starts(SortList(m, m[p].child, sensitive))

-----------------------------------------------------------------------------
(* Values, and memory that may run out.  h is the memory and the number of *)
(* allocations that still succeed.                                         *)

Value(kind, value, members) == [kind |-> kind, value |-> value, members |-> members]

\* What an item stands for
RECURSIVE Tree(_, _)
Tree(m, a) ==
  Value(m[a].kind, m[a].value,
        [j \in 1 .. Len(Children(m, a)) |->
           [key |-> m[Children(m, a)[j]].key, item |-> Tree(m, Children(m, a)[j])]])

Heap(m, left) == [m |-> m, left |-> left]

FreeItems(m) == {a \in Address : m[a] = Free}

\* cJSON_New_Item
Allocate(h, item) ==
  IF h.left = 0 \/ FreeItems(h.m) = {} THEN [h |-> h, at |-> Null]
  ELSE LET a == CHOOSE b \in FreeItems(h.m) : \A c \in FreeItems(h.m) : b <= c
       IN  [h |-> Heap([h.m EXCEPT ![a] = item], h.left - 1), at |-> a]

\* cJSON_Duplicate with all below, of a value wherever it is stored
RECURSIVE Duplicate(_, _, _)
Duplicate(h, key, tree) ==
  LET n == Allocate(h, [Blank EXCEPT !.kind = tree.kind, !.value = tree.value,
                                     !.key = key])
      Step(r, member) ==
        IF r.at = Null THEN r
        ELSE LET d == Duplicate(r.h, member.key, member.item)
             IN  IF d.at = Null
                 THEN [h |-> Heap(Delete(d.h.m, r.at), d.h.left), at |-> Null]
                 ELSE [h |-> Heap(AddToArray(d.h.m, r.at, d.at), d.h.left),
                       at |-> r.at]
  IN  FoldLeft(Step, n, tree.members)

=============================================================================
