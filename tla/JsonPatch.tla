------------------------------- MODULE JsonPatch -------------------------------
(***************************************************************************)
(* JSON Pointer, Patch and Merge Patch (cJSON_Utils.c) on items in memory. *)
(* A pointer is a sequence of steps: an index, a key, or "-", the end of   *)
(* an array.  Patches are values; the code keeps them as items too.  Keys  *)
(* hold no / and no ~, which encode_string_as_pointer would escape.        *)
(***************************************************************************)
EXTENDS JsonText

Index(n) == [t |-> "index", n |-> n]
Key(k) == [t |-> "key", n |-> k]
End == [t |-> "end", n |-> 0]

\* The key a step names in an object; "-" and digits are keys of their own, which
\* come before all letters
NameOf(s) == CASE s.t = "key" -> s.n [] s.t = "index" -> 2 * s.n - 998 [] OTHER -> -1000

NoValue == Value("invalid", <<>>, <<>>)
NoPatch == Value("none", <<>>, <<>>)
Patch(op, path, from, value) ==
  [op |-> op, path |-> path, from |-> from, value |-> value]

-----------------------------------------------------------------------------
(* Following a pointer: get_item_from_pointer *)

Follow1(m, a, s, sensitive) ==
  IF IsArray(m, a) /\ s.t = "index" THEN ItemAt(m, a, s.n)
  ELSE IF IsObject(m, a) THEN Lookup(m, a, NameOf(s), sensitive)
  ELSE Null

Follow(m, a, path, sensitive) ==
  FoldLeft(LAMBDA b, s : Follow1(m, b, s, sensitive), a, path)

\* detach_path, which looks a key up without regard to case, always
Detachable(m, a, path, sensitive) ==
  IF path = <<>> THEN [parent |-> Null, at |-> Null]
  ELSE LET p == Follow(m, a, Front(path), sensitive)
       IN  [parent |-> p, at |-> Follow1(m, p, Last(path), FALSE)]

-----------------------------------------------------------------------------
(* compare_json, which sorts the objects it compares *)

Verdict(m, same) == [m |-> m, same |-> same]

\* The places two lists have in common
Shared(s, t) == [j \in 1 .. (IF Len(s) < Len(t) THEN Len(s) ELSE Len(t)) |-> j]

RECURSIVE CompareJson(_, _, _, _)

\* The children of a and b one by one, their keys too when there are keys
CompareLists(m, a, b, sensitive) ==
  LET s == Children(m, a)
      t == Children(m, b)
      Both(v, j) ==
        IF ~v.same THEN v
        ELSE IF m[a].kind = "object" /\ Order(v.m[s[j]].key, sensitive)
                                          # Order(v.m[t[j]].key, sensitive)
        THEN Verdict(v.m, FALSE)
        ELSE CompareJson(v.m, s[j], t[j], sensitive)
      Whole(v) == Verdict(v.m, v.same /\ Len(s) = Len(t))
  IN  Whole(FoldLeft(Both, Verdict(m, TRUE), Shared(s, t)))

CompareJson(m, a, b, sensitive) ==
  IF a = Null \/ b = Null \/ m[a].kind # m[b].kind THEN Verdict(m, FALSE)
  ELSE IF m[a].kind \in Scalars THEN Verdict(m, m[a].value = m[b].value)
  ELSE IF m[a].kind = "object"
  THEN CompareLists(SortObject(SortObject(m, a, sensitive), b, sensitive),
                    a, b, sensitive)
  ELSE CompareLists(m, a, b, sensitive)

-----------------------------------------------------------------------------
(* apply_patch *)

Done(h, status) == [h |-> h, status |-> status]
Refuses(h, value, status) == Done(Heap(Delete(h.m, value), h.left), status)

\* overwrite_item with an item that is not in a list
Overwrite(h, a, item) ==
  Heap([Delete(h.m, h.m[a].child) EXCEPT
          ![a] = [item EXCEPT !.key = NoKey, !.next = Null, !.prev = Null]], h.left)

\* A patch of the whole document
PatchRoot(h, a, p) ==
  LET d == Duplicate(h, NoKey, p.value)
  IN  IF p.op = "remove" THEN Done(Overwrite(h, a, Blank), 0)
      ELSE IF d.at = Null THEN Done(d.h, 8)
      ELSE Done(Heap([Overwrite(d.h, a, d.h.m[d.at]).m EXCEPT ![d.at] = Free],
                     d.h.left), 0)

\* The end of apply_patch: value goes to path
Place(h, a, p, value, sensitive) ==
  LET parent == Follow(h.m, a, Front(p.path), sensitive)
      s == Last(p.path)
  IN  IF p.path = <<>> \/ parent = Null THEN Refuses(h, value, 9)
      ELSE IF IsArray(h.m, parent)
      THEN LET after == ItemAt(h.m, parent, s.n)
           IN  IF s.t = "key" THEN Refuses(h, value, 11)
               ELSE IF s.t = "end" \/ s.n = Len(Children(h.m, parent))
               THEN Done(Heap(AddToArray(h.m, parent, value), h.left), 0)
               ELSE IF after = Null THEN Refuses(h, value, 10)
               ELSE Done(Heap(InsertBefore(h.m, parent, after, value), h.left), 0)
      ELSE IF IsObject(h.m, parent)
      THEN LET old == Lookup(h.m, parent, NameOf(s), sensitive)
               m1 == IF old = Null THEN h.m
                     ELSE Delete(DetachItem(h.m, parent, old), old)
           IN  Done(Heap(AddToObject(m1, parent, NameOf(s), value), h.left), 0)
      ELSE Refuses(h, value, 9)

\* b is an item that holds the value of the patch, for "test" only
ApplyPatch(h, a, p, b, sensitive) ==
  LET old == Detachable(h.m, a, p.path, sensitive)
      cut == Heap(Delete(DetachItem(h.m, old.parent, old.at), old.at), h.left)
      from == Detachable(h.m, a, p.from, sensitive)
      moved == Heap(DetachItem(h.m, from.parent, from.at), h.left)
      source == Follow(h.m, a, p.from, sensitive)
      Copies(g, tree, status) ==
        LET d == Duplicate(g, NoKey, tree)
        IN  IF d.at = Null THEN Done(d.h, status)
            ELSE Place(d.h, a, p, d.at, sensitive)
  IN  CASE p.op = "test" ->
             LET v == CompareJson(h.m, Follow(h.m, a, p.path, sensitive), b, sensitive)
             IN  Done(Heap(v.m, h.left), IF v.same THEN 0 ELSE 1)
        [] p.path = <<>> /\ p.op \in {"remove", "replace", "add"} -> PatchRoot(h, a, p)
        [] p.path # <<>> /\ p.op \in {"remove", "replace"} ->
             IF old.at = Null THEN Done(h, 13)
             ELSE IF p.op = "remove" THEN Done(cut, 0)
             ELSE Copies(cut, p.value, 8)
        [] p.op = "move" ->
             IF from.at = Null THEN Done(h, 5)
             ELSE Place(moved, a, p, from.at, sensitive)
        [] p.op = "copy" ->
             IF source = Null THEN Done(h, 5)
             ELSE Copies(h, Tree(h.m, source), 6)
        [] p.op = "add" /\ p.path # <<>> -> Copies(h, p.value, 8)

\* cJSONUtils_ApplyPatches stops at the first that fails
ApplyPatches(h, a, patches, sensitive) ==
  FoldLeft(LAMBDA r, p : IF r.status # 0 THEN r
                         ELSE ApplyPatch(r.h, a, p, Null, sensitive),
           Done(h, 0), patches)

-----------------------------------------------------------------------------
(* create_patches.  Its results are the memory, the objects sorted, and    *)
(* the patches.                                                            *)

Patches(m, ps) == [m |-> m, ps |-> ps]

\* Mutant: the index moves on with every element removed
Removals(path, n, count) ==
  [j \in 1 .. count |-> Patch("remove", Append(path, Index(n + j - 1)), <<>>, NoValue)]

\* The elements the first array has more than the second
Leftover(path, n, count) ==
  [j \in 1 .. count |-> Patch("remove", Append(path, Index(n)), <<>>, NoValue)]

RECURSIVE CreatePatches(_, _, _, _, _)

\* Elements in the same place, then what one array has more
ArrayPatches(m, path, s, t, sensitive) ==
  LET count == Len(Shared(s, t))
      Also(r, c) == Patches(c.m, r.ps \o c.ps)
      Element(r, j) ==
        Also(r, CreatePatches(r.m, Append(path, Index(j - 1)), s[j], t[j], sensitive))
      Rest(r) ==
        Patches(r.m, r.ps \o Leftover(path, count, Len(s) - count)
                       \o [j \in 1 .. Len(t) - count |->
                             Patch("add", Append(path, End), <<>>,
                                   Tree(r.m, t[count + j]))])
  IN  Rest(FoldLeft(Element, Patches(m, <<>>), Shared(s, t)))

\* Sorted members; u and w are those that remain
RECURSIVE ObjectPatches(_, _, _, _, _)
ObjectPatches(r, path, u, w, sensitive) ==
  LET ku == IF u = <<>> THEN 0 ELSE Order(r.m[u[1]].key, sensitive)
      kw == IF w = <<>> THEN 0 ELSE Order(r.m[w[1]].key, sensitive)
      At(c) == Append(path, Key(r.m[c].key))
      Also(c) == Patches(c.m, r.ps \o c.ps)
  IN  IF u = <<>> /\ w = <<>> THEN r
      ELSE IF w = <<>> \/ (u # <<>> /\ ku < kw)
      THEN ObjectPatches(Also(Patches(r.m, <<Patch("remove", At(u[1]), <<>>, NoValue)>>)),
                         path, Tail(u), w, sensitive)
      ELSE IF u = <<>> \/ kw < ku
      THEN ObjectPatches(Also(Patches(r.m, <<Patch("add", At(w[1]), <<>>, Tree(r.m, w[1]))>>)),
                         path, u, Tail(w), sensitive)
      ELSE ObjectPatches(Also(CreatePatches(r.m, At(u[1]), u[1], w[1], sensitive)),
                         path, Tail(u), Tail(w), sensitive)

CreatePatches(m, path, a, b, sensitive) ==
  LET other == Patches(m, <<Patch("replace", path, <<>>, Tree(m, b))>>)
      Members(n) == ObjectPatches(Patches(n, <<>>), path, Children(n, a),
                                  Children(n, b), sensitive)
  IN  IF m[a].kind # m[b].kind THEN other
      ELSE CASE m[a].kind \in {"number", "string"} ->
                  IF m[a].value # m[b].value THEN other ELSE Patches(m, <<>>)
             [] m[a].kind = "array" ->
                  ArrayPatches(m, path, Children(m, a), Children(m, b), sensitive)
             [] m[a].kind = "object" ->
                  Members(SortObject(SortObject(m, a, sensitive), b, sensitive))
             [] OTHER -> Patches(m, <<>>)

\* cJSONUtils_GeneratePatches
GeneratePatches(m, a, b, sensitive) == CreatePatches(m, <<>>, a, b, sensitive)

-----------------------------------------------------------------------------
(* Merge Patch *)

\* merge_patch; target may be Null
RECURSIVE MergePatch(_, _, _, _)

\* One member c of the patch, into the object r.at, where old has its key
MergeMember(r, c, old, sensitive) ==
  LET cut == IF old = Null THEN r.h.m ELSE DetachItem(r.h.m, r.at, old)
      Added(n) ==
        IF n.at = Null
        THEN [h |-> Heap(Delete(n.h.m, r.at), n.h.left), at |-> Null]
        ELSE [h |-> Heap(AddToObject(n.h.m, r.at, c.key, n.at), n.h.left), at |-> r.at]
  IN  IF c.item.kind = "null"
      THEN [h |-> Heap(Delete(cut, old), r.h.left), at |-> r.at]
      ELSE Added(MergePatch(Heap(cut, r.h.left), old, c.item, sensitive))

MergePatch(h, target, patch, sensitive) ==
  LET gone == Heap(Delete(h.m, target), h.left)
      object == IsObject(h.m, target)
      Member(r, c) ==
        IF r.at = Null THEN r
        ELSE MergeMember(r, c, Lookup(r.h.m, r.at, c.key, sensitive), sensitive)
  IN  IF patch.kind # "object" THEN Duplicate(gone, NoKey, patch)
      ELSE FoldLeft(Member, IF object THEN [h |-> h, at |-> target]
                            ELSE Allocate(gone, [Blank EXCEPT !.kind = "object"]),
                    patch.members)

\* generate_merge_patch, whose result is NoPatch when nothing differs
Merge(m, patch) == [m |-> m, patch |-> patch]

RECURSIVE GenerateMergePatch(_, _, _, _)

\* Members as sort_object has left them, which strcmp tells apart; u and w are
\* those that remain
RECURSIVE MergeMembers(_, _, _, _)
MergeMembers(r, u, w, sensitive) ==
  LET ku == Order(r.m[u[1]].key, TRUE)
      kw == Order(r.m[w[1]].key, TRUE)
      With(n, key) ==
        Merge(n.m, [r.patch EXCEPT !.members =
                      Append(@, [key |-> key, item |-> n.patch])])
      Differ(v) == IF v.same THEN Merge(v.m, r.patch)
                   ELSE With(GenerateMergePatch(v.m, u[1], w[1], FALSE), r.m[w[1]].key)
  IN  IF u = <<>> /\ w = <<>> THEN r
      ELSE IF w = <<>> \/ (u # <<>> /\ ku < kw)
      THEN MergeMembers(With(Merge(r.m, Value("null", <<>>, <<>>)), r.m[u[1]].key),
                        Tail(u), w, sensitive)
      ELSE IF u = <<>> \/ kw < ku
      THEN MergeMembers(With(Merge(r.m, Tree(r.m, w[1])), r.m[w[1]].key), u, Tail(w),
                        sensitive)
      ELSE MergeMembers(Differ(CompareJson(r.m, u[1], w[1], sensitive)),
                        Tail(u), Tail(w), sensitive)

GenerateMergePatch(m, a, b, sensitive) ==
  LET Members(n) == MergeMembers(Merge(n, Value("object", <<>>, <<>>)),
                                 Children(n, a), Children(n, b), sensitive)
      Unless(r) == IF r.patch.members = <<>> THEN Merge(r.m, NoPatch) ELSE r
  IN  IF ~IsObject(m, a) \/ ~IsObject(m, b) THEN Merge(m, Tree(m, b))
      ELSE Unless(Members(SortObject(SortObject(m, a, sensitive), b, sensitive)))

=============================================================================
