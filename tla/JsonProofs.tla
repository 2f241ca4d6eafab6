------------------------------ MODULE JsonProofs ------------------------------
(***************************************************************************)
(* Two parts of cJSON.c, for data of any size.                             *)
(*                                                                         *)
(* Lists.  Adding, inserting, replacing and detaching keep every list of   *)
(* the memory linked both ways, for any number of items, lists of any      *)
(* length and every place in them.  f is the children of every item, in    *)
(* order: what a call does to the links of the list of p is what Append,   *)
(* InsertAt, ReplaceAt or RemoveAt does to f[p].  A call writes links of   *)
(* the items of one list and of an item that is in no list (Relinks), so   *)
(* the other lists stay as they are (Relinked).  For the list itself, each *)
(* call is first reduced to what it leaves in next, prev and child of any  *)
(* item (AddLastIs, DetachIs, ...), and then the links are followed from   *)
(* place to place (DetachThreads, ...): before the change, at it, and      *)
(* after it.                                                               *)
(*                                                                         *)
(* Strings.  What parse_string writes fits in what it has allocated, for   *)
(* any text; it reads any string back from what print_string_ptr has made  *)
(* of it, and that fits in what print_string_ptr has asked for.  The loops *)
(* are functions of a number of rounds, which Iteration of SequenceLemmas  *)
(* shows to exist; what they keep is shown round by round (RoundFits,      *)
(* OneMoreRead).                                                           *)
(***************************************************************************)
EXTENDS JsonLinks, JsonString, SequenceLemmas, FiniteSetTheorems

-----------------------------------------------------------------------------
(* One link *)

\* The assignments to child
SetChild(m, a, b) == [m EXCEPT ![a].child = b]

\* n is m, and one link of a is b.
NextSet(m, n, a, b) ==
  /\ n \in Memory /\ SameContents(m, n)
  /\ \A c \in Address : /\ n[c].next = IF c = a THEN b ELSE m[c].next
                        /\ n[c].prev = m[c].prev /\ n[c].child = m[c].child

PrevSet(m, n, a, b) ==
  /\ n \in Memory /\ SameContents(m, n)
  /\ \A c \in Address : /\ n[c].prev = IF c = a THEN b ELSE m[c].prev
                        /\ n[c].next = m[c].next /\ n[c].child = m[c].child

ChildSet(m, n, a, b) ==
  /\ n \in Memory /\ SameContents(m, n)
  /\ \A c \in Address : /\ n[c].child = IF c = a THEN b ELSE m[c].child
                        /\ n[c].next = m[c].next /\ n[c].prev = m[c].prev

\* One assignment to next changes no other link.
LEMMA OneNextSet ==
  ASSUME NEW m \in Memory, NEW a \in Address, NEW b \in Target,
         NEW n, n = [m EXCEPT ![a].next = b]
  PROVE  NextSet(m, n, a, b) /\ n \in Memory
  BY DEF Memory, SameContents, NextSet

\* An assignment to next, if there is an item to assign to
LEMMA SetNextIs ==
  ASSUME NEW m \in Memory, NEW a \in Target, NEW b \in Target,
         NEW n, n = SetNext(m, a, b)
  PROVE  NextSet(m, n, a, b) /\ n \in Memory
<1>1. CASE a = Null
  <2>1. n = m /\ a \notin Address
    BY <1>1 DEF SetNext, Address, Null
  <2> QED BY <2>1 DEF SameContents, NextSet
<1>2. CASE a # Null
  <2>1. n = [m EXCEPT ![a].next = b] /\ a \in Address
    BY <1>2 DEF SetNext, Target
  <2> QED BY <2>1, OneNextSet
<1> QED BY <1>1, <1>2

\* One assignment to prev changes no other link.
LEMMA OnePrevSet ==
  ASSUME NEW m \in Memory, NEW a \in Address, NEW b \in Target,
         NEW n, n = [m EXCEPT ![a].prev = b]
  PROVE  PrevSet(m, n, a, b) /\ n \in Memory
  BY DEF Memory, SameContents, PrevSet

\* An assignment to prev, if there is an item to assign to
LEMMA SetPrevIs ==
  ASSUME NEW m \in Memory, NEW a \in Target, NEW b \in Target,
         NEW n, n = SetPrev(m, a, b)
  PROVE  PrevSet(m, n, a, b) /\ n \in Memory
<1>1. CASE a = Null
  <2>1. n = m /\ a \notin Address
    BY <1>1 DEF SetPrev, Address, Null
  <2> QED BY <2>1 DEF SameContents, PrevSet
<1>2. CASE a # Null
  <2>1. n = [m EXCEPT ![a].prev = b] /\ a \in Address
    BY <1>2 DEF SetPrev, Target
  <2> QED BY <2>1, OnePrevSet
<1> QED BY <1>1, <1>2

\* One assignment to child changes no other link.
LEMMA SetChildIs ==
  ASSUME NEW m \in Memory, NEW a \in Address, NEW b \in Target,
         NEW n, n = SetChild(m, a, b)
  PROVE  ChildSet(m, n, a, b) /\ n \in Memory
<1>1. n = [m EXCEPT ![a].child = b]
  BY DEF SetChild
<1>2. n \in Memory
  BY <1>1 DEF Memory
<1>3. SameContents(m, n)
  BY <1>1 DEF Memory, SameContents
<1>4. ASSUME NEW c \in Address
      PROVE  /\ n[c].child = IF c = a THEN b ELSE m[c].child
             /\ n[c].next = m[c].next /\ n[c].prev = m[c].prev
  BY <1>1 DEF Memory
<1> QED BY <1>2, <1>3, <1>4 DEF ChildSet

\* Null is the address of no item.
LEMMA NoLink ==
  /\ Null \in Target /\ Null \notin Address /\ Address \subseteq Target
  /\ \A a \in Address : a # Null
  BY DEF Target, Address, Null

-----------------------------------------------------------------------------
(* Sequences of items *)

\* Append, place by place
LEMMA AppendIs ==
  ASSUME NEW s \in Seq(Address), NEW i \in Address, NEW t, t = Append(s, i)
  PROVE  /\ t \in Seq(Address) /\ Len(t) = Len(s) + 1
         /\ \A k \in 1 .. Len(s) : t[k] = s[k]
         /\ t[Len(s) + 1] = i
  BY AppendProperties

\* The parts of a sequence before and after its j-th item
LEMMA PartsAround ==
  ASSUME NEW s \in Seq(Address), NEW j \in 1 .. Len(s),
         NEW u, u = SubSeq(s, 1, j - 1), NEW v, v = SubSeq(s, j, Len(s)),
         NEW w, w = SubSeq(s, j + 1, Len(s))
  PROVE  /\ u \in Seq(Address) /\ Len(u) = j - 1
         /\ v \in Seq(Address) /\ Len(v) = Len(s) - j + 1
         /\ w \in Seq(Address) /\ Len(w) = Len(s) - j
         /\ \A k \in 1 .. j - 1 : u[k] = s[k]
         /\ \A k \in 1 .. Len(s) - j + 1 : v[k] = s[j + k - 1]
         /\ \A k \in 1 .. Len(s) - j : w[k] = s[j + k]
<1>1. Len(s) \in Nat /\ j \in Nat /\ j >= 1 /\ j <= Len(s)
  BY LenProperties
<1>2. u \in Seq(Address) /\ Len(u) = j - 1 /\ \A k \in 1 .. j - 1 : u[k] = s[k]
  BY <1>1, SubSeqProperties
<1>3. /\ v \in Seq(Address) /\ Len(v) = Len(s) - j + 1
      /\ \A k \in 1 .. Len(s) - j + 1 : v[k] = s[j + k - 1]
  BY <1>1, SubSeqProperties
<1>4. /\ w \in Seq(Address) /\ Len(w) = Len(s) - j
      /\ \A k \in 1 .. Len(s) - j : w[k] = s[j + k]
  BY <1>1, SubSeqProperties
<1> QED BY <1>2, <1>3, <1>4

\* RemoveAt, place by place
LEMMA RemoveAtIs ==
  ASSUME NEW s \in Seq(Address), NEW j \in 1 .. Len(s), NEW t, t = RemoveAt(s, j)
  PROVE  /\ t \in Seq(Address) /\ Len(t) = Len(s) - 1
         /\ \A k \in 1 .. Len(s) - 1 : t[k] = IF k < j THEN s[k] ELSE s[k + 1]
<1> DEFINE u == SubSeq(s, 1, j - 1)
           w == SubSeq(s, j + 1, Len(s))
<1>1. Len(s) \in Nat /\ j \in Nat /\ j >= 1 /\ j <= Len(s)
  BY LenProperties
<1>2. /\ u \in Seq(Address) /\ Len(u) = j - 1
      /\ w \in Seq(Address) /\ Len(w) = Len(s) - j
      /\ \A k \in 1 .. j - 1 : u[k] = s[k]
      /\ \A k \in 1 .. Len(s) - j : w[k] = s[j + k]
  BY PartsAround
<1>3. t = u \o w
  BY DEF RemoveAt
<1> HIDE DEF u, w
<1>4. /\ t \in Seq(Address) /\ Len(t) = Len(u) + Len(w)
      /\ \A k \in 1 .. Len(u) + Len(w) :
           t[k] = IF k <= Len(u) THEN u[k] ELSE w[k - Len(u)]
  <2>1. u \in Seq(Address) /\ w \in Seq(Address)
    BY <1>2
  <2> QED BY <1>3, <2>1, ConcatProperties
<1>5. ASSUME NEW k \in 1 .. Len(s) - 1
      PROVE  t[k] = IF k < j THEN s[k] ELSE s[k + 1]
  <2>1. t[k] = IF k < j THEN u[k] ELSE w[k - (j - 1)]
    <3>1. Len(u) = j - 1 /\ k \in 1 .. Len(u) + Len(w) /\ (k <= j - 1 <=> k < j)
      BY <1>1, <1>2
    <3> QED BY <1>4, <3>1
  <2>2. CASE k < j
    <3>1. k \in 1 .. j - 1
      BY <1>1, <2>2
    <3> QED BY <1>2, <2>1, <2>2, <3>1
  <2>3. CASE ~(k < j)
    <3>1. k - (j - 1) \in 1 .. Len(s) - j /\ j + (k - (j - 1)) = k + 1
      BY <1>1, <2>3
    <3> QED BY <1>2, <2>1, <2>3, <3>1
  <2> QED BY <2>2, <2>3
<1> QED BY <1>1, <1>2, <1>4, <1>5

\* t is s with i before the j-th item.
WithItem(s, j, i, t) ==
  /\ t \in Seq(Address) /\ Len(t) = Len(s) + 1
  /\ \A k \in 1 .. Len(s) + 1 :
       t[k] = IF k < j THEN s[k] ELSE IF k = j THEN i ELSE s[k - 1]

\* InsertAt, place by place
LEMMA InsertAtIs ==
  ASSUME NEW s \in Seq(Address), NEW j \in 1 .. Len(s), NEW i \in Address,
         NEW t, t = InsertAt(s, j, i)
  PROVE  WithItem(s, j, i, t)
<1> DEFINE u == SubSeq(s, 1, j - 1)
           v == SubSeq(s, j, Len(s))
           x == u \o <<i>>
<1>1. Len(s) \in Nat /\ j \in Nat /\ j >= 1 /\ j <= Len(s)
  BY LenProperties
<1>2. /\ u \in Seq(Address) /\ Len(u) = j - 1
      /\ v \in Seq(Address) /\ Len(v) = Len(s) - j + 1
      /\ \A k \in 1 .. j - 1 : u[k] = s[k]
      /\ \A k \in 1 .. Len(s) - j + 1 : v[k] = s[j + k - 1]
  BY PartsAround
<1>3. t = x \o v
  BY DEF InsertAt
<1> HIDE DEF u, v
<1>4. /\ x \in Seq(Address) /\ Len(x) = j
      /\ \A k \in 1 .. j : x[k] = IF k <= j - 1 THEN u[k] ELSE i
  <2>1. x = Append(u, i)
    BY <1>2, AppendIsConcat
  <2> HIDE DEF x
  <2>2. /\ x \in Seq(Address) /\ Len(x) = Len(u) + 1
        /\ \A k \in 1 .. Len(u) : x[k] = u[k]
        /\ x[Len(u) + 1] = i
    BY <1>2, <2>1, AppendIs
  <2> QED BY <1>1, <1>2, <2>2
<1> HIDE DEF x
<1>5. /\ t \in Seq(Address) /\ Len(t) = Len(x) + Len(v)
      /\ \A k \in 1 .. Len(x) + Len(v) :
           t[k] = IF k <= Len(x) THEN x[k] ELSE v[k - Len(x)]
  <2>1. x \in Seq(Address) /\ v \in Seq(Address)
    BY <1>2, <1>4
  <2> QED BY <1>3, <2>1, ConcatProperties
<1>6. ASSUME NEW k \in 1 .. Len(s) + 1
      PROVE  t[k] = IF k < j THEN s[k] ELSE IF k = j THEN i ELSE s[k - 1]
  <2>1. t[k] = IF k <= j THEN x[k] ELSE v[k - j]
    BY <1>1, <1>2, <1>4, <1>5
  <2>2. CASE k <= j
    BY <1>1, <1>2, <1>4, <2>1, <2>2
  <2>3. CASE ~(k <= j)
    <3>1. k - j \in 1 .. Len(s) - j + 1 /\ j + (k - j) - 1 = k - 1
      BY <1>1, <2>3
    <3> QED BY <1>1, <1>2, <2>1, <2>3, <3>1
  <2> QED BY <2>2, <2>3
<1> QED BY <1>1, <1>2, <1>4, <1>5, <1>6 DEF WithItem

\* t is s with i for the j-th item.
WithOther(s, j, i, t) ==
  /\ t \in Seq(Address) /\ Len(t) = Len(s)
  /\ \A k \in 1 .. Len(s) : t[k] = IF k = j THEN i ELSE s[k]

\* ReplaceAt, place by place
LEMMA ReplaceAtIs ==
  ASSUME NEW s \in Seq(Address), NEW j \in 1 .. Len(s), NEW i \in Address,
         NEW t, t = ReplaceAt(s, j, i)
  PROVE  WithOther(s, j, i, t)
<1>1. t = [s EXCEPT ![j] = i]
  BY DEF ReplaceAt
<1> QED BY <1>1, ExceptSeq DEF WithOther

-----------------------------------------------------------------------------
(* Lists *)

\* The links of the list s of p, whose length is L
Chain(m, p, s, L) ==
  /\ L \in Nat /\ \A k \in 1 .. L : s[k] \in Address
  /\ L = 0 => m[p].child = Null /\ s = <<>>
  /\ L > 0 => m[p].child = s[1] /\ m[s[1]].prev = s[L] /\ m[s[L]].next = Null
  /\ \A k \in 1 .. L : k < L => m[s[k]].next = s[k + 1]
  /\ \A k \in 1 .. L : k > 1 => m[s[k]].prev = s[k - 1]

\* What Threaded says, place by place
LEMMA ThreadedLinks ==
  ASSUME NEW m \in Memory, NEW p \in Address, NEW s \in Seq(Address), Threaded(m, p, s),
         NEW L, L = Len(s)
  PROVE  Chain(m, p, s, L)
<1>1. L \in Nat /\ \A k \in 1 .. L : s[k] \in Address
  BY LenProperties, ElementOfSeq
<1>2. L = 0 <=> s = <<>>
  BY EmptySeq
<1> QED BY <1>1, <1>2 DEF Threaded, Chain

\* Place by place, the links of a list that is not empty
LEMMA LinksThread ==
  ASSUME NEW n, NEW p, NEW s \in Seq(Address), NEW L, L = Len(s), L > 0,
         n[p].child = s[1], n[s[1]].prev = s[L], n[s[L]].next = Null,
         \A k \in 1 .. L : k < L => n[s[k]].next = s[k + 1],
         \A k \in 1 .. L : k > 1 => n[s[k]].prev = s[k - 1]
  PROVE  Threaded(n, p, s)
<1>1. L \in Nat /\ s # <<>>
  BY LenProperties, EmptySeq
<1> QED BY <1>1 DEF Threaded

\* No item twice
Distinct(s) == \A j, k \in 1 .. Len(s) : s[j] = s[k] => j = k

\* The items of t are those of s, and i.
Among(t, s, i) ==
  \A j \in 1 .. Len(t) : t[j] = i \/ \E k \in 1 .. Len(s) : t[j] = s[k]

\* Only the items of s, and i, may be linked otherwise in n than in m.
Undisturbed(m, n, s, i) ==
  \A c \in Address : \/ c = i
                     \/ \E k \in 1 .. Len(s) : c = s[k]
                     \/ n[c].next = m[c].next /\ n[c].prev = m[c].prev

\* Only p may have another first child in n than in m.
SameChildren(m, n, p) == \A q \in Address : q # p => n[q].child = m[q].child

\* What a step that turns the list s of p into t, for the sake of i, must do
Relinks(m, n, p, s, t, i) ==
  /\ n \in Memory /\ SameContents(m, n) /\ Threaded(n, p, t)
  /\ SameChildren(m, n, p) /\ Undisturbed(m, n, s, i)

\* A step that relinks the items of one list, and one that is in no other
LEMMA Relinked ==
  ASSUME NEW m, NEW f, WellLinked(m, f), NEW p \in Address, NEW i \in Address,
         \A q \in Address : q # p => \A k \in 1 .. Len(f[q]) : f[q][k] # i,
         NEW n, NEW s \in Seq(Address), Relinks(m, n, p, f[p], s, i),
         Distinct(s), Among(s, f[p], i)
  PROVE  WellLinked(n, [f EXCEPT ![p] = s])
<1> DEFINE g == [f EXCEPT ![p] = s]
<1>1. /\ f \in [Address -> Seq(Address)] /\ OwnedOnce(f)
      /\ \A q \in Address : Threaded(m, q, f[q])
  BY DEF WellLinked
<1>2. /\ g \in [Address -> Seq(Address)] /\ g[p] = s
      /\ \A q \in Address : q # p => g[q] = f[q]
  BY <1>1
<1> HIDE DEF g
<1>r. /\ n \in Memory /\ Threaded(n, p, s) /\ SameChildren(m, n, p)
      /\ Undisturbed(m, n, f[p], i)
  BY DEF Relinks
<1>3. ASSUME NEW q \in Address, q # p, NEW k \in 1 .. Len(f[q])
      PROVE  /\ f[q][k] \in Address /\ f[q][k] # i
             /\ \A l \in 1 .. Len(f[p]) : f[q][k] # f[p][l]
  BY <1>1, <1>3, ElementOfSeq DEF OwnedOnce
<1>4. ASSUME NEW q \in Address
      PROVE  Threaded(n, q, g[q])
  <2>1. CASE q = p
    BY <1>2, <1>r, <2>1
  <2>2. CASE q # p
    <3>1. \A k \in 1 .. Len(f[q]) : /\ n[f[q][k]].next = m[f[q][k]].next
                                     /\ n[f[q][k]].prev = m[f[q][k]].prev
      BY <1>3, <1>r, <2>2 DEF Undisturbed
    <3>2. n[q].child = m[q].child /\ Threaded(m, q, f[q])
      BY <1>1, <1>r, <2>2 DEF SameChildren
    <3>3. Threaded(n, q, f[q])
      BY <3>1, <3>2 DEF Threaded
    <3> QED BY <1>2, <2>2, <3>3
  <2> QED BY <2>1, <2>2
<1>5. OwnedOnce(g)
  <2> SUFFICES ASSUME NEW q \in Address, NEW r \in Address,
                      NEW j \in 1 .. Len(g[q]), NEW k \in 1 .. Len(g[r]),
                      g[q][j] = g[r][k]
               PROVE  q = r /\ j = k
    BY DEF OwnedOnce
  <2>1. CASE q = p /\ r = p
    BY <1>2, <2>1 DEF Distinct
  <2>2. CASE q = p /\ r # p
    <3>1. k \in 1 .. Len(f[r]) /\ f[r][k] = s[j] /\ j \in 1 .. Len(s)
      BY <1>2, <2>2
    <3>2. FALSE
      BY <1>3, <2>2, <3>1 DEF Among
    <3> QED BY <3>2
  <2>3. CASE q # p /\ r = p
    <3>1. j \in 1 .. Len(f[q]) /\ f[q][j] = s[k] /\ k \in 1 .. Len(s)
      BY <1>2, <2>3
    <3>2. FALSE
      BY <1>3, <2>3, <3>1 DEF Among
    <3> QED BY <3>2
  <2>4. CASE q # p /\ r # p
    <3>1. g[q] = f[q] /\ g[r] = f[r]
      BY <1>2, <2>4
    <3>2. j \in 1 .. Len(f[q]) /\ k \in 1 .. Len(f[r]) /\ f[q][j] = f[r][k]
      BY <3>1
    <3> QED BY <1>1, <3>2 DEF OwnedOnce
  <2> QED BY <2>1, <2>2, <2>3, <2>4
<1>6. WellLinked(n, g)
  BY <1>2, <1>4, <1>5, <1>r DEF WellLinked
<1> QED BY <1>6 DEF g

\* What a well-linked memory says of one list
LEMMA OneList ==
  ASSUME NEW m, NEW f, WellLinked(m, f), NEW p \in Address, NEW s, s = f[p]
  PROVE  /\ m \in Memory /\ s \in Seq(Address) /\ Threaded(m, p, s)
         /\ Distinct(s)
  BY DEF WellLinked, OwnedOnce, Distinct

\* The memory before the first call: nothing is linked.
LEMMA NothingLinked ==
  WellLinked([a \in Address |-> Free], [a \in Address |-> <<>>])
<1> DEFINE m == [a \in Address |-> Free]
           f == [a \in Address |-> <<>>]
<1>1. \A a \in Address : m[a] = Free /\ f[a] = <<>>
  OBVIOUS
<1>2. Free \in [kind : Kinds \cup {"free"}, value : Seq(Int), key : Int,
                next : Target, prev : Target, child : Target]
  <2>1. Free = [kind |-> "free", value |-> <<>>, key |-> NoKey,
                next |-> Null, prev |-> Null, child |-> Null]
    BY DEF Free, Blank
  <2>2. <<>> \in Seq(Int) /\ NoKey \in Int /\ Null \in Target
    BY NoLink, EmptySeq DEF NoKey
  <2> QED BY <2>1, <2>2
<1>3. m \in Memory
  BY <1>2 DEF Memory
<1>4. f \in [Address -> Seq(Address)]
  BY EmptySeq
<1> HIDE DEF m, f
<1>5. \A p \in Address : Threaded(m, p, f[p])
  <2> SUFFICES ASSUME NEW p \in Address
               PROVE  Threaded(m, p, <<>>)
    BY <1>1
  <2>1. m[p].child = Null
    BY <1>1 DEF Free, Blank
  <2> QED BY <2>1, EmptySeq DEF Threaded
<1>6. OwnedOnce(f)
  BY <1>1, EmptySeq DEF OwnedOnce
<1>7. WellLinked(m, f)
  BY <1>3, <1>4, <1>5, <1>6 DEF WellLinked
<1> QED BY <1>7 DEF m, f

-----------------------------------------------------------------------------
(* AddToArray *)

\* What add_item_to_array leaves in every item when the list was empty
LEMMA AddFirstIs ==
  ASSUME NEW m \in Memory, NEW p \in Address, NEW i \in Address, m[p].child = Null,
         NEW n, n = AddToArray(m, p, i)
  PROVE  /\ n \in Memory /\ SameContents(m, n)
         /\ \A c \in Address :
              /\ n[c].child = IF c = p THEN i ELSE m[c].child
              /\ n[c].next = IF c = i THEN Null ELSE m[c].next
              /\ n[c].prev = IF c = i THEN i ELSE m[c].prev
<1> DEFINE a == SetChild(m, p, i)
           b == SetPrev(a, i, i)
           d == SetNext(b, i, Null)
<1>1. i \in Target /\ Null \in Target /\ i # Null
  BY NoLink
<1>2. n = d
  <2>1. n = [m EXCEPT ![p].child = i, ![i].prev = i, ![i].next = Null]
    BY DEF AddToArray
  <2> QED BY <1>1, <2>1 DEF SetChild, SetPrev, SetNext
<1>3. ChildSet(m, a, p, i) /\ a \in Memory
  BY <1>1, NoLink, SetChildIs
<1> HIDE DEF a
<1>4. PrevSet(a, b, i, i) /\ b \in Memory
  BY <1>1, <1>3, NoLink, SetPrevIs
<1> HIDE DEF b
<1>5. NextSet(b, n, i, Null)
  BY <1>1, <1>2, <1>4, NoLink, SetNextIs
<1> QED BY <1>3, <1>4, <1>5 DEF ChildSet, PrevSet, NextSet, SameContents

\* What add_item_to_array leaves in every item when it was not
LEMMA AddLastIs ==
  ASSUME NEW m \in Memory, NEW p \in Address, NEW i \in Address,
         NEW head \in Address, head = m[p].child,
         NEW last \in Address, last = m[head].prev,
         NEW n, n = AddToArray(m, p, i)
  PROVE  /\ n \in Memory /\ SameContents(m, n)
         /\ \A c \in Address :
              /\ n[c].child = m[c].child
              /\ n[c].next = IF c = last THEN i ELSE m[c].next
              /\ n[c].prev = IF c = head THEN i ELSE IF c = i THEN last ELSE m[c].prev
<1> DEFINE a == SetNext(m, last, i)
           b == SetPrev(a, i, last)
           d == SetPrev(b, head, i)
<1>1. /\ i \in Target /\ last \in Target /\ i # Null /\ last # Null /\ head # Null
  BY NoLink
<1>2. n = d
  <2>1. n = [m EXCEPT ![last].next = i, ![i].prev = last, ![head].prev = i]
    BY <1>1 DEF AddToArray
  <2> QED BY <1>1, <2>1 DEF SetPrev, SetNext
<1>3. NextSet(m, a, last, i) /\ a \in Memory
  BY <1>1, NoLink, SetNextIs
<1> HIDE DEF a
<1>4. PrevSet(a, b, i, last) /\ b \in Memory
  BY <1>1, <1>3, NoLink, SetPrevIs
<1> HIDE DEF b
<1>5. PrevSet(b, n, head, i)
  BY <1>1, <1>2, <1>4, NoLink, SetPrevIs
<1> QED BY <1>3, <1>4, <1>5 DEF PrevSet, NextSet, SameContents


\* The new item is behind the one that was last.
LEMMA AddLastThreads ==
  ASSUME NEW m \in Memory, NEW p \in Address, NEW s \in Seq(Address), Threaded(m, p, s),
         NEW L, L = Len(s), L > 0, Distinct(s),
         NEW i \in Address, \A k \in 1 .. L : s[k] # i, m[i].next = Null,
         NEW n, n = AddToArray(m, p, i), NEW t, t = Append(s, i)
  PROVE  Relinks(m, n, p, s, t, i)
<1>1. /\ L \in Nat /\ \A k \in 1 .. L : s[k] \in Address
      /\ m[p].child = s[1] /\ m[s[1]].prev = s[L] /\ m[s[L]].next = Null
      /\ \A k \in 1 .. L : k < L => m[s[k]].next = s[k + 1]
      /\ \A k \in 1 .. L : k > 1 => m[s[k]].prev = s[k - 1]
  <2>1. Chain(m, p, s, L)
    BY ThreadedLinks
  <2> QED BY <2>1 DEF Chain
<1>2. 1 \in 1 .. L /\ L \in 1 .. L /\ s[1] \in Address /\ s[L] \in Address
  BY <1>1
<1>3. /\ t \in Seq(Address) /\ Len(t) = L + 1
      /\ \A k \in 1 .. L : t[k] = s[k]
      /\ t[L + 1] = i
  BY AppendIs
<1>4. /\ n \in Memory /\ SameContents(m, n)
      /\ \A c \in Address :
           /\ n[c].child = m[c].child
           /\ n[c].next = IF c = s[L] THEN i ELSE m[c].next
           /\ n[c].prev = IF c = s[1] THEN i ELSE IF c = i THEN s[L] ELSE m[c].prev
  BY <1>1, <1>2, AddLastIs
<1>5. /\ n[p].child = t[1] /\ n[t[1]].prev = t[L + 1] /\ n[t[L + 1]].next = Null
  BY <1>1, <1>2, <1>3, <1>4
<1>6. ASSUME NEW k \in 1 .. L + 1, k < L + 1
      PROVE  n[t[k]].next = t[k + 1]
  <2>1. k \in 1 .. L /\ t[k] = s[k] /\ s[k] \in Address
    BY <1>1, <1>3, <1>6
  <2>2. CASE k = L
    BY <1>3, <1>4, <2>1, <2>2
  <2>3. CASE k < L
    <3>1. s[k] # s[L] /\ t[k + 1] = s[k + 1] /\ m[s[k]].next = s[k + 1]
      BY <1>1, <1>2, <1>3, <2>1, <2>3 DEF Distinct
    <3> QED BY <1>4, <2>1, <3>1
  <2>4. k = L \/ k < L
    BY <1>1, <2>1
  <2> QED BY <2>2, <2>3, <2>4
<1>7. ASSUME NEW k \in 1 .. L + 1, k > 1
      PROVE  n[t[k]].prev = t[k - 1]
  <2>1. CASE k = L + 1
    <3>1. t[k] = i /\ t[k - 1] = s[L] /\ i # s[1]
      BY <1>1, <1>2, <1>3, <2>1
    <3> QED BY <1>4, <3>1
  <2>2. CASE k \in 1 .. L
    <3>1. /\ t[k] = s[k] /\ s[k] \in Address /\ s[k] # s[1] /\ s[k] # i
          /\ k - 1 \in 1 .. L /\ t[k - 1] = s[k - 1] /\ m[s[k]].prev = s[k - 1]
      BY <1>1, <1>2, <1>3, <1>7, <2>2 DEF Distinct
    <3> QED BY <1>4, <3>1
  <2>3. k = L + 1 \/ k \in 1 .. L
    BY <1>1
  <2> QED BY <2>1, <2>2, <2>3
<1>8. Threaded(n, p, t)
  <2>1. L + 1 = Len(t) /\ L + 1 > 0
    BY <1>1, <1>3
  <2> DEFINE l == L + 1
  <2> HIDE DEF l
  <2>2. /\ l = Len(t) /\ l > 0
        /\ n[p].child = t[1] /\ n[t[1]].prev = t[l] /\ n[t[l]].next = Null
        /\ \A k \in 1 .. l : k < l => n[t[k]].next = t[k + 1]
        /\ \A k \in 1 .. l : k > 1 => n[t[k]].prev = t[k - 1]
    BY <1>5, <1>6, <1>7, <2>1 DEF l
  <2> QED BY <1>3, <2>2, LinksThread
<1>9. SameChildren(m, n, p) /\ Undisturbed(m, n, s, i)
  BY <1>2, <1>4 DEF SameChildren, Undisturbed
<1> QED BY <1>4, <1>8, <1>9 DEF Relinks

\* cJSON_AddItemToArray of an item that is in no list: it becomes the last
\* child, every list stays linked both ways, and nothing but links changes.
\* add_item_to_array does not end the list: the item must not point on.
THEOREM AddedLast ==
  ASSUME NEW m, NEW f, WellLinked(m, f), NEW p \in Address, NEW i, Loose(f, i),
         m[i].next = Null
  PROVE  /\ WellLinked(AddToArray(m, p, i), [f EXCEPT ![p] = Append(f[p], i)])
         /\ SameContents(m, AddToArray(m, p, i))
<1> DEFINE s == f[p]
           t == Append(s, i)
           n == AddToArray(m, p, i)
           L == Len(s)
<1>1. m \in Memory /\ s \in Seq(Address) /\ Threaded(m, p, s) /\ Distinct(s)
  BY OneList
<1>2. i \in Address /\ \A q \in Address : \A k \in 1 .. Len(f[q]) : f[q][k] # i
  BY DEF Loose
<1>3. \A k \in 1 .. L : s[k] # i
  BY <1>2
<1>4. /\ t \in Seq(Address) /\ Len(t) = L + 1
      /\ \A k \in 1 .. L : t[k] = s[k]
      /\ t[L + 1] = i
  BY <1>1, <1>2, AppendIs
<1>5. L \in Nat
  BY <1>1, LenProperties
<1>6. Relinks(m, n, p, s, t, i)
  <2> HIDE DEF s, n, t
  <2>1. CASE L = 0
    <3>1. m[p].child = Null
      <4>1. Chain(m, p, s, L)
        BY <1>1, ThreadedLinks DEF L
      <4> QED BY <2>1, <4>1 DEF Chain
    <3>2. /\ n \in Memory /\ SameContents(m, n)
          /\ \A c \in Address :
               /\ n[c].child = IF c = p THEN i ELSE m[c].child
               /\ n[c].next = IF c = i THEN Null ELSE m[c].next
               /\ n[c].prev = IF c = i THEN i ELSE m[c].prev
      BY <1>1, <1>2, <3>1, AddFirstIs DEF n
    <3>3. Len(t) = 1 /\ t[1] = i
      BY <1>4, <2>1
    <3>4. n[p].child = t[1] /\ n[t[1]].prev = t[1] /\ n[t[1]].next = Null
      BY <1>2, <3>2, <3>3
    <3>5. \A k \in 1 .. 1 : ~(k < 1) /\ ~(k > 1)
      OBVIOUS
    <3>6. Threaded(n, p, t)
      BY <1>4, <3>3, <3>4, <3>5, LinksThread
    <3>7. SameChildren(m, n, p) /\ Undisturbed(m, n, s, i)
      BY <3>2 DEF SameChildren, Undisturbed
    <3> QED BY <3>2, <3>6, <3>7 DEF Relinks
  <2>2. CASE L > 0
    <3> HIDE DEF L
    <3>1. L = Len(s)
      BY DEF L
    <3> QED BY <1>1, <1>2, <1>3, <2>2, <3>1, AddLastThreads DEF n, t
  <2> QED BY <1>5, <2>1, <2>2
<1>7. Distinct(t) /\ Among(t, s, i)
  <2> HIDE DEF s, n, t
  <2> QED BY <1>1, <1>3, <1>4, <1>5 DEF Distinct, Among
<1>8. SameContents(m, n)
  BY <1>6 DEF Relinks
<1>9. WellLinked(n, [f EXCEPT ![p] = t])
  <2> HIDE DEF n, t
  <2> QED BY <1>2, <1>4, <1>6, <1>7, Relinked
<1> QED BY <1>8, <1>9

-----------------------------------------------------------------------------
(* DetachItem *)

\* What cJSON_DetachItemViaPointer leaves in every item
LEMMA DetachIs ==
  ASSUME NEW m \in Memory, NEW p \in Address, NEW i \in Address,
         NEW a, a = m[i].prev, NEW b, b = m[i].next, NEW head, head = m[p].child,
         NEW n, n = DetachItem(m, p, i)
  PROVE  /\ n \in Memory /\ SameContents(m, n)
         /\ \A c \in Address :
              /\ n[c].child = IF head = i /\ c = p THEN b ELSE m[c].child
              /\ n[c].next = IF c = i THEN Null
                             ELSE IF head # i /\ c = a THEN b ELSE m[c].next
              /\ n[c].prev = IF c = i THEN Null
                             ELSE IF head # i /\ b = Null /\ c = head THEN a
                             ELSE IF c = b THEN a ELSE m[c].prev
<1> DEFINE x == IF head = i THEN m ELSE SetNext(m, a, b)
           y == SetPrev(x, b, a)
           z == IF head = i THEN SetChild(y, p, b)
                ELSE IF b = Null THEN SetPrev(y, y[p].child, a) ELSE y
           v == SetNext(z, i, Null)
<1>1. /\ a \in Target /\ b \in Target /\ head \in Target /\ i \in Target
      /\ Null \in Target
  BY NoLink DEF Memory
<1>2. n = SetPrev(v, i, Null)
  BY DEF DetachItem, Unlinked, SetChild
<1>3. /\ x \in Memory /\ SameContents(m, x)
      /\ \A c \in Address :
           /\ x[c].child = m[c].child /\ x[c].prev = m[c].prev
           /\ x[c].next = IF head # i /\ c = a THEN b ELSE m[c].next
  <2>1. CASE head = i
    BY <2>1 DEF SameContents
  <2>2. CASE head # i
    <3> HIDE DEF x
    <3>1. x = SetNext(m, a, b)
      BY <2>2 DEF x
    <3>2. NextSet(m, x, a, b) /\ x \in Memory
      BY <1>1, <3>1, SetNextIs
    <3> QED BY <2>2, <3>2 DEF NextSet
  <2> QED BY <2>1, <2>2
<1> HIDE DEF x
<1>4. PrevSet(x, y, b, a) /\ y \in Memory
  BY <1>1, <1>3, SetPrevIs
<1>5. y[p].child = head
  BY <1>3, <1>4 DEF PrevSet
<1> HIDE DEF y
<1>6. /\ z \in Memory /\ SameContents(y, z)
      /\ \A c \in Address :
           /\ z[c].child = IF head = i /\ c = p THEN b ELSE y[c].child
           /\ z[c].next = y[c].next
           /\ z[c].prev = IF head # i /\ b = Null /\ c = head THEN a ELSE y[c].prev
  <2>1. CASE head = i
    <3> HIDE DEF z
    <3>1. z = SetChild(y, p, b)
      BY <2>1 DEF z
    <3>2. ChildSet(y, z, p, b) /\ z \in Memory
      BY <1>1, <1>4, <3>1, SetChildIs
    <3> QED BY <2>1, <3>2 DEF ChildSet
  <2>2. CASE head # i /\ b = Null
    <3> HIDE DEF z
    <3>1. z = SetPrev(y, head, a)
      BY <1>5, <2>2 DEF z
    <3>2. PrevSet(y, z, head, a) /\ z \in Memory
      BY <1>1, <1>4, <3>1, SetPrevIs
    <3> QED BY <2>2, <3>2 DEF PrevSet
  <2>3. CASE head # i /\ b # Null
    BY <1>4, <2>3 DEF SameContents
  <2> QED BY <2>1, <2>2, <2>3
<1> HIDE DEF z
<1>7. NextSet(z, v, i, Null) /\ v \in Memory
  BY <1>1, <1>6, SetNextIs
<1> HIDE DEF v
<1>8. PrevSet(v, n, i, Null)
  BY <1>1, <1>2, <1>7, SetPrevIs
<1>9. n \in Memory /\ SameContents(m, n)
  BY <1>3, <1>4, <1>6, <1>7, <1>8 DEF NextSet, PrevSet, SameContents
<1>10. ASSUME NEW c \in Address
       PROVE  /\ n[c].child = IF head = i /\ c = p THEN b ELSE m[c].child
              /\ n[c].next = IF c = i THEN Null
                             ELSE IF head # i /\ c = a THEN b ELSE m[c].next
              /\ n[c].prev = IF c = i THEN Null
                             ELSE IF head # i /\ b = Null /\ c = head THEN a
                             ELSE IF c = b THEN a ELSE m[c].prev
  BY <1>3, <1>4, <1>6, <1>7, <1>8 DEF NextSet, PrevSet
<1> QED BY <1>9, <1>10

\* The items around the j-th are neighbours now.
LEMMA DetachThreads ==
  ASSUME NEW m \in Memory, NEW p \in Address, NEW s \in Seq(Address), Threaded(m, p, s),
         NEW L, L = Len(s), Distinct(s), NEW j \in 1 .. L, NEW i, i = s[j],
         NEW n, n = DetachItem(m, p, i), NEW t, t = RemoveAt(s, j)
  PROVE  Relinks(m, n, p, s, t, i) /\ n[i].next = Null /\ n[i].prev = Null
<1> DEFINE a == m[i].prev
           b == m[i].next
           head == m[p].child
<1>1. /\ L \in Nat /\ L > 0 /\ j \in Nat /\ j >= 1 /\ j <= L
      /\ \A k \in 1 .. L : s[k] \in Address
      /\ m[p].child = s[1] /\ m[s[1]].prev = s[L] /\ m[s[L]].next = Null
      /\ \A k \in 1 .. L : k < L => m[s[k]].next = s[k + 1]
      /\ \A k \in 1 .. L : k > 1 => m[s[k]].prev = s[k - 1]
  <2>1. L \in Nat
    BY LenProperties
  <2>2. L > 0 /\ j \in Nat /\ j >= 1 /\ j <= L
    BY <2>1
  <2>3. Chain(m, p, s, L)
    BY ThreadedLinks
  <2> QED BY <2>2, <2>3 DEF Chain
<1>2. \A k, l \in 1 .. L : s[k] = s[l] => k = l
  BY DEF Distinct
<1>3. /\ i \in Address /\ head = s[1] /\ (head = i <=> j = 1)
      /\ (j > 1 => j - 1 \in 1 .. L /\ a = s[j - 1]) /\ (j = 1 => a = s[L])
      /\ (j < L => j + 1 \in 1 .. L /\ b = s[j + 1]) /\ (j = L => b = Null)
      /\ 1 \in 1 .. L /\ L \in 1 .. L
  BY <1>1, <1>2
<1>4. /\ t \in Seq(Address) /\ Len(t) = L - 1
      /\ \A k \in 1 .. L - 1 : t[k] = IF k < j THEN s[k] ELSE s[k + 1]
  BY RemoveAtIs
<1>5. /\ n \in Memory /\ SameContents(m, n)
      /\ \A c \in Address :
           /\ n[c].child = IF head = i /\ c = p THEN b ELSE m[c].child
           /\ n[c].next = IF c = i THEN Null
                          ELSE IF head # i /\ c = a THEN b ELSE m[c].next
           /\ n[c].prev = IF c = i THEN Null
                          ELSE IF head # i /\ b = Null /\ c = head THEN a
                          ELSE IF c = b THEN a ELSE m[c].prev
  BY <1>3, DetachIs
<1>6. Null \notin Address
  BY NoLink
<1> HIDE DEF a, b, head
<1>0. ASSUME NEW k \in 1 .. L
      PROVE  /\ s[k] \in Address
             /\ k # j => s[k] # i
             /\ k # 1 => s[k] # head
             /\ j > 1 /\ k # j - 1 => s[k] # a
             /\ k # j + 1 => s[k] # b
  <2>1. s[k] \in Address /\ s[k] # Null
    BY <1>1, <1>6
  <2>2. (k # j => s[k] # i) /\ (k # 1 => s[k] # head)
    BY <1>2, <1>3
  <2>3. j > 1 /\ k # j - 1 => s[k] # a
    BY <1>2, <1>3
  <2>4. k # j + 1 => s[k] # b
    <3>1. CASE j < L
      BY <1>2, <1>3, <3>1
    <3>2. CASE j = L
      BY <1>3, <2>1, <3>2
    <3> QED BY <1>1, <3>1, <3>2
  <2> QED BY <2>1, <2>2, <2>3, <2>4
<1>7. Threaded(n, p, t)
  <2>1. CASE L = 1
    <3>1. j = 1 /\ n[p].child = Null
      BY <1>1, <1>3, <1>5, <2>1
    <3>2. t = <<>>
      BY <1>4, <2>1, EmptySeq
    <3> QED BY <3>1, <3>2, EmptySeq DEF Threaded
  <2>2. CASE L > 1
    <3> DEFINE M == L - 1
    <3>1. M \in Nat /\ M > 0 /\ M = Len(t) /\ L = M + 1 /\ 1 \in 1 .. M /\ M \in 1 .. M
      BY <1>1, <1>4, <2>2
    <3> HIDE DEF M
    <3>2. \A k \in 1 .. M : /\ k \in 1 .. L /\ k + 1 \in 1 .. L
                            /\ k < j => t[k] = s[k]
                            /\ k >= j => t[k] = s[k + 1]
      BY <1>1, <1>4, <3>1
    <3>3. n[p].child = t[1]
      <4>1. CASE j = 1
        BY <1>1, <1>3, <1>5, <2>2, <3>1, <3>2, <4>1
      <4>2. CASE j > 1
        BY <1>1, <1>3, <1>5, <3>1, <3>2, <4>2
      <4> QED BY <1>1, <4>1, <4>2
    <3>4. n[t[1]].prev = t[M]
      <4>1. CASE j = 1
        <5>1. t[1] = s[2] /\ t[M] = s[L] /\ 2 \in 1 .. L /\ 2 # j
          BY <1>1, <2>2, <3>1, <3>2, <4>1
        <5>2. b = s[2] /\ a = s[L]
          BY <1>1, <1>3, <2>2, <4>1
        <5>3. t[1] = b /\ t[M] = a /\ b \in Address /\ b # i
          BY <1>0, <5>1, <5>2
        <5> QED BY <1>3, <1>5, <4>1, <5>3
      <4>2. CASE j > 1 /\ j = L
        <5>1. t[1] = head /\ t[M] = a /\ b = Null /\ head # i /\ head \in Address
          BY <1>1, <1>3, <3>1, <3>2, <4>2
        <5> QED BY <1>5, <5>1
      <4>3. CASE j > 1 /\ j < L
        <5>1. /\ t[1] = s[1] /\ t[M] = s[L] /\ s[1] \in Address /\ s[1] # b /\ s[1] # i
              /\ b # Null
          <6>1. 1 # j /\ 1 # j + 1 /\ 1 < j /\ M >= j /\ M + 1 = L
            BY <1>1, <3>1, <4>3
          <6>2. t[1] = s[1] /\ t[M] = s[L]
            BY <3>1, <3>2, <6>1
          <6>3. b # Null
            BY <1>1, <1>3, <1>6, <4>3
          <6> QED BY <1>0, <1>3, <6>1, <6>2, <6>3
        <5> QED BY <1>1, <1>5, <5>1
      <4> QED BY <1>1, <4>1, <4>2, <4>3
    <3>5. n[t[M]].next = Null
      <4>1. CASE j = L
        <5>1. t[M] = a /\ a \in Address /\ a # i /\ b = Null /\ head # i
          BY <1>1, <1>2, <1>3, <2>2, <3>1, <3>2, <4>1
        <5> QED BY <1>5, <5>1
      <4>2. CASE j < L
        <5>1. t[M] = s[L] /\ s[L] \in Address /\ s[L] # i /\ (head # i => s[L] # a)
          BY <1>1, <1>2, <1>3, <3>1, <3>2, <4>2
        <5> QED BY <1>1, <1>5, <5>1
      <4> QED BY <1>1, <4>1, <4>2
    <3>6. ASSUME NEW k \in 1 .. M, k < M
          PROVE  n[t[k]].next = t[k + 1]
      <4>0. /\ k \in 1 .. L /\ k + 1 \in 1 .. M /\ k + 1 \in 1 .. L
            /\ (k + 1) + 1 \in 1 .. L /\ (k + 1) + 1 = k + 2
        BY <1>1, <3>1, <3>6
      <4>1. CASE k + 1 < j
        <5>1. /\ t[k] = s[k] /\ t[k + 1] = s[k + 1] /\ s[k] \in Address
              /\ s[k] # i /\ s[k] # a /\ m[s[k]].next = s[k + 1]
          <6>1. /\ t[k] = s[k] /\ t[k + 1] = s[k + 1]
                /\ k # j /\ j > 1 /\ k # j - 1 /\ k < L
            <7>1. /\ k < j /\ k # j /\ j > 1 /\ k # j - 1 /\ k < L
              BY <1>1, <3>1, <4>0, <4>1
            <7> QED BY <3>2, <4>0, <4>1, <7>1
          <6> QED BY <1>0, <1>1, <4>0, <6>1
        <5> QED BY <1>5, <5>1
      <4>2. CASE k + 1 = j
        <5>1. /\ t[k] = a /\ t[k + 1] = b /\ a \in Address /\ a # i /\ head # i
          <6>1. /\ t[k] = s[k] /\ t[k + 1] = s[(k + 1) + 1] /\ j > 1 /\ j < L
                /\ k # j /\ k = j - 1 /\ (k + 1) + 1 = j + 1
            <7>1. /\ k < j /\ k + 1 >= j /\ j > 1 /\ j < L
                  /\ k # j /\ k = j - 1 /\ (k + 1) + 1 = j + 1
              BY <1>1, <3>1, <4>0, <4>2
            <7> QED BY <3>2, <4>0, <7>1
          <6>2. a = s[k] /\ b = s[(k + 1) + 1] /\ head # i
            BY <1>1, <1>3, <6>1
          <6> QED BY <1>0, <4>0, <6>1, <6>2
        <5> QED BY <1>5, <5>1
      <4>3. CASE k >= j
        <5>1. /\ t[k] = s[k + 1] /\ t[k + 1] = s[k + 2] /\ s[k + 1] \in Address
              /\ s[k + 1] # i /\ (head # i => s[k + 1] # a)
              /\ m[s[k + 1]].next = s[k + 2]
          BY <1>1, <1>2, <1>3, <3>1, <3>2, <4>0, <4>3
        <5> QED BY <1>5, <5>1
      <4> QED BY <1>1, <3>1, <4>1, <4>2, <4>3
    <3>7. ASSUME NEW k \in 1 .. M, k > 1
          PROVE  n[t[k]].prev = t[k - 1]
      <4>0. /\ k \in 1 .. L /\ k + 1 \in 1 .. L /\ k - 1 \in 1 .. M
            /\ (k - 1) + 1 = k /\ (k + 1) - 1 = k
        BY <1>1, <3>1, <3>7
      <4>1. CASE k < j
        <5>1. /\ t[k] = s[k] /\ t[k - 1] = s[k - 1] /\ s[k] \in Address
              /\ s[k] # i /\ s[k] # head /\ s[k] # b /\ m[s[k]].prev = s[k - 1]
          <6>1. /\ t[k] = s[k] /\ t[k - 1] = s[k - 1]
                /\ k # j /\ k # 1 /\ k # j + 1
            <7>1. k - 1 < j /\ k # j /\ k # 1 /\ k # j + 1
              BY <1>1, <3>1, <3>7, <4>1
            <7> QED BY <3>2, <4>0, <4>1, <7>1
          <6> QED BY <1>0, <1>1, <3>7, <4>0, <6>1
        <5> QED BY <1>5, <5>1
      <4>2. CASE k = j
        <5>1. t[k] = b /\ t[k - 1] = a /\ b \in Address /\ b # i /\ b # Null
          <6>1. /\ t[k] = s[k + 1] /\ t[k - 1] = s[k - 1] /\ j > 1 /\ j < L
                /\ k + 1 # j /\ k - 1 = j - 1 /\ k + 1 = j + 1
            BY <1>1, <3>1, <3>2, <3>7, <4>0, <4>2
          <6>2. a = s[k - 1] /\ b = s[k + 1]
            BY <1>3, <6>1
          <6> QED BY <1>0, <1>6, <4>0, <6>1, <6>2
        <5> QED BY <1>5, <5>1
      <4>3. CASE k > j
        <5>1. /\ t[k] = s[k + 1] /\ t[k - 1] = s[k] /\ s[k + 1] \in Address
              /\ s[k + 1] # i /\ s[k + 1] # head /\ s[k + 1] # b
              /\ m[s[k + 1]].prev = s[k]
          <6>1. /\ t[k] = s[k + 1] /\ t[k - 1] = s[(k - 1) + 1]
                /\ k + 1 # j /\ k + 1 # 1 /\ k + 1 # j + 1 /\ k + 1 > 1
            <7>1. /\ k - 1 >= j /\ k >= j
                  /\ k + 1 # j /\ k + 1 # 1 /\ k + 1 # j + 1 /\ k + 1 > 1
              BY <1>1, <3>1, <3>7, <4>3
            <7> QED BY <3>2, <4>0, <7>1
          <6> QED BY <1>0, <1>1, <4>0, <6>1
        <5> QED BY <1>5, <5>1
      <4> QED BY <1>1, <3>1, <4>1, <4>2, <4>3
    <3> QED BY <1>4, <3>1, <3>3, <3>4, <3>5, <3>6, <3>7, LinksThread
  <2> QED BY <1>1, <2>1, <2>2
<1>8. SameChildren(m, n, p)
  BY <1>5 DEF SameChildren
<1>9. Undisturbed(m, n, s, i)
  <2> SUFFICES ASSUME NEW c \in Address, c # i, \A k \in 1 .. L : c # s[k]
               PROVE  n[c].next = m[c].next /\ n[c].prev = m[c].prev
    BY DEF Undisturbed
  <2>1. c # head /\ c # a /\ c # b
    BY <1>1, <1>3, <1>6
  <2> QED BY <1>5, <2>1
<1>10. n[i].next = Null /\ n[i].prev = Null
  BY <1>3, <1>5
<1> QED BY <1>5, <1>7, <1>8, <1>9, <1>10 DEF Relinks

\* cJSON_DetachItemViaPointer of the j-th child: every list stays linked both
\* ways, that of p without it, nothing but links changes, and the item is in
\* no list and points nowhere, so that it can be added elsewhere or deleted
\* alone.
THEOREM Detached ==
  ASSUME NEW m, NEW f, WellLinked(m, f), NEW p \in Address, NEW j \in 1 .. Len(f[p]),
         NEW i, i = f[p][j], NEW n, n = DetachItem(m, p, i),
         NEW g, g = [f EXCEPT ![p] = RemoveAt(f[p], j)]
  PROVE  /\ WellLinked(n, g) /\ SameContents(m, n)
         /\ Loose(g, i) /\ n[i].next = Null /\ n[i].prev = Null
<1> DEFINE s == f[p]
           t == RemoveAt(s, j)
           L == Len(s)
<1>1. m \in Memory /\ s \in Seq(Address) /\ Threaded(m, p, s) /\ Distinct(s)
  BY OneList
<1>2. /\ i \in Address /\ L \in Nat /\ j \in Nat /\ j >= 1 /\ j <= L
      /\ \A k \in 1 .. L : s[k] = i => k = j
  <2>1. i \in Address /\ L \in Nat
    BY <1>1, ElementOfSeq, LenProperties
  <2> QED BY <1>1, <2>1 DEF Distinct
<1>3. /\ t \in Seq(Address) /\ Len(t) = L - 1
      /\ \A k \in 1 .. L - 1 : t[k] = IF k < j THEN s[k] ELSE s[k + 1]
  BY <1>1, RemoveAtIs
<1>4. \A q \in Address : q # p => \A k \in 1 .. Len(f[q]) : f[q][k] # i
  BY DEF WellLinked, OwnedOnce
<1>5. f \in [Address -> Seq(Address)]
  BY DEF WellLinked
<1>6. g[p] = t /\ \A q \in Address : q # p => g[q] = f[q]
  BY <1>5
<1>7. \A k \in 1 .. Len(t) : t[k] # i
  <2> HIDE DEF s, t, L
  <2> SUFFICES ASSUME NEW k \in 1 .. L - 1
               PROVE  t[k] # i
    BY <1>3
  <2>1. k \in 1 .. L /\ k + 1 \in 1 .. L /\ (k < j => k # j) /\ (~(k < j) => k + 1 # j)
    BY <1>2
  <2> QED BY <1>2, <1>3, <2>1
<1>8. Loose(g, i)
  <2> SUFFICES ASSUME NEW q \in Address, NEW k \in 1 .. Len(g[q])
               PROVE  g[q][k] # i
    BY <1>2 DEF Loose
  <2> HIDE DEF t, s
  <2>1. CASE q = p
    BY <1>6, <1>7, <2>1
  <2>2. CASE q # p
    BY <1>4, <1>6, <2>2
  <2> QED BY <2>1, <2>2
<1>9. Distinct(t) /\ Among(t, s, i)
  <2> HIDE DEF s, t, L
  <2>0. L = Len(s)
    BY DEF L
  <2>1. \A k \in 1 .. Len(t) : /\ k \in 1 .. L /\ k + 1 \in 1 .. L
                               /\ t[k] = s[k] \/ t[k] = s[k + 1]
    BY <1>2, <1>3
  <2>2. Among(t, s, i)
    BY <2>0, <2>1 DEF Among
  <2>3. ASSUME NEW k \in 1 .. Len(t), NEW l \in 1 .. Len(t), t[k] = t[l]
        PROVE  k = l
    <3>1. /\ k \in 1 .. L - 1 /\ l \in 1 .. L - 1
          /\ k \in 1 .. L /\ k + 1 \in 1 .. L /\ l \in 1 .. L /\ l + 1 \in 1 .. L
      BY <1>2, <1>3
    <3>2. \A x, y \in 1 .. L : s[x] = s[y] => x = y
      BY <1>1, <2>0 DEF Distinct
    <3>3. /\ t[k] = IF k < j THEN s[k] ELSE s[k + 1]
          /\ t[l] = IF l < j THEN s[l] ELSE s[l + 1]
      BY <1>3, <3>1
    <3>4. k \in Int /\ l \in Int
      BY <3>1
    <3>5. CASE k < j /\ l < j
      <4>1. s[k] = s[l]
        BY <2>3, <3>3, <3>5
      <4> QED BY <3>1, <3>2, <4>1
    <3>6. CASE k < j /\ ~(l < j)
      <4>1. s[k] = s[l + 1] /\ k # l + 1
        <5>1. k # l + 1
          BY <1>2, <3>4, <3>6
        <5> QED BY <2>3, <3>3, <3>6, <5>1
      <4> QED BY <3>1, <3>2, <4>1
    <3>7. CASE ~(k < j) /\ l < j
      <4>1. s[k + 1] = s[l] /\ l # k + 1
        <5>1. l # k + 1
          BY <1>2, <3>4, <3>7
        <5> QED BY <2>3, <3>3, <3>7, <5>1
      <4> QED BY <3>1, <3>2, <4>1
    <3>8. CASE ~(k < j) /\ ~(l < j)
      <4>1. s[k + 1] = s[l + 1]
        BY <2>3, <3>3, <3>8
      <4>2. k + 1 = l + 1
        BY <3>1, <3>2, <4>1
      <4> QED BY <3>4, <4>2
    <3> QED BY <3>5, <3>6, <3>7, <3>8
  <2> QED BY <2>2, <2>3 DEF Distinct
<1>10. Relinks(m, n, p, s, t, i) /\ n[i].next = Null /\ n[i].prev = Null
  <2> HIDE DEF s, t, L
  <2>1. L = Len(s) /\ j \in 1 .. L /\ i = s[j] /\ t = RemoveAt(s, j)
    BY DEF L, s, t
  <2> QED BY <1>1, <2>1, DetachThreads
<1>11. WellLinked(n, g)
  <2> HIDE DEF t
  <2>1. g = [f EXCEPT ![p] = t]
    BY DEF t
  <2> HIDE DEF L
  <2>2. i \in Address /\ t \in Seq(Address)
    BY <1>2, <1>3
  <2>3. WellLinked(n, [f EXCEPT ![p] = t])
    BY <1>4, <1>9, <1>10, <2>2, Relinked
  <2> QED BY <2>1, <2>3
<1> QED BY <1>8, <1>10, <1>11 DEF Relinks

-----------------------------------------------------------------------------
(* InsertBefore *)

\* The links of n, in which i has been put before after, whose prev was a
InsertedLinks(m, p, i, after, a, head, n) ==
  /\ n \in Memory /\ SameContents(m, n)
  /\ \A c \in Address :
       /\ n[c].child = IF head = after /\ c = p THEN i ELSE m[c].child
       /\ n[c].next = IF head # after /\ c = a THEN i
                      ELSE IF c = i THEN after ELSE m[c].next
       /\ n[c].prev = IF c = after THEN i ELSE IF c = i THEN a ELSE m[c].prev

\* What cJSON_InsertItemInArray leaves in every item
LEMMA InsertIs ==
  ASSUME NEW m \in Memory, NEW p \in Address, NEW i \in Address,
         NEW after \in Address, after # i,
         NEW a, a = m[after].prev, NEW head, head = m[p].child,
         NEW n, n = InsertBefore(m, p, after, i)
  PROVE  InsertedLinks(m, p, i, after, a, head, n)
<1> DEFINE x == SetNext(m, i, after)
           y == SetPrev(x, i, a)
           z == SetPrev(y, after, i)
<1>1. a \in Target /\ i \in Target /\ after \in Target /\ i # Null /\ after # Null
  BY NoLink DEF Memory
<1>2. NextSet(m, x, i, after) /\ x \in Memory
  BY <1>1, SetNextIs
<1>3. n = IF head = after THEN SetChild(z, p, i) ELSE SetNext(z, a, i)
  <2> DEFINE w == [m EXCEPT ![i].next = after, ![i].prev = m[after].prev,
                            ![after].prev = i]
  <2>1. w = z
    BY <1>1 DEF SetNext, SetPrev
  <2>2. w[p].child = m[p].child
    BY DEF Memory
  <2>3. n = IF w[p].child = after THEN SetChild(w, p, i) ELSE SetNext(w, a, i)
    <3>1. InsertBefore(m, p, after, i) =
            IF m[p].child = after THEN [w EXCEPT ![p].child = i]
            ELSE SetNext(w, m[after].prev, i)
      BY DEF InsertBefore
    <3> HIDE DEF w
    <3> QED BY <2>2, <3>1 DEF SetChild
  <2> HIDE DEF w, z
  <2> QED BY <2>1, <2>2, <2>3
<1> HIDE DEF x
<1>4. PrevSet(x, y, i, a) /\ y \in Memory
  BY <1>1, <1>2, SetPrevIs
<1> HIDE DEF y
<1>5. PrevSet(y, z, after, i) /\ z \in Memory
  BY <1>1, <1>4, SetPrevIs
<1> HIDE DEF z
<1>6. /\ z \in Memory /\ SameContents(m, z)
      /\ \A c \in Address :
           /\ z[c].child = m[c].child
           /\ z[c].next = IF c = i THEN after ELSE m[c].next
           /\ z[c].prev = IF c = after THEN i ELSE IF c = i THEN a ELSE m[c].prev
  <2>1. SameContents(m, z)
    BY <1>2, <1>4, <1>5 DEF NextSet, PrevSet, SameContents
  <2>2. ASSUME NEW c \in Address
        PROVE  /\ z[c].child = m[c].child
               /\ z[c].next = IF c = i THEN after ELSE m[c].next
               /\ z[c].prev = IF c = after THEN i ELSE IF c = i THEN a ELSE m[c].prev
    BY <1>2, <1>4, <1>5 DEF NextSet, PrevSet
  <2> QED BY <1>5, <2>1, <2>2
<1>7. CASE head = after
  <2>1. ChildSet(z, n, p, i)
    BY <1>1, <1>3, <1>5, <1>7, SetChildIs
  <2>2. n \in Memory /\ SameContents(m, n)
    BY <1>6, <2>1 DEF ChildSet, SameContents
  <2>3. ASSUME NEW c \in Address
        PROVE  /\ n[c].child = IF head = after /\ c = p THEN i ELSE m[c].child
               /\ n[c].next = IF head # after /\ c = a THEN i
                              ELSE IF c = i THEN after ELSE m[c].next
               /\ n[c].prev = IF c = after THEN i ELSE IF c = i THEN a ELSE m[c].prev
    BY <1>6, <1>7, <2>1 DEF ChildSet
  <2> QED BY <2>2, <2>3 DEF InsertedLinks
<1>8. CASE head # after
  <2>1. NextSet(z, n, a, i)
    BY <1>1, <1>3, <1>5, <1>8, SetNextIs
  <2>2. n \in Memory /\ SameContents(m, n)
    BY <1>6, <2>1 DEF NextSet, SameContents
  <2>3. ASSUME NEW c \in Address
        PROVE  /\ n[c].child = IF head = after /\ c = p THEN i ELSE m[c].child
               /\ n[c].next = IF head # after /\ c = a THEN i
                              ELSE IF c = i THEN after ELSE m[c].next
               /\ n[c].prev = IF c = after THEN i ELSE IF c = i THEN a ELSE m[c].prev
    BY <1>6, <1>8, <2>1 DEF NextSet
  <2> QED BY <2>2, <2>3 DEF InsertedLinks
<1> QED BY <1>7, <1>8

\* The new item is between the j-th and the one before it.
LEMMA InsertThreads ==
  ASSUME NEW m \in Memory, NEW p \in Address, NEW s \in Seq(Address), Threaded(m, p, s),
         NEW L, L = Len(s), Distinct(s), NEW j \in 1 .. L,
         NEW i \in Address, \A k \in 1 .. L : s[k] # i,
         NEW n, n = InsertBefore(m, p, s[j], i), NEW t, t = InsertAt(s, j, i)
  PROVE  Relinks(m, n, p, s, t, i)
<1> DEFINE after == s[j]
           a == m[after].prev
           head == m[p].child
<1>1. /\ L \in Nat /\ L > 0 /\ j \in Nat /\ j >= 1 /\ j <= L
      /\ \A k \in 1 .. L : s[k] \in Address
      /\ m[p].child = s[1] /\ m[s[1]].prev = s[L] /\ m[s[L]].next = Null
      /\ \A k \in 1 .. L : k < L => m[s[k]].next = s[k + 1]
      /\ \A k \in 1 .. L : k > 1 => m[s[k]].prev = s[k - 1]
  <2>1. L \in Nat
    BY LenProperties
  <2>2. L > 0 /\ j \in Nat /\ j >= 1 /\ j <= L
    BY <2>1
  <2>3. Chain(m, p, s, L)
    BY ThreadedLinks
  <2> QED BY <2>2, <2>3 DEF Chain
<1>2. \A k, l \in 1 .. L : s[k] = s[l] => k = l
  BY DEF Distinct
<1>3. /\ after \in Address /\ after # i /\ head = s[1] /\ (head = after <=> j = 1)
      /\ (j > 1 => j - 1 \in 1 .. L /\ a = s[j - 1]) /\ (j = 1 => a = s[L])
      /\ 1 \in 1 .. L /\ L \in 1 .. L
  BY <1>1, <1>2
<1>4. /\ t \in Seq(Address) /\ Len(t) = L + 1
      /\ \A k \in 1 .. L + 1 :
           t[k] = IF k < j THEN s[k] ELSE IF k = j THEN i ELSE s[k - 1]
  <2>1. WithItem(s, j, i, t)
    BY InsertAtIs
  <2> QED BY <2>1 DEF WithItem
<1> HIDE DEF after, a, head
<1>5. /\ n \in Memory /\ SameContents(m, n)
      /\ \A c \in Address :
           /\ n[c].child = IF head = after /\ c = p THEN i ELSE m[c].child
           /\ n[c].next = IF head # after /\ c = a THEN i
                          ELSE IF c = i THEN after ELSE m[c].next
           /\ n[c].prev = IF c = after THEN i ELSE IF c = i THEN a ELSE m[c].prev
  <2>1. a = m[after].prev /\ head = m[p].child /\ n = InsertBefore(m, p, after, i)
    BY DEF after, a, head
  <2>2. InsertedLinks(m, p, i, after, a, head, n)
    BY <1>3, <2>1, InsertIs
  <2> QED BY <2>2 DEF InsertedLinks
<1>6. a \in Address /\ a # i
  BY <1>1, <1>3
<1>0. ASSUME NEW k \in 1 .. L
      PROVE  /\ s[k] \in Address /\ s[k] # i
             /\ k # j => s[k] # after
             /\ j > 1 /\ k # j - 1 => s[k] # a
  <2>1. s[k] \in Address /\ s[k] # i
    BY <1>1
  <2>2. k # j => s[k] # after
    BY <1>2 DEF after
  <2>3. j > 1 /\ k # j - 1 => s[k] # a
    BY <1>2, <1>3
  <2> QED BY <2>1, <2>2, <2>3
<1>7. Threaded(n, p, t)
  <2> DEFINE M == L + 1
  <2>1. M \in Nat /\ M > 0 /\ M = Len(t) /\ 1 \in 1 .. M /\ M \in 1 .. M /\ j \in 1 .. M
    BY <1>1, <1>4
  <2>2. /\ t[j] = i
        /\ \A k \in 1 .. L :
             /\ k \in 1 .. M /\ k + 1 \in 1 .. M
             /\ k < j => t[k] = s[k]
             /\ k >= j => t[k + 1] = s[k]
    <3>1. t[j] = i
      BY <1>1, <1>4, <2>1
    <3>2. ASSUME NEW k \in 1 .. L
          PROVE  /\ k \in 1 .. M /\ k + 1 \in 1 .. M
                 /\ k < j => t[k] = s[k]
                 /\ k >= j => t[k + 1] = s[k]
      <4>1. k \in 1 .. M /\ k + 1 \in 1 .. M /\ (k + 1) - 1 = k
        BY <1>1
      <4>2. k >= j => ~(k + 1 < j) /\ k + 1 # j
        BY <1>1
      <4> QED BY <1>4, <4>1, <4>2
    <3> QED BY <3>1, <3>2
  <2>3. n[p].child = t[1]
    BY <1>1, <1>3, <1>5, <2>2
  <2>4. n[t[1]].prev = t[M]
    <3>1. t[M] = s[L]
      BY <1>1, <1>3, <2>2
    <3>2. CASE j = 1
      <4>1. t[1] = i /\ a = s[L]
        BY <1>3, <2>2, <3>2
      <4> QED BY <1>3, <1>5, <3>1, <4>1
    <3>3. CASE j > 1
      <4>1. t[1] = s[1] /\ s[1] \in Address /\ s[1] # after /\ s[1] # i
        BY <1>0, <1>3, <2>2, <3>3
      <4> QED BY <1>1, <1>5, <3>1, <4>1
    <3> QED BY <1>1, <3>2, <3>3
  <2>5. n[t[M]].next = Null
    <3>1. t[M] = s[L] /\ s[L] \in Address /\ s[L] # i
      BY <1>0, <1>1, <1>3, <2>2
    <3>2. head # after => s[L] # a
      <4>1. j > 1 => L # j - 1
        BY <1>1
      <4>2. head # after => j > 1
        BY <1>1, <1>3
      <4> QED BY <1>0, <1>3, <4>1, <4>2
    <3> QED BY <1>1, <1>5, <3>1, <3>2
  <2>6. ASSUME NEW k \in 1 .. M, k < M
        PROVE  n[t[k]].next = t[k + 1]
    <3>0. k \in 1 .. L /\ k \in Nat /\ k >= 1 /\ k + 1 \in 1 .. M
      BY <1>1, <2>6
    <3>1. CASE k + 1 < j
      <4>1. /\ k < j /\ j > 1 /\ k # j /\ k # j - 1 /\ k < L /\ k + 1 \in 1 .. L
        BY <1>1, <3>0, <3>1
      <4>2. /\ t[k] = s[k] /\ t[k + 1] = s[k + 1] /\ s[k] \in Address
            /\ s[k] # i /\ s[k] # a
        BY <1>0, <2>2, <3>0, <3>1, <4>1
      <4> QED BY <1>1, <1>5, <3>0, <4>1, <4>2
    <3>2. CASE k + 1 = j
      <4>1. k < j /\ j > 1 /\ k = j - 1
        BY <1>1, <3>0, <3>2
      <4>2. t[k] = a /\ t[k + 1] = i /\ a \in Address /\ head # after
        BY <1>3, <1>6, <2>2, <3>0, <3>2, <4>1
      <4> QED BY <1>5, <4>2
    <3>3. CASE k = j
      <4>1. t[k] = i /\ t[k + 1] = after
        BY <1>1, <2>2, <3>0, <3>3 DEF after
      <4> QED BY <1>5, <1>6, <4>1
    <3>4. CASE k > j
      <4> DEFINE l == k - 1
      <4>1. /\ l \in 1 .. L /\ l >= j /\ l < L /\ l + 1 = k /\ l \in Int
            /\ (j > 1 => l # j - 1) /\ k >= j
        BY <1>1, <3>0, <3>4
      <4> HIDE DEF l
      <4>2. /\ t[k] = s[l] /\ t[k + 1] = s[k] /\ s[l] \in Address
            /\ s[l] # i /\ (j > 1 => s[l] # a)
        BY <1>0, <2>2, <3>0, <4>1
      <4>3. m[s[l]].next = s[k]
        BY <1>1, <4>1
      <4>4. head # after => j > 1
        BY <1>1, <1>3
      <4> QED BY <1>5, <4>2, <4>3, <4>4
    <3> QED BY <1>1, <3>0, <3>1, <3>2, <3>3, <3>4
  <2>7. ASSUME NEW k \in 1 .. M, k > 1
        PROVE  n[t[k]].prev = t[k - 1]
    <3> DEFINE l == k - 1
    <3>0. l \in 1 .. L /\ l \in Nat /\ l >= 1 /\ k = l + 1 /\ k \in Nat
      BY <1>1, <2>7
    <3>1. CASE k < j
      <4>1. /\ l < j /\ k # j /\ k \in 1 .. L
        BY <1>1, <2>7, <3>0, <3>1
      <4>2. t[k] = s[k] /\ t[l] = s[l] /\ s[k] \in Address /\ s[k] # after /\ s[k] # i
        BY <1>0, <2>2, <3>0, <3>1, <4>1
      <4> QED BY <1>1, <1>5, <2>7, <4>1, <4>2
    <3>2. CASE k = j
      <4>1. l < j /\ j > 1 /\ l = j - 1
        BY <1>1, <2>7, <3>0, <3>2
      <4>2. t[k] = i /\ t[l] = a
        <5>1. t[l] = s[l] /\ a = s[l]
          BY <1>3, <2>2, <3>0, <4>1
        <5> QED BY <2>2, <3>2, <5>1
      <4> QED BY <1>3, <1>5, <4>2
    <3>3. CASE k = j + 1
      <4>1. l = j /\ l >= j
        BY <1>1, <3>0, <3>3
      <4> HIDE DEF l
      <4>2. t[k] = after /\ t[l] = i
        BY <2>2, <3>0, <4>1 DEF after
      <4>3. n[t[k]].prev = t[l]
        BY <1>3, <1>5, <4>2
      <4> QED BY <4>3 DEF l
    <3>4. CASE k > j + 1
      <4> DEFINE r == l - 1
      <4>1. /\ r \in 1 .. L /\ r >= j /\ l >= j /\ l # j /\ l > 1 /\ r + 1 = l
        BY <1>1, <3>0, <3>4
      <4> HIDE DEF l
      <4>2. m[s[l]].prev = s[r]
        BY <1>1, <3>0, <4>1
      <4> HIDE DEF r
      <4>3. /\ t[k] = s[l] /\ t[l] = s[r] /\ s[l] \in Address
            /\ s[l] # after /\ s[l] # i
        BY <1>0, <2>2, <3>0, <4>1
      <4>4. n[t[k]].prev = t[l]
        BY <1>5, <4>2, <4>3
      <4> QED BY <4>4 DEF l
    <3> QED BY <1>1, <3>0, <3>1, <3>2, <3>3, <3>4
  <2> HIDE DEF M
  <2> QED BY <1>4, <2>1, <2>3, <2>4, <2>5, <2>6, <2>7, LinksThread
<1>8. SameChildren(m, n, p)
  BY <1>5 DEF SameChildren
<1>9. Undisturbed(m, n, s, i)
  <2> SUFFICES ASSUME NEW c \in Address, c # i, \A k \in 1 .. L : c # s[k]
               PROVE  n[c].next = m[c].next /\ n[c].prev = m[c].prev
    BY DEF Undisturbed
  <2>1. c # after /\ c # a
    BY <1>1, <1>3 DEF after
  <2> QED BY <1>5, <2>1
<1> QED BY <1>5, <1>7, <1>8, <1>9 DEF Relinks

\* cJSON_InsertItemInArray of an item that is in no list, in front of the j-th
\* child: it becomes the j-th, every list stays linked both ways, and nothing
\* but links changes.
THEOREM Inserted ==
  ASSUME NEW m, NEW f, WellLinked(m, f), NEW p \in Address, NEW j \in 1 .. Len(f[p]),
         NEW i, Loose(f, i), NEW n, n = InsertBefore(m, p, f[p][j], i),
         NEW g, g = [f EXCEPT ![p] = InsertAt(f[p], j, i)]
  PROVE  WellLinked(n, g) /\ SameContents(m, n)
<1> DEFINE s == f[p]
           t == InsertAt(s, j, i)
           L == Len(s)
<1>1. m \in Memory /\ s \in Seq(Address) /\ Threaded(m, p, s) /\ Distinct(s)
  BY OneList
<1>2. i \in Address /\ \A q \in Address : \A k \in 1 .. Len(f[q]) : f[q][k] # i
  BY DEF Loose
<1>3. \A k \in 1 .. L : s[k] # i
  BY <1>2
<1>4. L \in Nat /\ j \in Nat /\ j >= 1 /\ j <= L
  <2>1. L \in Nat
    BY <1>1, LenProperties
  <2> QED BY <2>1
<1>5. /\ t \in Seq(Address) /\ Len(t) = L + 1
      /\ \A k \in 1 .. L + 1 :
           t[k] = IF k < j THEN s[k] ELSE IF k = j THEN i ELSE s[k - 1]
  <2>1. WithItem(s, j, i, t)
    BY <1>1, <1>2, InsertAtIs
  <2> QED BY <2>1 DEF WithItem
<1>6. Relinks(m, n, p, s, t, i)
  <2> HIDE DEF s, t, L
  <2>1. /\ L = Len(s) /\ j \in 1 .. L
        /\ n = InsertBefore(m, p, s[j], i) /\ t = InsertAt(s, j, i)
    BY DEF L, s, t
  <2> QED BY <1>1, <1>2, <1>3, <2>1, InsertThreads
<1>7. Distinct(t) /\ Among(t, s, i)
  <2> HIDE DEF s, t, L
  <2>0. L = Len(s)
    BY DEF L
  <2>1. ASSUME NEW k \in 1 .. Len(t)
        PROVE  /\ k < j => k \in 1 .. L /\ t[k] = s[k]
               /\ k = j => t[k] = i
               /\ k > j => k - 1 \in 1 .. L /\ t[k] = s[k - 1]
               /\ k \in Int /\ (k < j \/ k = j \/ k > j)
    <3>1. k \in 1 .. L + 1 /\ k \in Int
      BY <1>4, <1>5
    <3>2. (k < j => k \in 1 .. L) /\ (k > j => k - 1 \in 1 .. L /\ ~(k < j) /\ k # j)
      BY <1>4, <3>1
    <3>3. k < j \/ k = j \/ k > j
      BY <1>4, <3>1
    <3> QED BY <1>4, <1>5, <3>1, <3>2, <3>3
  <2>2. Among(t, s, i)
    BY <2>0, <2>1 DEF Among
  <2>3. ASSUME NEW k \in 1 .. Len(t), NEW l \in 1 .. Len(t), t[k] = t[l]
        PROVE  k = l
    <3>1. \A x, y \in 1 .. L : s[x] = s[y] => x = y
      BY <1>1, <2>0 DEF Distinct
    <3>2. CASE k < j
      BY <1>3, <1>4, <2>1, <2>3, <3>1, <3>2
    <3>3. CASE k = j
      BY <1>3, <1>4, <2>1, <2>3, <3>1, <3>3
    <3>4. CASE k > j
      BY <1>3, <1>4, <2>1, <2>3, <3>1, <3>4
    <3> QED BY <2>1, <3>2, <3>3, <3>4
  <2> QED BY <2>2, <2>3 DEF Distinct
<1>8. WellLinked(n, g)
  <2> HIDE DEF t, L
  <2>1. g = [f EXCEPT ![p] = t]
    BY DEF t
  <2>2. WellLinked(n, [f EXCEPT ![p] = t])
    BY <1>2, <1>5, <1>6, <1>7, Relinked
  <2> QED BY <2>1, <2>2
<1> QED BY <1>6, <1>8 DEF Relinks

-----------------------------------------------------------------------------
(* PutInPlace *)

\* The links of n, in which r has been put where i was, between a and b
PutLinks(m, p, i, r, a, b, head, n) ==
  /\ n \in Memory /\ SameContents(m, n)
  /\ \A c \in Address :
       /\ n[c].child = IF head = i /\ c = p THEN r ELSE m[c].child
       /\ n[c].next = IF c = i THEN Null
                      ELSE IF head # i /\ c = a THEN r
                      ELSE IF c = r THEN b ELSE m[c].next
       /\ n[c].prev = IF c = i THEN Null
                      ELSE IF head # i /\ b = Null /\ c = head THEN r
                      ELSE IF c = b THEN r
                      ELSE IF c = r THEN (IF head = i /\ a = i THEN r ELSE a)
                      ELSE m[c].prev

\* What cJSON_ReplaceItemViaPointer leaves in every item
LEMMA PutIs ==
  ASSUME NEW m \in Memory, NEW p \in Address, NEW i \in Address, NEW r \in Address,
         NEW a, a = m[i].prev, NEW b, b = m[i].next, NEW head, head = m[p].child,
         r # i, a # r, b # r, head # r,
         NEW n, n = PutInPlace(m, p, i, r)
  PROVE  PutLinks(m, p, i, r, a, b, head, n)
<1> DEFINE x == SetNext(m, r, b)
           y == SetPrev(x, r, a)
           z == SetPrev(y, b, r)
           o == SetPrev(z, r, IF a = i THEN r ELSE z[r].prev)
           u == SetNext(z, a, r)
           w == IF head = i THEN SetChild(o, p, r)
                ELSE IF b = Null THEN SetPrev(u, u[p].child, r) ELSE u
           v == SetNext(w, i, Null)
<1>1. /\ a \in Target /\ b \in Target /\ head \in Target /\ i \in Target
      /\ r \in Target /\ Null \in Target /\ r # Null
  BY NoLink DEF Memory
<1>2. n = SetPrev(v, i, Null)
  <2> DEFINE l == [m EXCEPT ![r].next = m[i].next, ![r].prev = m[i].prev]
             k == SetPrev(l, m[i].next, r)
             h == SetNext(k, m[i].prev, r)
             e == IF m[p].child = i
                  THEN [k EXCEPT ![r].prev = IF m[i].prev = i THEN r ELSE @,
                                 ![p].child = r]
                  ELSE IF m[i].next = Null THEN SetPrev(h, h[p].child, r) ELSE h
  <2>1. n = SetPrev(SetNext(e, i, Null), i, Null)
    BY DEF PutInPlace, Unlinked
  <2>2. l = y
    BY <1>1 DEF SetNext, SetPrev
  <2> HIDE DEF l, x, y
  <2>3. k = z
    BY <2>2
  <2>4. h = u
    BY <2>3
  <2>5. [k EXCEPT ![r].prev = IF m[i].prev = i THEN r ELSE @, ![p].child = r]
        = SetChild(o, p, r)
    <3>1. o = [z EXCEPT ![r].prev = IF a = i THEN r ELSE @]
      BY <1>1 DEF SetPrev
    <3> HIDE DEF o, z, k
    <3> QED BY <2>3, <3>1 DEF SetChild
  <2> HIDE DEF k, z, h, u, o
  <2>6. e = w
    BY <2>3, <2>4, <2>5
  <2> HIDE DEF e, w
  <2> QED BY <2>1, <2>6
<1>3. NextSet(m, x, r, b) /\ x \in Memory
  BY <1>1, SetNextIs
<1> HIDE DEF x
<1>4. PrevSet(x, y, r, a) /\ y \in Memory
  BY <1>1, <1>3, SetPrevIs
<1> HIDE DEF y
<1>5. PrevSet(y, z, b, r) /\ z \in Memory
  BY <1>1, <1>4, SetPrevIs
<1> HIDE DEF z
<1>6. /\ SameContents(m, z)
      /\ \A c \in Address :
           /\ z[c].child = m[c].child
           /\ z[c].next = IF c = r THEN b ELSE m[c].next
           /\ z[c].prev = IF c = b THEN r ELSE IF c = r THEN a ELSE m[c].prev
  <2>1. SameContents(m, z)
    BY <1>3, <1>4, <1>5 DEF NextSet, PrevSet, SameContents
  <2>2. ASSUME NEW c \in Address
        PROVE  /\ z[c].child = m[c].child
               /\ z[c].next = IF c = r THEN b ELSE m[c].next
               /\ z[c].prev = IF c = b THEN r ELSE IF c = r THEN a ELSE m[c].prev
    BY <1>3, <1>4, <1>5 DEF NextSet, PrevSet
  <2> QED BY <2>1, <2>2
<1>7. /\ w \in Memory /\ SameContents(m, w)
      /\ \A c \in Address :
           /\ w[c].child = IF head = i /\ c = p THEN r ELSE m[c].child
           /\ w[c].next = IF head # i /\ c = a THEN r
                          ELSE IF c = r THEN b ELSE m[c].next
           /\ w[c].prev = IF head # i /\ b = Null /\ c = head THEN r
                          ELSE IF c = b THEN r
                          ELSE IF c = r THEN (IF head = i /\ a = i THEN r ELSE a)
                          ELSE m[c].prev
  <2>1. CASE head = i
    <3> HIDE DEF w
    <3>1. w = SetChild(o, p, r)
      BY <2>1 DEF w
    <3>2. z[r].prev = a
      BY <1>6
    <3> DEFINE q == IF a = i THEN r ELSE z[r].prev
    <3>3. q = (IF a = i THEN r ELSE a) /\ q \in Target /\ o = SetPrev(z, r, q)
      BY <1>1, <3>2
    <3> HIDE DEF q, o
    <3>4. PrevSet(z, o, r, q) /\ o \in Memory
      BY <1>1, <1>5, <3>3, SetPrevIs
    <3>5. ChildSet(o, w, p, r) /\ w \in Memory
      BY <1>1, <3>1, <3>4, SetChildIs
    <3>6. SameContents(m, w)
      BY <1>6, <3>4, <3>5 DEF PrevSet, ChildSet, SameContents
    <3>7. ASSUME NEW c \in Address
          PROVE  /\ w[c].child = IF head = i /\ c = p THEN r ELSE m[c].child
                 /\ w[c].next = IF head # i /\ c = a THEN r
                                ELSE IF c = r THEN b ELSE m[c].next
                 /\ w[c].prev = IF head # i /\ b = Null /\ c = head THEN r
                                ELSE IF c = b THEN r
                                ELSE IF c = r THEN (IF head = i /\ a = i THEN r ELSE a)
                                ELSE m[c].prev
      BY <1>6, <2>1, <3>3, <3>4, <3>5 DEF PrevSet, ChildSet
    <3> QED BY <3>5, <3>6, <3>7
  <2>2. CASE head # i
    <3> HIDE DEF w, u
    <3>1. NextSet(z, u, a, r) /\ u \in Memory
      BY <1>1, <1>5, SetNextIs DEF u
    <3>2. u[p].child = head
      BY <1>6, <3>1 DEF NextSet
    <3>3. CASE b = Null
      <4>1. w = SetPrev(u, head, r)
        BY <2>2, <3>2, <3>3 DEF w
      <4>2. PrevSet(u, w, head, r) /\ w \in Memory
        BY <1>1, <3>1, <4>1, SetPrevIs
      <4>3. SameContents(m, w)
        BY <1>6, <3>1, <4>2 DEF PrevSet, NextSet, SameContents
      <4>4. ASSUME NEW c \in Address
            PROVE  /\ w[c].child = IF head = i /\ c = p THEN r ELSE m[c].child
                   /\ w[c].next = IF head # i /\ c = a THEN r
                                  ELSE IF c = r THEN b ELSE m[c].next
                   /\ w[c].prev = IF head # i /\ b = Null /\ c = head THEN r
                                  ELSE IF c = b THEN r
                                  ELSE IF c = r THEN (IF head = i /\ a = i THEN r ELSE a)
                                  ELSE m[c].prev
        BY <1>6, <2>2, <3>1, <3>3, <4>2 DEF PrevSet, NextSet
      <4> QED BY <4>2, <4>3, <4>4
    <3>4. CASE b # Null
      <4>1. w = u
        BY <2>2, <3>4 DEF w
      <4>2. SameContents(m, w)
        BY <1>6, <3>1, <4>1 DEF NextSet, SameContents
      <4>3. ASSUME NEW c \in Address
            PROVE  /\ w[c].child = IF head = i /\ c = p THEN r ELSE m[c].child
                   /\ w[c].next = IF head # i /\ c = a THEN r
                                  ELSE IF c = r THEN b ELSE m[c].next
                   /\ w[c].prev = IF head # i /\ b = Null /\ c = head THEN r
                                  ELSE IF c = b THEN r
                                  ELSE IF c = r THEN (IF head = i /\ a = i THEN r ELSE a)
                                  ELSE m[c].prev
        BY <1>6, <2>2, <3>1, <3>4, <4>1 DEF NextSet
      <4> QED BY <3>1, <4>1, <4>2, <4>3
    <3> QED BY <3>3, <3>4
  <2> QED BY <2>1, <2>2
<1> HIDE DEF w
<1>8. NextSet(w, v, i, Null) /\ v \in Memory
  BY <1>1, <1>7, SetNextIs
<1> HIDE DEF v
<1>9. PrevSet(v, n, i, Null)
  BY <1>1, <1>2, <1>8, SetPrevIs
<1>10. n \in Memory /\ SameContents(m, n)
  BY <1>7, <1>8, <1>9 DEF NextSet, PrevSet, SameContents
<1>11. ASSUME NEW c \in Address
       PROVE  /\ n[c].child = IF head = i /\ c = p THEN r ELSE m[c].child
              /\ n[c].next = IF c = i THEN Null
                             ELSE IF head # i /\ c = a THEN r
                             ELSE IF c = r THEN b ELSE m[c].next
              /\ n[c].prev = IF c = i THEN Null
                             ELSE IF head # i /\ b = Null /\ c = head THEN r
                             ELSE IF c = b THEN r
                             ELSE IF c = r THEN (IF head = i /\ a = i THEN r ELSE a)
                             ELSE m[c].prev
  BY <1>7, <1>8, <1>9 DEF NextSet, PrevSet
<1> QED BY <1>10, <1>11 DEF PutLinks

\* The new item is between the neighbours of the old one.
LEMMA PutThreads ==
  ASSUME NEW m \in Memory, NEW p \in Address, NEW s \in Seq(Address), Threaded(m, p, s),
         NEW L, L = Len(s), Distinct(s), NEW j \in 1 .. L, NEW i, i = s[j],
         NEW r \in Address, \A k \in 1 .. L : s[k] # r,
         NEW n, n = PutInPlace(m, p, i, r), NEW t, t = ReplaceAt(s, j, r)
  PROVE  Relinks(m, n, p, s, t, r) /\ n[i].next = Null /\ n[i].prev = Null
<1> DEFINE a == m[i].prev
           b == m[i].next
           head == m[p].child
<1>1. /\ L \in Nat /\ L > 0 /\ j \in Nat /\ j >= 1 /\ j <= L
      /\ \A k \in 1 .. L : s[k] \in Address
      /\ m[p].child = s[1] /\ m[s[1]].prev = s[L] /\ m[s[L]].next = Null
      /\ \A k \in 1 .. L : k < L => m[s[k]].next = s[k + 1]
      /\ \A k \in 1 .. L : k > 1 => m[s[k]].prev = s[k - 1]
  <2>1. L \in Nat
    BY LenProperties
  <2>2. L > 0 /\ j \in Nat /\ j >= 1 /\ j <= L
    BY <2>1
  <2>3. Chain(m, p, s, L)
    BY ThreadedLinks
  <2> QED BY <2>2, <2>3 DEF Chain
<1>2. \A k, l \in 1 .. L : s[k] = s[l] => k = l
  BY DEF Distinct
<1>3. /\ i \in Address /\ head = s[1] /\ (head = i <=> j = 1)
      /\ (j > 1 => j - 1 \in 1 .. L /\ a = s[j - 1]) /\ (j = 1 => a = s[L])
      /\ (j < L => j + 1 \in 1 .. L /\ b = s[j + 1]) /\ (j = L => b = Null)
      /\ 1 \in 1 .. L /\ L \in 1 .. L
  BY <1>1, <1>2
<1>4. /\ t \in Seq(Address) /\ Len(t) = L
      /\ t[j] = r /\ \A k \in 1 .. L : k # j => t[k] = s[k]
  <2>1. /\ t \in Seq(Address) /\ Len(t) = L
        /\ \A k \in 1 .. L : t[k] = IF k = j THEN r ELSE s[k]
    <3>1. WithOther(s, j, r, t)
      BY ReplaceAtIs
    <3> QED BY <3>1 DEF WithOther
  <2> QED BY <2>1
<1>5. Null \notin Address
  BY NoLink
<1>6. r # i /\ a # r /\ b # r /\ head # r
  <2>1. r # i /\ head # r
    BY <1>3
  <2>2. a # r
    BY <1>1, <1>3
  <2>3. b # r
    BY <1>1, <1>3, <1>5
  <2> QED BY <2>1, <2>2, <2>3
<1>7. /\ n \in Memory /\ SameContents(m, n)
      /\ \A c \in Address :
           /\ n[c].child = IF head = i /\ c = p THEN r ELSE m[c].child
           /\ n[c].next = IF c = i THEN Null
                          ELSE IF head # i /\ c = a THEN r
                          ELSE IF c = r THEN b ELSE m[c].next
           /\ n[c].prev = IF c = i THEN Null
                          ELSE IF head # i /\ b = Null /\ c = head THEN r
                          ELSE IF c = b THEN r
                          ELSE IF c = r THEN (IF head = i /\ a = i THEN r ELSE a)
                          ELSE m[c].prev
  <2>1. a = m[i].prev /\ b = m[i].next /\ head = m[p].child
    OBVIOUS
  <2> HIDE DEF a, b, head
  <2>2. PutLinks(m, p, i, r, a, b, head, n)
    BY <1>3, <1>6, <2>1, PutIs
  <2> QED BY <2>2 DEF PutLinks
<1> HIDE DEF a, b, head
<1>0. ASSUME NEW k \in 1 .. L
      PROVE  /\ s[k] \in Address /\ s[k] # r
             /\ k # j => s[k] # i
             /\ k # 1 => s[k] # head
             /\ j > 1 /\ k # j - 1 => s[k] # a
             /\ k # j + 1 => s[k] # b
  <2>1. s[k] \in Address /\ s[k] # Null /\ s[k] # r
    BY <1>1, <1>5
  <2>2. (k # j => s[k] # i) /\ (k # 1 => s[k] # head)
    BY <1>2, <1>3
  <2>3. j > 1 /\ k # j - 1 => s[k] # a
    BY <1>2, <1>3
  <2>4. k # j + 1 => s[k] # b
    <3>1. CASE j < L
      BY <1>2, <1>3, <3>1
    <3>2. CASE j = L
      BY <1>3, <2>1, <3>2
    <3> QED BY <1>1, <3>1, <3>2
  <2> QED BY <2>1, <2>2, <2>3, <2>4
<1>8. Threaded(n, p, t)
  <2>1. n[p].child = t[1]
    <3>1. CASE j = 1
      BY <1>3, <1>4, <1>7, <3>1
    <3>2. CASE j > 1
      BY <1>1, <1>3, <1>4, <1>7, <3>2
    <3> QED BY <1>1, <3>1, <3>2
  <2>2. n[t[1]].prev = t[L]
    <3>1. CASE j = 1 /\ L = 1
      <4>1. t[1] = r /\ t[L] = r /\ a = i /\ head = i
        BY <1>3, <1>4, <3>1
      <4> QED BY <1>6, <1>7, <4>1
    <3>2. CASE j = 1 /\ L > 1
      <4>1. t[1] = r /\ t[L] = a /\ a # i /\ head = i
        BY <1>0, <1>1, <1>3, <1>4, <3>2
      <4> QED BY <1>6, <1>7, <4>1
    <3>3. CASE j > 1 /\ j = L
      <4>1. t[1] = head /\ t[L] = r /\ b = Null /\ head # i /\ head \in Address
        BY <1>1, <1>3, <1>4, <3>3
      <4> QED BY <1>7, <4>1
    <3>4. CASE j > 1 /\ j < L
      <4>1. 1 # j /\ 1 # j + 1 /\ L # j
        BY <1>1, <3>4
      <4>2. t[1] = s[1] /\ t[L] = s[L] /\ s[1] # i /\ s[1] # b /\ s[1] # r
        BY <1>0, <1>3, <1>4, <4>1
      <4>3. b # Null
        BY <1>1, <1>3, <1>5, <3>4
      <4> QED BY <1>1, <1>3, <1>7, <4>2, <4>3
    <3> QED BY <1>1, <3>1, <3>2, <3>3, <3>4
  <2>3. n[t[L]].next = Null
    <3>1. CASE j = L
      <4>1. t[L] = r /\ b = Null
        BY <1>3, <1>4, <3>1
      <4> QED BY <1>6, <1>7, <4>1
    <3>2. CASE j < L
      <4>1. L # j /\ L # j - 1
        BY <1>1, <3>2
      <4>2. t[L] = s[L] /\ s[L] \in Address /\ s[L] # i /\ s[L] # r
        BY <1>0, <1>3, <1>4, <4>1
      <4>3. head # i => s[L] # a
        <5>1. head # i => j > 1
          BY <1>1, <1>3
        <5> QED BY <1>0, <1>3, <4>1, <5>1
      <4> QED BY <1>1, <1>7, <4>2, <4>3
    <3> QED BY <1>1, <3>1, <3>2
  <2>4. ASSUME NEW k \in 1 .. L, k < L
        PROVE  n[t[k]].next = t[k + 1]
    <3>0. k \in Nat /\ k >= 1 /\ k + 1 \in 1 .. L
      BY <1>1, <2>4
    <3>1. CASE k = j
      <4>1. k + 1 # j /\ j < L
        BY <1>1, <2>4, <3>0, <3>1
      <4>2. t[k] = r /\ t[k + 1] = s[k + 1] /\ b = s[k + 1]
        BY <1>3, <1>4, <3>0, <3>1, <4>1
      <4> QED BY <1>6, <1>7, <4>2
    <3>2. CASE k + 1 = j
      <4>1. k # j /\ k = j - 1 /\ j > 1
        BY <1>1, <3>0, <3>2
      <4>2. t[k] = a /\ t[k + 1] = r /\ head # i /\ a \in Address /\ a # i
        <5>1. t[k] = s[k] /\ a = s[k] /\ head # i
          BY <1>1, <1>3, <1>4, <4>1
        <5> QED BY <1>0, <1>4, <3>2, <4>1, <5>1
      <4> QED BY <1>7, <4>2
    <3>3. CASE k # j /\ k + 1 # j
      <4>1. t[k] = s[k] /\ t[k + 1] = s[k + 1] /\ s[k] \in Address /\ s[k] # r /\ s[k] # i
        BY <1>0, <1>4, <3>0, <3>3
      <4>2. head # i => s[k] # a
        <5>1. (head # i => j > 1) /\ k # j - 1
          BY <1>1, <1>3, <3>0, <3>3
        <5> QED BY <1>0, <5>1
      <4> QED BY <1>1, <1>7, <2>4, <4>1, <4>2
    <3> QED BY <3>1, <3>2, <3>3
  <2>5. ASSUME NEW k \in 1 .. L, k > 1
        PROVE  n[t[k]].prev = t[k - 1]
    <3>0. k \in Nat /\ k <= L /\ k - 1 \in 1 .. L /\ k # 1
      BY <1>1, <2>5
    <3>1. CASE k = j
      <4>1. k - 1 # j /\ j > 1 /\ head # i /\ a = s[k - 1]
        BY <1>1, <1>3, <2>5, <3>0, <3>1
      <4>2. t[k] = r /\ t[k - 1] = s[k - 1]
        BY <1>4, <3>0, <3>1, <4>1
      <4> QED BY <1>6, <1>7, <4>1, <4>2
    <3>2. CASE k = j + 1
      <4>1. k # j /\ k - 1 = j /\ j < L
        BY <1>1, <3>0, <3>2
      <4>2. t[k] = b /\ t[k - 1] = r /\ b \in Address /\ b # i /\ b # Null
        <5>1. t[k] = s[k] /\ b = s[k]
          BY <1>3, <1>4, <3>2, <4>1
        <5> QED BY <1>0, <1>4, <1>5, <4>1, <5>1
      <4> QED BY <1>7, <4>2
    <3>3. CASE k # j /\ k # j + 1
      <4>1. k - 1 # j
        BY <1>1, <3>0, <3>3
      <4>2. /\ t[k] = s[k] /\ t[k - 1] = s[k - 1] /\ s[k] \in Address
            /\ s[k] # r /\ s[k] # i /\ s[k] # head /\ s[k] # b
        BY <1>0, <1>4, <3>0, <3>3, <4>1
      <4> QED BY <1>1, <1>7, <2>5, <4>2
    <3> QED BY <3>1, <3>2, <3>3
  <2> QED BY <1>1, <1>4, <2>1, <2>2, <2>3, <2>4, <2>5, LinksThread
<1>9. SameChildren(m, n, p)
  BY <1>7 DEF SameChildren
<1>10. Undisturbed(m, n, s, r)
  <2> SUFFICES ASSUME NEW c \in Address, c # r, \A k \in 1 .. L : c # s[k]
               PROVE  n[c].next = m[c].next /\ n[c].prev = m[c].prev
    BY DEF Undisturbed
  <2>1. c # i /\ c # head /\ c # a /\ c # b
    BY <1>1, <1>3, <1>5
  <2> QED BY <1>7, <2>1
<1>11. n[i].next = Null /\ n[i].prev = Null
  BY <1>3, <1>7
<1> QED BY <1>7, <1>8, <1>9, <1>10, <1>11 DEF Relinks

\* cJSON_ReplaceItemViaPointer of the j-th child, up to the deletion of the
\* old one: the new one is the j-th child, every list stays linked both ways,
\* nothing but links changes, and the old one is in no list and points
\* nowhere, so that cJSON_Delete, which follows next, deletes no sibling.
THEOREM Replaced ==
  ASSUME NEW m, NEW f, WellLinked(m, f), NEW p \in Address, NEW j \in 1 .. Len(f[p]),
         NEW i, i = f[p][j], NEW r, Loose(f, r), NEW n, n = PutInPlace(m, p, i, r),
         NEW g, g = [f EXCEPT ![p] = ReplaceAt(f[p], j, r)]
  PROVE  /\ WellLinked(n, g) /\ SameContents(m, n)
         /\ Loose(g, i) /\ n[i].next = Null /\ n[i].prev = Null
<1> DEFINE s == f[p]
           t == ReplaceAt(s, j, r)
           L == Len(s)
<1>1. m \in Memory /\ s \in Seq(Address) /\ Threaded(m, p, s) /\ Distinct(s)
  BY OneList
<1>2. r \in Address /\ \A q \in Address : \A k \in 1 .. Len(f[q]) : f[q][k] # r
  BY DEF Loose
<1>3. i \in Address /\ i # r /\ \A k \in 1 .. L : s[k] # r /\ (s[k] = i => k = j)
  <2>1. i \in Address
    BY <1>1, ElementOfSeq
  <2> QED BY <1>1, <1>2, <2>1 DEF Distinct
<1>4. /\ t \in Seq(Address) /\ Len(t) = L
      /\ \A k \in 1 .. L : t[k] = IF k = j THEN r ELSE s[k]
  <2>1. WithOther(s, j, r, t)
    BY <1>1, <1>2, ReplaceAtIs
  <2> QED BY <2>1 DEF WithOther
<1>5. Relinks(m, n, p, s, t, r) /\ n[i].next = Null /\ n[i].prev = Null
  <2> HIDE DEF s, t, L
  <2>1. L = Len(s) /\ j \in 1 .. L /\ i = s[j] /\ t = ReplaceAt(s, j, r)
    BY DEF L, s, t
  <2>2. r \in Address /\ \A k \in 1 .. L : s[k] # r
    BY <1>2, <1>3
  <2> QED BY <1>1, <2>1, <2>2, PutThreads
<1>6. Distinct(t) /\ Among(t, s, r)
  <2> HIDE DEF s, t, L
  <2>0. L = Len(s)
    BY DEF L
  <2>1. Distinct(t)
    BY <1>1, <1>3, <1>4, <2>0 DEF Distinct
  <2>2. Among(t, s, r)
    BY <1>4, <2>0 DEF Among
  <2> QED BY <2>1, <2>2
<1>7. WellLinked(n, g)
  <2> HIDE DEF t, L
  <2>1. g = [f EXCEPT ![p] = t]
    BY DEF t
  <2>2. WellLinked(n, [f EXCEPT ![p] = t])
    BY <1>2, <1>4, <1>5, <1>6, Relinked
  <2> QED BY <2>1, <2>2
<1>8. Loose(g, i)
  <2>1. \A q \in Address : q # p => \A k \in 1 .. Len(f[q]) : f[q][k] # i
    BY DEF WellLinked, OwnedOnce
  <2>2. g[p] = t /\ \A q \in Address : q # p => g[q] = f[q]
    BY DEF WellLinked
  <2> HIDE DEF s, t, L
  <2>3. \A k \in 1 .. Len(t) : t[k] # i
    BY <1>3, <1>4
  <2> SUFFICES ASSUME NEW q \in Address, NEW k \in 1 .. Len(g[q])
               PROVE  g[q][k] # i
    BY <1>3 DEF Loose
  <2>4. CASE q = p
    BY <2>2, <2>3, <2>4
  <2>5. CASE q # p
    BY <2>1, <2>2, <2>5
  <2> QED BY <2>4, <2>5
<1> QED BY <1>5, <1>7, <1>8 DEF Relinks

-----------------------------------------------------------------------------
(* The first loop of parse_string                                          *)

Bytes == 0 .. 255

\* K is the bytes of s the loop skips: not the first one, and one behind another
\* if and only if that one is a backslash and not skipped.
Skips(s, K) ==
  /\ K \subseteq 1 .. Len(s)
  /\ 1 \notin K
  /\ \A i \in 1 .. Len(s) - 1 : (i + 1 \in K) <=> (s[i] = Backslash /\ i \notin K)

\* The function in Skipped is there, and it is what the loop does.
LEMMA SkippedIs ==
  ASSUME NEW s \in Seq(Bytes)
  PROVE  Skips(s, Skipped(s))
<1> DEFINE n == Len(s)
           step == [i \in Nat |-> [x \in BOOLEAN |-> s[i + 1] = Backslash /\ ~x]]
           Is(h) == h = [i \in 1 .. n |->
                           IF i = 1 THEN FALSE ELSE s[i - 1] = Backslash /\ ~h[i - 1]]
           b == CHOOSE h : Is(h)
<1>1. n \in Nat
  OBVIOUS
<1>2. step \in [Nat -> [BOOLEAN -> BOOLEAN]]
  OBVIOUS
<1>3. PICK g : Iterates(g, BOOLEAN, FALSE, step, n)
  <2> HIDE DEF step, n
  <2> QED BY <1>1, <1>2, Iteration
<1> DEFINE f == [i \in 1 .. n |-> g[i - 1]]
<1>4. ASSUME NEW i \in 1 .. n
      PROVE  f[i] = IF i = 1 THEN FALSE ELSE s[i - 1] = Backslash /\ ~f[i - 1]
  <2>1. CASE i = 1
    BY <2>1, <1>3 DEF Iterates
  <2>2. CASE i # 1
    <3>1. /\ i - 2 \in 0 .. n - 1 /\ i - 2 \in Nat /\ i - 2 \in 0 .. n
          /\ (i - 2) + 1 = i - 1 /\ (i - 1) - 1 = i - 2 /\ i - 1 \in 1 .. n
      BY <2>2, <1>1
    <3>2. g[i - 1] = step[i - 2][g[i - 2]] /\ g[i - 2] \in BOOLEAN
      <4> HIDE DEF step, n
      <4> QED BY <1>3, <3>1 DEF Iterates
    <3>3. g[i - 1] = (s[i - 1] = Backslash /\ ~g[i - 2])
      BY <3>1, <3>2
    <3>4. f[i] = g[i - 1] /\ f[i - 1] = g[i - 2]
      BY <3>1
    <3> QED BY <2>2, <3>3, <3>4
  <2> QED BY <2>1, <2>2
<1>5. Is(f)
  <2> DEFINE h == [i \in 1 .. n |->
                     IF i = 1 THEN FALSE ELSE s[i - 1] = Backslash /\ ~f[i - 1]]
  <2>1. f = [i \in 1 .. n |-> f[i]]
    OBVIOUS
  <2> HIDE DEF f, n
  <2>2. f = h
    BY <1>4, <2>1
  <2> QED BY <2>2
<1>6. Is(b)
  <2> HIDE DEF f, Is
  <2> QED BY <1>5
<1>7. Skipped(s) = {i \in 1 .. n : b[i]}
  BY DEF Skipped
<1>8. ASSUME NEW i \in 1 .. n
      PROVE  b[i] = IF i = 1 THEN FALSE ELSE s[i - 1] = Backslash /\ ~b[i - 1]
  <2> HIDE DEF b, n
  <2> QED BY <1>6
<1> HIDE DEF b, Is, f, step
<1>9. 1 \notin Skipped(s)
  BY <1>7, <1>8
<1>10. ASSUME NEW i \in 1 .. n - 1
       PROVE  (i + 1 \in Skipped(s)) <=> (s[i] = Backslash /\ i \notin Skipped(s))
  <2>1. i \in 1 .. n /\ i + 1 \in 1 .. n /\ i + 1 # 1 /\ (i + 1) - 1 = i
    BY <1>1
  <2>2. b[i + 1] = (s[i] = Backslash /\ ~b[i])
    <3>1. b[i + 1] = IF i + 1 = 1 THEN FALSE
                     ELSE s[(i + 1) - 1] = Backslash /\ ~b[(i + 1) - 1]
      BY <1>8, <2>1
    <3> QED BY <2>1, <3>1
  <2>3. (i \in Skipped(s)) <=> b[i]
    BY <1>7, <2>1
  <2>4. (i + 1 \in Skipped(s)) <=> b[i + 1]
    BY <1>7, <2>1
  <2> QED BY <2>2, <2>3, <2>4
<1>11. Skipped(s) \subseteq 1 .. n
  BY <1>7
<1> QED BY <1>9, <1>10, <1>11 DEF Skips

\* The string ends at the first quote that is not skipped.
LEMMA ClosingIs ==
  ASSUME NEW s \in Seq(Bytes), Closings(s) # {}
  PROVE  /\ Closing(s) \in Closings(s) /\ Closing(s) \in 1 .. Len(s)
         /\ \A j \in Closings(s) : Closing(s) <= j
<1>1. Closings(s) \subseteq 1 .. Len(s)
  BY DEF Closings
<1>2. \E x \in Closings(s) : \A y \in Closings(s) : x <= y
  <2>1. Closings(s) \subseteq Nat
    BY <1>1
  <2> QED BY <2>1, Least
<1>3. /\ Closing(s) \in Closings(s)
      /\ \A j \in Closings(s) : Closing(s) <= j
  BY <1>2 DEF Closing
<1> QED BY <1>1, <1>3

-----------------------------------------------------------------------------
(* One byte or one escape                                                  *)

\* A fact instead of the definition, so that the provers do not multiply it out
LEMMA TenBitsIs == TenBits \in Nat /\ TenBits > 1023 /\ TenBits < 1025
  BY DEF TenBits

Nibbles == 0 .. 15
Short(n) == n \in Nat /\ n < 64 * TenBits
FromDigits(a, b, c, e) == 16 * (16 * (16 * a + b) + c) + e

\* Four digits make less than 64 times 1024.
LEMMA FourDigits ==
  ASSUME NEW a \in Nibbles, NEW b \in Nibbles, NEW c \in Nibbles, NEW e \in Nibbles
  PROVE  Short(FromDigits(a, b, c, e))
  BY TenBitsIs DEF FromDigits, Nibbles, Short

\* Four digits make a number of 16 bits.
LEMMA Hex4Is ==
  ASSUME NEW s \in Seq(Bytes), NEW i \in Nat, 0 < i, i + 3 <= Len(s)
  PROVE  Hex4(s, i) \in Nat /\ Hex4(s, i) < 64 * TenBits
<1> DEFINE d == [j \in 1 .. 4 |-> Digit(s[i + j - 1])]
<1>1. ASSUME NEW c \in Bytes PROVE Digit(c) \in 0 .. 15 \/ Digit(c) = Invalid
  BY DEF Bytes, Digit
<1>2. ASSUME NEW j \in 1 .. 4 PROVE d[j] \in 0 .. 15 \/ d[j] = Invalid
  <2>1. i + j - 1 \in 1 .. Len(s)
    OBVIOUS
  <2>2. s[i + j - 1] \in Bytes
    BY <2>1
  <2> QED BY <1>1, <2>2
<1>3. Hex4(s, i) = IF Invalid \in Range(d) THEN 0
                   ELSE 16 * (16 * (16 * d[1] + d[2]) + d[3]) + d[4]
  BY DEF Hex4
<1>4. CASE Invalid \in Range(d)
  BY <1>3, <1>4, TenBitsIs
<1>5. CASE Invalid \notin Range(d)
  <2>1. \A j \in 1 .. 4 : d[j] # Invalid
    BY <1>5 DEF Range
  <2> HIDE DEF d
  <2>2. d[1] \in Nibbles /\ d[2] \in Nibbles /\ d[3] \in Nibbles /\ d[4] \in Nibbles
    BY <1>2, <2>1 DEF Nibbles
  <2>3. Hex4(s, i) = 16 * (16 * (16 * d[1] + d[2]) + d[3]) + d[4]
    BY <1>3, <1>5
  <2>4. Hex4(s, i) = FromDigits(d[1], d[2], d[3], d[4])
    BY <2>3 DEF FromDigits
  <2>5. Short(FromDigits(d[1], d[2], d[3], d[4]))
    BY <2>2, FourDigits
  <2> QED BY <2>4, <2>5 DEF Short
<1> HIDE DEF d
<1> QED BY <1>4, <1>5

\* A code point of 16 bits is written in three bytes at most, any other in four.
LEMMA Utf8Is ==
  ASSUME NEW c \in Nat, c < 1088 * TenBits
  PROVE  /\ Utf8(c) \in Seq(Bytes) /\ Len(Utf8(c)) <= 4
         /\ c < 64 * TenBits => Len(Utf8(c)) <= 3
<1>1. /\ Following(c, 1) \in Bytes /\ Following(c, 64) \in Bytes
      /\ Following(c, 4096) \in Bytes
  BY DEF Bytes, Following
<1>2. CASE c < 128
  <2>1. Utf8(c) = <<c>> /\ c \in Bytes
    BY <1>2 DEF Utf8, Bytes
  <2> QED BY <2>1
<1>3. CASE ~(c < 128) /\ c < 2048
  <2>1. 192 + c \div 64 \in Bytes
    BY <1>3 DEF Bytes
  <2>2. Utf8(c) = <<192 + c \div 64, Following(c, 1)>>
    BY <1>3, TenBitsIs DEF Utf8
  <2> QED BY <1>1, <2>1, <2>2
<1>4. CASE ~(c < 2048) /\ c < 64 * TenBits
  <2>1. 224 + c \div 4096 \in Bytes
    BY <1>4, TenBitsIs DEF Bytes
  <2>2. Utf8(c) = <<224 + c \div 4096, Following(c, 64), Following(c, 1)>>
    BY <1>4, TenBitsIs DEF Utf8
  <2> QED BY <1>1, <2>1, <2>2
<1>5. CASE ~(c < 64 * TenBits)
  <2>1. 240 + c \div (256 * TenBits) \in Bytes
    BY <1>5, TenBitsIs DEF Bytes
  <2>2. Utf8(c) = <<240 + c \div (256 * TenBits), Following(c, 4096), Following(c, 64),
                    Following(c, 1)>>
    BY <1>5, TenBitsIs DEF Utf8
  <2> QED BY <1>1, <1>5, <2>1, <2>2
<1> QED BY <1>2, <1>3, <1>4, <1>5

\* w may be what is written at i: it ends where the string does at the latest, or
\* takes the closing quote with it.
Taken(s, i, end, w) ==
  /\ w.length \in Nat /\ w.bytes \in Seq(Bytes)
  /\ \/ w.length = 1 /\ Len(w.bytes) = 1 /\ s[i] # Backslash
     \/ w.length = 2 /\ Len(w.bytes) = 1
     \/ w.length = 6 /\ Len(w.bytes) <= 3 /\ i + 6 <= end
     \/ w.length = 12 /\ Len(w.bytes) <= 4 /\ i + 12 <= end

\* A \u literal that is not refused takes 6 bytes or 12, and the string goes on.
LEMMA LiteralTaken ==
  ASSUME NEW s \in Seq(Bytes), NEW end \in 1 .. Len(s), NEW i \in 1 .. end - 1,
         NEW w, w = Literal(s, i, end)
  PROVE  w = Wrong \/ Taken(s, i, end, w)
<1> DEFINE first == Hex4(s, i + 2)
           second == Hex4(s, i + 8)
           code == 64 * TenBits + TenBits * (first % TenBits) + (second % TenBits)
<1>1. \/ w = Wrong
      \/ w = Escape(6, Utf8(first)) /\ ~(end - i < 6)
      \/ w = Escape(12, Utf8(code)) /\ ~(end - i < 12)
  <2>1. w = IF end - i < 6 \/ first \in LowHalf THEN Wrong
            ELSE IF first \notin HighHalf THEN Escape(6, Utf8(first))
            ELSE IF end - i < 12 \/ s[i + 6] # Backslash \/ s[i + 7] # SmallU
                    \/ second \notin LowHalf
            THEN Wrong
            ELSE Escape(12, Utf8(code))
    BY DEF Literal
  <2> HIDE DEF first, second, code
  <2> QED BY <2>1, Zenon
<1>2. ASSUME ~(end - i < 6) PROVE first \in Nat /\ first < 64 * TenBits /\ i + 6 <= end
  <2> HIDE DEF first, second, code
  <2>1. i + 2 \in Nat /\ 0 < i + 2 /\ (i + 2) + 3 <= Len(s) /\ i + 6 <= end
    BY <1>2
  <2> QED BY <2>1, Hex4Is DEF first
<1>3. ASSUME ~(end - i < 12)
      PROVE  code \in Nat /\ code < 1088 * TenBits /\ i + 12 <= end
  <2> HIDE DEF first, second
  <2>1. /\ i + 8 \in Nat /\ 0 < i + 8 /\ (i + 8) + 3 <= Len(s) /\ i + 12 <= end
        /\ ~(end - i < 6)
    BY <1>3
  <2>2. /\ first \in Nat /\ first < 64 * TenBits
        /\ second \in Nat /\ second < 64 * TenBits
    BY <1>2, <2>1, Hex4Is DEF second
  <2> QED BY <2>1, <2>2, TenBitsIs
<1> HIDE DEF first, second, code
<1>4. CASE w = Escape(6, Utf8(first)) /\ ~(end - i < 6)
  <2>0. first \in Nat /\ first < 64 * TenBits /\ first < 1088 * TenBits /\ i + 6 <= end
    BY <1>2, <1>4, TenBitsIs
  <2>1. Utf8(first) \in Seq(Bytes) /\ Len(Utf8(first)) <= 3
    BY <2>0, Utf8Is
  <2>2. w.length = 6 /\ w.bytes = Utf8(first)
    BY <1>4 DEF Escape
  <2> QED BY <2>0, <2>1, <2>2 DEF Taken
<1>5. CASE w = Escape(12, Utf8(code)) /\ ~(end - i < 12)
  <2>1. Utf8(code) \in Seq(Bytes) /\ Len(Utf8(code)) <= 4
    BY <1>3, <1>5, Utf8Is, TenBitsIs
  <2>2. w.length = 12 /\ w.bytes = Utf8(code)
    BY <1>5 DEF Escape
  <2> QED BY <1>3, <1>5, <2>1, <2>2 DEF Taken
<1> QED BY <1>1, <1>4, <1>5

\* The seven escapes are bytes.
LEMMA EscapesAre ==
  \A f \in Escapes : f[1] \in Bytes /\ f[2] \in Bytes
<1>1. SUFFICES ASSUME NEW f \in Escapes PROVE f[1] \in Bytes /\ f[2] \in Bytes
  OBVIOUS
<1>2. \/ f = <<98, 8>> \/ f = <<102, 12>> \/ f = <<110, 10>> \/ f = <<114, 13>>
      \/ f = <<116, 9>> \/ f = <<34, 34>> \/ f = <<92, 92>>
  BY DEF Escapes, Quote, Backslash
<1> QED BY <1>2 DEF Bytes

\* ... and so every byte and every escape
LEMMA WrittenTaken ==
  ASSUME NEW s \in Seq(Bytes), NEW end \in 1 .. Len(s), NEW i \in 1 .. end - 1,
         NEW w, w = WrittenAt(s, i, end)
  PROVE  w = Wrong \/ Taken(s, i, end, w)
<1>1. s[i] \in Bytes /\ s[i + 1] \in Bytes
  <2>1. i \in 1 .. Len(s) /\ i + 1 \in 1 .. Len(s)
    OBVIOUS
  <2> QED BY <2>1
<1>2. ASSUME NEW b \in Bytes, NEW k \in {1, 2}
      PROVE  /\ Escape(k, <<b>>).length = k /\ Escape(k, <<b>>).bytes \in Seq(Bytes)
             /\ Len(Escape(k, <<b>>).bytes) = 1
  BY DEF Escape
<1>3. CASE s[i] # Backslash
  <2>1. w = Escape(1, <<s[i]>>)
    BY <1>3 DEF WrittenAt
  <2> QED BY <1>1, <1>2, <1>3, <2>1 DEF Taken
<1>4. CASE s[i] = Backslash /\ s[i + 1] = SmallU
  <2>1. w = Literal(s, i, end)
    BY <1>4 DEF WrittenAt
  <2> QED BY <2>1, LiteralTaken
<1>5. CASE s[i] = Backslash /\ s[i + 1] # SmallU /\ s[i + 1] = 47
  <2>1. w = Escape(2, <<47>>) /\ 47 \in Bytes
    BY <1>5 DEF WrittenAt, Bytes
  <2> QED BY <1>2, <2>1 DEF Taken
<1>6. CASE s[i] = Backslash /\ s[i + 1] # SmallU /\ s[i + 1] # 47
  <2> DEFINE stands == {e[2] : e \in {f \in Escapes : f[1] = s[i + 1]}}
             b == CHOOSE b \in stands : TRUE
  <2>1. w = IF stands = {} THEN Wrong ELSE Escape(2, <<b>>)
    BY <1>6 DEF WrittenAt
  <2>2. stands \subseteq Bytes
    BY EscapesAre
  <2>3. CASE stands # {}
    <3>1. b \in Bytes
      <4>1. b \in stands
        BY <2>3
      <4> QED BY <2>2, <4>1
    <3> HIDE DEF b, stands
    <3> QED BY <1>2, <2>1, <2>3, <3>1 DEF Taken
  <2> HIDE DEF b, stands
  <2> QED BY <2>1, <2>3
<1> QED BY <1>3, <1>4, <1>5, <1>6

-----------------------------------------------------------------------------
(* The second loop of parse_string                                         *)

\* What the loop keeps: input_pointer, the output and whether all went well
Readings == [at : Nat \ {0}, bytes : Seq(Bytes), ok : BOOLEAN]

\* r2 is what a round makes of r: nothing when the loop is over or has failed, a
\* failure, or one byte or escape more.
Goes(s, r, r2) ==
  \/ r2 = r /\ (~r.ok \/ r.at >= Closing(s))
  \/ r.ok /\ r.at < Closing(s) /\ r2.at = r.at /\ r2.bytes = r.bytes /\ ~r2.ok
  \/ \E w : /\ r.ok /\ r.at < Closing(s) /\ w = WrittenAt(s, r.at, Closing(s))
            /\ Taken(s, r.at, Closing(s), w)
            /\ r2.at = r.at + w.length /\ r2.bytes = r.bytes \o w.bytes /\ r2.ok

\* A round of the loop is one of the three.
LEMMA RoundGoes ==
  ASSUME NEW s \in Seq(Bytes), Closings(s) # {}, NEW r \in Readings
  PROVE  Round(s, r) \in Readings /\ Goes(s, r, Round(s, r))
<1> DEFINE end == Closing(s)
           w == WrittenAt(s, r.at, end)
           more == [r EXCEPT !.at = @ + w.length, !.bytes = @ \o w.bytes]
           failed == [r EXCEPT !.ok = FALSE]
<1>1. end \in 1 .. Len(s)
  BY ClosingIs
<1>2. Round(s, r) = IF ~r.ok \/ r.at >= end THEN r
                    ELSE IF w = Wrong THEN failed ELSE more
  BY DEF Round
<1>3. r.at \in Nat \ {0} /\ r.bytes \in Seq(Bytes) /\ r.ok \in BOOLEAN
  BY DEF Readings
<1>4. /\ failed \in Readings /\ failed.at = r.at /\ failed.bytes = r.bytes /\ ~failed.ok
  BY <1>3 DEF Readings
<1>5. CASE ~r.ok \/ r.at >= end
  BY <1>2, <1>5 DEF Goes
<1>6. CASE r.ok /\ ~(r.at >= end) /\ w = Wrong
  <2>1. Round(s, r) = failed /\ r.at < end
    BY <1>1, <1>2, <1>3, <1>6
  <2> HIDE DEF failed, w, end
  <2> QED BY <1>4, <1>6, <2>1 DEF Goes, end
<1>7. CASE r.ok /\ ~(r.at >= end) /\ w # Wrong
  <2>1. Round(s, r) = more /\ r.at < end /\ r.at \in 1 .. end - 1
    BY <1>1, <1>2, <1>3, <1>7
  <2>2. Taken(s, r.at, end, w)
    <3> HIDE DEF w, end
    <3> QED BY <1>1, <1>7, <2>1, WrittenTaken DEF w
  <2>3. w.length \in Nat /\ w.bytes \in Seq(Bytes)
    BY <2>2 DEF Taken
  <2> HIDE DEF w
  <2>4. r.at + w.length \in Nat \ {0} /\ r.bytes \o w.bytes \in Seq(Bytes)
    BY <1>3, <2>3, ConcatProperties
  <2>5. /\ more \in Readings /\ more.at = r.at + w.length
        /\ more.bytes = r.bytes \o w.bytes /\ more.ok
    BY <1>7, <2>4 DEF Readings
  <2> HIDE DEF more, end
  <2> QED BY <1>7, <2>1, <2>2, <2>5 DEF Goes, w, end
<1> QED BY <1>5, <1>6, <1>7

\* f holds what each round of parse_string leaves.
Reads(s, f) ==
  /\ f \in [0 .. Len(s) -> Readings]
  /\ f[0] = [at |-> 1, bytes |-> <<>>, ok |-> TRUE]
  /\ \A k \in 0 .. Len(s) - 1 : f[k + 1] = Round(s, f[k])

\* The function in ReadString is there.
LEMMA ReadStringIs ==
  ASSUME NEW s \in Seq(Bytes), Closings(s) # {}
  PROVE  \E f : Reads(s, f) /\ ReadString(s) = f[Len(s)]
<1> DEFINE n == Len(s)
           v == [at |-> 1, bytes |-> <<>>, ok |-> TRUE]
           step == [i \in Nat |-> [r \in Readings |-> Round(s, r)]]
           Is(h) == h = [k \in 0 .. n |->
                           IF k = 0
                           THEN [at |-> 1, bytes |-> <<>>, ok |-> Closings(s) # {}]
                           ELSE Round(s, h[k - 1])]
           f == CHOOSE h : Is(h)
<1>1. n \in Nat
  OBVIOUS
<1>2. v \in Readings /\ v = [at |-> 1, bytes |-> <<>>, ok |-> Closings(s) # {}]
  <2>1. (Closings(s) # {}) = TRUE
    OBVIOUS
  <2>2. v \in Readings
    <3>1. <<>> \in Seq(Bytes)
      OBVIOUS
    <3> QED BY <3>1 DEF Readings
  <2> QED BY <2>1, <2>2
<1>3. step \in [Nat -> [Readings -> Readings]]
  BY RoundGoes
<1>4. PICK g : Iterates(g, Readings, v, step, n)
  <2> HIDE DEF step, n, v
  <2> QED BY <1>1, <1>2, <1>3, Iteration
<1>5. ASSUME NEW k \in 0 .. n
      PROVE  g[k] = IF k = 0 THEN v ELSE Round(s, g[k - 1])
  <2>1. CASE k = 0
    BY <1>4, <2>1 DEF Iterates
  <2>2. CASE k # 0
    <3>1. k - 1 \in 0 .. n - 1 /\ k - 1 \in Nat /\ k - 1 \in 0 .. n /\ (k - 1) + 1 = k
      BY <1>1, <2>2
    <3>2. g[k] = step[k - 1][g[k - 1]] /\ g[k - 1] \in Readings
      <4> HIDE DEF step, n, v
      <4> QED BY <1>4, <3>1 DEF Iterates
    <3> QED BY <2>2, <3>1, <3>2
  <2> QED BY <2>1, <2>2
<1>6. Is(g)
  <2> DEFINE h == [k \in 0 .. n |-> IF k = 0 THEN v ELSE Round(s, g[k - 1])]
  <2>1. g = [k \in 0 .. n |-> g[k]]
    BY <1>4 DEF Iterates
  <2> HIDE DEF n, v
  <2>2. g = h
    BY <1>5, <2>1
  <2> USE DEF v
  <2> QED BY <1>2, <2>2
<1>7. Is(f)
  <2> HIDE DEF Is
  <2> QED BY <1>6
<1>8. ReadString(s) = f[n]
  BY DEF ReadString
<1>9. ASSUME NEW k \in 0 .. n
      PROVE  f[k] = IF k = 0 THEN v ELSE Round(s, f[k - 1])
  <2> HIDE DEF f, n
  <2> QED BY <1>2, <1>7
<1>10. f = [k \in 0 .. n |-> f[k]]
  <2>1. \E e : f = [k \in 0 .. n |-> e[k]]
    <3> DEFINE e == [k \in 0 .. n |-> IF k = 0 THEN v ELSE Round(s, f[k - 1])]
    <3>1. f = e
      <4> HIDE DEF f, n
      <4> QED BY <1>2, <1>7
    <3> HIDE DEF f
    <3>2. e = [k \in 0 .. n |-> e[k]]
      OBVIOUS
    <3> QED BY <3>1, <3>2
  <2> HIDE DEF f, n
  <2> QED BY <2>1
<1> HIDE DEF f, Is, step, n, v
<1> DEFINE S == {k \in Nat : k \in 0 .. n => f[k] \in Readings}
<1>11. 0 \in S
  BY <1>1, <1>2, <1>9
<1>12. ASSUME NEW k \in S PROVE k + 1 \in S
  <2>1. SUFFICES ASSUME k + 1 \in 0 .. n PROVE f[k + 1] \in Readings
    OBVIOUS
  <2>2. k \in 0 .. n /\ (k + 1) - 1 = k /\ k + 1 # 0
    BY <1>1, <2>1
  <2>3. f[k] \in Readings /\ f[k + 1] = Round(s, f[k])
    BY <1>9, <2>1, <2>2
  <2> QED BY <2>3, RoundGoes
<1>13. S = Nat
  <2> HIDE DEF S
  <2>1. S \subseteq Nat
    BY DEF S
  <2> QED BY <1>11, <1>12, <2>1, InductionOnNat
<1>14. \A k \in 0 .. n : f[k] \in Readings
  BY <1>1, <1>13
<1>15. ASSUME NEW k \in 0 .. n - 1 PROVE f[k + 1] = Round(s, f[k])
  <2>1. k + 1 \in 0 .. n /\ (k + 1) - 1 = k /\ k + 1 # 0
    BY <1>1
  <2> QED BY <1>9, <2>1
<1>16. f[0] = v
  BY <1>1, <1>9
<1>17. f \in [0 .. n -> Readings]
  BY <1>10, <1>14
<1> QED BY <1>8, <1>15, <1>16, <1>17 DEF Reads, n, v

-----------------------------------------------------------------------------
(* What the string takes                                                   *)

\* How many members of A there are up to i
CountTo(A, i) == Cardinality(A \cap 1 .. i)

\* It goes up by one at each member.
LEMMA CountToIs ==
  ASSUME NEW A, NEW i \in Nat
  PROVE  /\ CountTo(A, i) \in Nat /\ CountTo(A, 0) = 0
         /\ CountTo(A, i + 1) = CountTo(A, i) + (IF i + 1 \in A THEN 1 ELSE 0)
<1>1. ASSUME NEW j \in Nat PROVE IsFiniteSet(A \cap 1 .. j)
  <2>1. IsFiniteSet(1 .. j) /\ A \cap 1 .. j \subseteq 1 .. j
    BY FS_Interval
  <2> QED BY <2>1, FS_Subset
<1>2. Cardinality(A \cap 1 .. i) \in Nat
  BY <1>1, FS_CardinalityType
<1>3. Cardinality(A \cap 1 .. 0) = 0
  <2>1. A \cap 1 .. 0 = {}
    OBVIOUS
  <2> QED BY <2>1, FS_EmptySet
<1>4. CASE i + 1 \in A
  <2>1. A \cap 1 .. (i + 1) = (A \cap 1 .. i) \cup {i + 1} /\ i + 1 \notin A \cap 1 .. i
    BY <1>4
  <2>2. Cardinality(A \cap 1 .. (i + 1)) = Cardinality(A \cap 1 .. i) + 1
    BY <1>1, <2>1, FS_AddElement
  <2> QED BY <1>2, <1>3, <1>4, <2>2 DEF CountTo
<1>5. CASE i + 1 \notin A
  <2>1. A \cap 1 .. (i + 1) = A \cap 1 .. i
    BY <1>5
  <2>2. Cardinality(A \cap 1 .. (i + 1)) = Cardinality(A \cap 1 .. i)
    BY <2>1
  <2> QED BY <1>2, <1>3, <1>5, <2>2 DEF CountTo
<1> QED BY <1>4, <1>5

\* How many bytes of the text the first loop has skipped up to i
SkippedTo(s, i) == CountTo(Skipped(s), i)

\* ... at each byte that is skipped
LEMMA SkippedToIs ==
  ASSUME NEW s \in Seq(Bytes), NEW i \in Nat
  PROVE  /\ SkippedTo(s, i) \in Nat /\ SkippedTo(s, 0) = 0
         /\ SkippedTo(s, i + 1)
              = SkippedTo(s, i) + (IF i + 1 \in Skipped(s) THEN 1 ELSE 0)
  BY CountToIs DEF SkippedTo

\* Of two bytes in a row one at most is skipped.
LEMMA OneOfTwo ==
  ASSUME NEW s \in Seq(Bytes), NEW i \in Nat
  PROVE  /\ SkippedTo(s, i + 2) \in Nat
         /\ SkippedTo(s, i + 2) <= SkippedTo(s, i) + 1
<1>1. /\ SkippedTo(s, i) \in Nat /\ SkippedTo(s, i + 1) \in Nat
      /\ SkippedTo(s, i + 2) \in Nat
      /\ SkippedTo(s, i + 1)
           = SkippedTo(s, i) + (IF i + 1 \in Skipped(s) THEN 1 ELSE 0)
      /\ SkippedTo(s, i + 2)
           = SkippedTo(s, i + 1) + (IF i + 2 \in Skipped(s) THEN 1 ELSE 0)
  <2>1. i + 1 \in Nat /\ i + 2 \in Nat /\ (i + 1) + 1 = i + 2
    OBVIOUS
  <2> QED BY <2>1, SkippedToIs
<1>2. i + 1 \notin Skipped(s) \/ i + 2 \notin Skipped(s)
  <2>1. SUFFICES ASSUME i + 1 \in Skipped(s), i + 2 \in Skipped(s) PROVE FALSE
    OBVIOUS
  <2>2. Skips(s, Skipped(s))
    BY SkippedIs
  <2>3. i + 1 \in 1 .. Len(s) /\ i + 2 \in 1 .. Len(s)
    BY <2>1, <2>2 DEF Skips
  <2>4. i + 1 \in 1 .. Len(s) - 1 /\ (i + 1) + 1 = i + 2
    BY <2>3
  <2> QED BY <2>1, <2>2, <2>4 DEF Skips
<1> QED BY <1>1, <1>2

\* So half of an even number of bytes at most.
LEMMA HalfOfThem ==
  ASSUME NEW s \in Seq(Bytes), NEW i \in Nat
  PROVE  /\ SkippedTo(s, i + 6) \in Nat /\ SkippedTo(s, i + 12) \in Nat
         /\ SkippedTo(s, i + 6) <= SkippedTo(s, i) + 3
         /\ SkippedTo(s, i + 12) <= SkippedTo(s, i) + 6
<1> DEFINE c0 == SkippedTo(s, i)
           c2 == SkippedTo(s, i + 2)
           c4 == SkippedTo(s, i + 4)
           c6 == SkippedTo(s, i + 6)
           c8 == SkippedTo(s, i + 8)
           c10 == SkippedTo(s, i + 10)
           c12 == SkippedTo(s, i + 12)
<1>1. /\ i + 2 \in Nat /\ i + 4 \in Nat /\ i + 6 \in Nat
      /\ i + 8 \in Nat /\ i + 10 \in Nat
      /\ (i + 2) + 2 = i + 4 /\ (i + 4) + 2 = i + 6 /\ (i + 6) + 2 = i + 8
      /\ (i + 8) + 2 = i + 10 /\ (i + 10) + 2 = i + 12
  OBVIOUS
<1>2. c0 \in Nat /\ c2 \in Nat /\ c2 <= c0 + 1
  BY SkippedToIs, OneOfTwo
<1>3. c4 \in Nat /\ c4 <= c2 + 1
  BY <1>1, OneOfTwo
<1>4. c6 \in Nat /\ c6 <= c4 + 1
  BY <1>1, OneOfTwo
<1>5. c8 \in Nat /\ c8 <= c6 + 1
  BY <1>1, OneOfTwo
<1>6. c10 \in Nat /\ c10 <= c8 + 1
  BY <1>1, OneOfTwo
<1>7. c12 \in Nat /\ c12 <= c10 + 1
  BY <1>1, OneOfTwo
<1> HIDE DEF c0, c2, c4, c6, c8, c10, c12
<1>8. c6 <= c0 + 3 /\ c12 <= c0 + 6
  BY <1>2, <1>3, <1>4, <1>5, <1>6, <1>7
<1> QED BY <1>4, <1>7, <1>8 DEF c0, c6, c12

\* The count grows, by one for a byte at most.
LEMMA SkippedToGrows ==
  ASSUME NEW s \in Seq(Bytes), NEW i \in Nat, NEW j \in Nat, i <= j
  PROVE  /\ SkippedTo(s, i) <= SkippedTo(s, j)
         /\ SkippedTo(s, j) <= SkippedTo(s, i) + (j - i)
<1> DEFINE c == [k \in Nat |-> SkippedTo(s, k)]
           S == {k \in Nat : c[i] <= c[i + k] /\ c[i + k] <= c[i] + k}
<1>1. ASSUME NEW k \in Nat
      PROVE  c[k] \in Nat /\ c[k] <= c[k + 1] /\ c[k + 1] <= c[k] + 1
  <2> DEFINE x == SkippedTo(s, k)
             y == SkippedTo(s, k + 1)
  <2>1. x \in Nat /\ y = x + (IF k + 1 \in Skipped(s) THEN 1 ELSE 0)
    BY SkippedToIs
  <2>2. c[k] = x /\ c[k + 1] = y
    OBVIOUS
  <2> HIDE DEF c, x, y
  <2> QED BY <2>1, <2>2
<1>2. c[i] = SkippedTo(s, i) /\ c[j] = SkippedTo(s, j)
  OBVIOUS
<1> HIDE DEF c
<1>3. 0 \in S
  <2>1. c[i] \in Nat /\ i + 0 = i
    BY <1>1
  <2>2. c[i] <= c[i] /\ c[i] <= c[i] + 0
    BY <2>1
  <2> QED BY <2>1, <2>2
<1>4. ASSUME NEW k \in S PROVE k + 1 \in S
  <2> DEFINE x == c[i]
             y == c[i + k]
             z == c[i + (k + 1)]
  <2>1. /\ k \in Nat /\ k + 1 \in Nat /\ i + k \in Nat /\ (i + k) + 1 = i + (k + 1)
        /\ x <= y /\ y <= x + k
    OBVIOUS
  <2>2. x \in Nat /\ y \in Nat /\ y <= z /\ z <= y + 1
    BY <1>1, <2>1
  <2>3. z \in Nat
    BY <1>1, <2>1
  <2> HIDE DEF x, y, z
  <2>4. x <= z /\ z <= x + (k + 1)
    BY <2>1, <2>2, <2>3
  <2> QED BY <2>1, <2>4 DEF x, z
<1>5. S = Nat
  <2>1. S \subseteq Nat
    OBVIOUS
  <2> HIDE DEF S
  <2> QED BY <1>3, <1>4, <2>1, InductionOnNat
<1>6. c[i] <= c[j] /\ c[j] <= c[i] + (j - i)
  <2>1. j - i \in Nat /\ i + (j - i) = j
    OBVIOUS
  <2>2. j - i \in S
    BY <1>5, <2>1
  <2> QED BY <2>1, <2>2
<1> QED BY <1>2, <1>6

\* What a round has read and skipped together is shorter than what it has passed.
Fits(s, r) ==
  /\ r.at <= Closing(s) + 1
  /\ Len(r.bytes) + SkippedTo(s, r.at) <= r.at - 1

\* A round keeps it: what is taken is as long as what is written and what is skipped.
LEMMA RoundFits ==
  ASSUME NEW s \in Seq(Bytes), Closings(s) # {}, NEW r \in Readings, Fits(s, r),
         NEW r2 \in Readings, Goes(s, r, r2)
  PROVE  Fits(s, r2)
<1> DEFINE end == Closing(s)
           p == r.at
           c == SkippedTo(s, p)
           got == Len(r.bytes)
<1>1. /\ p \in Nat /\ p # 0 /\ got \in Nat /\ r.bytes \in Seq(Bytes) /\ c \in Nat
      /\ end \in 1 .. Len(s) /\ Len(s) \in Nat
  <2>1. p \in Nat /\ p # 0 /\ got \in Nat /\ r.bytes \in Seq(Bytes)
    BY DEF Readings
  <2>2. end \in 1 .. Len(s) /\ Len(s) \in Nat
    BY ClosingIs
  <2> HIDE DEF p
  <2>3. c \in Nat
    BY <2>1, SkippedToIs
  <2> HIDE DEF c, got, end
  <2> QED BY <2>1, <2>2, <2>3
<1>2. p <= end + 1 /\ got + c <= p - 1
  BY DEF Fits
<1>3. SUFFICES ASSUME NEW w, r.ok, p < end, Taken(s, p, end, w),
                      r2.at = p + w.length, r2.bytes = r.bytes \o w.bytes
               PROVE  Fits(s, r2)
  BY DEF Goes, Fits
<1> DEFINE l == w.length
           more == Len(w.bytes)
           c2 == SkippedTo(s, p + l)
<1>4. Len(r2.bytes) = got + more /\ more \in Nat /\ l \in Nat
  BY <1>1, <1>3, ConcatProperties DEF Taken
<1>5. SUFFICES c2 \in Nat /\ p + l <= end + 1 /\ c2 + more <= c + l
  <2>1. Len(r2.bytes) + c2 <= (p + l) - 1
    <3> HIDE DEF end, c, c2, p, l, more, got
    <3> QED BY <1>1, <1>2, <1>4, <1>5
  <2>2. Fits(s, r2) <=> /\ r2.at <= end + 1
                        /\ Len(r2.bytes) + SkippedTo(s, r2.at) <= r2.at - 1
    BY DEF Fits
  <2>3. r2.at = p + l /\ SkippedTo(s, r2.at) = c2
    BY <1>3
  <2> HIDE DEF end, c, c2, p, l, more, got
  <2> QED BY <1>5, <2>1, <2>2, <2>3
<1>6. \/ l = 1 /\ more = 1 /\ s[p] # Backslash
      \/ l = 2 /\ more = 1
      \/ l = 6 /\ more <= 3 /\ p + 6 <= end
      \/ l = 12 /\ more <= 4 /\ p + 12 <= end
  BY <1>3 DEF Taken
<1> HIDE DEF end, p, l, more, got
<1>7. CASE l = 1 /\ more = 1 /\ s[p] # Backslash
  <2>1. p \in 1 .. Len(s) - 1 /\ p + l <= end + 1
    BY <1>1, <1>3, <1>7
  <2>2. p + 1 \notin Skipped(s)
    BY <1>7, <2>1, SkippedIs DEF Skips
  <2>3. c2 = c
    <3>1. c2 = c + (IF p + 1 \in Skipped(s) THEN 1 ELSE 0)
      BY <1>1, <1>7, SkippedToIs
    <3> HIDE DEF c, c2
    <3> QED BY <1>1, <2>2, <3>1
  <2> HIDE DEF c, c2
  <2> QED BY <1>1, <1>7, <2>1, <2>3
<1>8. CASE l = 2 /\ more = 1
  <2>1. c2 \in Nat /\ c2 <= c + 1
    BY <1>1, <1>8, OneOfTwo
  <2> HIDE DEF c, c2
  <2> QED BY <1>1, <1>3, <1>8, <2>1
<1>9. CASE l = 6 /\ more <= 3 /\ p + 6 <= end
  <2>1. c2 \in Nat /\ c2 <= c + 3
    BY <1>1, <1>9, HalfOfThem
  <2> HIDE DEF c, c2
  <2> QED BY <1>1, <1>4, <1>9, <2>1
<1>10. CASE l = 12 /\ more <= 4 /\ p + 12 <= end
  <2>1. c2 \in Nat /\ c2 <= c + 6
    BY <1>1, <1>10, HalfOfThem
  <2> HIDE DEF c, c2
  <2> QED BY <1>1, <1>4, <1>10, <2>1
<1> QED BY <1>6, <1>7, <1>8, <1>9, <1>10

\* A reading that has not failed goes on: it is at the end after a round for
\* every byte of the text.
Moves(s, k, r) == r.ok => r.at >= k + 1 \/ r.at >= Closing(s)

\* A round moves on by a byte at least, or is at the end.
LEMMA RoundMoves ==
  ASSUME NEW s \in Seq(Bytes), Closings(s) # {}, NEW r \in Readings, NEW k \in Nat,
         Moves(s, k, r), NEW r2 \in Readings, Goes(s, r, r2)
  PROVE  Moves(s, k + 1, r2)
<1>1. r.at \in Nat /\ r2.at \in Nat /\ Closing(s) \in Nat
  BY ClosingIs DEF Readings
<1>2. CASE r2 = r /\ (~r.ok \/ r.at >= Closing(s))
  BY <1>2 DEF Moves
<1>3. CASE ~r2.ok
  BY <1>3 DEF Moves
<1>4. ASSUME NEW w, r.ok, r.at < Closing(s), Taken(s, r.at, Closing(s), w),
             r2.at = r.at + w.length
      PROVE  Moves(s, k + 1, r2)
  <2>1. w.length \in Nat /\ w.length >= 1
    BY <1>4 DEF Taken
  <2>2. r.at >= k + 1
    BY <1>1, <1>4 DEF Moves
  <2>3. r2.at >= (k + 1) + 1
    BY <1>1, <1>4, <2>1, <2>2
  <2> QED BY <2>3 DEF Moves
<1> QED BY <1>2, <1>3, <1>4 DEF Goes

\* What every round of parse_string keeps, and where the last one leaves it
LEMMA ReadStringFits ==
  ASSUME NEW s \in Seq(Bytes), Closings(s) # {}
  PROVE  /\ ReadString(s) \in Readings /\ Fits(s, ReadString(s))
         /\ ReadString(s).ok => ReadString(s).at >= Closing(s)
<1> DEFINE n == Len(s)
<1>1. PICK f : Reads(s, f) /\ ReadString(s) = f[n]
  BY ReadStringIs
<1> DEFINE S == {k \in Nat : k \in 0 .. n => Fits(s, f[k]) /\ Moves(s, k, f[k])}
<1>2. n \in Nat /\ Closing(s) \in 1 .. n
  BY ClosingIs
<1>3. \A k \in 0 .. n : f[k] \in Readings
  BY <1>1 DEF Reads
<1>4. 0 \in S
  <2>1. f[0].at = 1 /\ f[0].bytes = <<>>
    BY <1>1 DEF Reads
  <2>2. SkippedTo(s, 1) = 0
    <3>1. SkippedTo(s, 0 + 1)
            = SkippedTo(s, 0) + (IF 0 + 1 \in Skipped(s) THEN 1 ELSE 0)
      BY SkippedToIs
    <3>2. 0 + 1 \notin Skipped(s) /\ SkippedTo(s, 0) = 0
      BY SkippedIs, SkippedToIs DEF Skips
    <3> QED BY <3>1, <3>2
  <2> HIDE DEF n
  <2>3. Fits(s, f[0])
    BY <1>2, <2>1, <2>2 DEF Fits
  <2>4. Moves(s, 0, f[0])
    BY <2>1 DEF Moves
  <2> QED BY <2>3, <2>4
<1>5. ASSUME NEW k \in S PROVE k + 1 \in S
  <2>1. SUFFICES ASSUME k + 1 \in 0 .. n
                 PROVE  Fits(s, f[k + 1]) /\ Moves(s, k + 1, f[k + 1])
    OBVIOUS
  <2>2. k \in Nat /\ k \in 0 .. n /\ k \in 0 .. n - 1
    BY <1>2, <2>1
  <2>3. /\ f[k] \in Readings /\ f[k + 1] \in Readings
        /\ Fits(s, f[k]) /\ Moves(s, k, f[k])
    BY <1>3, <2>1, <2>2
  <2>4. f[k + 1] = Round(s, f[k])
    BY <1>1, <2>2 DEF Reads
  <2>5. Goes(s, f[k], f[k + 1])
    BY <2>3, <2>4, RoundGoes
  <2> QED BY <2>2, <2>3, <2>5, RoundFits, RoundMoves
<1>6. S = Nat
  <2>1. S \subseteq Nat
    OBVIOUS
  <2> HIDE DEF S
  <2> QED BY <1>4, <1>5, <2>1, InductionOnNat
<1>7. n \in S /\ n \in 0 .. n
  BY <1>2, <1>6
<1>8. f[n] \in Readings /\ Fits(s, f[n]) /\ Moves(s, n, f[n])
  BY <1>3, <1>7
<1>9. f[n].ok => f[n].at >= Closing(s)
  <2>1. f[n].at \in Nat
    BY <1>8 DEF Readings
  <2> HIDE DEF n
  <2> QED BY <1>2, <1>8, <2>1 DEF Moves
<1> QED BY <1>1, <1>8, <1>9

\* The memory parse_string takes after its first loop holds what its second loop
\* writes to it and the zero behind, whatever the text.  The first loop takes one
\* byte for each it has not skipped, the second writes up to four for a literal
\* of six or twelve; and of two bytes in a row the first skips one at most.
THEOREM AllocationSuffices ==
  ASSUME NEW s \in Seq(Bytes), Closings(s) # {}
  PROVE  Len(ReadString(s).bytes) + 1 <= Allocated(s)
<1> DEFINE r == ReadString(s)
           end == Closing(s)
           p == r.at
           got == Len(r.bytes)
           cp == SkippedTo(s, p)
           ce == SkippedTo(s, end)
<1>1. r \in Readings /\ Fits(s, r)
  BY ReadStringFits
<1>2. p \in Nat /\ got \in Nat
  <2> HIDE DEF r
  <2> QED BY <1>1 DEF Readings
<1>3. end \in Nat
  BY ClosingIs
<1>4. p <= end + 1 /\ got + cp <= p - 1
  <2> HIDE DEF r
  <2> QED BY <1>1 DEF Fits
<1>5. cp \in Nat /\ ce \in Nat
  <2> HIDE DEF p, end
  <2> QED BY <1>2, <1>3, SkippedToIs
<1>6. p <= end => ce <= cp + (end - p)
  <2> HIDE DEF p, end
  <2> QED BY <1>2, <1>3, SkippedToGrows
<1>7. end <= p => ce <= cp
  <2> HIDE DEF p, end
  <2> QED BY <1>2, <1>3, SkippedToGrows
<1>8. Allocated(s) = end - ce + 1
  BY DEF Allocated, SkippedTo, CountTo
<1> HIDE DEF p, end, got, cp, ce
<1>9. got + 1 <= end - ce + 1
  BY <1>2, <1>3, <1>4, <1>5, <1>6, <1>7
<1> QED BY <1>8, <1>9 DEF got

-----------------------------------------------------------------------------
(* One byte as print_string_ptr writes it                                  *)

NonZero == 1 .. 255

\* A byte is written as an escape of one letter, as a literal of four digits, or
\* as it is when it is neither a quote nor a backslash.
WrittenAs(b, e) ==
  \/ \E f \in Escapes : f[2] = b /\ e = <<Backslash, f[1]>>
  \/ b < 32 /\ e = <<Backslash, SmallU, 48, 48, HexDigit(b \div 16), HexDigit(b % 16)>>
  \/ b # Quote /\ b # Backslash /\ e = <<b>>

\* print_string_ptr writes a byte in one of the three ways.
LEMMA EscapedIs ==
  ASSUME NEW b \in NonZero
  PROVE  WrittenAs(b, Escaped(b))
<1> DEFINE letters == {e[1] : e \in {f \in Escapes : f[2] = b}}
           c == CHOOSE c \in letters : TRUE
<1>1. Escaped(b) = IF letters # {} THEN <<Backslash, c>>
                   ELSE IF b < 32
                   THEN <<Backslash, SmallU, 48, 48, HexDigit(b \div 16),
                          HexDigit(b % 16)>>
                   ELSE <<b>>
  BY DEF Escaped
<1>2. CASE letters # {}
  <2>1. c \in letters
    BY <1>2
  <2>2. \E f \in Escapes : f[2] = b /\ f[1] = c
    BY <2>1
  <2> HIDE DEF c, letters
  <2>3. PICK f \in Escapes : f[2] = b /\ f[1] = c
    BY <2>2
  <2> QED BY <1>1, <1>2, <2>3 DEF WrittenAs
<1>3. CASE letters = {}
  <2>1. b # Quote /\ b # Backslash
    <3>1. <<Quote, Quote>> \in Escapes /\ <<Backslash, Backslash>> \in Escapes
      BY DEF Escapes
    <3>2. \A f \in Escapes : f[2] # b
      BY <1>3
    <3>3. <<Quote, Quote>>[2] = Quote /\ <<Backslash, Backslash>>[2] = Backslash
      OBVIOUS
    <3> HIDE DEF letters, c
    <3> QED BY <3>1, <3>2, <3>3
  <2> HIDE DEF c, letters
  <2> QED BY <1>1, <1>3, <2>1 DEF WrittenAs
<1> HIDE DEF c, letters
<1> QED BY <1>2, <1>3

\* No letter stands for two bytes, and none is one that means something else.
LEMMA LettersAre ==
  /\ \A f, h \in Escapes : f[1] = h[1] => f[2] = h[2]
  /\ \A f \in Escapes : f[1] # SmallU /\ f[1] # 47
<1>1. ASSUME NEW f \in Escapes
      PROVE  \/ f = <<98, 8>> \/ f = <<102, 12>> \/ f = <<110, 10>> \/ f = <<114, 13>>
             \/ f = <<116, 9>> \/ f = <<34, 34>> \/ f = <<92, 92>>
  BY DEF Escapes, Quote, Backslash
<1>2. ASSUME NEW f \in Escapes
      PROVE  /\ f[1] # SmallU /\ f[1] # 47
             /\ f[2] = IF f[1] = 98 THEN 8 ELSE IF f[1] = 102 THEN 12
                       ELSE IF f[1] = 110 THEN 10 ELSE IF f[1] = 114 THEN 13
                       ELSE IF f[1] = 116 THEN 9 ELSE f[1]
  BY <1>1 DEF SmallU
<1> QED BY <1>2

\* A digit is read back, and is neither a quote nor a backslash.
LEMMA HexDigitIs ==
  ASSUME NEW n \in 0 .. 15
  PROVE  /\ HexDigit(n) \in Bytes /\ Digit(HexDigit(n)) = n
         /\ HexDigit(n) # Quote /\ HexDigit(n) # Backslash
<1>1. CASE n < 10
  <2>1. HexDigit(n) = 48 + n /\ 48 + n \in 48 .. 57 /\ (48 + n) - 48 = n
    BY <1>1 DEF HexDigit
  <2>2. Digit(48 + n) = n
    BY <2>1 DEF Digit
  <2> QED BY <2>1, <2>2 DEF Bytes, Quote, Backslash
<1>2. CASE ~(n < 10)
  <2>1. /\ HexDigit(n) = 87 + n /\ 87 + n \in 97 .. 102 /\ (87 + n) - 87 = n
        /\ 87 + n \notin 48 .. 57 /\ 87 + n \notin 65 .. 70
    BY <1>2 DEF HexDigit
  <2>2. Digit(87 + n) = n
    BY <2>1 DEF Digit
  <2> QED BY <2>1, <2>2 DEF Bytes, Quote, Backslash
<1> QED BY <1>1, <1>2

\* The digits of a byte below 32
LEMMA TwoDigits ==
  ASSUME NEW b \in NonZero, b < 32
  PROVE  /\ b \div 16 \in 0 .. 15 /\ b % 16 \in 0 .. 15
         /\ 16 * (b \div 16) + (b % 16) = b
<1>1. b \in Int /\ b >= 1 /\ b < 32
  BY DEF NonZero
<1>2. b % 16 \in 0 .. 15
  BY <1>1
<1>3. b \div 16 \in 0 .. 15
  BY <1>1
<1> DEFINE q == b \div 16
           r == b % 16
<1>4. CASE b < 16
  <2>1. q = 0 /\ r = b
    BY <1>1, <1>4
  <2> HIDE DEF q, r
  <2> QED BY <1>1, <1>2, <1>3, <2>1 DEF q, r
<1>5. CASE b >= 16
  <2>1. q = 1
    BY <1>1, <1>5
  <2>2. r = b - 16
    BY <1>1, <1>5
  <2>3. q \in 0 .. 15 /\ r \in 0 .. 15
    BY <1>2, <1>3
  <2> HIDE DEF q, r
  <2>4. 16 * q + r = b
    BY <1>1, <2>1, <2>2
  <2> QED BY <2>3, <2>4 DEF q, r
<1> QED BY <1>1, <1>4, <1>5


\* What it writes is one byte, two or six.
LEMMA EscapedBytes ==
  ASSUME NEW b \in NonZero
  PROVE  Escaped(b) \in Seq(Bytes) /\ Len(Escaped(b)) \in {1, 2, 6}
<1>1. b \in Bytes /\ Backslash \in Bytes /\ SmallU \in Bytes /\ 48 \in Bytes
  BY DEF NonZero, Bytes, Backslash, SmallU
<1>2. CASE \E f \in Escapes : f[2] = b /\ Escaped(b) = <<Backslash, f[1]>>
  <2>1. PICK f \in Escapes : f[2] = b /\ Escaped(b) = <<Backslash, f[1]>>
    BY <1>2
  <2> QED BY <1>1, <2>1, EscapesAre
<1>3. CASE b < 32 /\ Escaped(b) = <<Backslash, SmallU, 48, 48, HexDigit(b \div 16),
                                    HexDigit(b % 16)>>
  <2>1. HexDigit(b \div 16) \in Bytes /\ HexDigit(b % 16) \in Bytes
    BY <1>3, TwoDigits, HexDigitIs
  <2> QED BY <1>1, <1>3, <2>1
<1>4. CASE Escaped(b) = <<b>>
  BY <1>1, <1>4
<1> QED BY <1>2, <1>3, <1>4, EscapedIs DEF WrittenAs

-----------------------------------------------------------------------------
(* Where the bytes of a string are written                                 *)

\* g[k] is what print_string_ptr has written of the first k bytes of s.
Written(s, g) ==
  /\ g \in [0 .. Len(s) -> Seq(Bytes)]
  /\ g[0] = <<>>
  /\ \A k \in 0 .. Len(s) - 1 : g[k + 1] = g[k] \o Escaped(s[k + 1])

\* FlattenSeq in PrintString goes through what is written byte by byte.
LEMMA WrittenIs ==
  ASSUME NEW s \in Seq(NonZero)
  PROVE  \E g : Written(s, g) /\ PrintString(s) = g[Len(s)] \o <<Quote>>
<1> DEFINE n == Len(s)
           W == Seq(Bytes)
           e == [j \in 1 .. n |-> Escaped(s[j])]
<1>1. n \in Nat /\ \A j \in 1 .. n : s[j] \in NonZero
  OBVIOUS
<1>2. \A j \in 1 .. n : Escaped(s[j]) \in W
  BY <1>1, EscapedBytes
<1>3. e \in Seq(W) /\ Len(e) = n /\ \A j \in 1 .. n : e[j] = Escaped(s[j])
  BY <1>1, <1>2
<1>4. PrintString(s) = FlattenSeq(e) \o <<Quote>>
  BY DEF PrintString
<1>5. Sequences(W) /\ <<>> \in W
  BY SequencesOverV DEF Sequences
<1>6. CASE e = <<>>
  <2>1. n = 0
    BY <1>3, <1>6
  <2>2. FlattenSeq(e) = <<>>
    BY <1>6, FlattenSeqEmpty
  <2> DEFINE g == [k \in 0 .. 0 |-> <<>>]
  <2>3. g \in [0 .. n -> W] /\ g[0] = <<>> /\ g[n] = <<>>
    BY <1>5, <2>1
  <2>4. 0 .. n - 1 = {}
    BY <2>1
  <2> HIDE DEF g
  <2>5. Written(s, g)
    BY <2>3, <2>4 DEF Written
  <2> QED BY <1>4, <2>2, <2>3, <2>5
<1>7. CASE e # <<>>
  <2> HIDE DEF e, W
  <2>1. PICK f \in [1 .. n -> W] : Flattens(f, e) /\ FlattenSeq(e) = f[n]
    BY <1>3, <1>5, <1>7, FlattenSeqIs
  <2>2. n # 0
    BY <1>3, <1>7
  <2> DEFINE g == [k \in 0 .. n |-> IF k = 0 THEN <<>> ELSE f[k]]
  <2>3. g \in [0 .. n -> W]
    BY <1>5
  <2>4. g[0] = <<>> /\ g[n] = f[n]
    BY <1>1, <2>2
  <2>5. ASSUME NEW k \in 0 .. n - 1 PROVE g[k + 1] = g[k] \o Escaped(s[k + 1])
    <3>1. /\ k \in 0 .. n /\ k + 1 \in 1 .. n /\ k + 1 \in 0 .. n
          /\ k + 1 # 0 /\ (k + 1) - 1 = k
      BY <1>1
    <3>2. g[k + 1] = f[k + 1] /\ g[k] = IF k = 0 THEN <<>> ELSE f[k]
      BY <3>1
    <3>3. f[k + 1] = IF k + 1 = 1 THEN e[k + 1] ELSE f[(k + 1) - 1] \o e[k + 1]
      BY <1>3, <2>1, <3>1 DEF Flattens
    <3>4. e[k + 1] = Escaped(s[k + 1]) /\ e[k + 1] \in W /\ <<>> \o e[k + 1] = e[k + 1]
      BY <1>2, <1>3, <1>5, <3>1 DEF Sequences
    <3> HIDE DEF g
    <3>5. CASE k = 0
      BY <3>2, <3>3, <3>4, <3>5
    <3>6. CASE k # 0
      <4>1. k + 1 # 1
        BY <3>6
      <4> QED BY <3>1, <3>2, <3>3, <3>4, <3>6, <4>1
    <3> QED BY <3>5, <3>6
  <2> HIDE DEF g
  <2>6. Written(s, g)
    BY <2>3, <2>4, <2>5 DEF Written, W
  <2> QED BY <1>4, <2>1, <2>4, <2>6
<1> QED BY <1>6, <1>7

\* A sequence goes on where its first part ends.
LEMMA GoesOnConcat ==
  ASSUME NEW x \in Seq(Bytes), NEW y \in Seq(Bytes)
  PROVE  /\ GoesOn(x, x \o y) /\ x \o y \in Seq(Bytes)
         /\ Len(x \o y) = Len(x) + Len(y)
         /\ \A i \in 1 .. Len(y) : (x \o y)[Len(x) + i] = y[i]
<1>1. /\ Len(x) \in Nat /\ Len(y) \in Nat /\ x \o y \in Seq(Bytes)
      /\ Len(x \o y) = Len(x) + Len(y)
  BY ConcatProperties
<1>2. \A i \in 1 .. Len(x) + Len(y) :
        (x \o y)[i] = IF i <= Len(x) THEN x[i] ELSE y[i - Len(x)]
  BY ConcatProperties
<1>3. ASSUME NEW i \in 1 .. Len(x) PROVE x[i] = (x \o y)[i]
  <2>1. i \in 1 .. Len(x) + Len(y) /\ i <= Len(x)
    BY <1>1
  <2> QED BY <1>2, <2>1
<1>4. ASSUME NEW i \in 1 .. Len(y) PROVE (x \o y)[Len(x) + i] = y[i]
  <2>1. /\ Len(x) + i \in 1 .. Len(x) + Len(y) /\ ~(Len(x) + i <= Len(x))
        /\ (Len(x) + i) - Len(x) = i
    BY <1>1
  <2> QED BY <1>2, <2>1
<1> QED BY <1>1, <1>3, <1>4 DEF GoesOn

\* GoesOn is transitive.
LEMMA GoesOnTwice ==
  ASSUME NEW x, NEW y, NEW z, GoesOn(x, y), GoesOn(y, z)
  PROVE  GoesOn(x, z)
<1>1. /\ Len(x) \in Nat /\ Len(y) \in Nat /\ Len(z) \in Nat
      /\ Len(x) <= Len(y) /\ Len(y) <= Len(z)
  BY DEF GoesOn
<1>2. ASSUME NEW i \in 1 .. Len(x) PROVE x[i] = z[i]
  <2>1. i \in 1 .. Len(y)
    BY <1>1
  <2> QED BY <2>1 DEF GoesOn
<1> QED BY <1>1, <1>2 DEF GoesOn

\* What is written of the first k bytes is what the text begins with.
LEMMA WrittenGoesOn ==
  ASSUME NEW s \in Seq(NonZero), NEW g, Written(s, g), NEW k \in 0 .. Len(s),
         NEW m \in k .. Len(s)
  PROVE  GoesOn(g[k], g[m])
<1> DEFINE n == Len(s)
           S == {d \in Nat : k + d \in 0 .. n => GoesOn(g[k], g[k + d])}
<1>1. n \in Nat /\ k \in Nat /\ \A j \in 1 .. n : s[j] \in NonZero
  OBVIOUS
<1>2. \A j \in 0 .. n : g[j] \in Seq(Bytes)
  BY DEF Written
<1>3. \A j \in 0 .. n - 1 : g[j + 1] = g[j] \o Escaped(s[j + 1])
  BY DEF Written
<1> HIDE DEF n
<1>4. 0 \in S
  <2>1. k + 0 = k /\ g[k] \in Seq(Bytes)
    BY <1>1, <1>2 DEF n
  <2>2. Len(g[k]) \in Nat
    BY <2>1
  <2> QED BY <2>1, <2>2 DEF GoesOn
<1>5. ASSUME NEW d \in S PROVE d + 1 \in S
  <2>1. SUFFICES ASSUME k + (d + 1) \in 0 .. n PROVE GoesOn(g[k], g[k + (d + 1)])
    OBVIOUS
  <2>2. /\ k + d \in 0 .. n - 1 /\ k + d \in 0 .. n /\ (k + d) + 1 = k + (d + 1)
        /\ (k + d) + 1 \in 1 .. n
    BY <1>1, <2>1
  <2>3. GoesOn(g[k], g[k + d])
    BY <2>2
  <2>4. g[k + (d + 1)] = g[k + d] \o Escaped(s[(k + d) + 1])
    BY <1>3, <2>2
  <2>5. g[k + d] \in Seq(Bytes) /\ Escaped(s[(k + d) + 1]) \in Seq(Bytes)
    BY <1>1, <1>2, <2>2, EscapedBytes
  <2>6. GoesOn(g[k + d], g[k + (d + 1)])
    BY <2>4, <2>5, GoesOnConcat
  <2> QED BY <2>3, <2>6, GoesOnTwice
<1>6. S = Nat
  <2>1. S \subseteq Nat
    OBVIOUS
  <2> HIDE DEF S
  <2> QED BY <1>4, <1>5, <2>1, InductionOnNat
<1>7. m - k \in Nat /\ k + (m - k) = m /\ m \in 0 .. n
  BY <1>1 DEF n
<1> QED BY <1>6, <1>7

\* e is in t behind the first p bytes.
Lies(t, p, e) == \A i \in 1 .. Len(e) : t[p + i] = e[i]

\* The text t is the bytes of s as they are written, p[k] bytes for the first k of
\* them, a quote, and more.
Laid(s, p, t) ==
  /\ t \in Seq(Bytes) /\ p \in [0 .. Len(s) -> Nat] /\ p[0] = 0
  /\ \A k \in 0 .. Len(s) - 1 : /\ p[k + 1] = p[k] + Len(Escaped(s[k + 1]))
                                /\ p[k + 1] <= p[Len(s)]
                                /\ Lies(t, p[k], Escaped(s[k + 1]))
  /\ p[Len(s)] + 1 <= Len(t) /\ t[p[Len(s)] + 1] = Quote

\* What print_string_ptr writes is laid so, whatever follows it.
LEMMA LaidIs ==
  ASSUME NEW s \in Seq(NonZero), NEW rest \in Seq(Bytes)
  PROVE  \E p : /\ Laid(s, p, PrintString(s) \o rest)
                /\ Len(PrintString(s)) = p[Len(s)] + 1
<1> DEFINE n == Len(s)
           print == PrintString(s)
           t == print \o rest
<1>1. n \in Nat /\ n \in 0 .. n /\ \A j \in 1 .. n : s[j] \in NonZero
  OBVIOUS
<1>2. PICK g : Written(s, g) /\ print = g[n] \o <<Quote>>
  BY WrittenIs
<1> DEFINE p == [k \in 0 .. n |-> Len(g[k])]
           q == <<Quote>>
<1>3. /\ \A k \in 0 .. n : g[k] \in Seq(Bytes) /\ Len(g[k]) \in Nat
      /\ g[0] = <<>>
      /\ \A k \in 0 .. n - 1 : g[k + 1] = g[k] \o Escaped(s[k + 1])
  <2>1. /\ g \in [0 .. n -> Seq(Bytes)] /\ g[0] = <<>>
        /\ \A k \in 0 .. n - 1 : g[k + 1] = g[k] \o Escaped(s[k + 1])
    BY <1>2, Zenon DEF Written
  <2>2. \A x \in Seq(Bytes) : Len(x) \in Nat
    OBVIOUS
  <2> HIDE DEF n
  <2> QED BY <2>1, <2>2
<1>4. q \in Seq(Bytes) /\ Len(q) = 1 /\ q[1] = Quote
  BY DEF Quote, Bytes
<1> HIDE DEF n, print, q
<1>5. /\ GoesOn(g[n], print) /\ print \in Seq(Bytes) /\ Len(print) = Len(g[n]) + 1
      /\ print[Len(g[n]) + 1] = Quote
  <2> DEFINE x == g[n]
  <2>1. print = x \o q /\ x \in Seq(Bytes)
    BY <1>1, <1>2, <1>3 DEF q
  <2> HIDE DEF x
  <2>2. /\ GoesOn(x, x \o q) /\ x \o q \in Seq(Bytes) /\ Len(x \o q) = Len(x) + Len(q)
        /\ \A i \in 1 .. Len(q) : (x \o q)[Len(x) + i] = q[i]
    BY <1>4, <2>1, GoesOnConcat
  <2>3. 1 \in 1 .. Len(q)
    BY <1>4
  <2>4. print[Len(x) + 1] = Quote
    BY <1>4, <2>1, <2>2, <2>3
  <2> QED BY <1>4, <2>1, <2>2, <2>4 DEF x
<1>6. /\ GoesOn(print, t) /\ t \in Seq(Bytes)
      /\ Len(t) = Len(print) + Len(rest) /\ Len(rest) \in Nat
  <2>1. print \in Seq(Bytes) /\ Len(rest) \in Nat
    BY <1>5
  <2> QED BY <2>1, GoesOnConcat
<1> HIDE DEF t
<1>7. p \in [0 .. n -> Nat] /\ p[0] = 0 /\ p[n] = Len(g[n])
  <2>1. 0 \in 0 .. n /\ n \in 0 .. n
    BY <1>1
  <2>2. Len(<<>>) = 0
    OBVIOUS
  <2>3. \A k \in 0 .. n : p[k] = Len(g[k])
    OBVIOUS
  <2>4. p \in [0 .. n -> Nat]
    BY <1>3
  <2> HIDE DEF p
  <2> QED BY <1>3, <2>1, <2>2, <2>3, <2>4
<1>8. ASSUME NEW k \in 0 .. n - 1
      PROVE  /\ p[k + 1] = p[k] + Len(Escaped(s[k + 1])) /\ p[k + 1] <= p[n]
             /\ Lies(t, p[k], Escaped(s[k + 1]))
  <2> DEFINE e == Escaped(s[k + 1])
             x == g[k]
             y == g[k + 1]
  <2>1. k \in 0 .. n /\ k + 1 \in 0 .. n /\ k + 1 \in 1 .. n /\ n \in (k + 1) .. n
    BY <1>1
  <2>2. e \in Seq(Bytes) /\ Len(e) \in Nat
    BY <1>1, <2>1, EscapedBytes
  <2>3. p[k] = Len(x) /\ p[k + 1] = Len(y)
    BY <2>1
  <2>4. x \in Seq(Bytes) /\ y = x \o e /\ Len(x) \in Nat
    BY <1>3, <2>1
  <2> HIDE DEF e, x, y, p
  <2>5. Len(y) = Len(x) + Len(e) /\ \A i \in 1 .. Len(e) : y[Len(x) + i] = e[i]
    BY <2>2, <2>4, GoesOnConcat
  <2>6. GoesOn(y, g[n])
    BY <1>2, <2>1, WrittenGoesOn DEF n, y
  <2>7. GoesOn(y, t)
    BY <1>5, <1>6, <2>6, GoesOnTwice
  <2>8. ASSUME NEW i \in 1 .. Len(e) PROVE t[Len(x) + i] = e[i]
    <3>1. Len(x) + i \in 1 .. Len(y)
      BY <2>2, <2>4, <2>5
    <3> QED BY <2>5, <2>7, <3>1 DEF GoesOn
  <2>9. Len(y) <= Len(g[n])
    BY <2>6 DEF GoesOn
  <2> QED BY <1>7, <2>3, <2>5, <2>8, <2>9 DEF e, Lies
<1>9. p[n] + 1 <= Len(t) /\ t[p[n] + 1] = Quote
  <2>1. Len(g[n]) + 1 \in 1 .. Len(print)
    BY <1>1, <1>3, <1>5
  <2>2. t[Len(g[n]) + 1] = Quote
    BY <1>5, <1>6, <2>1 DEF GoesOn
  <2>3. Len(g[n]) + 1 <= Len(t)
    BY <1>1, <1>3, <1>5, <1>6
  <2> HIDE DEF p
  <2> QED BY <1>7, <2>2, <2>3
<1> HIDE DEF p
<1>10. Laid(s, p, t)
  BY <1>6, <1>7, <1>8, <1>9 DEF Laid, n
<1> QED BY <1>5, <1>7, <1>10 DEF t, print, n

-----------------------------------------------------------------------------
(* Where the string ends that print_string_ptr has written                 *)

\* The three ways e may be written in t behind the first p bytes
Shows(t, p, b, l) ==
  \/ /\ l = 2 /\ t[p + 1] = Backslash
     /\ \E f \in Escapes : f[1] = t[p + 2] /\ f[2] = b
  \/ /\ l = 6 /\ b < 32 /\ t[p + 1] = Backslash /\ t[p + 2] = SmallU
     /\ t[p + 3] = 48 /\ t[p + 4] = 48
     /\ t[p + 5] = HexDigit(b \div 16) /\ t[p + 6] = HexDigit(b % 16)
  \/ l = 1 /\ t[p + 1] = b /\ b # Quote /\ b # Backslash

\* Behind the first p bytes is one of the three.
LEMMA ShowsIs ==
  ASSUME NEW b \in NonZero, NEW p \in Nat, NEW t, Lies(t, p, Escaped(b))
  PROVE  Shows(t, p, b, Len(Escaped(b)))
<1>1. CASE \E f \in Escapes : f[2] = b /\ Escaped(b) = <<Backslash, f[1]>>
  <2>1. PICK f \in Escapes : f[2] = b /\ Escaped(b) = <<Backslash, f[1]>>
    BY <1>1
  <2>2. Len(Escaped(b)) = 2 /\ t[p + 1] = Backslash /\ t[p + 2] = f[1]
    BY <2>1 DEF Lies
  <2> QED BY <2>1, <2>2 DEF Shows
<1>2. CASE b < 32 /\ Escaped(b) = <<Backslash, SmallU, 48, 48, HexDigit(b \div 16),
                                    HexDigit(b % 16)>>
  <2> DEFINE x == HexDigit(b \div 16)
             y == HexDigit(b % 16)
             e == Escaped(b)
  <2>1. /\ e = <<Backslash, SmallU, 48, 48, x, y>> /\ b < 32
        /\ \A i \in 1 .. Len(e) : t[p + i] = e[i]
    BY <1>2 DEF Lies
  <2> HIDE DEF x, y, e
  <2>2. Len(e) = 6
    BY <2>1
  <2>3. /\ e[1] = Backslash /\ e[2] = SmallU /\ e[3] = 48 /\ e[4] = 48
        /\ e[5] = x /\ e[6] = y
    BY <2>1
  <2>4. /\ t[p + 1] = Backslash /\ t[p + 2] = SmallU /\ t[p + 3] = 48 /\ t[p + 4] = 48
        /\ t[p + 5] = x /\ t[p + 6] = y
    BY <2>1, <2>2, <2>3
  <2> QED BY <2>1, <2>2, <2>4 DEF Shows, e, x, y
<1>3. CASE b # Quote /\ b # Backslash /\ Escaped(b) = <<b>>
  BY <1>3 DEF Shows, Lies
<1> QED BY <1>1, <1>2, <1>3, EscapedIs DEF WrittenAs

\* No byte of one that is written ends the string, and what follows is not skipped.
LEMMA ShowsCloses ==
  ASSUME NEW t \in Seq(Bytes), NEW p \in Nat, NEW b \in NonZero, NEW l \in {1, 2, 6},
         Shows(t, p, b, l), p + l + 1 <= Len(t), p + 1 \notin Skipped(t)
  PROVE  /\ (p + l) + 1 \notin Skipped(t)
         /\ \A i \in 1 .. l : p + i \notin Closings(t)
<1> DEFINE K == Skipped(t)
<1>1. Skips(t, K)
  BY SkippedIs
<1>2. ASSUME NEW i \in 1 .. l
      PROVE  /\ (p + i) + 1 \in K <=> (t[p + i] = Backslash /\ p + i \notin K)
  <2>1. p + i \in 1 .. Len(t) - 1
    OBVIOUS
  <2> QED BY <1>1, <2>1 DEF Skips
<1>3. \A i \in Closings(t) : t[i] = Quote /\ i \notin K
  BY DEF Closings
<1>4. Backslash # Quote /\ SmallU # Quote /\ SmallU # Backslash /\ 48 # Quote
  BY DEF Backslash, Quote, SmallU
<1> HIDE DEF K
<1>5. CASE l = 2 /\ t[p + 1] = Backslash
  <2>1. 1 \in 1 .. l /\ 2 \in 1 .. l /\ (p + 1) + 1 = p + 2 /\ 1 .. l = {1, 2}
    BY <1>5
  <2>2. p + 2 \in K
    BY <1>2, <1>5, <2>1 DEF K
  <2>3. (p + 2) + 1 \notin K
    BY <1>2, <2>1, <2>2
  <2>4. p + 1 \notin Closings(t) /\ p + 2 \notin Closings(t)
    BY <1>3, <1>4, <1>5, <2>2
  <2> QED BY <1>5, <2>1, <2>3, <2>4 DEF K
<1>6. CASE l = 1 /\ t[p + 1] = b /\ b # Quote /\ b # Backslash
  <2>1. 1 \in 1 .. l /\ 1 .. l = {1}
    BY <1>6
  <2>2. (p + 1) + 1 \notin K
    BY <1>2, <1>6, <2>1
  <2>3. p + 1 \notin Closings(t)
    BY <1>3, <1>6
  <2> QED BY <1>6, <2>1, <2>2, <2>3 DEF K
<1>7. CASE /\ l = 6 /\ b < 32 /\ t[p + 1] = Backslash /\ t[p + 2] = SmallU
           /\ t[p + 3] = 48 /\ t[p + 4] = 48
           /\ t[p + 5] = HexDigit(b \div 16) /\ t[p + 6] = HexDigit(b % 16)
  <2>1. /\ t[p + 5] # Quote /\ t[p + 6] # Quote /\ t[p + 6] # Backslash
    BY <1>7, TwoDigits, HexDigitIs
  <2>2. 6 \in 1 .. l /\ 1 .. l = 1 .. 6
    BY <1>7
  <2>3. (p + 6) + 1 \notin K
    BY <1>2, <2>1, <2>2
  <2>4. \A i \in 1 .. 6 : t[p + i] # Quote
    <3>1. \A i \in 1 .. 6 : i = 1 \/ i = 2 \/ i = 3 \/ i = 4 \/ i = 5 \/ i = 6
      OBVIOUS
    <3> QED BY <1>4, <1>7, <2>1, <3>1
  <2>5. \A i \in 1 .. l : p + i \notin Closings(t)
    BY <1>3, <2>2, <2>4
  <2> QED BY <1>7, <2>3, <2>5 DEF K
<1> QED BY <1>5, <1>6, <1>7 DEF Shows

\* What is known of each byte that is written
LEMMA LaidShows ==
  ASSUME NEW s \in Seq(NonZero), NEW p, NEW t, Laid(s, p, t), NEW k \in 0 .. Len(s) - 1
  PROVE  /\ s[k + 1] \in NonZero /\ p[k] \in Nat /\ p[Len(s)] \in Nat /\ Len(t) \in Nat
         /\ \E l \in {1, 2, 6} : /\ Shows(t, p[k], s[k + 1], l) /\ p[k + 1] = p[k] + l
                                 /\ p[k] + l <= p[Len(s)] /\ p[k] + l + 1 <= Len(t)
                                 /\ l = Len(Escaped(s[k + 1]))
<1> DEFINE n == Len(s)
           b == s[k + 1]
           l == Len(Escaped(b))
<1>1. k + 1 \in 1 .. n /\ k \in 0 .. n /\ n \in 0 .. n /\ n \in Nat
  OBVIOUS
<1>2. b \in NonZero
  BY <1>1
<1>3. p[k] \in Nat /\ p[n] \in Nat /\ t \in Seq(Bytes) /\ Len(t) \in Nat
  <2>1. t \in Seq(Bytes) /\ p \in [0 .. n -> Nat]
    BY DEF Laid
  <2>2. Len(t) \in Nat
    BY <2>1
  <2> HIDE DEF n
  <2> QED BY <1>1, <2>1, <2>2
<1>4. /\ p[k + 1] = p[k] + l /\ p[k + 1] <= p[n] /\ Lies(t, p[k], Escaped(b))
      /\ p[n] + 1 <= Len(t)
  BY DEF Laid
<1> HIDE DEF b, n
<1>5. l \in {1, 2, 6}
  BY <1>2, EscapedBytes
<1>6. Shows(t, p[k], b, l)
  BY <1>2, <1>3, <1>4, ShowsIs
<1> HIDE DEF l
<1>7. p[k] + l <= p[n] /\ p[k] + l + 1 <= Len(t)
  BY <1>3, <1>4, <1>5
<1> QED BY <1>2, <1>3, <1>4, <1>5, <1>6, <1>7 DEF b, l, n

\* parse_string finds the quote print_string_ptr has closed the string with.
LEMMA LaidCloses ==
  ASSUME NEW s \in Seq(NonZero), NEW p, NEW t, Laid(s, p, t)
  PROVE  Closings(t) # {} /\ Closing(t) = p[Len(s)] + 1
<1> DEFINE n == Len(s)
           Clear(k) == /\ p[k] + 1 \notin Skipped(t)
                       /\ \A i \in 1 .. p[k] : i \notin Closings(t)
           S == {k \in Nat : k \in 0 .. n => Clear(k)}
<1>1. /\ n \in Nat /\ t \in Seq(Bytes) /\ p \in [0 .. n -> Nat] /\ p[0] = 0
      /\ p[n] + 1 <= Len(t) /\ t[p[n] + 1] = Quote /\ Len(t) \in Nat
  <2>1. \A x \in Seq(Bytes) : Len(x) \in Nat
    OBVIOUS
  <2>2. n \in Nat
    OBVIOUS
  <2> HIDE DEF n
  <2> QED BY <2>1, <2>2, Zenon DEF Laid, n
<1>2. 0 \in S
  <2>1. 0 + 1 \notin Skipped(t) /\ 1 .. 0 = {}
    BY <1>1, SkippedIs DEF Skips
  <2> QED BY <1>1, <2>1
<1>3. ASSUME NEW k \in S PROVE k + 1 \in S
  <2>1. SUFFICES ASSUME k + 1 \in 0 .. n PROVE Clear(k + 1)
    OBVIOUS
  <2>2. k \in 0 .. n - 1 /\ k \in 0 .. n
    BY <1>1, <2>1
  <2>3. Clear(k)
    BY <2>2
  <2> DEFINE b == s[k + 1]
             q == p[k]
  <2>4. /\ b \in NonZero /\ q \in Nat
        /\ \E l \in {1, 2, 6} : /\ Shows(t, q, b, l) /\ p[k + 1] = q + l
                                /\ q + l + 1 <= Len(t)
    BY <2>2, LaidShows
  <2> HIDE DEF b, q, n
  <2>5. PICK l \in {1, 2, 6} : /\ Shows(t, q, b, l) /\ p[k + 1] = q + l
                               /\ q + l + 1 <= Len(t)
    BY <2>4
  <2>6. (q + l) + 1 \notin Skipped(t) /\ \A i \in 1 .. l : q + i \notin Closings(t)
    BY <1>1, <2>3, <2>4, <2>5, ShowsCloses DEF q
  <2>7. ASSUME NEW i \in 1 .. p[k + 1] PROVE i \notin Closings(t)
    <3>1. CASE i <= q
      <4>1. i \in 1 .. q
        BY <2>4, <3>1
      <4> QED BY <2>3, <4>1 DEF q
    <3>2. CASE ~(i <= q)
      <4>1. i - q \in 1 .. l /\ q + (i - q) = i
        BY <2>4, <2>5, <3>2
      <4> QED BY <2>6, <4>1
    <3> QED BY <3>1, <3>2
  <2> QED BY <2>5, <2>6, <2>7
<1>4. S = Nat
  <2>1. S \subseteq Nat
    OBVIOUS
  <2> HIDE DEF S
  <2> QED BY <1>2, <1>3, <2>1, InductionOnNat
<1>5. Clear(n)
  <2>1. n \in S /\ n \in 0 .. n
    BY <1>1, <1>4
  <2> QED BY <2>1
<1>6. p[n] \in Nat
  BY <1>1
<1> DEFINE q == p[n] + 1
<1>7. q \in Closings(t)
  <2>1. q \in 1 .. Len(t)
    BY <1>1, <1>6
  <2> QED BY <1>1, <1>5, <2>1 DEF Closings
<1>8. /\ Closing(t) \in Closings(t) /\ Closing(t) \in Nat
      /\ Closing(t) # 0 /\ Closing(t) <= q
  BY <1>1, <1>7, ClosingIs
<1>9. Closing(t) \notin 1 .. p[n]
  BY <1>5, <1>8
<1>10. Closing(t) = q
  <2> DEFINE c == Closing(t)
             m == p[n]
  <2>1. c \in Nat /\ c # 0 /\ c <= m + 1 /\ m \in Nat /\ c \notin 1 .. m
    BY <1>6, <1>8, <1>9
  <2> HIDE DEF c, m
  <2>2. c = m + 1
    BY <2>1
  <2> QED BY <2>2 DEF c, m
<1> QED BY <1>7, <1>10

-----------------------------------------------------------------------------
(* What parse_string reads of a string print_string_ptr has written        *)

\* Each byte is read back from what is written of it.
LEMMA ShownIsWritten ==
  ASSUME NEW t \in Seq(Bytes), NEW p \in Nat, NEW b \in NonZero, NEW l \in {1, 2, 6},
         Shows(t, p, b, l), NEW end \in Nat, p + l + 1 <= end
  PROVE  WrittenAt(t, p + 1, end) = Escape(l, <<b>>)
<1>1. CASE /\ l = 2 /\ t[p + 1] = Backslash
           /\ \E f \in Escapes : f[1] = t[p + 2] /\ f[2] = b
  <2>1. PICK f \in Escapes : f[1] = t[p + 2] /\ f[2] = b
    BY <1>1
  <2> DEFINE c == t[(p + 1) + 1]
             stands == {e[2] : e \in {h \in Escapes : h[1] = c}}
  <2>2. c = f[1]
    BY <2>1
  <2>3. c # SmallU /\ c # 47
    BY <2>1, <2>2, LettersAre
  <2>4. stands = {b}
    <3> HIDE DEF c
    <3>1. \A h \in Escapes : h[1] = c => h[2] = b
      BY <2>1, <2>2, LettersAre
    <3> QED BY <2>1, <2>2, <3>1
  <2>5. WrittenAt(t, p + 1, end) = IF stands = {} THEN Wrong
                                   ELSE Escape(2, <<CHOOSE x \in stands : TRUE>>)
    BY <1>1, <2>3 DEF WrittenAt
  <2> HIDE DEF stands, c
  <2>6. (CHOOSE x \in stands : TRUE) = b
    BY <2>4
  <2> QED BY <1>1, <2>4, <2>5, <2>6
<1>2. CASE l = 1 /\ t[p + 1] = b /\ b # Quote /\ b # Backslash
  BY <1>2 DEF WrittenAt
<1>3. CASE /\ l = 6 /\ b < 32 /\ t[p + 1] = Backslash /\ t[p + 2] = SmallU
           /\ t[p + 3] = 48 /\ t[p + 4] = 48
           /\ t[p + 5] = HexDigit(b \div 16) /\ t[p + 6] = HexDigit(b % 16)
  <2> DEFINE i == p + 1
             first == Hex4(t, i + 2)
             d == [j \in 1 .. 4 |-> Digit(t[(i + 2) + j - 1])]
             high == b \div 16
             low == b % 16
  <2>1. WrittenAt(t, i, end) = Literal(t, i, end)
    <3>1. i + 1 = p + 2
      OBVIOUS
    <3> QED BY <1>3, <3>1 DEF WrittenAt
  <2>2. high \in 0 .. 15 /\ low \in 0 .. 15 /\ 16 * high + low = b
    BY <1>3, TwoDigits
  <2>3. Digit(HexDigit(high)) = high /\ Digit(HexDigit(low)) = low
    <3> HIDE DEF high, low
    <3> QED BY <2>2, HexDigitIs
  <2>4. Digit(48) = 0
    BY DEF Digit
  <2>5. d[1] = 0 /\ d[2] = 0 /\ d[3] = high /\ d[4] = low
    <3>1. /\ (i + 2) + 1 - 1 = p + 3 /\ (i + 2) + 2 - 1 = p + 4
          /\ (i + 2) + 3 - 1 = p + 5 /\ (i + 2) + 4 - 1 = p + 6
      OBVIOUS
    <3>2. /\ d[1] = Digit(t[(i + 2) + 1 - 1]) /\ d[2] = Digit(t[(i + 2) + 2 - 1])
          /\ d[3] = Digit(t[(i + 2) + 3 - 1]) /\ d[4] = Digit(t[(i + 2) + 4 - 1])
      OBVIOUS
    <3> HIDE DEF d, i
    <3> QED BY <1>3, <2>3, <2>4, <3>1, <3>2
  <2>6. first = IF Invalid \in Range(d) THEN 0
                ELSE 16 * (16 * (16 * d[1] + d[2]) + d[3]) + d[4]
    BY DEF Hex4
  <2>7. Invalid \notin Range(d)
    <3>1. DOMAIN d = 1 .. 4 /\ \A j \in 1 .. 4 : j = 1 \/ j = 2 \/ j = 3 \/ j = 4
      OBVIOUS
    <3> HIDE DEF d, high, low
    <3>2. \A j \in DOMAIN d : d[j] \in 0 .. 15
      <4>1. 0 \in 0 .. 15
        OBVIOUS
      <4> DEFINE small == 0 .. 15
      <4> HIDE DEF small
      <4>2. 0 \in small /\ high \in small /\ low \in small
        BY <2>2, <4>1 DEF small
      <4>3. \A j \in DOMAIN d : d[j] \in small
        BY <2>5, <3>1, <4>2
      <4> QED BY <4>3 DEF small
    <3>3. Invalid \notin 0 .. 15
      BY DEF Invalid
    <3> QED BY <3>2, <3>3 DEF Range
  <2>8. first = b
    <3> HIDE DEF d, high, low, first
    <3>1. first = 16 * (16 * (16 * 0 + 0) + high) + low
      BY <2>5, <2>6, <2>7
    <3> QED BY <2>2, <3>1
  <2>9. first \notin LowHalf /\ first \notin HighHalf
    <3> HIDE DEF first
    <3>1. b \in Nat /\ b < 32
      BY <1>3 DEF NonZero
    <3> QED BY <2>8, <3>1, TenBitsIs DEF LowHalf, HighHalf
  <2>10. ~(end - i < 6)
    BY <1>3
  <2>11. Literal(t, i, end) = Escape(6, Utf8(first))
    BY <2>9, <2>10 DEF Literal
  <2>12. Utf8(b) = <<b>>
    <3>1. b < 128
      BY <1>3 DEF NonZero
    <3> QED BY <3>1 DEF Utf8
  <2> HIDE DEF first
  <2> QED BY <1>3, <2>1, <2>8, <2>11, <2>12
<1> QED BY <1>1, <1>2, <1>3 DEF Shows

\* A round reads the next byte.
LEMMA RoundReads ==
  ASSUME NEW t \in Seq(Bytes), NEW p \in Nat, NEW b \in NonZero, NEW l \in {1, 2, 6},
         Shows(t, p, b, l), Closing(t) \in Nat, p + l + 1 <= Closing(t),
         NEW r \in Readings, r.at = p + 1, r.ok
  PROVE  Round(t, r) = [at |-> (p + l) + 1, bytes |-> r.bytes \o <<b>>, ok |-> TRUE]
<1> DEFINE w == Escape(l, <<b>>)
<1>1. WrittenAt(t, r.at, Closing(t)) = w
  BY ShownIsWritten
<1>2. w # Wrong /\ w.length = l /\ w.bytes = <<b>>
  <2>1. l # 0
    OBVIOUS
  <2> QED BY <2>1 DEF Escape, Wrong
<1>3. ~(r.at >= Closing(t))
  OBVIOUS
<1> HIDE DEF w
<1>4. Round(t, r) = [r EXCEPT !.at = @ + w.length, !.bytes = @ \o w.bytes]
  BY <1>1, <1>2, <1>3 DEF Round
<1>5. r.at + l = (p + l) + 1
  OBVIOUS
<1>6. r = [at |-> r.at, bytes |-> r.bytes, ok |-> TRUE]
  BY DEF Readings
<1> QED BY <1>2, <1>4, <1>5, <1>6

\* The first k bytes of s have been read, where q ends in the text.
HasRead(s, q, k, r) ==
  /\ r \in Readings /\ r.ok /\ r.at = q + 1
  /\ Len(r.bytes) = k /\ \A i \in 1 .. k : r.bytes[i] = s[i]

\* A round reads one byte of s more.
LEMMA OneMoreRead ==
  ASSUME NEW s \in Seq(NonZero), NEW p, NEW t, Laid(s, p, t), NEW k \in 0 .. Len(s) - 1,
         NEW r, HasRead(s, p[k], k, r)
  PROVE  HasRead(s, p[k + 1], k + 1, Round(t, r)) /\ p[k + 1] > p[k]
<1> DEFINE b == s[k + 1]
           q == p[k]
           m == p[Len(s)]
           end == Closing(t)
           r2 == Round(t, r)
           bytes == r.bytes \o <<b>>
<1>1. /\ b \in NonZero /\ q \in Nat /\ m \in Nat
      /\ \E l \in {1, 2, 6} : Shows(t, q, b, l) /\ p[k + 1] = q + l /\ q + l <= m
  BY LaidShows
<1>2. end = m + 1 /\ Closings(t) # {} /\ t \in Seq(Bytes)
  BY LaidCloses DEF Laid
<1>3. r \in Readings /\ r.ok /\ r.at = q + 1
  BY DEF HasRead
<1> HIDE DEF b, q, m, end, r2
<1>4. PICK l \in {1, 2, 6} : Shows(t, q, b, l) /\ p[k + 1] = q + l /\ q + l <= m
  BY <1>1
<1>5. q + l + 1 <= end /\ end \in Nat
  BY <1>1, <1>2, <1>4
<1>6. r2 = [at |-> (q + l) + 1, bytes |-> bytes, ok |-> TRUE]
  <2>1. Closing(t) \in Nat /\ q + l + 1 <= Closing(t)
    BY <1>5 DEF end
  <2>2. Round(t, r) = [at |-> (q + l) + 1, bytes |-> r.bytes \o <<b>>, ok |-> TRUE]
    <3>1. /\ t \in Seq(Bytes) /\ q \in Nat /\ b \in NonZero /\ Shows(t, q, b, l)
          /\ r \in Readings /\ r.at = q + 1 /\ r.ok
      BY <1>1, <1>2, <1>3, <1>4
    <3> HIDE DEF bytes
    <3> QED BY <2>1, <3>1, RoundReads
  <2> QED BY <2>2 DEF r2
<1>7. r2 \in Readings
  BY <1>2, <1>3, RoundGoes DEF r2
<1>8. r.bytes \in Seq(Bytes) /\ Len(r.bytes) = k /\ \A i \in 1 .. k : r.bytes[i] = s[i]
  BY DEF HasRead, Readings
<1>9. Len(bytes) = k + 1 /\ \A i \in 1 .. k + 1 : bytes[i] = s[i]
  <2> DEFINE x == r.bytes
  <2>1. k \in Nat /\ k \in Int
    OBVIOUS
  <2>2. b \in Bytes
    BY <1>1 DEF NonZero, Bytes
  <2> HIDE DEF x
  <2>3. /\ bytes = Append(x, b) /\ x \in Seq(Bytes) /\ Len(x) = k
        /\ \A i \in 1 .. k : x[i] = s[i]
    <3>1. x \in Seq(Bytes) /\ Len(x) = k /\ \A i \in 1 .. k : x[i] = s[i]
      BY <1>8 DEF x
    <3>2. bytes = Append(x, b)
      BY <2>2, <3>1, AppendIsConcat DEF x
    <3> QED BY <3>1, <3>2
  <2> HIDE DEF bytes
  <2>4. Len(bytes) = k + 1 /\ bytes[k + 1] = b /\ \A i \in 1 .. k : bytes[i] = x[i]
    BY <2>2, <2>3, AppendProperties
  <2>5. ASSUME NEW i \in 1 .. k + 1 PROVE bytes[i] = s[i]
    <3>1. CASE i = k + 1
      BY <2>4, <3>1 DEF b
    <3>2. CASE i # k + 1
      <4>1. i \in 1 .. k
        BY <2>1, <3>2
      <4> QED BY <2>3, <2>4, <4>1
    <3> QED BY <3>1, <3>2
  <2> QED BY <2>4, <2>5
<1> HIDE DEF bytes
<1>10. r2.ok /\ r2.at = p[k + 1] + 1 /\ r2.bytes = bytes
  BY <1>4, <1>6
<1>11. p[k + 1] > q
  BY <1>1, <1>4
<1> QED BY <1>7, <1>9, <1>10, <1>11 DEF HasRead, r2, q

\* Whatever bytes a string has, a zero excepted, parse_string reads it back from
\* what print_string_ptr has made of it, whatever follows in the text, and
\* ends at the quote that print_string_ptr has closed it with.
THEOREM StringRoundTrip ==
  ASSUME NEW s \in Seq(1 .. 255), NEW rest \in Seq(0 .. 255)
  PROVE  /\ Closings(PrintString(s) \o rest) # {}
         /\ Closing(PrintString(s) \o rest) = Len(PrintString(s))
         /\ ReadString(PrintString(s) \o rest)
              = [at |-> Len(PrintString(s)), bytes |-> s, ok |-> TRUE]
         /\ CString(s) = s
<1> DEFINE t == PrintString(s) \o rest
           n == Len(s)
           l == Len(t)
<1>1. s \in Seq(NonZero) /\ rest \in Seq(Bytes) /\ n \in Nat
  BY DEF NonZero, Bytes
<1>2. PICK p : Laid(s, p, t) /\ Len(PrintString(s)) = p[n] + 1
  BY <1>1, LaidIs
<1> HIDE DEF t, n
<1>3. /\ Closings(t) # {} /\ Closing(t) = p[n] + 1 /\ t \in Seq(Bytes) /\ l \in Nat
      /\ p[0] = 0 /\ p \in [0 .. n -> Nat] /\ p[n] + 1 <= l
  <2>1. Closings(t) # {} /\ Closing(t) = p[n] + 1
    BY <1>1, <1>2, LaidCloses DEF n
  <2>2. /\ t \in Seq(Bytes) /\ p[0] = 0 /\ p \in [0 .. n -> Nat] /\ p[n] + 1 <= l
    BY <1>2, Zenon DEF Laid, n
  <2>3. l \in Nat
    BY <2>2
  <2> HIDE DEF l
  <2> QED BY <2>1, <2>2, <2>3
<1>4. PICK f : Reads(t, f) /\ ReadString(t) = f[l]
  BY <1>3, ReadStringIs
<1> HIDE DEF l
<1>5. /\ f \in [0 .. l -> Readings] /\ f[0] = [at |-> 1, bytes |-> <<>>, ok |-> TRUE]
      /\ \A k \in 0 .. l - 1 : f[k + 1] = Round(t, f[k])
  BY <1>4 DEF Reads, l
<1>6. \A k \in 0 .. n : p[k] \in Nat /\ p[k] <= p[n]
  <2>1. SUFFICES ASSUME NEW k \in 0 .. n PROVE p[k] \in Nat /\ p[k] <= p[n]
    OBVIOUS
  <2>2. p[k] \in Nat /\ p[n] \in Nat
    BY <1>1, <1>3
  <2>3. CASE k = 0
    BY <1>3, <2>2, <2>3
  <2>4. CASE k # 0
    <3>1. k - 1 \in 0 .. n - 1 /\ (k - 1) + 1 = k
      BY <1>1, <2>4
    <3>2. \A j \in 0 .. n - 1 : p[j + 1] <= p[n]
      BY <1>2 DEF Laid, n
    <3>3. p[(k - 1) + 1] <= p[n]
      BY <3>1, <3>2
    <3> QED BY <2>2, <3>1, <3>3
  <2> QED BY <2>3, <2>4
<1> DEFINE S == {k \in Nat : k \in 0 .. n => k <= p[k] /\ HasRead(s, p[k], k, f[k])}
<1>7. 0 \in S
  <2>1. f[0] \in Readings
    <3>1. 0 \in 0 .. l
      BY <1>3
    <3> QED BY <1>5, <3>1
  <2>2. HasRead(s, 0, 0, f[0])
    BY <1>5, <2>1 DEF HasRead
  <2> QED BY <1>3, <2>2
<1>8. ASSUME NEW k \in S PROVE k + 1 \in S
  <2>1. SUFFICES ASSUME k + 1 \in 0 .. n
                 PROVE  k + 1 <= p[k + 1] /\ HasRead(s, p[k + 1], k + 1, f[k + 1])
    OBVIOUS
  <2>2. k \in Nat /\ k \in 0 .. n /\ k \in 0 .. n - 1
    BY <1>1, <2>1
  <2>3. k <= p[k] /\ HasRead(s, p[k], k, f[k])
    BY <2>2
  <2>4. HasRead(s, p[k + 1], k + 1, Round(t, f[k])) /\ p[k + 1] > p[k]
    BY <1>1, <1>2, <2>2, <2>3, OneMoreRead DEF n
  <2>5. p[k] \in Nat /\ p[k + 1] \in Nat /\ p[k + 1] <= p[n] /\ p[n] \in Nat
    BY <1>1, <1>6, <2>1, <2>2
  <2>6. k + 1 <= p[k + 1]
    BY <2>2, <2>3, <2>4, <2>5
  <2>7. k \in 0 .. l - 1
    BY <1>3, <2>2, <2>3, <2>4, <2>5
  <2> QED BY <1>5, <2>4, <2>6, <2>7
<1>9. S = Nat
  <2>1. S \subseteq Nat
    OBVIOUS
  <2> HIDE DEF S
  <2> QED BY <1>7, <1>8, <2>1, InductionOnNat
<1>10. n <= p[n] /\ HasRead(s, p[n], n, f[n])
  <2>1. n \in S /\ n \in 0 .. n
    BY <1>1, <1>9
  <2> QED BY <2>1
<1>11. f[n].at = Closing(t) /\ f[n].ok /\ f[n] \in Readings
  BY <1>3, <1>10 DEF HasRead
<1>12. n <= l /\ n \in 0 .. l
  <2>1. p[n] \in Nat
    BY <1>1, <1>3
  <2> QED BY <1>1, <1>3, <1>10, <2>1
<1> HIDE DEF S
<1> DEFINE T == {d \in Nat : n + d \in 0 .. l => f[n + d] = f[n]}
<1>13. 0 \in T
  BY <1>1
<1>14. ASSUME NEW d \in T PROVE d + 1 \in T
  <2>1. SUFFICES ASSUME n + (d + 1) \in 0 .. l PROVE f[n + (d + 1)] = f[n]
    OBVIOUS
  <2>2. n + d \in 0 .. l - 1 /\ n + d \in 0 .. l /\ (n + d) + 1 = n + (d + 1)
    BY <1>1, <1>3, <2>1
  <2>3. f[n + (d + 1)] = Round(t, f[n])
    BY <1>5, <2>2
  <2>4. f[n].at >= Closing(t)
    BY <1>3, <1>6, <1>11, <1>1
  <2>5. Round(t, f[n]) = f[n]
    BY <2>4 DEF Round
  <2> QED BY <2>3, <2>5
<1>15. T = Nat
  <2>1. T \subseteq Nat
    OBVIOUS
  <2> HIDE DEF T
  <2> QED BY <1>13, <1>14, <2>1, InductionOnNat
<1>16. f[l] = f[n]
  <2>1. l - n \in Nat /\ n + (l - n) = l /\ l \in 0 .. l
    BY <1>1, <1>3, <1>12
  <2>2. l - n \in T
    BY <1>15, <2>1
  <2> QED BY <2>1, <2>2
<1>17. f[n].bytes = s
  <2> DEFINE x == f[n].bytes
  <2>1. x \in Seq(Bytes) /\ Len(x) = n /\ \A i \in 1 .. n : x[i] = s[i]
    BY <1>10 DEF HasRead, Readings
  <2>2. s \in Seq(Bytes)
    BY <1>1 DEF NonZero, Bytes
  <2> HIDE DEF x
  <2>3. x = s
    BY <2>1, <2>2, SeqEqual DEF n
  <2> QED BY <2>3 DEF x
<1>18. f[n] = [at |-> Closing(t), bytes |-> s, ok |-> TRUE]
  <2>1. f[n] = [at |-> f[n].at, bytes |-> f[n].bytes, ok |-> f[n].ok] /\ f[n].ok = TRUE
    BY <1>11 DEF Readings
  <2> QED BY <1>11, <1>17, <2>1
<1>19. CString(s) = s
  <2>1. {j \in 1 .. Len(s) : s[j] = 0} = {}
    <3>1. \A j \in 1 .. Len(s) : s[j] \in NonZero
      BY <1>1
    <3>2. 0 \notin NonZero
      BY DEF NonZero
    <3> QED BY <3>1, <3>2
  <2> QED BY <2>1 DEF CString
<1> QED BY <1>2, <1>3, <1>4, <1>16, <1>18, <1>19 DEF t

\* How long the first loop of print_string_ptr takes a byte to be when written
LEMMA EscapedLength ==
  ASSUME NEW b \in NonZero
  PROVE  Len(Escaped(b))
           = 1 + (IF \E f \in Escapes : f[2] = b THEN 1 ELSE 0)
               + (IF b < 32 /\ ~(\E f \in Escapes : f[2] = b) THEN 5 ELSE 0)
<1> DEFINE letters == {e[1] : e \in {f \in Escapes : f[2] = b}}
           c == CHOOSE x \in letters : TRUE
<1>1. Escaped(b) = IF letters # {} THEN <<Backslash, c>>
                   ELSE IF b < 32
                   THEN <<Backslash, SmallU, 48, 48, HexDigit(b \div 16),
                          HexDigit(b % 16)>>
                   ELSE <<b>>
  BY DEF Escaped
<1>2. letters # {} <=> \E f \in Escapes : f[2] = b
  OBVIOUS
<1> HIDE DEF letters, c
<1>3. CASE letters # {}
  BY <1>1, <1>2, <1>3
<1>4. CASE letters = {} /\ b < 32
  BY <1>1, <1>2, <1>4
<1>5. CASE letters = {} /\ ~(b < 32)
  BY <1>1, <1>2, <1>5
<1> QED BY <1>3, <1>4, <1>5

\* The first loop of print_string_ptr counts what its second loop writes: the
\* quote at output[output_length + 1] is behind the last byte of the string, and
\* the memory is filled to its end, with the opening quote and the zero.
THEOREM PrintedLength ==
  ASSUME NEW s \in Seq(1 .. 255)
  PROVE  Len(PrintString(s)) = OutputLength(s) + 1
<1> DEFINE n == Len(s)
           A == {j \in 1 .. n : \E f \in Escapes : f[2] = s[j]}
           B == {j \in 1 .. n : s[j] < 32} \ A
           t == PrintString(s) \o <<>>
<1>1. s \in Seq(NonZero) /\ n \in Nat /\ \A j \in 1 .. n : s[j] \in NonZero
  <2>1. s \in Seq(NonZero)
    BY DEF NonZero
  <2> QED BY <2>1
<1>2. PICK p : Laid(s, p, t) /\ Len(PrintString(s)) = p[n] + 1
  <2>1. <<>> \in Seq(Bytes)
    OBVIOUS
  <2> QED BY <1>1, <2>1, LaidIs
<1>3. OutputLength(s) = n + Cardinality(A) + 5 * Cardinality(B)
  BY Zenon DEF OutputLength
<1>4. A \cap 1 .. n = A /\ B \cap 1 .. n = B
  OBVIOUS
<1>5. p[0] = 0 /\ p \in [0 .. n -> Nat]
  BY <1>2, Zenon DEF Laid
<1> DEFINE S == {k \in Nat :
                   k \in 0 .. n => p[k] = k + CountTo(A, k) + 5 * CountTo(B, k)}
<1>6. 0 \in S
  <2> HIDE DEF A, B
  <2>1. CountTo(A, 0) = 0 /\ CountTo(B, 0) = 0
    BY CountToIs
  <2> QED BY <1>5, <2>1
<1>7. ASSUME NEW k \in S PROVE k + 1 \in S
  <2>1. SUFFICES ASSUME k + 1 \in 0 .. n
                 PROVE  p[k + 1] = (k + 1) + CountTo(A, k + 1) + 5 * CountTo(B, k + 1)
    OBVIOUS
  <2>2. k \in Nat /\ k \in 0 .. n /\ k \in 0 .. n - 1 /\ k + 1 \in 1 .. n
    BY <1>1, <2>1
  <2> DEFINE b == s[k + 1]
             lettered == \E f \in Escapes : f[2] = b
             a0 == CountTo(A, k)
             b0 == CountTo(B, k)
             a1 == CountTo(A, k + 1)
             b1 == CountTo(B, k + 1)
             l == Len(Escaped(b))
  <2>3. b \in NonZero
    BY <1>1, <2>2
  <2>4. (k + 1 \in A <=> lettered) /\ (k + 1 \in B <=> b < 32 /\ ~lettered)
    BY <2>2
  <2>5. l = 1 + (IF lettered THEN 1 ELSE 0) + (IF b < 32 /\ ~lettered THEN 5 ELSE 0)
    BY <2>3, EscapedLength
  <2>6. p[k] = k + a0 + 5 * b0
    BY <2>2
  <2>7. p[k + 1] = p[k] + l
    <3> HIDE DEF n
    <3> QED BY <1>2, <2>2 DEF Laid, n
  <2> HIDE DEF A, B, b, lettered, l
  <2>8. /\ a0 \in Nat /\ a1 = a0 + (IF k + 1 \in A THEN 1 ELSE 0)
        /\ b0 \in Nat /\ b1 = b0 + (IF k + 1 \in B THEN 1 ELSE 0)
    BY <2>2, CountToIs
  <2> HIDE DEF a0, b0, a1, b1
  <2>9. p[k + 1] = (k + 1) + a1 + 5 * b1
    BY <2>2, <2>4, <2>5, <2>6, <2>7, <2>8
  <2> QED BY <2>9 DEF a1, b1
<1>8. S = Nat
  <2>1. S \subseteq Nat
    OBVIOUS
  <2> HIDE DEF S
  <2> QED BY <1>6, <1>7, <2>1, InductionOnNat
<1>9. p[n] = n + CountTo(A, n) + 5 * CountTo(B, n)
  <2>1. n \in S /\ n \in 0 .. n
    BY <1>1, <1>8
  <2> QED BY <2>1
<1>10. CountTo(A, n) = Cardinality(A) /\ CountTo(B, n) = Cardinality(B)
  BY <1>4 DEF CountTo
<1> HIDE DEF A, B, S
<1> QED BY <1>2, <1>3, <1>9, <1>10

==============================================================================
