------------------------------- MODULE JsonLinks -------------------------------
(***************************************************************************)
(* The items of cJSON.c in memory, and the calls that link and unlink      *)
(* them: the children of an array or an object are a list linked both      *)
(* ways, whose first item points back to its last.                         *)
(*                                                                         *)
(* An item and its strings are one allocation.  References and constant    *)
(* keys are left out.                                                      *)
(*                                                                         *)
(* A key is a number: 2k and 2k + 1 are a word in capitals and in small    *)
(* letters, the words in the order of the alphabet.  What a scalar holds   *)
(* is a sequence: the bytes of a string, the one number of a number,       *)
(* nothing for the others.                                                 *)
(***************************************************************************)
EXTENDS Integers, Sequences, FiniteSets, SequencesExt

CONSTANTS
  MaxItems     \* the items that fit in memory

ASSUME HeapAssumption == MaxItems \in Nat \ {0}

Address == 1 .. MaxItems
Null == 0
NoKey == -1

Scalars == {"null", "true", "number", "string"}
Kinds == Scalars \cup {"array", "object", "invalid"}

\* A zeroed item, as cJSON_New_Item returns it
Blank == [kind |-> "invalid", value |-> <<>>, key |-> NoKey,
          next |-> Null, prev |-> Null, child |-> Null]
Free == [Blank EXCEPT !.kind = "free"]

Target == Address \cup {Null}

Memory ==
  [Address -> [kind : Kinds \cup {"free"}, value : Seq(Int), key : Int,
               next : Target, prev : Target, child : Target]]

-----------------------------------------------------------------------------
(* Linking; m is the memory *)

\* add_item_to_array
AddToArray(m, p, i) ==
  LET head == m[p].child
      last == m[head].prev
  IN  IF head = Null THEN [m EXCEPT ![p].child = i, ![i].prev = i, ![i].next = Null]
      ELSE IF last = Null THEN m
      ELSE [m EXCEPT ![last].next = i, ![i].prev = last, ![head].prev = i]

\* A link of a, if there is an a
SetNext(m, a, b) == IF a = Null THEN m ELSE [m EXCEPT ![a].next = b]
SetPrev(m, a, b) == IF a = Null THEN m ELSE [m EXCEPT ![a].prev = b]

\* The item points nowhere any more
Unlinked(m, i) == SetPrev(SetNext(m, i, Null), i, Null)

\* cJSON_DetachItemViaPointer and detach_item_from_array
DetachItem(m, p, i) ==
  LET it == m[i]
      first == m[p].child = i
      Around(n) == IF first THEN n ELSE SetNext(n, it.prev, it.next)
      Ends(n) == IF first THEN [n EXCEPT ![p].child = it.next]
                 ELSE IF it.next = Null THEN SetPrev(n, n[p].child, it.prev)
                 ELSE n
  IN  Unlinked(Ends(SetPrev(Around(m), it.next, it.prev)), i)

\* cJSON_InsertItemInArray and insert_item_in_array: in front of the item
InsertBefore(m, p, after, i) ==
  LET prev == m[after].prev
      Before(n) == IF m[p].child = after THEN [n EXCEPT ![p].child = i]
                   ELSE SetNext(n, prev, i)
  IN  Before([m EXCEPT ![i].next = after, ![i].prev = prev, ![after].prev = i])

\* cJSON_ReplaceItemViaPointer up to the deletion: r is where i was
PutInPlace(m, p, i, r) ==
  LET it == m[i]
      first == m[p].child = i
      Ends(n) ==
        IF first
        THEN [n EXCEPT ![r].prev = IF it.prev = i THEN r ELSE @, ![p].child = r]
        ELSE LET Before(o) == IF it.next = Null THEN SetPrev(o, o[p].child, r) ELSE o
             IN  Before(SetNext(n, it.prev, r))
      linked == [m EXCEPT ![r].next = it.next, ![r].prev = it.prev]
  IN  Unlinked(Ends(SetPrev(linked, it.next, r)), i)

-----------------------------------------------------------------------------
(* Lists as they should be *)

\* The items of s are the children of p: linked both ways in that order, and
\* the first one points back to the last.
Threaded(m, p, s) ==
  /\ m[p].child = IF s = <<>> THEN Null ELSE s[1]
  /\ \A j \in 1 .. Len(s) : m[s[j]].next = IF j < Len(s) THEN s[j + 1] ELSE Null
  /\ \A j \in 1 .. Len(s) : m[s[j]].prev = IF j = 1 THEN s[Len(s)] ELSE s[j - 1]

\* Every item is in one list at most, and once.
OwnedOnce(f) ==
  \A p, q \in Address : \A j \in 1 .. Len(f[p]), k \in 1 .. Len(f[q]) :
    f[p][j] = f[q][k] => p = q /\ j = k

\* All lists of the memory, f being the children of every item
WellLinked(m, f) ==
  /\ m \in Memory /\ f \in [Address -> Seq(Address)]
  /\ \A p \in Address : Threaded(m, p, f[p])
  /\ OwnedOnce(f)

\* An item that is in no list
Loose(f, i) ==
  i \in Address /\ \A p \in Address : \A j \in 1 .. Len(f[p]) : f[p][j] # i

\* What the items of m hold is what they hold in n: only links differ.
SameContents(m, n) ==
  \A a \in Address :
    n[a].kind = m[a].kind /\ n[a].value = m[a].value /\ n[a].key = m[a].key

=============================================================================
