---------------------------- MODULE DefineTable ----------------------------
(***************************************************************************)
(* The define table of lib/prep.c: an array of buckets, each a list of     *)
(* entries.  A list of nodes linked by next is the sequence of its nodes.  *)
(***************************************************************************)
EXTENDS Integers, Sequences

CONSTANTS
  Keys,     \* the names that are defined, undefined and asked for
  Values,   \* their replacements
  NULL,
  Size,     \* t->size
  Hash      \* the bucket of each name

VARIABLES
  ptr,      \* t->ptr: the list of every bucket
  result    \* what the last prep_define_get returned

vars == <<ptr, result>>

Buckets == 0..(Size - 1)

ASSUME DefineTableAssumption ==
  /\ Size \in Nat \ {0}
  /\ Hash \in [Keys -> Buckets]
  /\ NULL \notin Values

new_kv(key, value) == [key |-> key, value |-> value]

\* prep_define_newtable
Init ==
  /\ ptr = [h \in Buckets |-> <<>>]
  /\ result = NULL

\* The index of the first entry of a list that has the key, if any has.
Found(list, key) ==
  {i \in DOMAIN list : list[i].key = key /\ \A j \in 1..(i - 1) : list[j].key # key}

\* Slip: the entries behind the replaced one are lost.
ReplaceCutting(list, i, entry) == Append(SubSeq(list, 1, i - 1), entry)

\* The new node takes the place of the one found.
Replace(list, i, entry) == [list EXCEPT ![i] = entry]

\* Slip: the entry goes to the front whether the key has one or not.
SetAlwaysFront(key, value) ==
  /\ ptr' = [ptr EXCEPT ![Hash[key]] = <<new_kv(key, value)>> \o @]
  /\ UNCHANGED result

(***************************************************************************)
(* prep_define_set: an entry of the same key is replaced where it is, any  *)
(* other entry goes to the front of its bucket.                            *)
(***************************************************************************)
Set(key, value) ==
  LET list == ptr[Hash[key]]
      entry == new_kv(key, value)
  IN
  /\ \/ \E i \in Found(list, key) : ptr' = [ptr EXCEPT ![Hash[key]] = Replace(list, i, entry)]
     \/ /\ Found(list, key) = {}
        /\ ptr' = [ptr EXCEPT ![Hash[key]] = <<entry>> \o list]
  /\ UNCHANGED result

\* Slip: the entry itself is returned.
GetEntry(key) ==
  LET list == ptr[Hash[key]] IN
  /\ \/ \E i \in Found(list, key) : result' = list[i]
     \/ Found(list, key) = {} /\ result' = NULL
  /\ UNCHANGED ptr

\* prep_define_get
Get(key) ==
  LET list == ptr[Hash[key]] IN
  /\ \/ \E i \in Found(list, key) : result' = list[i].value
     \/ Found(list, key) = {} /\ result' = NULL
  /\ UNCHANGED ptr

Next == \E key \in Keys :
  \/ \E value \in Values \cup {NULL} : Set(key, value)
  \/ Get(key)

Spec == Init /\ [][Next]_vars

-----------------------------------------------------------------------------
(***************************************************************************)
(* Properties                                                              *)
(***************************************************************************)

Entries == [key : Keys, value : Values \cup {NULL}]

\* Every bucket holds a list of entries.
TypeOK ==
  /\ ptr \in [Buckets -> Seq(Entries)]
  /\ result \in Values \cup {NULL}

\* A name has one entry, and it is in the bucket prep_define_get looks in: a
\* definition given up by #undef or by a second #define is nowhere left.
OneEntryPerKey ==
  /\ \A h \in Buckets : \A i \in DOMAIN ptr[h] : Hash[ptr[h][i].key] = h
  /\ \A h \in Buckets : \A i, j \in DOMAIN ptr[h] : ptr[h][i].key = ptr[h][j].key => i = j

-----------------------------------------------------------------------------
(***************************************************************************)
(* The map the table stands for.                                           *)
(***************************************************************************)

\* The value of a key that has an entry, NULL for the others.
Lookup(list, key) ==
  IF Found(list, key) = {} THEN NULL ELSE list[CHOOSE i \in Found(list, key) : TRUE].value

Map == INSTANCE DefineMap WITH defs <- [key \in Keys |-> Lookup(ptr[Hash[key]], key)]

\* prep_define_set and prep_define_get behave as one map from names to
\* replacements, whatever names share a bucket.
IsMap == Map!Spec
=============================================================================
