------------------------- MODULE DefineTableProofs -------------------------
(***************************************************************************)
(* The define table is a map, for every set of names, every number of      *)
(* buckets and every hash.                                                 *)
(***************************************************************************)
EXTENDS DefineTable, TLAPS

UniqueKeys(list) == \A i, j \in DOMAIN list : list[i].key = list[j].key => i = j

\* In a list without duplicates the first entry of a key is its only one.
LEMMA FoundUnique ==
  ASSUME NEW list \in Seq(Entries), UniqueKeys(list), NEW key,
         NEW i \in DOMAIN list, list[i].key = key
  PROVE  Found(list, key) = {i}
BY DEF UniqueKeys, Found

LEMMA FoundNone ==
  ASSUME NEW list \in Seq(Entries), UniqueKeys(list), NEW key, Found(list, key) = {}
  PROVE  \A i \in DOMAIN list : list[i].key # key
BY FoundUnique

LEMMA LookupFound ==
  ASSUME NEW list \in Seq(Entries), UniqueKeys(list), NEW key,
         NEW i \in DOMAIN list, list[i].key = key
  PROVE  Lookup(list, key) = list[i].value
<1>1. Found(list, key) = {i}
  BY FoundUnique
<1> QED
  BY <1>1 DEF Lookup

LEMMA LookupNone ==
  ASSUME NEW list \in Seq(Entries), NEW key, \A i \in DOMAIN list : list[i].key # key
  PROVE  Lookup(list, key) = NULL
<1>1. Found(list, key) = {}
  BY DEF Found
<1> QED
  BY <1>1 DEF Lookup

(***************************************************************************)
(* The list prep_define_set leaves in the bucket of its key.               *)
(***************************************************************************)
SetList(list, key, value, new) ==
  \/ \E i \in Found(list, key) : new = Replace(list, i, new_kv(key, value))
  \/ Found(list, key) = {} /\ new = <<new_kv(key, value)>> \o list

\* It has no duplicates, and its key is the only one whose value changes.
LEMMA SetListCorrect ==
  ASSUME NEW list \in Seq(Entries), UniqueKeys(list),
         NEW key \in Keys, NEW value \in Values \cup {NULL},
         NEW new, SetList(list, key, value, new)
  PROVE  /\ new \in Seq(Entries)
         /\ UniqueKeys(new)
         /\ \A i \in DOMAIN new : new[i].key = key \/ \E j \in DOMAIN list : list[j].key = new[i].key
         /\ Lookup(new, key) = value
         /\ \A other \in Keys \ {key} : Lookup(new, other) = Lookup(list, other)
<1> DEFINE entry == new_kv(key, value)
<1>1. entry \in Entries /\ entry.key = key /\ entry.value = value
  BY DEF Entries, new_kv
<1> HIDE DEF entry
<1>2. CASE \E i \in Found(list, key) : new = Replace(list, i, entry)
  <2> PICK i \in Found(list, key) : new = Replace(list, i, entry)
    BY <1>2
  <2>1. i \in DOMAIN list /\ list[i].key = key
    BY DEF Found
  <2>2. /\ new \in Seq(Entries) /\ DOMAIN new = DOMAIN list
        /\ new[i] = entry /\ \A j \in DOMAIN list \ {i} : new[j] = list[j]
    BY <1>1, <2>1 DEF Replace
  <2>3. \A j \in DOMAIN list : new[j].key = list[j].key
    BY <1>1, <2>1, <2>2
  <2>4. UniqueKeys(new)
    BY <2>2, <2>3 DEF UniqueKeys
  <2>5. Lookup(new, key) = value
    BY <1>1, <2>1, <2>2, <2>4, LookupFound
  <2>6. ASSUME NEW other \in Keys \ {key}
        PROVE  Lookup(new, other) = Lookup(list, other)
    <3>1. CASE \E j \in DOMAIN list : list[j].key = other
      <4> PICK j \in DOMAIN list : list[j].key = other
        BY <3>1
      <4>1. j # i /\ new[j] = list[j]
        BY <2>1, <2>2
      <4> QED
        BY <4>1, <2>2, <2>4, LookupFound
    <3>2. CASE \A j \in DOMAIN list : list[j].key # other
      BY <3>2, <2>2, <2>3, LookupNone
    <3> QED
      BY <3>1, <3>2
  <2> QED
    BY <2>2, <2>3, <2>4, <2>5, <2>6
<1>3. CASE Found(list, key) = {} /\ new = <<entry>> \o list
  <2>1. \A i \in DOMAIN list : list[i].key # key
    BY <1>3, FoundNone
  <2>2. /\ new \in Seq(Entries) /\ DOMAIN new = 1..(Len(list) + 1)
        /\ new[1] = entry /\ \A j \in DOMAIN list : new[j + 1] = list[j]
    BY <1>1, <1>3
  <2>3. \A j \in DOMAIN new : j = 1 \/ (j - 1 \in DOMAIN list /\ new[j] = list[j - 1])
    BY <2>2
  <2>4. UniqueKeys(new)
    <3> SUFFICES ASSUME NEW i \in DOMAIN new, NEW j \in DOMAIN new, new[i].key = new[j].key
                 PROVE  i = j
      BY DEF UniqueKeys
    <3>1. \A k \in DOMAIN new \ {1} : new[k].key # key
      BY <2>1, <2>3
    <3>2. CASE i = 1 \/ j = 1
      BY <1>1, <2>2, <3>1, <3>2
    <3>3. CASE i # 1 /\ j # 1
      <4>1. i - 1 \in DOMAIN list /\ j - 1 \in DOMAIN list /\ list[i - 1].key = list[j - 1].key
        BY <2>3, <3>3
      <4>2. i - 1 = j - 1
        BY <4>1 DEF UniqueKeys
      <4> QED
        BY <4>2, <2>2
    <3> QED
      BY <3>2, <3>3
  <2>5. Lookup(new, key) = value
    BY <1>1, <2>2, <2>4, LookupFound
  <2>6. ASSUME NEW other \in Keys \ {key}
        PROVE  Lookup(new, other) = Lookup(list, other)
    <3>1. CASE \E j \in DOMAIN list : list[j].key = other
      <4> PICK j \in DOMAIN list : list[j].key = other
        BY <3>1
      <4>1. j + 1 \in DOMAIN new /\ new[j + 1] = list[j]
        BY <2>2
      <4> QED
        BY <4>1, <2>2, <2>4, LookupFound
    <3>2. CASE \A j \in DOMAIN list : list[j].key # other
      <4>1. \A j \in DOMAIN new : new[j].key # other
        BY <3>2, <1>1, <2>2, <2>3
      <4> QED
        BY <3>2, <4>1, <2>2, LookupNone
    <3> QED
      BY <3>1, <3>2
  <2> QED
    BY <1>1, <2>2, <2>3, <2>4, <2>5, <2>6
<1> QED
  BY <1>2, <1>3 DEF SetList, entry

-----------------------------------------------------------------------------
TableInv == TypeOK /\ OneEntryPerKey

LEMMA TableInit == Init => TableInv
BY DefineTableAssumption DEF Init, TableInv, TypeOK, OneEntryPerKey, Buckets

\* What a call of prep_define_set does to the table, bucket by bucket.
LEMMA SetStep ==
  ASSUME TableInv, NEW key \in Keys, NEW value \in Values \cup {NULL}, Set(key, value)
  PROVE  /\ ptr' \in [Buckets -> Seq(Entries)] /\ result' = result
         /\ \A h \in Buckets \ {Hash[key]} : ptr'[h] = ptr[h]
         /\ Hash[key] \in Buckets
         /\ SetList(ptr[Hash[key]], key, value, ptr'[Hash[key]])
<1> DEFINE h == Hash[key]
<1> DEFINE list == ptr[h]
<1>1. h \in Buckets /\ list \in Seq(Entries) /\ UniqueKeys(list)
  BY DefineTableAssumption DEF TableInv, TypeOK, OneEntryPerKey, UniqueKeys
<1>2. PICK new : SetList(list, key, value, new) /\ ptr' = [ptr EXCEPT ![h] = new]
  BY DEF Set, SetList
<1>3. new \in Seq(Entries)
  BY <1>1, <1>2, SetListCorrect
<1> QED
  BY <1>1, <1>2, <1>3 DEF TableInv, TypeOK, Set

LEMMA TableSet ==
  ASSUME TableInv, NEW key \in Keys, NEW value \in Values \cup {NULL}, Set(key, value)
  PROVE  /\ TableInv'
         /\ \A k \in Keys : Lookup(ptr'[Hash[k]], k) = IF k = key THEN value ELSE Lookup(ptr[Hash[k]], k)
<1> DEFINE h == Hash[key]
<1>1. /\ ptr' \in [Buckets -> Seq(Entries)] /\ result' = result
      /\ \A g \in Buckets \ {h} : ptr'[g] = ptr[g]
      /\ h \in Buckets
      /\ SetList(ptr[h], key, value, ptr'[h])
  BY SetStep
<1>2. ptr[h] \in Seq(Entries) /\ UniqueKeys(ptr[h])
  BY <1>1 DEF TableInv, TypeOK, OneEntryPerKey, UniqueKeys
<1>3. /\ UniqueKeys(ptr'[h])
      /\ \A i \in DOMAIN ptr'[h] : ptr'[h][i].key = key \/ \E j \in DOMAIN ptr[h] : ptr[h][j].key = ptr'[h][i].key
      /\ Lookup(ptr'[h], key) = value
      /\ \A other \in Keys \ {key} : Lookup(ptr'[h], other) = Lookup(ptr[h], other)
  <2> DEFINE old == ptr[h]
  <2> DEFINE new == ptr'[h]
  <2>1. SetList(old, key, value, new) /\ old \in Seq(Entries) /\ UniqueKeys(old)
    BY <1>1, <1>2
  <2> HIDE DEF old, new
  <2>2. /\ UniqueKeys(new)
        /\ \A i \in DOMAIN new : new[i].key = key \/ \E j \in DOMAIN old : old[j].key = new[i].key
        /\ Lookup(new, key) = value
        /\ \A other \in Keys \ {key} : Lookup(new, other) = Lookup(old, other)
    BY <2>1, SetListCorrect
  <2> QED
    BY <2>2 DEF old, new
<1>4. TypeOK'
  BY <1>1 DEF TypeOK, TableInv
<1>5. ASSUME NEW g \in Buckets
      PROVE  /\ \A i \in DOMAIN ptr'[g] : Hash[ptr'[g][i].key] = g
             /\ UniqueKeys(ptr'[g])
  <2>1. /\ \A i \in DOMAIN ptr[g] : Hash[ptr[g][i].key] = g
        /\ UniqueKeys(ptr[g])
    BY DEF TableInv, OneEntryPerKey, UniqueKeys
  <2>2. CASE g = h
    BY <2>1, <2>2, <1>3
  <2>3. CASE g # h
    BY <2>1, <2>3, <1>1
  <2> QED
    BY <2>2, <2>3
<1>6. OneEntryPerKey'
  BY <1>5 DEF OneEntryPerKey, UniqueKeys
<1>7. ASSUME NEW k \in Keys
      PROVE  Lookup(ptr'[Hash[k]], k) = IF k = key THEN value ELSE Lookup(ptr[Hash[k]], k)
  <2>1. Hash[k] \in Buckets
    BY DefineTableAssumption
  <2> QED
    BY <2>1, <1>1, <1>3
<1> QED
  BY <1>4, <1>6, <1>7 DEF TableInv

LEMMA TableGet ==
  ASSUME TableInv, NEW key \in Keys, Get(key)
  PROVE  TableInv' /\ ptr' = ptr /\ result' = Lookup(ptr[Hash[key]], key)
<1> DEFINE list == ptr[Hash[key]]
<1>1. list \in Seq(Entries) /\ UniqueKeys(list)
  BY DefineTableAssumption DEF TableInv, TypeOK, OneEntryPerKey, UniqueKeys
<1>2. ptr' = ptr
  BY DEF Get
<1>3. CASE Found(list, key) = {} /\ result' = NULL
  BY <1>2, <1>3 DEF TableInv, TypeOK, OneEntryPerKey, Lookup
<1>4. CASE \E i \in Found(list, key) : result' = list[i].value
  <2> PICK i \in Found(list, key) : result' = list[i].value
    BY <1>4
  <2>1. i \in DOMAIN list /\ list[i].key = key
    BY DEF Found
  <2>2. result' = Lookup(list, key)
    BY <1>1, <2>1, LookupFound
  <2>3. list[i] \in Entries
    BY <1>1, <2>1
  <2>4. list[i].value \in Values \cup {NULL}
    BY <2>3 DEF Entries
  <2> QED
    BY <1>2, <2>2, <2>4 DEF TableInv, TypeOK, OneEntryPerKey
<1> QED
  BY <1>3, <1>4 DEF Get

LEMMA TableNext == TableInv /\ [Next]_vars => TableInv'
<1> SUFFICES ASSUME TableInv, [Next]_vars PROVE TableInv'
  OBVIOUS
<1>1. ASSUME NEW key \in Keys, NEW value \in Values \cup {NULL}, Set(key, value) PROVE TableInv'
  BY <1>1, TableSet
<1>2. ASSUME NEW key \in Keys, Get(key) PROVE TableInv'
  BY <1>2, TableGet
<1>3. CASE UNCHANGED vars
  BY <1>3 DEF vars, TableInv, TypeOK, OneEntryPerKey
<1> QED
  BY <1>1, <1>2, <1>3 DEF Next

\* The table keeps its type, and every name has at most one entry, in the
\* bucket of its hash, after any calls of prep_define_set.
THEOREM TableCorrect == Spec => [](TypeOK /\ OneEntryPerKey)
<1>1. TableInv <=> TypeOK /\ OneEntryPerKey
  BY DEF TableInv
<1> QED
  BY TableInit, TableNext, <1>1, PTL DEF Spec

\* Every bucket stays a list of entries, whatever names share it.
THEOREM TableTypeCorrect == Spec => []TypeOK
BY TableCorrect, PTL

\* Any sequence of prep_define_set and prep_define_get returns what the map
\* from names to replacements returns.
THEOREM TableIsMap == Spec => IsMap
<1> DEFINE defs == [key \in Keys |-> Lookup(ptr[Hash[key]], key)]
<1>1. Init => Map!Init
  <2> SUFFICES ASSUME Init PROVE Map!Init
    OBVIOUS
  <2>1. ASSUME NEW key \in Keys PROVE Lookup(ptr[Hash[key]], key) = NULL
    <3>1. Hash[key] \in Buckets
      BY DefineTableAssumption
    <3>2. ptr[Hash[key]] = <<>>
      BY <3>1 DEF Init
    <3>3. Found(<<>>, key) = {}
      BY DEF Found
    <3> QED
      BY <3>2, <3>3 DEF Lookup
  <2> QED
    BY <2>1 DEF Init, Map!Init
<1>2. TableInv /\ [Next]_vars => [Map!Next]_(Map!mapVars)
  <2> SUFFICES ASSUME TableInv, [Next]_vars PROVE [Map!Next]_(Map!mapVars)
    OBVIOUS
  <2>1. ASSUME NEW key \in Keys, NEW value \in Values \cup {NULL}, Set(key, value)
        PROVE  Map!Set(key, value)
    <3>1. \A k \in Keys : Lookup(ptr'[Hash[k]], k) = IF k = key THEN value ELSE Lookup(ptr[Hash[k]], k)
      BY <2>1, TableSet
    <3>2. result' = result
      BY <2>1 DEF Set
    <3>3. defs' = [defs EXCEPT ![key] = value]
      BY <3>1
    <3> QED
      BY <3>2, <3>3 DEF Map!Set
  <2>2. ASSUME NEW key \in Keys, Get(key)
        PROVE  Map!Get(key)
    <3>1. ptr' = ptr /\ result' = Lookup(ptr[Hash[key]], key)
      BY <2>2, TableGet
    <3> QED
      BY <3>1 DEF Map!Get
  <2>3. CASE UNCHANGED vars
    BY <2>3 DEF vars, Map!mapVars
  <2> QED
    BY <2>1, <2>2, <2>3 DEF Next, Map!Next
<1>3. Spec => []TableInv
  BY TableInit, TableNext, PTL DEF Spec
<1> QED
  BY <1>1, <1>2, <1>3, PTL DEF Spec, Map!Spec, IsMap
=============================================================================
