---------------------------- MODULE ExpandProofs ----------------------------
(***************************************************************************)
(* Proofs about the module Expand: every call of expand reads the symbols  *)
(* of its own file, and every turn of its loop moves the call forward and  *)
(* gives what it passes on to no other call.  Proofs about the module      *)
(* ExpandLines: what it does to files that are made of lines is what their *)
(* pieces mean.                                                            *)
(*                                                                         *)
(* The readers are recursive functions.  That such a definition has a      *)
(* solution, and what every solution does, are inductions over sets: what  *)
(* is left to read is the rank of a reader.                                *)
(***************************************************************************)
EXTENDS ExpandLines, Integers, WellFoundedInduction, TLAPS

\* A call reads a file of its own name.
CallOk(f) ==
  /\ f.dir = DirOf(f.path)
  /\ f.end \in 1..(Len(files[f.path]) + 1)
  /\ f.ptr \in 1..(Len(files[f.path]) + 2)
Calls == {f \in [path : DOMAIN files, dir : {DirOf(path) : path \in DOMAIN files}, ptr : Nat, end : Nat] : CallOk(f)}

\* A content is given or taken away.
Contents == Seq(Symbols) \cup {NULL}

ExpandInv ==
  /\ files \in FileSystems
  /\ frames \in Seq(Calls)
  /\ phase = "run" => frames # <<>>
  /\ \A name \in DOMAIN defs : name \in Seq(Symbols) /\ defs[name] \in Contents
  /\ out \in Seq(Symbols) /\ Len(out) <= OutSize
  /\ loads \in 1..MaxLoads
  /\ phase \in {"run", "done", "abort", "outside"}

\* What a step does to the calls, as NothingTwice states it.
Forward ==
  phase' = "run" /\ Len(frames') >= Len(frames) =>
    LET n == Len(frames) IN
    /\ \A i \in 1..(n - 1) : frames'[i] = frames[i]
    /\ frames'[n].ptr > Top.ptr
    /\ Len(frames') > n =>
         LET new == frames'[n + 1] IN
         \/ new = FileFrame(new.path)
         \/ /\ new.path = Top.path
            /\ Top.ptr < new.ptr /\ new.end <= End
            /\ new.end <= frames'[n].ptr

-----------------------------------------------------------------------------
(***************************************************************************)
(* Induction over the naturals, said of sets                               *)
(***************************************************************************)

\* A set of naturals has a least element.
LEMMA LeastNat ==
  ASSUME NEW T, T \subseteq Nat, T # {}
  PROVE  \E x \in T : \A y \in T : x <= y
<1>1. PICK x \in T : \A y \in T : <<y, x>> \notin OpToRel(<, Nat)
  BY NatLessThanWellFounded, WFMin
<1>2. ASSUME NEW y \in T PROVE x <= y
  <2>1. ~(y < x)
    BY <1>1 DEF OpToRel
  <2> QED
    BY <2>1
<1> QED
  BY <1>2

\* A set that holds 0, and with every number below a bound the next one, holds
\* all of them.
LEMMA InductionUpTo ==
  ASSUME NEW n \in Nat, NEW T, 0 \in T, \A i \in 0..(n - 1) : i \in T => i + 1 \in T
  PROVE  0..n \subseteq T
<1> DEFINE B == {i \in 0..n : i \notin T}
<1> SUFFICES ASSUME B # {} PROVE FALSE
  OBVIOUS
<1>1. B \subseteq Nat
  OBVIOUS
<1> HIDE DEF B
<1>2. PICK x \in B : \A y \in B : x <= y
  BY <1>1, LeastNat
<1>3. x \in 1..n /\ x \notin T
  BY <1>2 DEF B
<1>4. x - 1 \in 0..(n - 1) /\ (x - 1) + 1 = x /\ ~(x <= x - 1)
  BY <1>3
<1>5. x - 1 \in T
  BY <1>2, <1>4 DEF B
<1> QED
  BY <1>3, <1>4, <1>5

-----------------------------------------------------------------------------
(***************************************************************************)
(* Recursion over a set whose elements have a rank below a bound           *)
(***************************************************************************)

\* An element is in the set where all those of lower rank are.
Inductive(R, n, rank, S) ==
  /\ n \in Nat /\ rank \in [R -> 0..n]
  /\ \A r \in R : (\A q \in R : rank[q] < rank[r] => q \in S) => r \in S

\* Such a set holds every element.
LEMMA RankInduction ==
  ASSUME NEW R, NEW n, NEW rank, NEW S, Inductive(R, n, rank, S)
  PROVE  R \subseteq S
<1> DEFINE B == {r \in R : r \notin S}
           T == {rank[r] : r \in B}
<1> SUFFICES ASSUME B # {} PROVE FALSE
  OBVIOUS
<1>0. /\ n \in Nat /\ rank \in [R -> 0..n]
      /\ \A r \in R : (\A q \in R : rank[q] < rank[r] => q \in S) => r \in S
  BY DEF Inductive
<1>1. T \subseteq Nat /\ T # {}
  <2> USE <1>0
  <2>1. \A r \in B : rank[r] \in Nat
    OBVIOUS
  <2> QED
    BY <2>1
<1> HIDE DEF T
<1>2. PICK x \in T : \A y \in T : x <= y
  BY <1>1, LeastNat
<1>3. PICK r \in B : x = rank[r]
  BY <1>2 DEF T
<1>4. ASSUME NEW q \in R, rank[q] < rank[r] PROVE q \in S
  <2> SUFFICES ASSUME q \in B PROVE FALSE
    OBVIOUS
  <2>1. rank[q] \in T
    BY DEF T
  <2>2. rank[r] <= rank[q] /\ rank[r] \in Nat /\ rank[q] \in Nat
    BY <1>0, <1>2, <1>3, <2>1
  <2> QED
    BY <1>4, <2>2
<1> QED
  BY <1>0, <1>3, <1>4

\* The recursion goes on from the elements of more, each time to one of lower
\* rank, and joins an element with the value there; elsewhere the value is last.
Descends(R, V, n, rank, more, next, join, last) ==
  /\ n \in Nat /\ rank \in [R -> 0..n]
  /\ more \in SUBSET R /\ next \in [more -> R]
  /\ \A r \in more : rank[next[r]] < rank[r]
  /\ join \in [R \X V -> V] /\ last \in [R -> V]

\* Such a recursive definition has a solution.
LEMMA RankRecursion ==
  ASSUME NEW R, NEW V, NEW n, NEW rank, NEW more, NEW next, NEW join, NEW last,
         Descends(R, V, n, rank, more, next, join, last)
  PROVE  \E h \in [R -> V] :
           \A r \in R : h[r] = IF r \in more THEN join[<<r, h[next[r]]>>] ELSE last[r]
<1> DEFINE D(m) == {r \in R : rank[r] < m}
           Solves(g, m) == /\ g \in [D(m) -> V]
                           /\ \A r \in D(m) : g[r] = IF r \in more THEN join[<<r, g[next[r]]>>] ELSE last[r]
           Solvable(m) == \E g : Solves(g, m)
           T == {m \in 0..(n + 1) : Solvable(m)}
<1>0. /\ n \in Nat /\ rank \in [R -> 0..n]
      /\ more \in SUBSET R /\ next \in [more -> R]
      /\ \A r \in more : rank[next[r]] < rank[r]
      /\ join \in [R \X V -> V] /\ last \in [R -> V]
  BY DEF Descends
<1> USE <1>0
<1>1. 0 \in T
  <2>1. D(0) = {}
    <3>1. \A r \in R : ~(rank[r] < 0)
      OBVIOUS
    <3> QED
      BY <3>1
  <2>2. Solves([r \in D(0) |-> last[r]], 0)
    BY <2>1
  <2>3. Solvable(0)
    BY <2>2
  <2> HIDE DEF Solvable
  <2> QED
    BY <2>3
<1>2. ASSUME NEW m \in 0..n, m \in T PROVE m + 1 \in T
  <2>1. PICK g : Solves(g, m)
    BY <1>2
  <2> DEFINE new(r) == IF r \in more THEN join[<<r, g[next[r]]>>] ELSE last[r]
             h == [r \in D(m + 1) |-> new(r)]
  <2>2. ASSUME NEW r \in D(m + 1), r \in more PROVE next[r] \in D(m) /\ next[r] \in D(m + 1)
    <3>1. next[r] \in R /\ rank[next[r]] < rank[r] /\ rank[r] < m + 1
      BY <2>2
    <3>2. rank[next[r]] \in 0..n /\ rank[r] \in 0..n
      BY <3>1
    <3> QED
      BY <3>1, <3>2
  <2>3. h \in [D(m + 1) -> V]
    <3>1. ASSUME NEW r \in D(m + 1) PROVE new(r) \in V
      <4>1. CASE r \in more
        <5>1. next[r] \in D(m)
          BY <2>2, <4>1
        <5>2. g[next[r]] \in V
          BY <2>1, <5>1
        <5> QED
          BY <4>1, <5>2
      <4>2. CASE r \notin more
        BY <4>2
      <4> QED
        BY <4>1, <4>2
    <3> QED
      BY <3>1
  <2>4. \A r \in D(m) : g[r] = new(r)
    BY <2>1
  <2>5. ASSUME NEW r \in D(m + 1)
        PROVE  h[r] = IF r \in more THEN join[<<r, h[next[r]]>>] ELSE last[r]
    <3>1. h[r] = new(r)
      OBVIOUS
    <3>2. CASE r \in more
      <4>1. next[r] \in D(m) /\ next[r] \in D(m + 1)
        BY <2>2, <3>2
      <4>2. h[next[r]] = g[next[r]]
        <5>1. h[next[r]] = new(next[r])
          BY <4>1
        <5>2. g[next[r]] = new(next[r])
          BY <2>4, <4>1
        <5> QED
          BY <5>1, <5>2
      <4> HIDE DEF h
      <4> QED
        BY <3>1, <3>2, <4>2
    <3>3. CASE r \notin more
      BY <3>1, <3>3
    <3> QED
      BY <3>2, <3>3
  <2> HIDE DEF h
  <2>6. Solves(h, m + 1)
    BY <2>3, <2>5
  <2> HIDE DEF Solves
  <2>7. Solvable(m + 1)
    BY <2>6
  <2> HIDE DEF Solvable
  <2> QED
    BY <2>7
<1> HIDE DEF T
<1>3. n + 1 \in T
  <2>1. \A m \in 0..((n + 1) - 1) : m \in T => m + 1 \in T
    BY <1>2
  <2>2. n + 1 \in Nat
    OBVIOUS
  <2>3. 0..(n + 1) \subseteq T
    BY <1>1, <2>1, <2>2, InductionUpTo
  <2> QED
    BY <2>2, <2>3
<1>4. PICK g : Solves(g, n + 1)
  BY <1>3 DEF T
<1>5. D(n + 1) = R
  OBVIOUS
<1> HIDE DEF D
<1>6. g \in [R -> V] /\ \A r \in R : g[r] = IF r \in more THEN join[<<r, g[next[r]]>>] ELSE last[r]
  BY <1>4, <1>5
<1> QED
  BY <1>6

-----------------------------------------------------------------------------
(***************************************************************************)
(* The text of a call                                                      *)
(***************************************************************************)

\* What the innermost call reads.
Readable == Text \in Seq(Symbols) /\ End \in 1..(Len(Text) + 1)

\* The innermost call reads the symbols of its file.
LEMMA TopIs ==
  ASSUME ExpandInv, phase = "run"
  PROVE  /\ Readable /\ Len(frames) \in Nat \ {0} /\ Top \in Calls
         /\ Top.ptr \in 1..(Len(Text) + 2) /\ Top.path \in DOMAIN files
         /\ Top.dir = DirOf(Top.path)
<1>1. Len(frames) \in Nat \ {0} /\ Top \in Calls
  BY DEF ExpandInv, Top
<1>2. Top.path \in DOMAIN files /\ CallOk(Top)
  BY <1>1 DEF Calls
<1>3. files[Top.path] \in Seq(Symbols)
  BY <1>2, ExpandAssumption DEF ExpandInv
<1> QED
  BY <1>1, <1>2, <1>3 DEF CallOk, Readable, Text, End

\* What stands between two positions of the text is text, and none stands
\* between a position and an earlier one.
LEMMA SpanType ==
  ASSUME Readable, NEW a \in Nat, NEW b \in Nat, 1 <= a, b <= End
  PROVE  /\ Span(a, b) \in Seq(Symbols)
         /\ Span(a, b) # <<>> => a < b
<1>1. Len(Text) \in Nat /\ b - 1 <= Len(Text) /\ b - 1 \in Int /\ Text \in Seq(Symbols)
  BY DEF Readable
<1>2. CASE a <= b - 1
  <2>1. \A i \in a..(b - 1) : Text[i] \in Symbols
    BY <1>1
  <2> QED
    BY <1>1, <1>2, <2>1 DEF Span
<1>3. CASE ~(a <= b - 1)
  <2>1. Span(a, b) = <<>>
    BY <1>1, <1>3 DEF Span
  <2> QED
    BY <2>1
<1> QED
  BY <1>2, <1>3

\* A reader that is not at the end reads on, and not beyond the end.
LEMMA ReadNext ==
  ASSUME Readable, NEW r \in Readers
  PROVE  /\ readnext(r) \in Readers
         /\ r.ptr >= End => ~readnext(r).more /\ readnext(r).ptr = r.ptr
         /\ r.ptr < End => /\ readnext(r).more
                           /\ readnext(r).ptr > r.ptr /\ readnext(r).ptr <= End
<1>1. End \in Nat /\ r.ptr \in Nat \ {0} /\ r.cur \in Symbols /\ r.more \in BOOLEAN
  BY DEF Readable, Readers
<1>2. CASE r.ptr >= End
  <2>1. readnext(r) = [ptr |-> r.ptr, cur |-> r.cur, more |-> FALSE]
    BY <1>2 DEF readnext
  <2> QED
    BY <1>1, <1>2, <2>1 DEF Readers
<1>3. CASE ~(r.ptr >= End) /\ (r.ptr + 1 >= End \/ Text[r.ptr] # "\\")
  <2>1. readnext(r) = [ptr |-> r.ptr + 1, cur |-> Text[r.ptr], more |-> TRUE]
    BY <1>3 DEF readnext
  <2>2. Text[r.ptr] \in Symbols
    BY <1>1, <1>3 DEF Readable
  <2> QED
    BY <1>1, <1>3, <2>1, <2>2 DEF Readers
<1>4. CASE ~(r.ptr >= End) /\ ~(r.ptr + 1 >= End \/ Text[r.ptr] # "\\")
  <2>1. readnext(r) = [ptr |-> r.ptr + 2, cur |-> IF Text[r.ptr + 1] = "LF" THEN "SP" ELSE Text[r.ptr + 1],
                       more |-> TRUE]
    BY <1>4 DEF readnext
  <2>2. Text[r.ptr + 1] \in Symbols /\ "SP" \in Symbols
    BY <1>1, <1>4 DEF Readable, Symbols, Spaces
  <2> QED
    BY <1>1, <1>4, <2>1, <2>2 DEF Readers
<1> QED
  BY <1>2, <1>3, <1>4

-----------------------------------------------------------------------------
(***************************************************************************)
(* Reading on                                                              *)
(***************************************************************************)

\* What is left to read: the rank of a reader.
Left == [r \in Readers |-> IF r.ptr < End THEN End - r.ptr ELSE 0]

\* Who has read on has less left.
LEMMA LeftIs ==
  ASSUME Readable
  PROVE  /\ End \in Nat /\ Left \in [Readers -> 0..End]
         /\ \A r, q \in Readers : r.ptr < End /\ q.ptr > r.ptr => Left[q] < Left[r]
<1>1. End \in Nat
  BY DEF Readable
<1>2. \A r \in Readers : r.ptr \in Nat
  BY DEF Readers
<1> QED
  BY <1>1, <1>2 DEF Left

\* q is where r has read to.
Passed(r, q) ==
  /\ q \in Readers /\ q.ptr >= r.ptr
  /\ q.more => q.ptr > r.ptr /\ q.ptr <= End
  /\ ~q.more => q.ptr >= End
  /\ r.ptr <= End => q.ptr <= End

\* readnext reads on.
LEMMA PassedNext ==
  ASSUME Readable, NEW r \in Readers
  PROVE  Passed(r, readnext(r))
<1>1. End \in Nat /\ r.ptr \in Nat /\ readnext(r).ptr \in Nat
  BY ReadNext DEF Readable, Readers
<1> QED
  BY <1>1, ReadNext DEF Passed

\* Reading on from where another has read to.
LEMMA PassedOn ==
  ASSUME Readable, NEW r \in Readers, NEW s \in Readers, NEW q, Passed(r, s), Passed(s, q)
  PROVE  Passed(r, q)
<1>1. End \in Nat /\ r.ptr \in Nat /\ s.ptr \in Nat /\ q.ptr \in Nat
  BY DEF Readable, Readers, Passed
<1> QED
  BY <1>1 DEF Passed

\* A recursion over the readers that goes on to less left has a solution.
LEMMA ReadersRecur ==
  ASSUME NEW more, NEW next, NEW join, NEW last,
         Descends(Readers, Readers, End, Left, more, next, join, last)
  PROVE  \E h \in [Readers -> Readers] :
           \A r \in Readers : h[r] = IF r \in more THEN join[<<r, h[next[r]]>>] ELSE last[r]
BY RankRecursion

\* The recursion of a reader goes on from some readers, to what is behind them.
GoesOn(more, next, last) ==
  /\ more \in SUBSET Readers /\ next \in [more -> Readers]
  /\ \A r \in more : r.ptr < End /\ next[r].ptr > r.ptr
  /\ last \in [Readers -> Readers]

\* One that goes on to what is behind does.
LEMMA ReadersDescend ==
  ASSUME Readable, NEW more, NEW next, NEW last, GoesOn(more, next, last)
  PROVE  \E join : /\ \A r, v \in Readers : join[<<r, v>>] = v
                   /\ Descends(Readers, Readers, End, Left, more, next, join, last)
<1> DEFINE join == [x \in Readers \X Readers |-> x[2]]
<1>1. join \in [Readers \X Readers -> Readers]
  OBVIOUS
<1>2. \A r \in more : Left[next[r]] < Left[r]
  BY LeftIs DEF GoesOn
<1>3. \A r, v \in Readers : join[<<r, v>>] = v
  OBVIOUS
<1> HIDE DEF join
<1>4. Descends(Readers, Readers, End, Left, more, next, join, last)
  BY <1>1, <1>2, LeftIs DEF Descends, GoesOn
<1> QED
  BY <1>3, <1>4

\* Such a recursion has a solution.
LEMMA ReaderRecursion ==
  ASSUME Readable, NEW more, NEW next, NEW last, GoesOn(more, next, last)
  PROVE  \E h \in [Readers -> Readers] :
           \A r \in Readers : h[r] = IF r \in more THEN h[next[r]] ELSE last[r]
<1>1. PICK join : /\ \A r, v \in Readers : join[<<r, v>>] = v
                  /\ Descends(Readers, Readers, End, Left, more, next, join, last)
  BY ReadersDescend
<1>2. PICK h \in [Readers -> Readers] :
        \A r \in Readers : h[r] = IF r \in more THEN join[<<r, h[next[r]]>>] ELSE last[r]
  BY <1>1, ReadersRecur
<1>3. \A r \in Readers : h[r] = IF r \in more THEN h[next[r]] ELSE last[r]
  <2>1. \A r \in more : join[<<r, h[next[r]]>>] = h[next[r]]
    BY <1>1, <1>2 DEF GoesOn
  <2> QED
    BY <1>2, <2>1
<1> QED
  BY <1>2, <1>3

\* What holds of the last reader a recursion comes to holds of every reader
\* before it, when it is handed on from the next.
LEMMA ReaderInduction ==
  ASSUME Readable, NEW S,
         \A r \in Readers : (\A q \in Readers : r.ptr < End /\ q.ptr > r.ptr => q \in S) => r \in S
  PROVE  Readers \subseteq S
<1>1. End \in Nat /\ Left \in [Readers -> 0..End]
  BY LeftIs
<1>2. ASSUME NEW r \in Readers, \A q \in Readers : Left[q] < Left[r] => q \in S
      PROVE  r \in S
  <2>1. \A q \in Readers : r.ptr < End /\ q.ptr > r.ptr => q \in S
    BY <1>2, LeftIs
  <2> QED
    BY <2>1
<1>3. Inductive(Readers, End, Left, S)
  BY <1>1, <1>2 DEF Inductive
<1> QED
  BY <1>3, RankInduction

\* ReadUpTo is what its recursion says.
LEMMA ReadUpToIs ==
  ASSUME Readable, NEW stops, NEW r \in Readers
  PROVE  ReadUpTo(r, stops) = IF readnext(r).more /\ readnext(r).cur \notin stops
                                THEN ReadUpTo(readnext(r), stops) ELSE readnext(r)
<1> DEFINE more == {q \in Readers : readnext(q).more /\ readnext(q).cur \notin stops}
           next == [q \in more |-> readnext(q)]
           last == [q \in Readers |-> readnext(q)]
           Fix(g) == g = [q \in Readers |-> IF readnext(q).more /\ readnext(q).cur \notin stops
                                              THEN g[readnext(q)] ELSE readnext(q)]
           go == CHOOSE g : Fix(g)
<1>1. GoesOn(more, next, last)
  <2>1. \A q \in more : /\ q \in Readers /\ readnext(q) \in Readers
                        /\ q.ptr < End /\ readnext(q).ptr > q.ptr
    <3>1. ASSUME NEW q \in more PROVE q.ptr < End
      <4>1. q \in Readers /\ readnext(q).more
        OBVIOUS
      <4>2. q.ptr \in Nat /\ End \in Nat
        BY <4>1 DEF Readers, Readable
      <4> QED
        BY <4>1, <4>2, ReadNext
    <3> QED
      BY <3>1, ReadNext
  <2>2. \A q \in Readers : readnext(q) \in Readers
    BY ReadNext
  <2> QED
    BY <2>1, <2>2 DEF GoesOn
<1>2. \E g : Fix(g)
  <2> HIDE DEF more, next, last
  <2>1. PICK h \in [Readers -> Readers] :
          \A q \in Readers : h[q] = IF q \in more THEN h[next[q]] ELSE last[q]
    BY <1>1, ReaderRecursion
  <2>2. \A q \in Readers : h[q] = IF readnext(q).more /\ readnext(q).cur \notin stops
                                    THEN h[readnext(q)] ELSE readnext(q)
    BY <2>1 DEF more, next, last
  <2>3. Fix(h)
    BY <2>1, <2>2
  <2> HIDE DEF Fix
  <2> QED
    BY <2>3
<1>3. Fix(go)
  <2> HIDE DEF Fix
  <2> QED
    BY <1>2, Zenon
<1>4. \A s : ReadUpTo(s, stops) = go[s]
  BY DEF ReadUpTo
<1> HIDE DEF go
<1> QED
  BY <1>3, <1>4

\* ReadUpTo reads on, and stops short of the end only behind a stop.
LEMMA ReadUpToPassed ==
  ASSUME Readable, NEW stops, NEW r \in Readers
  PROVE  Passed(r, ReadUpTo(r, stops))
<1> DEFINE S == {q \in Readers : Passed(q, ReadUpTo(q, stops))}
<1>1. ASSUME NEW q \in Readers, \A s \in Readers : q.ptr < End /\ s.ptr > q.ptr => s \in S
      PROVE  q \in S
  <2>1. Passed(q, readnext(q)) /\ readnext(q) \in Readers
    BY PassedNext, ReadNext
  <2>2. CASE readnext(q).more /\ readnext(q).cur \notin stops
    <3>1. q.ptr < End
      <4>1. q.ptr \in Nat /\ End \in Nat
        BY DEF Readers, Readable
      <4> QED
        BY <2>2, <4>1, ReadNext
    <3>2. Passed(readnext(q), ReadUpTo(readnext(q), stops))
      BY <1>1, <2>1, <3>1, ReadNext
    <3>3. ReadUpTo(q, stops) = ReadUpTo(readnext(q), stops)
      BY <2>2, ReadUpToIs
    <3>4. Passed(q, ReadUpTo(readnext(q), stops))
      BY <2>1, <3>2, PassedOn
    <3> QED
      BY <3>3, <3>4
  <2>3. CASE ~(readnext(q).more /\ readnext(q).cur \notin stops)
    <3>1. ReadUpTo(q, stops) = readnext(q)
      BY <2>3, ReadUpToIs
    <3> QED
      BY <2>1, <3>1
  <2> QED
    BY <2>2, <2>3
<1> HIDE DEF S
<1>2. Readers \subseteq S
  BY <1>1, ReaderInduction
<1> QED
  BY <1>2 DEF S

\* The turn of the loop in a literal, and when there is one more.
LiteralOn(r) == ~(~readnext(r).more \/ readnext(r).cur = Cur.cur)
LiteralNext(r) == IF readnext(r).cur = "\\" THEN readnext(readnext(r)) ELSE readnext(r)

\* A turn of the loop in a literal reads on.
LEMMA LiteralReads ==
  ASSUME Readable, NEW q \in Readers, LiteralOn(q)
  PROVE  /\ readnext(q) \in Readers /\ LiteralNext(q) \in Readers
         /\ q.ptr < End /\ LiteralNext(q).ptr > q.ptr
         /\ Passed(q, LiteralNext(q))
<1>1. readnext(q) \in Readers /\ q.ptr \in Nat /\ End \in Nat /\ readnext(q).ptr \in Nat
  BY ReadNext DEF Readers, Readable
<1>2. readnext(q).more
  BY DEF LiteralOn
<1>3. q.ptr < End /\ readnext(q).ptr > q.ptr
  BY <1>1, <1>2, ReadNext
<1>4. Passed(q, readnext(q)) /\ Passed(readnext(q), readnext(readnext(q)))
  BY <1>1, PassedNext
<1>5. Passed(q, readnext(readnext(q)))
  BY <1>1, <1>4, PassedOn DEF Passed
<1>6. CASE readnext(q).cur = "\\"
  <2>1. LiteralNext(q) = readnext(readnext(q))
    BY <1>6 DEF LiteralNext
  <2>2. readnext(readnext(q)) \in Readers /\ readnext(readnext(q)).ptr >= readnext(q).ptr
    BY <1>4 DEF Passed
  <2>3. readnext(readnext(q)).ptr \in Nat
    BY <2>2 DEF Readers
  <2> QED
    BY <1>1, <1>3, <1>5, <2>1, <2>2, <2>3
<1>7. CASE readnext(q).cur # "\\"
  BY <1>1, <1>3, <1>4, <1>7 DEF LiteralNext
<1> QED
  BY <1>6, <1>7

\* LiteralEnd is what its recursion says.
LEMMA LiteralEndIs ==
  ASSUME Readable
  PROVE  \E go : /\ LiteralEnd = go[Cur]
                 /\ \A r \in Readers : go[r] = IF LiteralOn(r) THEN go[LiteralNext(r)] ELSE readnext(r)
<1> DEFINE more == {q \in Readers : LiteralOn(q)}
           next == [q \in more |-> LiteralNext(q)]
           last == [q \in Readers |-> readnext(q)]
           Fix(g) == g = [r \in Readers |->
                            LET s == readnext(r) IN
                            IF ~s.more \/ s.cur = Cur.cur THEN s
                            ELSE IF s.cur = "\\" THEN g[readnext(s)] ELSE g[s]]
           go == CHOOSE g : Fix(g)
<1>1. GoesOn(more, next, last)
  <2>1. \A q \in Readers : readnext(q) \in Readers
    BY ReadNext
  <2> QED
    BY <2>1, LiteralReads DEF GoesOn
<1>2. \E g : Fix(g)
  <2> HIDE DEF more, next, last
  <2>1. PICK h \in [Readers -> Readers] :
          \A q \in Readers : h[q] = IF q \in more THEN h[next[q]] ELSE last[q]
    BY <1>1, ReaderRecursion
  <2>2. \A r \in Readers :
          h[r] = LET s == readnext(r) IN
                 IF ~s.more \/ s.cur = Cur.cur THEN s
                 ELSE IF s.cur = "\\" THEN h[readnext(s)] ELSE h[s]
    BY <2>1 DEF more, next, last, LiteralOn, LiteralNext
  <2>3. Fix(h)
    BY <2>1, <2>2
  <2> HIDE DEF Fix
  <2> QED
    BY <2>3
<1>3. Fix(go)
  <2> HIDE DEF Fix
  <2> QED
    BY <1>2, Zenon
<1>4. LiteralEnd = go[Cur]
  BY DEF LiteralEnd
<1> HIDE DEF go
<1>5. \A r \in Readers : go[r] = IF LiteralOn(r) THEN go[LiteralNext(r)] ELSE readnext(r)
  BY <1>3 DEF LiteralOn, LiteralNext
<1> QED
  BY <1>4, <1>5

\* The end of a literal is behind its first symbol.
LEMMA LiteralEndPassed ==
  ASSUME Readable, Cur \in Readers
  PROVE  Passed(Cur, LiteralEnd)
<1>1. PICK go : /\ LiteralEnd = go[Cur]
                /\ \A r \in Readers : go[r] = IF LiteralOn(r) THEN go[LiteralNext(r)] ELSE readnext(r)
  BY LiteralEndIs
<1> DEFINE S == {q \in Readers : Passed(q, go[q])}
<1>2. ASSUME NEW q \in Readers, \A s \in Readers : q.ptr < End /\ s.ptr > q.ptr => s \in S
      PROVE  q \in S
  <2>1. CASE LiteralOn(q)
    <3>1. go[q] = go[LiteralNext(q)] /\ LiteralNext(q) \in S /\ LiteralNext(q) \in Readers
      BY <1>1, <1>2, <2>1, LiteralReads
    <3>2. Passed(q, LiteralNext(q)) /\ Passed(LiteralNext(q), go[LiteralNext(q)])
      BY <2>1, <3>1, LiteralReads
    <3>3. Passed(q, go[LiteralNext(q)])
      BY <3>1, <3>2, PassedOn
    <3> QED
      BY <3>1, <3>3
  <2>2. CASE ~LiteralOn(q)
    BY <1>1, <2>2, PassedNext
  <2> QED
    BY <2>1, <2>2
<1> HIDE DEF S
<1>3. Readers \subseteq S
  BY <1>2, ReaderInduction
<1> QED
  BY <1>1, <1>3 DEF S

-----------------------------------------------------------------------------
(***************************************************************************)
(* Reading up to a symbol and giving it back                               *)
(***************************************************************************)

\* A reader that goes back is one symbol before.
LEMMA BackIs ==
  ASSUME NEW r \in Readers, r.ptr >= 2
  PROVE  Back(r) \in Readers /\ Back(r).ptr = r.ptr - 1
<1>1. r.ptr \in Nat /\ r.cur \in Symbols /\ r.more \in BOOLEAN /\ r = [ptr |-> r.ptr, cur |-> r.cur, more |-> r.more]
  BY DEF Readers
<1>2. Back(r) = [ptr |-> r.ptr - 1, cur |-> r.cur, more |-> r.more]
  BY <1>1 DEF Back
<1> QED
  BY <1>1, <1>2 DEF Readers

\* read_while does not go back behind where it started.
LEMMA ReadWhile ==
  ASSUME Readable, NEW set, NEW r \in Readers
  PROVE  /\ read_while(r, set) \in Readers /\ read_while(r, set).ptr >= r.ptr
         /\ r.ptr <= End => read_while(r, set).ptr <= End
<1> DEFINE q == ReadUpTo(r, Symbols \ set)
<1>1. Passed(r, q)
  BY ReadUpToPassed
<1>2. read_while(r, set) = IF q.more THEN Back(q) ELSE q
  BY DEF read_while
<1> HIDE DEF q
<1>3. End \in Nat /\ r.ptr \in Nat \ {0} /\ q.ptr \in Nat /\ q \in Readers
  BY <1>1 DEF Readable, Readers, Passed
<1>4. CASE q.more
  <2>1. q.ptr > r.ptr
    BY <1>1, <1>4 DEF Passed
  <2>2. Back(q) \in Readers /\ Back(q).ptr = q.ptr - 1
    BY <1>3, <2>1, BackIs
  <2> QED
    BY <1>1, <1>2, <1>3, <1>4, <2>1, <2>2 DEF Passed
<1>5. CASE ~q.more
  BY <1>1, <1>2, <1>3, <1>5 DEF Passed
<1> QED
  BY <1>4, <1>5

\* Only a reader at the end goes back behind where it was.
LEMMA ReadUntil ==
  ASSUME Readable, NEW stops, NEW r \in Readers, r.ptr >= 2, r.ptr <= End
  PROVE  /\ read_until(r, stops) \in Readers
         /\ read_until(r, stops).ptr <= End
         /\ r.ptr < End => read_until(r, stops).ptr >= r.ptr
         /\ read_until(r, stops).ptr >= r.ptr - 1
<1> DEFINE q == ReadUpTo(r, stops)
<1>1. Passed(r, q)
  BY ReadUpToPassed
<1>2. read_until(r, stops) = IF q.more \/ r.ptr >= End THEN Back(q) ELSE q
  BY DEF read_until
<1> HIDE DEF q
<1>3. End \in Nat /\ r.ptr \in Nat \ {0} /\ q.ptr \in Nat /\ q \in Readers /\ q.ptr >= r.ptr
  BY <1>1 DEF Readable, Readers, Passed
<1>4. Back(q) \in Readers /\ Back(q).ptr = q.ptr - 1
  BY <1>3, BackIs
<1>5. CASE q.more
  <2>1. q.ptr > r.ptr /\ q.ptr <= End
    BY <1>1, <1>5 DEF Passed
  <2> QED
    BY <1>2, <1>3, <1>4, <1>5, <2>1
<1>6. CASE ~q.more /\ r.ptr >= End
  <2>1. q.ptr <= End
    BY <1>1, <1>3 DEF Passed
  <2> QED
    BY <1>2, <1>3, <1>4, <1>6, <2>1
<1>7. CASE ~q.more /\ ~(r.ptr >= End)
  <2>1. q.ptr <= End
    BY <1>1, <1>3 DEF Passed
  <2> QED
    BY <1>2, <1>3, <1>7, <2>1
<1> QED
  BY <1>5, <1>6, <1>7

-----------------------------------------------------------------------------
(***************************************************************************)
(* What a turn of the loop reads behind its first symbol                   *)
(***************************************************************************)

\* The turn has taken text away.
Ahead(r) == r \in Readers /\ Top.ptr < r.ptr /\ r.ptr <= End

\* There is text to go on with behind the first symbol.
Two == Readable /\ Top.ptr \in Nat \ {0} /\ Top.ptr + 1 < End

\* The first symbol of a turn takes text away.
LEMMA CurIs ==
  ASSUME Readable, Top.ptr \in Nat \ {0}
  PROVE  /\ Cur \in Readers
         /\ Cur.more => Ahead(Cur) /\ Cur.cur \in Symbols
<1> DEFINE r == [ptr |-> Top.ptr, cur |-> "NUL", more |-> TRUE]
<1>1. r \in Readers /\ r.ptr = Top.ptr
  BY DEF Readers, Symbols, Signs
<1>2. Cur = readnext(r)
  BY DEF Cur
<1> HIDE DEF r
<1>3. Passed(r, Cur)
  BY <1>1, <1>2, PassedNext
<1>4. Cur \in Readers
  BY <1>3 DEF Passed
<1>5. Cur.cur \in Symbols
  BY <1>4 DEF Readers
<1> QED
  BY <1>1, <1>3, <1>4, <1>5 DEF Ahead, Passed

\* readnext stays ahead.
LEMMA AheadNext ==
  ASSUME Readable, Top.ptr \in Nat, NEW r, Ahead(r)
  PROVE  Ahead(readnext(r))
<1>1. Passed(r, readnext(r)) /\ r.ptr \in Nat /\ End \in Nat
  BY PassedNext DEF Ahead, Readable, Readers
<1>2. readnext(r).ptr \in Nat
  BY <1>1 DEF Passed, Readers
<1> QED
  BY <1>1, <1>2 DEF Ahead, Passed

\* So does read_while.
LEMMA AheadWhile ==
  ASSUME Readable, Top.ptr \in Nat, NEW r, Ahead(r), NEW set
  PROVE  Ahead(read_while(r, set))
<1> DEFINE q == read_while(r, set)
<1>1. q \in Readers /\ q.ptr >= r.ptr /\ q.ptr <= End
  BY ReadWhile DEF Ahead
<1> HIDE DEF q
<1>2. q.ptr \in Nat /\ r.ptr \in Nat
  BY <1>1 DEF Readers, Ahead
<1>3. Ahead(q)
  BY <1>1, <1>2 DEF Ahead
<1> QED
  BY <1>3 DEF q

\* So does read_spaces_until_lf.
LEMMA AheadSpaces ==
  ASSUME Readable, Top.ptr \in Nat, NEW r, Ahead(r)
  PROVE  Ahead(read_spaces_until_lf(r))
<1> DEFINE q == read_spaces_until_lf(r)
<1>1. Passed(r, q)
  BY ReadUpToPassed DEF Ahead, read_spaces_until_lf
<1> HIDE DEF q
<1>2. q.ptr \in Nat /\ r.ptr \in Nat
  BY <1>1 DEF Readers, Ahead, Passed
<1>3. Ahead(q)
  BY <1>1, <1>2 DEF Ahead, Passed
<1> QED
  BY <1>3 DEF q

\* So does read_until when there are two symbols to read: at the end it goes
\* back by one.
LEMMA AheadUntil ==
  ASSUME Two, NEW r, Ahead(r), NEW stops
  PROVE  Ahead(read_until(r, stops))
<1> DEFINE q == read_until(r, stops)
<1>0. Top.ptr \in Nat \ {0} /\ End \in Nat /\ r.ptr \in Nat /\ r \in Readers
  BY DEF Two, Readable, Ahead, Readers
<1>1. r.ptr >= 2 /\ r.ptr <= End
  BY <1>0 DEF Ahead
<1>2. q \in Readers /\ q.ptr <= End /\ (r.ptr < End => q.ptr >= r.ptr) /\ q.ptr >= r.ptr - 1
  BY <1>0, <1>1, ReadUntil DEF Two
<1> HIDE DEF q
<1>3. q.ptr \in Nat
  BY <1>2 DEF Readers
<1>4. Ahead(q)
  BY <1>0, <1>1, <1>2, <1>3 DEF Ahead, Two
<1> QED
  BY <1>4 DEF q

\* A directive has a word, and what is read behind it is ahead.
LEMMA DirectiveIs ==
  ASSUME Readable, Top.ptr \in Nat \ {0}, NEW word, At(word)
  PROVE  /\ Two /\ Ahead(Cur) /\ Ahead(DirectiveEnd) /\ Ahead(Arg) /\ Ahead(IdEnd)
<1>1. Ahead(Cur)
  BY CurIs DEF At, Reading
<1>2. Ahead(DirectiveAt)
  BY <1>1, AheadWhile DEF DirectiveAt
<1>3. DirectiveAt \in Readers /\ DirectiveAt.ptr \in Nat /\ End \in Nat
      /\ DirectiveAt.ptr >= 2 /\ DirectiveAt.ptr <= End
  BY <1>2 DEF Ahead, Readers, Readable
<1>4. DirectiveEnd \in Readers /\ DirectiveEnd.ptr <= End
  BY <1>3, ReadUntil DEF DirectiveEnd
<1>5. DirectiveEnd.ptr \in Nat
  BY <1>4 DEF Readers
<1>6. DirectiveAt.ptr < DirectiveEnd.ptr
  <2>1. Span(DirectiveAt.ptr, DirectiveEnd.ptr) # <<>>
    BY DEF At, Directive
  <2> QED
    BY <1>3, <1>4, <1>5, <2>1, SpanType
<1>7. Ahead(DirectiveEnd) /\ Two
  BY <1>2, <1>3, <1>4, <1>5, <1>6 DEF Ahead, Two
<1>8. Ahead(Arg)
  BY <1>7, AheadWhile DEF Arg
<1>9. Ahead(IdEnd)
  BY <1>7, <1>8, AheadUntil DEF IdEnd
<1> QED
  BY <1>1, <1>7, <1>8, <1>9

\* What is read between two readers ahead is text.
LEMMA SpanAhead ==
  ASSUME Readable, Top.ptr \in Nat \ {0}, NEW a, NEW b, Ahead(a), Ahead(b)
  PROVE  Span(a.ptr, b.ptr) \in Seq(Symbols) /\ Span(a.ptr - 1, b.ptr) \in Seq(Symbols)
<1>1. /\ a.ptr \in Nat /\ b.ptr \in Nat /\ a.ptr >= 2 /\ b.ptr <= End
      /\ a.ptr - 1 \in Nat /\ a.ptr - 1 >= 1
  BY DEF Ahead, Readers
<1> QED
  BY <1>1, SpanType

-----------------------------------------------------------------------------
(***************************************************************************)
(* What replaces a name                                                    *)
(***************************************************************************)

\* A symbol before symbols.
LEMMA Prefixed ==
  ASSUME NEW S, NEW x \in S, NEW v \in Seq(S)
  PROVE  <<x>> \o v \in Seq(S)
OBVIOUS

\* What one symbol of a content gives, and where the next one is.
Given(content, i) ==
  IF i = Len(content) \/ content[i] # "\\" THEN content[i]
  ELSE IF content[i + 1] = "LF" THEN "SP" ELSE content[i + 1]
Skip(content, i) == IF i = Len(content) \/ content[i] # "\\" THEN i + 1 ELSE i + 2

\* A content gives symbols, and the next one stands behind.
LEMMA GivenType ==
  ASSUME NEW content \in Seq(Symbols), NEW i \in 1..Len(content)
  PROVE  /\ Given(content, i) \in Symbols
         /\ Skip(content, i) \in 1..(Len(content) + 1) /\ Skip(content, i) > i
<1>1. Len(content) \in Nat /\ content[i] \in Symbols /\ "SP" \in Symbols
  BY DEF Symbols, Spaces
<1>2. CASE i = Len(content) \/ content[i] # "\\"
  BY <1>1, <1>2 DEF Given, Skip
<1>3. CASE ~(i = Len(content) \/ content[i] # "\\")
  <2>1. i + 1 \in 1..Len(content) /\ content[i + 1] \in Symbols
    BY <1>1, <1>3
  <2> QED
    BY <1>1, <1>3, <2>1 DEF Given, Skip
<1> QED
  BY <1>2, <1>3

\* The positions of a content, from its last one.
ToGo(content) == [i \in 1..(Len(content) + 1) |-> Len(content) + 1 - i]

\* A content without its backslashes is text.
LEMMA UnescapedType ==
  ASSUME NEW content \in Seq(Symbols)
  PROVE  Unescaped(content) \in Seq(Symbols)
<1> DEFINE L == Len(content)
           R == 1..(L + 1)
           V == Seq(Symbols)
           more == 1..L
           next == [i \in more |-> Skip(content, i)]
           join == [x \in R \X V |-> IF x[1] \in more THEN <<Given(content, x[1])>> \o x[2] ELSE <<>>]
           last == [i \in R |-> <<>>]
           Fix(g) == g = [i \in 1..(Len(content) + 1) |->
                            IF i > Len(content) THEN <<>>
                            ELSE IF i = Len(content) \/ content[i] # "\\" THEN <<content[i]>> \o g[i + 1]
                            ELSE <<IF content[i + 1] = "LF" THEN "SP" ELSE content[i + 1]>> \o g[i + 2]]
           from == CHOOSE g : Fix(g)
<1>1. L \in Nat
  OBVIOUS
<1>2. Descends(R, V, L + 1, ToGo(content), more, next, join, last)
  <2>1. ToGo(content) \in [R -> 0..(L + 1)]
    BY <1>1 DEF ToGo
  <2>2. more \in SUBSET R /\ next \in [more -> R]
    BY <1>1, GivenType
  <2>3. ASSUME NEW i \in more PROVE ToGo(content)[next[i]] < ToGo(content)[i]
    <3>1. next[i] \in R /\ next[i] > i /\ i \in R /\ next[i] \in Nat /\ i \in Nat
      BY <1>1, GivenType
    <3> HIDE DEF next
    <3> QED
      BY <1>1, <3>1 DEF ToGo
  <2>4. join \in [R \X V -> V]
    <3>1. ASSUME NEW i \in R, NEW v \in V
          PROVE  (IF i \in more THEN <<Given(content, i)>> \o v ELSE <<>>) \in V
      <4>1. CASE i \in more
        BY <4>1, GivenType, Prefixed
      <4>2. CASE i \notin more
        BY <4>2
      <4> QED
        BY <4>1, <4>2
    <3> HIDE DEF V, R, more
    <3> QED
      BY <3>1
  <2>5. last \in [R -> V]
    OBVIOUS
  <2>6. L + 1 \in Nat
    BY <1>1
  <2> HIDE DEF R, V, more, next, join, last, L
  <2> QED
    BY <2>1, <2>2, <2>3, <2>4, <2>5, <2>6 DEF Descends
<1>3. \E g : Fix(g)
  <2>1. PICK h \in [R -> V] : \A i \in R : h[i] = IF i \in more THEN join[<<i, h[next[i]]>>] ELSE last[i]
    <3> HIDE DEF R, V, more, next, join, last, L
    <3> QED
      BY <1>2, RankRecursion
  <2>2. ASSUME NEW i \in R
        PROVE  h[i] = IF i > Len(content) THEN <<>>
                      ELSE IF i = Len(content) \/ content[i] # "\\" THEN <<content[i]>> \o h[i + 1]
                      ELSE <<IF content[i + 1] = "LF" THEN "SP" ELSE content[i + 1]>> \o h[i + 2]
    <3>1. CASE i \in more
      <4>1. next[i] = Skip(content, i) /\ Skip(content, i) \in R
        BY <3>1, GivenType
      <4>2. h[Skip(content, i)] \in V /\ <<i, h[Skip(content, i)]>> \in R \X V
        BY <2>1, <4>1
      <4>3. join[<<i, h[Skip(content, i)]>>] = <<Given(content, i)>> \o h[Skip(content, i)]
        <5> HIDE DEF R, V, more
        <5> QED
          BY <3>1, <4>2
      <4>4. h[i] = join[<<i, h[next[i]]>>]
        BY <2>1, <3>1
      <4> HIDE DEF join, next
      <4>5. h[i] = <<Given(content, i)>> \o h[Skip(content, i)]
        BY <4>1, <4>3, <4>4
      <4>6. ~(i > Len(content))
        BY <1>1, <3>1
      <4> QED
        BY <4>5, <4>6 DEF Given, Skip
    <3>2. CASE i \notin more
      <4>1. i > L
        BY <1>1, <3>2
      <4>2. h[i] = last[i]
        BY <2>1, <3>2
      <4>3. h[i] = <<>>
        BY <4>2
      <4> QED
        BY <4>1, <4>3
    <3> QED
      BY <3>1, <3>2
  <2>3. Fix(h)
    BY <2>1, <2>2
  <2> HIDE DEF Fix
  <2> QED
    BY <2>3
<1>4. Fix(from)
  <2> HIDE DEF Fix
  <2> QED
    BY <1>3, Zenon
<1>5. Unescaped(content) = from[1]
  BY DEF Unescaped
<1> HIDE DEF from
<1>6. ASSUME NEW i \in R
      PROVE  from[i] = IF i \in more THEN <<Given(content, i)>> \o from[Skip(content, i)] ELSE <<>>
  <2>1. from[i] = IF i > L THEN <<>>
                  ELSE IF i = L \/ content[i] # "\\" THEN <<content[i]>> \o from[i + 1]
                  ELSE <<IF content[i + 1] = "LF" THEN "SP" ELSE content[i + 1]>> \o from[i + 2]
    BY <1>4
  <2> HIDE DEF Fix
  <2>2. i \in more <=> ~(i > L)
    BY <1>1
  <2>3. CASE i \in more
    BY <2>1, <2>2, <2>3 DEF Given, Skip
  <2>4. CASE i \notin more
    BY <2>1, <2>2, <2>4
  <2> QED
    BY <2>3, <2>4
<1> HIDE DEF Fix
<1> DEFINE S == {i \in R : from[i] \in V}
<1>7. ASSUME NEW i \in R, \A j \in R : ToGo(content)[j] < ToGo(content)[i] => j \in S
      PROVE  i \in S
  <2>1. CASE i \in more
    <3>1. Skip(content, i) \in R /\ Skip(content, i) > i /\ Skip(content, i) \in Nat /\ i \in Nat
      BY <1>1, <2>1, GivenType
    <3>2. ToGo(content)[Skip(content, i)] < ToGo(content)[i]
      BY <1>1, <3>1 DEF ToGo
    <3>3. Skip(content, i) \in S
      <4> HIDE DEF S, R
      <4> QED
        BY <1>7, <3>1, <3>2
    <3>4. from[Skip(content, i)] \in V
      BY <3>3
    <3>5. <<Given(content, i)>> \o from[Skip(content, i)] \in V
      <4> HIDE DEF S, R
      <4> QED
        BY <2>1, <3>4, GivenType, Prefixed
    <3>6. from[i] = <<Given(content, i)>> \o from[Skip(content, i)]
      <4> HIDE DEF S, R, more, V, L
      <4> QED
        BY <1>6, <2>1
    <3>7. from[i] \in V
      <4> HIDE DEF V, L
      <4> QED
        BY <3>5, <3>6
    <3> QED
      BY <3>7
  <2>2. CASE i \notin more
    <3>1. from[i] = <<>>
      <4> HIDE DEF S, R, more, V, L
      <4> QED
        BY <1>6, <2>2
    <3>2. from[i] \in V
      BY <3>1
    <3> QED
      BY <3>2
  <2> QED
    BY <2>1, <2>2
<1>8. Inductive(R, L + 1, ToGo(content), S)
  <2>1. ToGo(content) \in [R -> 0..(L + 1)] /\ L + 1 \in Nat
    BY <1>1 DEF ToGo
  <2> HIDE DEF S, R, L
  <2> QED
    BY <1>7, <2>1 DEF Inductive
<1>9. R \subseteq S
  <2> HIDE DEF S, R, L
  <2> QED
    BY <1>8, RankInduction
<1>10. 1 \in R
  BY <1>1
<1> QED
  BY <1>5, <1>9, <1>10

-----------------------------------------------------------------------------
(***************************************************************************)
(* What the steps have in common                                           *)
(***************************************************************************)

\* The parts of the invariant that are about one variable.
DefsOk == \A name \in DOMAIN defs : name \in Seq(Symbols) /\ defs[name] \in Contents
OutOk == out \in Seq(Symbols) /\ Len(out) <= OutSize
Phases == {"run", "done", "abort", "outside"}

\* The invariant follows from the parts a step may disturb.
LEMMA Kept ==
  ASSUME ExpandInv, files' = files, frames' \in Seq(Calls),
         phase' = "run" => frames' # <<>>,
         DefsOk', OutOk', loads' \in 1..MaxLoads, phase' \in Phases
  PROVE  ExpandInv'
<1>1. Calls' = Calls
  BY DEF Calls, CallOk
<1> QED
  BY <1>1 DEF ExpandInv, DefsOk, OutOk, Phases

\* Only the innermost call moves.
LEMMA FramesAtIs ==
  ASSUME ExpandInv, phase = "run", NEW ptr \in 1..(Len(Text) + 2)
  PROVE  LET n == Len(frames) IN
         /\ n \in Nat \ {0}
         /\ FramesAt(ptr) \in Seq(Calls) /\ Len(FramesAt(ptr)) = n /\ FramesAt(ptr) # <<>>
         /\ \A i \in 1..(n - 1) : FramesAt(ptr)[i] = frames[i]
         /\ FramesAt(ptr)[n].ptr = ptr
<1> DEFINE n == Len(frames)
           g == [Top EXCEPT !.ptr = ptr]
<1>1. n \in Nat \ {0} /\ Top \in Calls /\ frames \in Seq(Calls)
  BY TopIs DEF ExpandInv
<1>2. g \in Calls /\ g.ptr = ptr
  <2>1. Len(files[Top.path]) = Len(Text)
    BY DEF Text
  <2>2. Top \in [path : DOMAIN files, dir : {DirOf(path) : path \in DOMAIN files}, ptr : Nat, end : Nat] /\ CallOk(Top)
    BY <1>1 DEF Calls
  <2>3. ptr \in Nat
    BY TopIs DEF Readable
  <2>4. g.path = Top.path /\ g.dir = Top.dir /\ g.end = Top.end /\ g.ptr = ptr
    BY <2>2
  <2>5. CallOk(g)
    BY <2>1, <2>2, <2>4 DEF CallOk
  <2> HIDE DEF g
  <2>6. g \in [path : DOMAIN files, dir : {DirOf(path) : path \in DOMAIN files}, ptr : Nat, end : Nat]
    BY <2>2, <2>3 DEF g
  <2> QED
    BY <2>4, <2>5, <2>6 DEF Calls
<1>3. FramesAt(ptr) = [frames EXCEPT ![n] = g]
  BY DEF FramesAt, Top
<1> HIDE DEF g
<1> QED
  BY <1>1, <1>2, <1>3

\* A call is as NothingTwice wants a new one, which its caller goes on behind.
Onward(frame, resume) ==
  \/ frame = FileFrame(frame.path)
  \/ /\ frame.path = Top.path
     /\ Top.ptr < frame.ptr /\ frame.end <= End
     /\ frame.end <= resume

\* A step that only moves the innermost call forward.
LEMMA Moves ==
  ASSUME ExpandInv, phase = "run", NEW ptr \in 1..(Len(Text) + 2), ptr > Top.ptr,
         frames' = FramesAt(ptr), files' = files, phase' = phase,
         DefsOk', OutOk', loads' \in 1..MaxLoads
  PROVE  ExpandInv' /\ Forward
<1>1. frames' \in Seq(Calls) /\ frames' # <<>>
  BY FramesAtIs
<1>2. ExpandInv'
  BY <1>1, Kept DEF Phases
<1>3. /\ Len(frames) \in Nat \ {0} /\ Len(frames') = Len(frames)
      /\ \A i \in 1..(Len(frames) - 1) : frames'[i] = frames[i]
      /\ frames'[Len(frames)].ptr = ptr
  BY FramesAtIs
<1>4. Forward
  BY <1>3 DEF Forward
<1> QED
  BY <1>2, <1>4

\* A step that ends the program.
LEMMA Ends ==
  ASSUME ExpandInv, Abort
  PROVE  ExpandInv' /\ Forward
<1>1. ExpandInv'
  BY Kept DEF ExpandInv, DefsOk, OutOk, Phases, Abort
<1>2. Forward
  BY DEF Forward, Abort
<1> QED
  BY <1>1, <1>2

\* A step that enters expand.
LEMMA Enters ==
  ASSUME ExpandInv, phase = "run", NEW frame \in Calls,
         NEW resume \in 1..(Len(Text) + 2), resume > Top.ptr,
         Enter(frame, resume), Onward(frame, resume), loads' \in 1..MaxLoads
  PROVE  ExpandInv' /\ Forward
<1> DEFINE n == Len(frames)
           g == FramesAt(resume)
<1>1. CASE ~(Len(out) < OutSize)
  BY <1>1, Ends DEF Enter
<1>2. CASE Len(out) < OutSize
  <2>1. /\ frames' = Append(g, frame)
        /\ files' = files /\ defs' = defs /\ out' = out /\ phase' = phase
    BY <1>2 DEF Enter
  <2>2. /\ n \in Nat \ {0}
        /\ g \in Seq(Calls) /\ Len(g) = n
        /\ \A i \in 1..(n - 1) : g[i] = frames[i]
        /\ g[n].ptr = resume
    BY FramesAtIs
  <2> HIDE DEF g
  <2>3. /\ frames' \in Seq(Calls) /\ Len(frames') = n + 1 /\ frames' # <<>>
        /\ \A i \in 1..n : frames'[i] = g[i]
        /\ frames'[n + 1] = frame
    BY <2>1, <2>2
  <2>4. ExpandInv'
    BY <2>1, <2>3, Kept DEF ExpandInv, DefsOk, OutOk, Phases
  <2>5. \A i \in 1..(n - 1) : frames'[i] = frames[i]
    BY <2>2, <2>3
  <2>6. frames'[n].ptr = resume
    BY <2>2, <2>3
  <2>7. Forward
    BY <2>3, <2>5, <2>6 DEF Forward, Onward
  <2> QED
    BY <2>4, <2>7
<1> QED
  BY <1>1, <1>2

\* A step that writes to out.
LEMMA Emits ==
  ASSUME ExpandInv, phase = "run", NEW symbols \in Seq(Symbols),
         NEW ptr \in 1..(Len(Text) + 2), ptr > Top.ptr, Emit(symbols, ptr)
  PROVE  ExpandInv' /\ Forward
<1>1. files' = files /\ defs' = defs /\ loads' = loads /\ DefsOk /\ OutOk /\ loads \in 1..MaxLoads
  BY DEF Emit, ExpandInv, DefsOk, OutOk
<1>2. DefsOk'
  BY <1>1 DEF DefsOk
<1>3. CASE Len(out) + Len(symbols) <= OutSize
  <2>1. out' = out \o symbols /\ frames' = FramesAt(ptr) /\ phase' = phase
    BY <1>3 DEF Emit
  <2>2. OutOk'
    BY <1>1, <1>3, <2>1 DEF OutOk
  <2> QED
    BY <1>1, <1>2, <2>1, <2>2, Moves
<1>4. CASE ~(Len(out) + Len(symbols) <= OutSize)
  <2>1. out' = out /\ frames' = frames /\ phase' = "outside"
    BY <1>4 DEF Emit
  <2>2. OutOk'
    BY <1>1, <2>1 DEF OutOk
  <2>3. ExpandInv'
    BY <1>1, <1>2, <2>1, <2>2, Kept DEF ExpandInv, Phases
  <2>4. Forward
    BY <2>1 DEF Forward
  <2> QED
    BY <2>3, <2>4
<1> QED
  BY <1>3, <1>4

-----------------------------------------------------------------------------
(***************************************************************************)
(* The steps                                                               *)
(***************************************************************************)

\* There is a text to read.
LEMMA Running ==
  ASSUME ExpandInv, phase = "run"
  PROVE  Readable /\ Top.ptr \in Nat \ {0} /\ Len(Text) \in Nat /\ Len(files[Top.path]) = Len(Text)
<1>1. Readable /\ Top.ptr \in 1..(Len(Text) + 2)
  BY TopIs
<1>2. Len(Text) \in Nat
  BY <1>1 DEF Readable
<1> QED
  BY <1>1, <1>2 DEF Text

\* What is ahead is in the text, or at its end.
LEMMA AheadIs ==
  ASSUME ExpandInv, phase = "run", NEW r, Ahead(r)
  PROVE  /\ r.ptr \in 1..(Len(Text) + 2) /\ r.ptr > Top.ptr /\ r.ptr >= 2 /\ r.ptr <= End
         /\ r.cur \in Symbols
BY Running DEF Ahead, Readable, Readers

\* The call for a file.
LEMMA FileFrameIs ==
  ASSUME ExpandInv, NEW path \in DOMAIN files
  PROVE  FileFrame(path) \in Calls /\ FileFrame(path) = FileFrame(FileFrame(path).path)
<1>1. Len(files[path]) \in Nat
  BY ExpandAssumption DEF ExpandInv
<1>2. /\ FileFrame(path).path = path /\ FileFrame(path).dir = DirOf(path)
      /\ FileFrame(path).ptr = 1 /\ FileFrame(path).end = Len(files[path]) + 1
  BY DEF FileFrame, Frame
<1>3. CallOk(FileFrame(path))
  BY <1>1, <1>2 DEF CallOk
<1>4. FileFrame(path) \in [path : DOMAIN files, dir : {DirOf(p) : p \in DOMAIN files}, ptr : Nat, end : Nat]
  BY <1>1 DEF FileFrame, Frame
<1> QED
  BY <1>2, <1>3, <1>4 DEF Calls

\* A step that includes a file.
LEMMA Includes ==
  ASSUME ExpandInv, phase = "run", NEW path, NEW r, Ahead(r), prep_expand(path, r.ptr)
  PROVE  ExpandInv' /\ Forward
<1>1. CASE path \in DOMAIN files /\ loads < MaxLoads
  <2>1. Enter(FileFrame(path), r.ptr) /\ loads' = IF Len(out) < OutSize THEN loads + 1 ELSE loads
    BY <1>1 DEF prep_expand
  <2>2. loads' \in 1..MaxLoads
    BY <1>1, <2>1, ExpandAssumption DEF ExpandInv
  <2>3. FileFrame(path) \in Calls /\ Onward(FileFrame(path), r.ptr)
    BY <1>1, FileFrameIs DEF Onward
  <2>4. r.ptr \in 1..(Len(Text) + 2) /\ r.ptr > Top.ptr
    BY AheadIs
  <2> QED
    BY <2>1, <2>2, <2>3, <2>4, Enters
<1>2. CASE ~(path \in DOMAIN files /\ loads < MaxLoads)
  BY <1>2, Ends DEF prep_expand
<1> QED
  BY <1>1, <1>2

\* What follows the path of an #include is ahead.
LEMMA PathRestAhead ==
  ASSUME ExpandInv, NEW word, At(word), NEW close
  PROVE  Ahead(PathRest(close))
<1>1. Readable /\ Top.ptr \in Nat \ {0}
  BY Running DEF At, Reading
<1>2. Two /\ Ahead(Arg)
  BY <1>1, DirectiveIs
<1>3. Ahead(PathAt)
  BY <1>1, <1>2, AheadNext DEF PathAt
<1>4. Ahead(PathEnd(close))
  BY <1>2, <1>3, AheadUntil DEF PathEnd
<1>5. Ahead(readnext(PathEnd(close)))
  BY <1>1, <1>4, AheadNext
<1> QED
  BY <1>1, <1>5, AheadSpaces DEF PathRest

\* The steps, one by one.
LEMMA IncludeLocalStep ==
  ASSUME ExpandInv, IncludeLocal
  PROVE  ExpandInv' /\ Forward
<1>1. At("include") /\ phase = "run"
  BY DEF IncludeLocal, At, Reading
<1>2. Ahead(PathRest("QUOTE"))
  BY <1>1, PathRestAhead
<1>3. CASE PathEnd("QUOTE").cur = "QUOTE"
  BY <1>1, <1>2, <1>3, Includes DEF IncludeLocal
<1>4. CASE PathEnd("QUOTE").cur # "QUOTE"
  BY <1>4, Ends DEF IncludeLocal
<1> QED
  BY <1>3, <1>4

LEMMA IncludeSystemStep ==
  ASSUME ExpandInv, IncludeSystem
  PROVE  ExpandInv' /\ Forward
<1>1. At("include") /\ phase = "run"
  BY DEF IncludeSystem, At, Reading
<1>2. Ahead(PathRest(">"))
  BY <1>1, PathRestAhead
<1>3. CASE PathEnd(">").cur = ">" /\ SearchPaths # <<>>
  BY <1>1, <1>2, <1>3, Includes DEF IncludeSystem
<1>4. CASE ~(PathEnd(">").cur = ">" /\ SearchPaths # <<>>)
  BY <1>4, Ends DEF IncludeSystem
<1> QED
  BY <1>3, <1>4

LEMMA IncludeOtherStep ==
  ASSUME ExpandInv, IncludeOther
  PROVE  ExpandInv' /\ Forward
<1>1. At("include") /\ phase = "run"
  BY DEF IncludeOther, At, Reading
<1>2. Ahead(Arg)
  BY <1>1, Running, DirectiveIs
<1>3. /\ frames' = FramesAt(Arg.ptr) /\ files' = files /\ phase' = phase
      /\ DefsOk' /\ OutOk' /\ loads' \in 1..MaxLoads
  BY DEF IncludeOther, ExpandInv, DefsOk, OutOk
<1>4. Arg.ptr \in 1..(Len(Text) + 2) /\ Arg.ptr > Top.ptr
  BY <1>1, <1>2, AheadIs
<1> QED
  BY <1>1, <1>3, <1>4, Moves

\* A step that gives a name a content, or takes it away.
LEMMA Sets ==
  ASSUME ExpandInv, NEW word, At(word), NEW content \in Contents, NEW r, Ahead(r),
         SetAndGoOn(content, r.ptr)
  PROVE  ExpandInv' /\ Forward
<1>1. phase = "run"
  BY DEF At, Reading
<1>2. Readable /\ Top.ptr \in Nat \ {0} /\ Ahead(Arg) /\ Ahead(IdEnd)
  BY <1>1, Running, DirectiveIs
<1>3. Id \in Seq(Symbols)
  BY <1>2, SpanAhead DEF Id
<1>4. DefsOk'
  <2>1. defs' = [name \in DOMAIN defs \cup {Id} |-> IF name = Id THEN content ELSE defs[name]]
    BY DEF SetAndGoOn, SetDefine
  <2>2. \A name \in DOMAIN defs : name \in Seq(Symbols) /\ defs[name] \in Contents
    BY DEF ExpandInv
  <2>3. Contents' = Contents
    BY DEF Contents
  <2>4. \A name \in DOMAIN defs' : name \in Seq(Symbols) /\ defs'[name] \in Contents
    BY <1>3, <2>1, <2>2
  <2> QED
    BY <2>4 DEF DefsOk
<1>5. /\ frames' = FramesAt(r.ptr) /\ files' = files /\ phase' = phase
      /\ OutOk' /\ loads' \in 1..MaxLoads
  BY DEF SetAndGoOn, ExpandInv, OutOk
<1>6. r.ptr \in 1..(Len(Text) + 2) /\ r.ptr > Top.ptr
  BY <1>1, AheadIs
<1> QED
  BY <1>1, <1>4, <1>5, <1>6, Moves

LEMMA DefineStep ==
  ASSUME ExpandInv, Define
  PROVE  ExpandInv' /\ Forward
<1> DEFINE first == read_spaces_until_lf(IdEnd)
           last == read_until(first, {"LF"})
<1>1. At("define") /\ phase = "run"
  BY DEF Define, At, Reading
<1>2. Readable /\ Top.ptr \in Nat \ {0} /\ Two /\ Ahead(IdEnd)
  BY <1>1, Running, DirectiveIs
<1>3. Ahead(first)
  BY <1>2, AheadSpaces
<1>4. Ahead(last)
  BY <1>2, <1>3, AheadUntil
<1>5. Ahead(read_spaces_until_lf(last))
  BY <1>2, <1>4, AheadSpaces
<1>6. \/ SetAndGoOn(<<>>, first.ptr)
      \/ SetAndGoOn(Span(first.ptr - 1, last.ptr), read_spaces_until_lf(last).ptr)
  BY DEF Define
<1> HIDE DEF first, last
<1>7. CASE SetAndGoOn(<<>>, first.ptr)
  <2>1. <<>> \in Contents
    BY DEF Contents
  <2> QED
    BY <1>1, <1>3, <1>7, <2>1, Sets
<1>8. CASE SetAndGoOn(Span(first.ptr - 1, last.ptr), read_spaces_until_lf(last).ptr)
  <2>1. Span(first.ptr - 1, last.ptr) \in Contents
    BY <1>2, <1>3, <1>4, SpanAhead DEF Contents
  <2> QED
    BY <1>1, <1>5, <1>8, <2>1, Sets
<1> QED
  BY <1>6, <1>7, <1>8

LEMMA UndefStep ==
  ASSUME ExpandInv, Undef
  PROVE  ExpandInv' /\ Forward
<1>1. At("undef") /\ phase = "run" /\ SetAndGoOn(NULL, read_spaces_until_lf(IdEnd).ptr)
  BY DEF Undef, At, Reading
<1>2. Readable /\ Top.ptr \in Nat \ {0} /\ Ahead(IdEnd)
  BY <1>1, Running, DirectiveIs
<1>3. Ahead(read_spaces_until_lf(IdEnd)) /\ NULL \in Contents
  BY <1>2, AheadSpaces DEF Contents
<1> QED
  BY <1>1, <1>3, Sets

\* The first of some positions is one of them.
LEMMA FirstIs ==
  ASSUME NEW set, set \subseteq Nat, NEW otherwise
  PROVE  IF set = {} THEN FirstOf(set, otherwise) = otherwise ELSE FirstOf(set, otherwise) \in set
<1>1. CASE set # {}
  <2>1. \E i \in set : \A j \in set : i <= j
    BY <1>1, LeastNat
  <2> QED
    BY <1>1, <2>1 DEF FirstOf
<1>2. CASE set = {}
  BY <1>2 DEF FirstOf
<1> QED
  BY <1>1, <1>2

\* The content ends in the call, and not behind where the call goes on.
LEMMA BlockIs ==
  ASSUME Readable, NEW ptr \in Nat, ptr >= 2, ptr <= End
  PROVE  /\ Block(ptr).end \in 1..End
         /\ Block(ptr).next \in ptr..(End + 1) /\ Block(ptr).end <= Block(ptr).next
<1> DEFINE ends == {i \in ptr..(End - 2) : Text[i] = "#" /\ Text[i + 1] = "endif"}
           term == FirstOf(ends, End)
<1>1. End \in Nat /\ Lost \in Nat
  BY ExpandAssumption DEF Readable
<1>2. Block(ptr) = IF ends = {}
                     THEN [end |-> IF End - Lost > ptr THEN End - Lost ELSE ptr, next |-> End + 1]
                     ELSE [end |-> IF Text[term - 1] = "LF" THEN term - 1 ELSE term, next |-> term + 2]
  BY DEF Block
<1>3. CASE ends = {}
  <2>1. /\ Block(ptr).end = IF End - Lost > ptr THEN End - Lost ELSE ptr
        /\ Block(ptr).next = End + 1
    BY <1>2, <1>3
  <2> QED
    BY <1>1, <2>1
<1>4. CASE ends # {}
  <2>1. ends \subseteq Nat
    BY <1>1
  <2>2. term \in ends
    BY <1>4, <2>1, FirstIs
  <2>3. term \in ptr..(End - 2)
    BY <2>2
  <2> HIDE DEF term, ends
  <2>4. /\ Block(ptr).end = IF Text[term - 1] = "LF" THEN term - 1 ELSE term
        /\ Block(ptr).next = term + 2
    BY <1>2, <1>4
  <2> QED
    BY <1>1, <2>3, <2>4
<1> QED
  BY <1>3, <1>4

\* A step that expands the content of a conditional or leaves it out.
LEMMA Conditionals ==
  ASSUME ExpandInv, phase = "run", NEW r, Ahead(r), NEW holds, Conditional(r.ptr, holds)
  PROVE  ExpandInv' /\ Forward
<1> DEFINE block == Block(r.ptr)
           frame == Frame(Top.path, Top.dir, r.ptr, block.end)
<1>1. Readable /\ Top.ptr \in Nat \ {0} /\ End \in Nat /\ End <= Len(Text) + 1
      /\ Len(Text) \in Nat /\ Len(files[Top.path]) = Len(Text)
  BY Running DEF Readable
<1>2. r.ptr \in 1..(Len(Text) + 2) /\ r.ptr > Top.ptr /\ r.ptr >= 2 /\ r.ptr <= End
  BY AheadIs
<1>3. /\ block.end \in 1..End
      /\ block.next \in r.ptr..(End + 1) /\ block.end <= block.next
  BY <1>1, <1>2, BlockIs
<1>4. \/ holds /\ Enter(frame, block.next) /\ loads' = loads
      \/ /\ frames' = FramesAt(block.next)
         /\ UNCHANGED <<files, defs, out, loads, phase, unknown>>
  BY DEF Conditional
<1> HIDE DEF block
<1>5. block.next \in 1..(Len(Text) + 2) /\ block.next > Top.ptr
  BY <1>1, <1>2, <1>3
<1>6. CASE holds /\ Enter(frame, block.next) /\ loads' = loads
  <2>1. /\ frame.path = Top.path /\ frame.dir = Top.dir
        /\ frame.ptr = r.ptr /\ frame.end = block.end
    BY DEF Frame
  <2>2. Top.path \in DOMAIN files /\ Top.dir = DirOf(Top.path)
    BY TopIs
  <2>3. CallOk(frame)
    BY <1>1, <1>2, <1>3, <2>1, <2>2 DEF CallOk
  <2>4. frame \in [path : DOMAIN files, dir : {DirOf(p) : p \in DOMAIN files}, ptr : Nat, end : Nat]
    BY <1>1, <1>2, <1>3, <2>2 DEF Frame
  <2>5. frame \in Calls
    BY <2>3, <2>4 DEF Calls
  <2>6. Onward(frame, block.next)
    BY <1>1, <1>2, <1>3, <2>1 DEF Onward
  <2>7. loads' \in 1..MaxLoads
    BY <1>6 DEF ExpandInv
  <2> HIDE DEF frame
  <2> QED
    BY <1>5, <1>6, <2>5, <2>6, <2>7, Enters
<1>7. CASE /\ frames' = FramesAt(block.next)
           /\ UNCHANGED <<files, defs, out, loads, phase, unknown>>
  <2>1. DefsOk' /\ OutOk' /\ loads' \in 1..MaxLoads /\ files' = files /\ phase' = phase
    BY <1>7 DEF ExpandInv, DefsOk, OutOk
  <2> QED
    BY <1>5, <1>7, <2>1, Moves
<1> QED
  BY <1>4, <1>6, <1>7

LEMMA IfDefinedStep ==
  ASSUME ExpandInv, IfDefined
  PROVE  ExpandInv' /\ Forward
<1> DEFINE r == read_spaces_until_lf(IdEnd)
<1>1. PICK word : At(word) /\ (Conditional(r.ptr, IsDefined(Id)) \/ Conditional(r.ptr, ~IsDefined(Id)))
  BY DEF IfDefined
<1>2. phase = "run"
  BY <1>1 DEF At, Reading
<1>3. Readable /\ Top.ptr \in Nat \ {0} /\ Ahead(IdEnd)
  BY <1>1, <1>2, Running, DirectiveIs
<1>4. Ahead(r)
  BY <1>3, AheadSpaces
<1> HIDE DEF r
<1> QED
  BY <1>1, <1>2, <1>4, Conditionals

LEMMA IfStep ==
  ASSUME ExpandInv, If
  PROVE  ExpandInv' /\ Forward
<1> DEFINE exprEnd == read_until(Arg, {"LF"})
           expr == Span(Arg.ptr, exprEnd.ptr)
           r == read_spaces_until_lf(exprEnd)
<1>1. At("if") /\ phase = "run"
  BY DEF If, At, Reading
<1>2. Readable /\ Top.ptr \in Nat \ {0} /\ Two /\ Ahead(Arg)
  BY <1>1, Running, DirectiveIs
<1>3. Ahead(exprEnd)
  BY <1>2, AheadUntil
<1>4. Ahead(r)
  BY <1>2, <1>3, AheadSpaces
<1>5. \/ \E holds \in IF WellFormed(expr) THEN {Value(expr)} ELSE BOOLEAN : Conditional(r.ptr, holds)
      \/ Abort
  BY DEF If
<1> HIDE DEF r, expr, exprEnd
<1>6. CASE \E holds \in IF WellFormed(expr) THEN {Value(expr)} ELSE BOOLEAN : Conditional(r.ptr, holds)
  <2>1. PICK holds : Conditional(r.ptr, holds)
    BY <1>6
  <2> QED
    BY <1>1, <1>4, <2>1, Conditionals
<1> QED
  BY <1>5, <1>6, Ends

\* A comment ends at most one symbol behind the call: a "/*" without its end.
LEMMA CommentEndIs ==
  ASSUME ExpandInv, phase = "run", Ahead(Cur)
  PROVE  CommentEnd \in Cur.ptr..(End + 1)
<1> DEFINE ptr == Cur.ptr
           lines == {i \in ptr..(End - 1) : Text[i] = "LF"}
           stars == {i \in ptr..(End - 2) : Text[i] = "*" /\ Text[i + 1] = "/"}
<1>1. ptr \in Nat /\ ptr >= 2 /\ ptr <= End /\ End \in Nat
  BY AheadIs, Running DEF Readable
<1>2. lines \subseteq Nat /\ stars \subseteq Nat
  BY <1>1
<1>3. FirstOf(lines, End) \in ptr..End
  <2>1. lines \subseteq ptr..End
    BY <1>1
  <2>2. End \in ptr..End
    BY <1>1
  <2> HIDE DEF lines, ptr
  <2> QED
    BY <1>2, <2>1, <2>2, FirstIs
<1>4. ASSUME ptr < End PROVE FirstOf(stars, End - 1) + 2 \in ptr..(End + 1)
  <2>1. stars \subseteq ptr..(End - 1)
    BY <1>1
  <2>2. End - 1 \in ptr..(End - 1)
    BY <1>1, <1>4
  <2>3. FirstOf(stars, End - 1) \in ptr..(End - 1)
    <3> HIDE DEF stars, ptr
    <3> QED
      BY <1>2, <2>1, <2>2, FirstIs
  <2> QED
    BY <1>1, <2>3
<1>5. CASE ptr < End /\ Text[ptr] = "/"
  <2>1. CommentEnd = FirstOf(lines, End)
    BY <1>5 DEF CommentEnd
  <2> QED
    BY <1>1, <1>3, <2>1
<1>6. CASE ptr < End /\ Text[ptr] = "*"
  <2>1. CommentEnd = FirstOf(stars, End - 1) + 2
    BY <1>6 DEF CommentEnd
  <2> QED
    BY <1>4, <1>6, <2>1
<1>7. CASE ~(ptr < End /\ Text[ptr] = "/") /\ ~(ptr < End /\ Text[ptr] = "*")
  <2>1. CommentEnd = ptr
    BY <1>7 DEF CommentEnd
  <2> QED
    BY <1>1, <2>1
<1> QED
  BY <1>5, <1>6, <1>7

\* What every turn of the loop starts from.
LEMMA Turn ==
  ASSUME ExpandInv, Reading
  PROVE  /\ phase = "run" /\ Readable /\ Top.ptr \in Nat \ {0} /\ Len(Text) \in Nat
         /\ Cur \in Readers /\ Ahead(Cur) /\ Cur.cur \in Symbols
         /\ End \in Nat /\ End <= Len(Text) + 1
BY Running, CurIs DEF Reading, Readable

LEMMA CommentStep ==
  ASSUME ExpandInv, Comment
  PROVE  ExpandInv' /\ Forward
<1> DEFINE last == IF CommentEnd < End THEN CommentEnd ELSE End
<1>1. Reading /\ Emit(Span(Cur.ptr - 1, last), CommentEnd)
  BY DEF Comment
<1>2. /\ phase = "run" /\ Readable /\ Ahead(Cur)
      /\ End \in Nat /\ End <= Len(Text) + 1 /\ Len(Text) \in Nat /\ Top.ptr \in Nat
  BY <1>1, Turn
<1>3. CommentEnd \in Cur.ptr..(End + 1)
  BY <1>2, CommentEndIs
<1>4. Cur.ptr \in Nat /\ Cur.ptr >= 2 /\ Cur.ptr > Top.ptr
  BY <1>2, AheadIs
<1>5. last \in Nat /\ last <= End
  BY <1>2, <1>3, <1>4
<1>6. CommentEnd \in 1..(Len(Text) + 2) /\ CommentEnd > Top.ptr
  BY <1>2, <1>3, <1>4
<1> HIDE DEF last
<1>7. Span(Cur.ptr - 1, last) \in Seq(Symbols)
  <2>1. Cur.ptr - 1 \in Nat /\ 1 <= Cur.ptr - 1
    BY <1>4
  <2> QED
    BY <1>2, <1>5, <2>1, SpanType
<1> QED
  BY <1>1, <1>2, <1>6, <1>7, Emits

LEMMA LiteralStep ==
  ASSUME ExpandInv, Literal
  PROVE  ExpandInv' /\ Forward
<1>1. Reading /\ Emit(Span(Cur.ptr - 1, LiteralEnd.ptr), LiteralEnd.ptr)
  BY DEF Literal
<1>2. /\ phase = "run" /\ Readable /\ Cur \in Readers /\ Ahead(Cur) /\ Top.ptr \in Nat \ {0}
  BY <1>1, Turn
<1>3. Ahead(LiteralEnd)
  <2>1. Passed(Cur, LiteralEnd)
    BY <1>2, LiteralEndPassed
  <2>2. Cur.ptr \in Nat /\ LiteralEnd.ptr \in Nat
    BY <1>2, <2>1 DEF Passed, Readers
  <2> QED
    BY <1>2, <2>1, <2>2 DEF Passed, Ahead
<1>4. Span(Cur.ptr - 1, LiteralEnd.ptr) \in Seq(Symbols)
  BY <1>2, <1>3, SpanAhead
<1>5. LiteralEnd.ptr \in 1..(Len(Text) + 2) /\ LiteralEnd.ptr > Top.ptr
  BY <1>2, <1>3, AheadIs
<1> QED
  BY <1>1, <1>2, <1>4, <1>5, Emits

LEMMA NameStep ==
  ASSUME ExpandInv, Name
  PROVE  ExpandInv' /\ Forward
<1> DEFINE rest == read_while(Cur, IdSymbols \cup {"1"})
           id == Span(Cur.ptr - 1, rest.ptr)
           symbols == IF IsDefined(id) THEN Unescaped(defs[id]) ELSE id
<1>1. Reading /\ Emit(symbols, rest.ptr)
  BY DEF Name
<1>2. /\ phase = "run" /\ Readable /\ Ahead(Cur) /\ Top.ptr \in Nat \ {0}
  BY <1>1, Turn
<1>3. Ahead(rest)
  BY <1>2, AheadWhile
<1> HIDE DEF rest
<1>4. id \in Seq(Symbols)
  BY <1>2, <1>3, SpanAhead
<1> HIDE DEF id
<1>5. symbols \in Seq(Symbols)
  <2>1. CASE IsDefined(id)
    <3>1. defs[id] \in Seq(Symbols)
      BY <2>1 DEF IsDefined, ExpandInv, Contents
    <3> QED
      BY <2>1, <3>1, UnescapedType
  <2> QED
    BY <1>4, <2>1
<1> HIDE DEF symbols
<1>6. rest.ptr \in 1..(Len(Text) + 2) /\ rest.ptr > Top.ptr
  BY <1>2, <1>3, AheadIs
<1> QED
  BY <1>1, <1>2, <1>5, <1>6, Emits

LEMMA OtherStep ==
  ASSUME ExpandInv, Other
  PROVE  ExpandInv' /\ Forward
<1>1. Reading /\ Emit(<<Cur.cur>>, Cur.ptr)
  BY DEF Other
<1>2. phase = "run" /\ Ahead(Cur) /\ Cur.cur \in Symbols
  BY <1>1, Turn
<1>3. <<Cur.cur>> \in Seq(Symbols)
  BY <1>2
<1>4. Cur.ptr \in 1..(Len(Text) + 2) /\ Cur.ptr > Top.ptr
  BY <1>2, AheadIs
<1> QED
  BY <1>1, <1>2, <1>3, <1>4, Emits

LEMMA ReturnStep ==
  ASSUME ExpandInv, Return
  PROVE  ExpandInv' /\ Forward
<1>1. /\ phase = "run" /\ frames' = SubSeq(frames, 1, Len(frames) - 1)
      /\ phase' = IF Len(frames) > 1 THEN "run" ELSE IF Len(out) < OutSize THEN "done" ELSE "outside"
      /\ UNCHANGED <<files, defs, out, loads>>
  BY DEF Return
<1>2. Len(frames) \in Nat \ {0} /\ frames \in Seq(Calls)
  BY <1>1, TopIs DEF ExpandInv
<1>3. frames' \in Seq(Calls) /\ Len(frames') = Len(frames) - 1
  <2>1. \A i \in 1..(Len(frames) - 1) : frames[i] \in Calls
    BY <1>2
  <2>2. CASE Len(frames) > 1
    BY <1>1, <1>2, <2>1, <2>2
  <2>3. CASE ~(Len(frames) > 1)
    <3>1. Len(frames) = 1
      <4>1. \A n \in Nat \ {0} : ~(n > 1) => n = 1
        OBVIOUS
      <4> QED
        BY <1>2, <2>3, <4>1, Zenon
    <3>2. frames' = SubSeq(frames, 1, 0)
      BY <1>1, <3>1
    <3>3. frames' = <<>>
      BY <3>2
    <3> QED
      BY <3>1, <3>3
  <2> QED
    BY <2>2, <2>3
<1>4. phase' = "run" => frames' # <<>>
  <2>1. phase' = "run" => Len(frames) > 1
    BY <1>1
  <2> QED
    BY <1>2, <1>3, <2>1
<1>5. phase' \in Phases
  BY <1>1 DEF Phases
<1>6. DefsOk' /\ OutOk' /\ loads' \in 1..MaxLoads /\ files' = files
  BY <1>1 DEF ExpandInv, DefsOk, OutOk
<1>7. Forward
  BY <1>2, <1>3 DEF Forward
<1> QED
  BY <1>3, <1>4, <1>5, <1>6, <1>7, Kept

\* A step that changes nothing.
LEMMA StutterStep ==
  ASSUME ExpandInv, UNCHANGED vars
  PROVE  ExpandInv'
BY DEF vars, ExpandInv, Calls, CallOk, Contents

-----------------------------------------------------------------------------
\* Every step.
LEMMA ExpandStep ==
  ASSUME ExpandInv, Next
  PROVE  ExpandInv' /\ Forward
<1>1. CASE Unrecognized
  BY <1>1, Ends DEF Unrecognized
<1>2. CASE Ended
  <2>1. Forward
    BY <1>2 DEF Ended, Forward, vars
  <2> QED
    BY <1>2, <2>1, StutterStep DEF Ended
<1> QED
  BY <1>1, <1>2, IncludeLocalStep, IncludeSystemStep, IncludeOtherStep, DefineStep, UndefStep,
     IfDefinedStep, IfStep, CommentStep, LiteralStep, NameStep, OtherStep, ReturnStep
     DEF Next

\* The initial states.
LEMMA ExpandInitial ==
  ASSUME Init
  PROVE  ExpandInv
<1>1. files \in FileSystems /\ Main \in DOMAIN files
  BY ExpandAssumption DEF Init
<1>2. frames = <<FileFrame(Main)>> /\ defs = <<>> /\ out = <<>> /\ loads = 1 /\ phase = "run"
  BY DEF Init, Start
<1>3. Len(files[Main]) \in Nat
  BY <1>1, ExpandAssumption
<1>4. FileFrame(Main) \in Calls
  <2>1. /\ FileFrame(Main).path = Main /\ FileFrame(Main).dir = DirOf(Main)
        /\ FileFrame(Main).ptr = 1 /\ FileFrame(Main).end = Len(files[Main]) + 1
    BY DEF FileFrame, Frame
  <2>2. CallOk(FileFrame(Main))
    BY <1>3, <2>1 DEF CallOk
  <2>3. FileFrame(Main) \in [path : DOMAIN files, dir : {DirOf(p) : p \in DOMAIN files}, ptr : Nat, end : Nat]
    BY <1>1, <1>3 DEF FileFrame, Frame
  <2> QED
    BY <2>2, <2>3 DEF Calls
<1>5. frames \in Seq(Calls) /\ frames # <<>>
  BY <1>2, <1>4
<1>6. DOMAIN defs = {}
  BY <1>2
<1>7. out \in Seq(Symbols) /\ Len(out) <= OutSize /\ loads \in 1..MaxLoads
  BY <1>2, ExpandAssumption
<1> QED
  BY <1>1, <1>2, <1>5, <1>6, <1>7 DEF ExpandInv

\* The inductive invariant holds.
LEMMA ExpandInvariant == Spec => []ExpandInv
<1>1. Init => ExpandInv
  BY ExpandInitial
<1>2. ExpandInv /\ [Next]_vars => ExpandInv'
  BY ExpandStep, StutterStep
<1> QED
  BY <1>1, <1>2, PTL DEF Spec

\* The invariant is more than TypeOK says.
LEMMA ExpandInvTypes ==
  ASSUME ExpandInv
  PROVE  TypeOK
<1>1. \A i \in DOMAIN frames :
        /\ frames[i].path \in DOMAIN files
        /\ frames[i].dir = DirOf(frames[i].path)
        /\ frames[i].end \in 1..(Len(files[frames[i].path]) + 1)
        /\ frames[i].ptr \in 1..(Len(files[frames[i].path]) + 2)
  <2>1. ASSUME NEW i \in DOMAIN frames PROVE frames[i] \in Calls
    BY DEF ExpandInv
  <2> QED
    BY <2>1 DEF Calls, CallOk
<1>2. ASSUME NEW name \in DOMAIN defs
      PROVE  name \in Seq(Symbols) /\ defs[name] \in Seq(Symbols \cup {"NULL"})
  <2>1. name \in Seq(Symbols) /\ defs[name] \in Contents
    BY DEF ExpandInv
  <2>2. CASE defs[name] \in Seq(Symbols)
    BY <2>1, <2>2
  <2>3. CASE defs[name] = NULL
    BY <2>1, <2>3 DEF NULL
  <2> QED
    BY <2>1, <2>2, <2>3 DEF Contents
<1> QED
  BY <1>1, <1>2 DEF ExpandInv, TypeOK

\* Every call of expand reads a file of its own name from its first symbol to
\* behind its last one and no further, for every set of files; the define table
\* holds texts, out no more than it has room for, and no file is read for which
\* the pool has no room.
THEOREM ExpandTypeCorrect == Spec => []TypeOK
BY ExpandInvariant, ExpandInvTypes, PTL

\* Every turn of the loop of expand moves its call forward and no other one;
\* what it gives to a new call is a whole file, or lies between where the turn
\* started and where it goes on.  No text is expanded twice, so that without
\* new files the calls run out of text.
THEOREM ExpandNothingTwice == Spec => NothingTwice
<1>1. ExpandInv /\ [Next]_vars => [Forward]_vars
  BY ExpandStep
<1> QED
  BY <1>1, ExpandInvariant, PTL DEF NothingTwice, Forward, Spec

-----------------------------------------------------------------------------
(***************************************************************************)
(* What is read, exactly                                                   *)
(***************************************************************************)

\* A symbol that is no backslash is read as it is.
LEMMA NextPlain ==
  ASSUME Readable, NEW r \in Readers, r.ptr < End, Text[r.ptr] # "\\"
  PROVE  readnext(r) = [ptr |-> r.ptr + 1, cur |-> Text[r.ptr], more |-> TRUE]
<1>1. ~(r.ptr >= End)
  BY DEF Readable, Readers
<1> QED
  BY <1>1 DEF readnext

\* A backslash and the newline behind it are read as a space.
LEMMA NextJoined ==
  ASSUME Readable, NEW r \in Readers, r.ptr + 1 < End, Text[r.ptr] = "\\", Text[r.ptr + 1] = "LF"
  PROVE  readnext(r) = [ptr |-> r.ptr + 2, cur |-> "SP", more |-> TRUE]
<1>1. ~(r.ptr >= End) /\ ~(r.ptr + 1 >= End)
  BY DEF Readable, Readers
<1> QED
  BY <1>1 DEF readnext

\* At the end nothing is read.
LEMMA NextEnd ==
  ASSUME Readable, NEW r \in Readers, r.ptr >= End
  PROVE  readnext(r) = [ptr |-> r.ptr, cur |-> r.cur, more |-> FALSE]
BY DEF readnext

\* When every reader of a set either reads x, where ReadUpTo ends, or goes on in
\* the set, then ReadUpTo comes to x from all of them.
LEMMA ReadUpToMeets ==
  ASSUME Readable, NEW stops, NEW P, NEW x, P \subseteq Readers,
         \A q \in P : \/ readnext(q) = x /\ (~x.more \/ x.cur \in stops)
                      \/ readnext(q) \in P /\ readnext(q).more /\ readnext(q).cur \notin stops
  PROVE  \A q \in P : ReadUpTo(q, stops) = x
<1> DEFINE S == {q \in Readers : q \in P => ReadUpTo(q, stops) = x}
<1>1. ASSUME NEW q \in Readers, \A s \in Readers : q.ptr < End /\ s.ptr > q.ptr => s \in S
      PROVE  q \in S
  <2> SUFFICES ASSUME q \in P PROVE ReadUpTo(q, stops) = x
    OBVIOUS
  <2>1. ReadUpTo(q, stops) = IF readnext(q).more /\ readnext(q).cur \notin stops
                               THEN ReadUpTo(readnext(q), stops) ELSE readnext(q)
    BY ReadUpToIs
  <2>2. CASE readnext(q) = x /\ (~x.more \/ x.cur \in stops)
    BY <2>1, <2>2
  <2>3. CASE readnext(q) \in P /\ readnext(q).more /\ readnext(q).cur \notin stops
    <3>1. q.ptr < End /\ readnext(q).ptr > q.ptr
      <4>1. q.ptr \in Nat /\ End \in Nat
        BY DEF Readers, Readable
      <4> QED
        BY <2>3, <4>1, ReadNext
    <3>2. readnext(q) \in Readers
      BY <2>3
    <3>3. readnext(q) \in S
      BY <1>1, <3>1, <3>2
    <3> QED
      BY <2>1, <2>3, <3>3
  <2> QED
    BY <2>2, <2>3
<1> HIDE DEF S
<1>2. Readers \subseteq S
  BY <1>1, ReaderInduction
<1> QED
  BY <1>2 DEF S

\* No symbol between two positions is one of the stops, or a backslash.
Clear(from, to, stops) == \A i \in from..(to - 1) : Text[i] \notin stops /\ Text[i] # "\\"

\* ReadUpTo ends behind the first stop.
LEMMA UpToStop ==
  ASSUME Readable, NEW stops, NEW r \in Readers, NEW p \in Nat,
         r.ptr <= p, p < End, Text[p] \in stops, Text[p] # "\\", Clear(r.ptr, p, stops)
  PROVE  ReadUpTo(r, stops) = [ptr |-> p + 1, cur |-> Text[p], more |-> TRUE]
<1> DEFINE P == {q \in Readers : r.ptr <= q.ptr /\ q.ptr <= p}
           x == [ptr |-> p + 1, cur |-> Text[p], more |-> TRUE]
<1>0. \A q \in Readers : q.ptr \in Nat
  BY DEF Readers
<1>1. ASSUME NEW q \in P
      PROVE  \/ readnext(q) = x /\ (~x.more \/ x.cur \in stops)
             \/ readnext(q) \in P /\ readnext(q).more /\ readnext(q).cur \notin stops
  <2>1. q \in Readers /\ q.ptr \in Nat /\ End \in Nat /\ q.ptr < End /\ r.ptr \in Nat
    BY <1>0 DEF Readable
  <2>2. CASE q.ptr = p
    <3>1. readnext(q) = x
      BY <2>1, <2>2, NextPlain
    <3> QED
      BY <3>1
  <2>3. CASE q.ptr # p
    <3>1. q.ptr \in r.ptr..(p - 1)
      BY <2>1, <2>3
    <3>2. Text[q.ptr] \notin stops /\ Text[q.ptr] # "\\"
      BY <3>1 DEF Clear
    <3>3. readnext(q) = [ptr |-> q.ptr + 1, cur |-> Text[q.ptr], more |-> TRUE]
      BY <2>1, <3>2, NextPlain
    <3>4. readnext(q) \in Readers
      BY <2>1, ReadNext
    <3> QED
      BY <2>1, <3>1, <3>2, <3>3, <3>4
  <2> QED
    BY <2>2, <2>3
<1>2. r \in P /\ P \subseteq Readers
  BY <1>0
<1> HIDE DEF P, x
<1>3. \A q \in P : ReadUpTo(q, stops) = x
  BY <1>1, <1>2, ReadUpToMeets
<1> QED
  BY <1>2, <1>3 DEF x

\* What a reader has read last when it has read everything.
LastRead(r) == IF r.ptr = End THEN r.cur ELSE Text[End - 1]

\* Without a stop everything is read.
LEMMA UpToEnd ==
  ASSUME Readable, NEW stops, NEW r \in Readers, r.ptr <= End, Clear(r.ptr, End, stops)
  PROVE  ReadUpTo(r, stops) = [ptr |-> End, cur |-> LastRead(r), more |-> FALSE]
<1> DEFINE c == LastRead(r)
           P == {q \in Readers : r.ptr <= q.ptr /\ q.ptr <= End /\ (q.ptr = End => q.cur = c)}
           x == [ptr |-> End, cur |-> c, more |-> FALSE]
<1>0. \A q \in Readers : q.ptr \in Nat
  BY DEF Readers
<1>00. End \in Nat
  BY DEF Readable
<1>1. ASSUME NEW q \in P
      PROVE  \/ readnext(q) = x /\ (~x.more \/ x.cur \in stops)
             \/ readnext(q) \in P /\ readnext(q).more /\ readnext(q).cur \notin stops
  <2>1. q \in Readers /\ q.ptr \in Nat /\ r.ptr \in Nat
    BY <1>0
  <2>2. CASE q.ptr = End
    <3>0. q.ptr >= End
      BY <1>00, <2>2
    <3>1. readnext(q) = x
      BY <2>1, <2>2, <3>0, NextEnd
    <3> QED
      BY <3>1
  <2>3. CASE q.ptr # End
    <3>1. q.ptr \in r.ptr..(End - 1) /\ q.ptr < End
      BY <1>00, <2>1, <2>3
    <3>2. Text[q.ptr] \notin stops /\ Text[q.ptr] # "\\"
      BY <3>1 DEF Clear
    <3>3. readnext(q) = [ptr |-> q.ptr + 1, cur |-> Text[q.ptr], more |-> TRUE]
      BY <2>1, <3>1, <3>2, NextPlain
    <3>4. readnext(q) \in Readers
      BY <2>1, ReadNext
    <3>5. q.ptr + 1 = End => Text[q.ptr] = c
      BY <1>00, <2>1, <3>1 DEF LastRead
    <3> HIDE DEF c
    <3> QED
      BY <1>00, <2>1, <3>1, <3>2, <3>3, <3>4, <3>5
  <2> QED
    BY <2>2, <2>3
<1>2. r \in P /\ P \subseteq Readers
  BY <1>0 DEF LastRead
<1> HIDE DEF P, x
<1>3. \A q \in P : ReadUpTo(q, stops) = x
  BY <1>1, <1>2, ReadUpToMeets
<1> QED
  BY <1>2, <1>3 DEF x

\* A newline in a replacement stands behind a backslash, and a backslash before
\* a newline.
Joined(from, to) ==
  \A i \in from..(to - 1) : /\ Text[i] = "\\" => Text[i + 1] = "LF"
                            /\ Text[i] = "LF" => Text[i - 1] = "\\"

\* The line of a replacement ends with the first newline that has no backslash
\* before it.
LEMMA UpToJoined ==
  ASSUME Readable, NEW r \in Readers, NEW from \in Nat, NEW p \in Nat, NEW x,
         r.ptr = from + 1, from + 1 <= p, p <= End, Joined(from, p),
         Text[from] \notin {"\\", "LF"}, Text[p - 1] \notin {"\\", "LF"},
         \/ p < End /\ Text[p] = "LF" /\ x = [ptr |-> p + 1, cur |-> "LF", more |-> TRUE]
         \/ p = End /\ x = [ptr |-> End, cur |-> LastRead(r), more |-> FALSE]
  PROVE  ReadUpTo(r, {"LF"}) = x
<1> DEFINE P == {q \in Readers : /\ r.ptr <= q.ptr /\ q.ptr <= p /\ (q.ptr < p => Text[q.ptr] # "LF")
                                 /\ p = End /\ q.ptr = End => q.cur = LastRead(r)}
<1>0. \A q \in Readers : q.ptr \in Nat
  BY DEF Readers
<1>00. End \in Nat
  BY DEF Readable
<1>1. ASSUME NEW q \in P
      PROVE  \/ readnext(q) = x /\ (~x.more \/ x.cur \in {"LF"})
             \/ readnext(q) \in P /\ readnext(q).more /\ readnext(q).cur \notin {"LF"}
  <2>1. q \in Readers /\ q.ptr \in Nat /\ r.ptr \in Nat
    BY <1>0
  <2>2. CASE q.ptr = p
    <3>1. CASE p < End /\ Text[p] = "LF" /\ x = [ptr |-> p + 1, cur |-> "LF", more |-> TRUE]
      <4>1. readnext(q) = x
        BY <2>1, <2>2, <3>1, NextPlain
      <4> QED
        BY <3>1, <4>1
    <3>2. CASE p = End /\ x = [ptr |-> End, cur |-> LastRead(r), more |-> FALSE]
      <4>1. q.ptr >= End /\ q.cur = LastRead(r)
        BY <1>00, <2>2, <3>2
      <4>2. readnext(q) = x
        BY <2>1, <2>2, <3>2, <4>1, NextEnd
      <4> QED
        BY <3>2, <4>2
    <3> QED
      BY <3>1, <3>2
  <2>3. CASE q.ptr # p
    <3>1. q.ptr \in from..(p - 1) /\ q.ptr < End /\ q.ptr < p /\ q.ptr # from /\ Text[q.ptr] # "LF"
      BY <1>00, <2>1, <2>3
    <3>4. readnext(q) \in Readers
      BY <2>1, ReadNext
    <3>5. CASE Text[q.ptr] # "\\"
      <4>1. readnext(q) = [ptr |-> q.ptr + 1, cur |-> Text[q.ptr], more |-> TRUE]
        BY <2>1, <3>1, <3>5, NextPlain
      <4>2. q.ptr + 1 < p => Text[q.ptr + 1] # "LF"
        <5> SUFFICES ASSUME q.ptr + 1 < p, Text[q.ptr + 1] = "LF" PROVE FALSE
          OBVIOUS
        <5>1. q.ptr + 1 \in from..(p - 1) /\ (q.ptr + 1) - 1 = q.ptr
          BY <2>1, <3>1
        <5>2. Text[(q.ptr + 1) - 1] = "\\"
          BY <5>1 DEF Joined
        <5> QED
          BY <3>5, <5>1, <5>2
      <4>3. p = End /\ q.ptr + 1 = End => Text[q.ptr] = LastRead(r)
        BY <1>00, <2>1, <3>1 DEF LastRead
      <4> QED
        BY <1>00, <2>1, <3>1, <3>4, <4>1, <4>2, <4>3
    <3>6. CASE Text[q.ptr] = "\\"
      <4>1. Text[q.ptr + 1] = "LF" /\ q.ptr + 1 \in Nat
        BY <2>1, <3>1, <3>6 DEF Joined
      <4>2. q.ptr # p - 1
        BY <3>6
      <4>3. q.ptr + 1 # p - 1
        BY <4>1
      <4>4. q.ptr + 2 < p /\ q.ptr + 1 < End
        BY <1>00, <2>1, <3>1, <4>2, <4>3
      <4>5. readnext(q) = [ptr |-> q.ptr + 2, cur |-> "SP", more |-> TRUE]
        BY <2>1, <3>6, <4>1, <4>4, NextJoined
      <4>6. Text[q.ptr + 2] # "LF"
        <5> SUFFICES ASSUME Text[q.ptr + 2] = "LF" PROVE FALSE
          OBVIOUS
        <5>1. q.ptr + 2 \in from..(p - 1) /\ (q.ptr + 2) - 1 = q.ptr + 1
          BY <2>1, <3>1, <4>4
        <5>2. Text[(q.ptr + 2) - 1] = "\\"
          BY <5>1 DEF Joined
        <5> QED
          BY <4>1, <5>1, <5>2
      <4>7. q.ptr + 2 # End
        BY <1>00, <2>1, <4>4
      <4> QED
        BY <1>00, <2>1, <3>1, <3>4, <4>4, <4>5, <4>6, <4>7
    <3> QED
      BY <3>5, <3>6
  <2> QED
    BY <2>2, <2>3
<1>2. r \in P /\ P \subseteq Readers
  <2>1. r.ptr < p => Text[r.ptr] # "LF"
    <3> SUFFICES ASSUME r.ptr < p, Text[r.ptr] = "LF" PROVE FALSE
      OBVIOUS
    <3>1. r.ptr \in from..(p - 1) /\ r.ptr - 1 = from
      OBVIOUS
    <3>2. Text[r.ptr - 1] = "\\"
      BY <3>1 DEF Joined
    <3> QED
      BY <3>1, <3>2
  <2> QED
    BY <1>0, <2>1 DEF LastRead
<1> HIDE DEF P
<1>3. \A q \in P : ReadUpTo(q, {"LF"}) = x
  BY <1>1, <1>2, ReadUpToMeets
<1> QED
  BY <1>2, <1>3


\* read_while stops at the first symbol that is none of the set.
LEMMA WhileIs ==
  ASSUME Readable, NEW set, NEW r \in Readers, NEW p \in Nat, r.ptr <= p, p < End,
         \A i \in r.ptr..(p - 1) : Text[i] \in set /\ Text[i] # "\\",
         Text[p] \notin set, Text[p] # "\\"
  PROVE  read_while(r, set) = [ptr |-> p, cur |-> Text[p], more |-> TRUE]
<1> DEFINE q == ReadUpTo(r, Symbols \ set)
<1>1. r.ptr \in Nat \ {0} /\ End \in Nat /\ Len(Text) \in Nat /\ Text \in Seq(Symbols) /\ End <= Len(Text) + 1
  BY DEF Readable, Readers
<1>2. Clear(r.ptr, p, Symbols \ set)
  BY DEF Clear
<1>3. Text[p] \in Symbols \ set
  BY <1>1
<1>4. q = [ptr |-> p + 1, cur |-> Text[p], more |-> TRUE]
  BY ONLY <1>1, <1>2, <1>3, Readable, r \in Readers, p \in Nat, r.ptr <= p, p < End, Text[p] # "\\", UpToStop
<1>5. read_while(r, set) = IF q.more THEN Back(q) ELSE q
  BY DEF read_while
<1> HIDE DEF q
<1>6. (p + 1) - 1 = p
  OBVIOUS
<1> QED
  BY <1>4, <1>5, <1>6 DEF Back

\* It reads everything when all the symbols are of the set.
LEMMA WhileEnd ==
  ASSUME Readable, NEW set, NEW r \in Readers, r.ptr <= End,
         \A i \in r.ptr..(End - 1) : Text[i] \in set /\ Text[i] # "\\"
  PROVE  read_while(r, set) = [ptr |-> End, cur |-> LastRead(r), more |-> FALSE]
<1> DEFINE q == ReadUpTo(r, Symbols \ set)
<1>1. Clear(r.ptr, End, Symbols \ set)
  BY DEF Clear
<1>2. q = [ptr |-> End, cur |-> LastRead(r), more |-> FALSE]
  BY <1>1, UpToEnd
<1>3. read_while(r, set) = IF q.more THEN Back(q) ELSE q
  BY DEF read_while
<1> HIDE DEF q
<1> QED
  BY <1>2, <1>3

\* read_until stops at the first stop.
LEMMA UntilIs ==
  ASSUME Readable, NEW stops, NEW r \in Readers, NEW p \in Nat, r.ptr <= p, p < End,
         Clear(r.ptr, p, stops), Text[p] \in stops, Text[p] # "\\"
  PROVE  read_until(r, stops) = [ptr |-> p, cur |-> Text[p], more |-> TRUE]
<1> DEFINE q == ReadUpTo(r, stops)
<1>1. q = [ptr |-> p + 1, cur |-> Text[p], more |-> TRUE]
  BY UpToStop
<1>2. read_until(r, stops) = IF q.more \/ r.ptr >= End THEN Back(q) ELSE q
  BY DEF read_until
<1> HIDE DEF q
<1>3. (p + 1) - 1 = p
  OBVIOUS
<1> QED
  BY <1>1, <1>2, <1>3 DEF Back

\* Without a stop it reads everything there is to read.
LEMMA UntilEnd ==
  ASSUME Readable, NEW stops, NEW r \in Readers, r.ptr < End, Clear(r.ptr, End, stops)
  PROVE  read_until(r, stops) = [ptr |-> End, cur |-> Text[End - 1], more |-> FALSE]
<1> DEFINE q == ReadUpTo(r, stops)
<1>0. r.ptr \in Nat /\ End \in Nat
  BY DEF Readers, Readable
<1>1. q = [ptr |-> End, cur |-> Text[End - 1], more |-> FALSE]
  BY <1>0, UpToEnd DEF LastRead
<1>2. read_until(r, stops) = IF q.more \/ r.ptr >= End THEN Back(q) ELSE q
  BY DEF read_until
<1> HIDE DEF q
<1>3. ~q.more /\ ~(r.ptr >= End)
  BY <1>0, <1>1
<1> QED
  BY <1>1, <1>2, <1>3

\* At the end it goes back.
LEMMA UntilBack ==
  ASSUME Readable, NEW stops, NEW r \in Readers, r.ptr = End
  PROVE  read_until(r, stops).ptr = End - 1
<1> DEFINE q == ReadUpTo(r, stops)
<1>0. r.ptr \in Nat /\ End \in Nat
  BY DEF Readers, Readable
<1>1. q = [ptr |-> End, cur |-> LastRead(r), more |-> FALSE]
  BY <1>0, UpToEnd DEF Clear
<1>2. read_until(r, stops) = IF q.more \/ r.ptr >= End THEN Back(q) ELSE q
  BY DEF read_until
<1> HIDE DEF q
<1>3. r.ptr >= End
  BY <1>0
<1> QED
  BY <1>0, <1>1, <1>2, <1>3 DEF Back

\* read_spaces_until_lf reads the spaces and one symbol more.
LEMMA SpacesIs ==
  ASSUME Readable, NEW r \in Readers, NEW p \in Nat, r.ptr <= p, p < End,
         \A i \in r.ptr..(p - 1) : Text[i] = "SP", Text[p] \notin {"SP", "\\"}
  PROVE  read_spaces_until_lf(r) = [ptr |-> p + 1, cur |-> Text[p], more |-> TRUE]
<1>1. r.ptr \in Nat \ {0} /\ End \in Nat /\ Len(Text) \in Nat /\ Text \in Seq(Symbols) /\ End <= Len(Text) + 1
  BY DEF Readable, Readers
<1>2. Clear(r.ptr, p, Symbols \ {"SP"})
  BY DEF Clear
<1>3. Text[p] \in Symbols \ {"SP"}
  BY <1>1
<1> QED
  BY <1>2, <1>3, UpToStop DEF read_spaces_until_lf

\* When nothing follows the spaces they are all that is read.
LEMMA SpacesEnd ==
  ASSUME Readable, NEW r \in Readers, r.ptr <= End, \A i \in r.ptr..(End - 1) : Text[i] = "SP"
  PROVE  read_spaces_until_lf(r) = [ptr |-> End, cur |-> LastRead(r), more |-> FALSE]
<1>1. Clear(r.ptr, End, Symbols \ {"SP"})
  BY DEF Clear
<1> QED
  BY <1>1, UpToEnd DEF read_spaces_until_lf

\* The first of some positions.
LEMMA FirstOfIs ==
  ASSUME NEW set, set \subseteq Nat, NEW x \in set, \A i \in set : x <= i, NEW otherwise
  PROVE  FirstOf(set, otherwise) = x
<1> DEFINE y == FirstOf(set, otherwise)
<1>1. y = CHOOSE i \in set : \A j \in set : i <= j
  BY DEF FirstOf
<1>2. y \in set /\ \A j \in set : y <= j
  BY <1>1
<1> HIDE DEF y
<1>3. y <= x /\ x <= y /\ x \in Nat /\ y \in Nat
  BY <1>2
<1>4. y = x
  BY <1>3
<1> QED
  BY <1>4 DEF y

\* There is none.
LEMMA FirstOfNone ==
  ASSUME NEW otherwise
  PROVE  FirstOf({}, otherwise) = otherwise
BY DEF FirstOf

\* The end of a literal is behind the first quote like its own.
LEMMA LiteralEndAt ==
  ASSUME Readable, Cur \in Readers, NEW p \in Nat, Cur.ptr <= p, p < End,
         Text[p] = Cur.cur, Cur.cur # "\\", Clear(Cur.ptr, p, {Cur.cur})
  PROVE  LiteralEnd.ptr = p + 1
<1> DEFINE x == [ptr |-> p + 1, cur |-> Text[p], more |-> TRUE]
<1>0. \A q \in Readers : q.ptr \in Nat
  BY DEF Readers
<1>1. PICK go : /\ LiteralEnd = go[Cur]
                /\ \A r \in Readers : go[r] = IF LiteralOn(r) THEN go[LiteralNext(r)] ELSE readnext(r)
  BY LiteralEndIs
<1> DEFINE Meets(q) == Cur.ptr <= q.ptr /\ q.ptr <= p => go[q] = x
           S == {q \in Readers : Meets(q)}
<1>2. ASSUME NEW q \in Readers, \A s \in Readers : q.ptr < End /\ s.ptr > q.ptr => s \in S
      PROVE  q \in S
  <2> SUFFICES ASSUME Cur.ptr <= q.ptr, q.ptr <= p PROVE go[q] = x
    OBVIOUS
  <2>1. q.ptr \in Nat /\ Cur.ptr \in Nat /\ End \in Nat /\ q.ptr < End
    BY <1>0 DEF Readable
  <2>2. CASE q.ptr = p
    <3>1. readnext(q) = x
      BY <2>1, <2>2, NextPlain
    <3>2. ~LiteralOn(q)
      BY <3>1 DEF LiteralOn
    <3> QED
      BY <1>1, <3>1, <3>2
  <2>3. CASE q.ptr # p
    <3>1. q.ptr \in Cur.ptr..(p - 1)
      BY <2>1, <2>3
    <3>2. Text[q.ptr] # Cur.cur /\ Text[q.ptr] # "\\"
      BY <3>1 DEF Clear
    <3>3. readnext(q) = [ptr |-> q.ptr + 1, cur |-> Text[q.ptr], more |-> TRUE]
      BY <2>1, <3>2, NextPlain
    <3>4. /\ readnext(q).more /\ readnext(q).cur = Text[q.ptr] /\ readnext(q).ptr = q.ptr + 1
          /\ readnext(q) \in Readers
      <4>1. readnext(q) \in Readers
        BY ReadNext
      <4> QED
        BY <3>3, <4>1
    <3>5. LiteralOn(q) /\ LiteralNext(q) = readnext(q)
      BY <3>2, <3>4 DEF LiteralOn, LiteralNext
    <3>6. Meets(readnext(q))
      <4>1. readnext(q).ptr > q.ptr
        BY <2>1, <3>4
      <4> HIDE DEF Meets
      <4>2. readnext(q) \in S
        BY <1>2, <2>1, <3>4, <4>1
      <4> QED
        BY <4>2
    <3>7. go[readnext(q)] = x
      BY <2>1, <3>1, <3>4, <3>6
    <3> QED
      BY <1>1, <3>5, <3>7
  <2> QED
    BY <2>2, <2>3
<1> HIDE DEF S
<1>3. Readers \subseteq S
  BY <1>2, ReaderInduction
<1>4. Cur \in S
  BY <1>3
<1>5. go[Cur] = x
  <2>1. Cur.ptr \in Nat
    BY <1>0
  <2> QED
    BY <1>4, <2>1 DEF S
<1> QED
  BY <1>1, <1>5


-----------------------------------------------------------------------------
(***************************************************************************)
(* A turn of the loop at a piece                                           *)
(***************************************************************************)

\* No sign and no space is in a name, but the "1".
LEMMA Apart ==
  /\ "\\" \notin IdCharacters
  /\ \A c \in Spaces \cup Signs : c \notin Letters \cup Words
<1>1. \A c \in Spaces \cup Signs : c \notin Letters
  BY LettersAssumption, Zenon
<1>2. \A c \in Spaces \cup Signs : c \notin Words
  BY DEF Spaces, Signs, Words
<1>3. "\\" \in Signs
  BY DEF Signs
<1>4. "\\" \notin Words \cup {"_", "1"}
  BY DEF Words
<1> QED
  BY <1>1, <1>2, <1>3, <1>4 DEF IdCharacters, IdSymbols

\* The innermost call is at a piece, which ends the call when it is last.
Stands(p, last) ==
  /\ ExpandInv /\ phase = "run"
  /\ Top.ptr = p.from /\ p.from \in Nat \ {0} /\ p.to \in Nat /\ p.from < p.to
  /\ last => p.to = End
  /\ last \/ p.to < End

\* What is known of the text there.
LEMMA StandsIs ==
  ASSUME NEW p, NEW last, Stands(p, last)
  PROVE  /\ Readable /\ End \in Nat /\ Len(Text) \in Nat /\ Text \in Seq(Symbols) /\ End <= Len(Text) + 1
         /\ Top.ptr = p.from /\ p.from \in Nat \ {0} /\ p.to \in Nat /\ p.from < p.to /\ p.to <= End
         /\ Cur \in Readers
<1>1. Readable /\ End \in Nat
  BY TopIs DEF Stands, Readable
<1>2. p.to <= End
  BY <1>1 DEF Stands
<1>3. Cur \in Readers
  BY <1>1, CurIs DEF Stands
<1> QED
  BY <1>1, <1>2, <1>3 DEF Stands, Readable

\* The first symbol.
LEMMA CurAt ==
  ASSUME NEW p, NEW last, Stands(p, last), Text[p.from] # "\\"
  PROVE  /\ Cur.ptr = p.from + 1 /\ Cur.cur = Text[p.from] /\ Cur.more
         /\ Reading
<1> DEFINE r == [ptr |-> Top.ptr, cur |-> "NUL", more |-> TRUE]
<1>1. /\ Readable /\ End \in Nat /\ Top.ptr = p.from /\ p.from \in Nat \ {0}
      /\ p.to \in Nat /\ p.from < p.to /\ p.to <= End
  BY StandsIs
<1>2. r \in Readers /\ r.ptr = Top.ptr
  BY <1>1 DEF Readers, Symbols, Signs
<1>3. Cur = readnext(r)
  BY DEF Cur
<1> HIDE DEF r
<1>4. r.ptr < End /\ Text[r.ptr] # "\\"
  BY <1>1, <1>2
<1>5. Cur = [ptr |-> p.from + 1, cur |-> Text[p.from], more |-> TRUE]
  BY <1>1, <1>2, <1>3, <1>4, NextPlain
<1> QED
  BY <1>5 DEF Reading, Stands

\* At what is no "#" the turn is one for text.
LEMMA TurnAtText ==
  ASSUME Next, Reading, Cur.cur # "#"
  PROVE  Comment \/ Literal \/ Name \/ Other
BY DEF Next, IncludeLocal, IncludeSystem, IncludeOther, Define, Undef, IfDefined, If, Unrecognized,
       Return, Ended, At, Reading

\* A piece of one symbol.
LEMMA OneSymbol ==
  ASSUME NEW S, NEW s \in Seq(S), NEW i \in 1..Len(s)
  PROVE  SubSeq(s, i, i) = <<s[i]>>
<1> DEFINE t == SubSeq(s, i, i)
<1>1. i \in Int /\ i <= i /\ Len(s) \in Nat
  OBVIOUS
<1>2. \A j \in i..i : s[j] \in S
  OBVIOUS
<1>3. t \in Seq(S) /\ Len(t) = 1 /\ t[1] = s[i]
  <2>1. t \in Seq(S)
    BY <1>1, <1>2
  <2>2. Len(t) = 1 
    BY <1>1
  <2>3. t[1] = s[i]
    BY <1>1
  <2> QED
    BY <2>1, <2>2, <2>3
<1> HIDE DEF t
<1> DEFINE u == <<s[i]>>
<1>4. u \in Seq(S) /\ Len(u) = 1 /\ u[1] = s[i]
  OBVIOUS
<1> HIDE DEF u
<1>5. t = u
  BY <1>3, <1>4
<1> QED
  BY <1>5 DEF t, u

\* A directive with an argument stands at the reader's place.
Directed(word, arg) ==
  /\ Readable /\ phase = "run" /\ Top.ptr \in Nat \ {0} /\ arg \in Nat /\ Top.ptr + 2 < arg /\ arg < End
  /\ word \in Known /\ Text[Top.ptr] = "#" /\ Text[Top.ptr + 1] = word
  /\ \A i \in (Top.ptr + 2)..(arg - 1) : Text[i] = "SP"
  /\ Text[arg] \notin Spaces /\ Text[arg] # "\\"

\* The directive and its argument are read.
LEMMA DirectiveReads ==
  ASSUME NEW word, NEW arg, Directed(word, arg)
  PROVE  /\ At(word) /\ Arg = [ptr |-> arg, cur |-> Text[arg], more |-> TRUE] /\ Arg \in Readers
         /\ \A w \in Known : At(w) => w = word
         /\ ~Unrecognized
<1> DEFINE r == [ptr |-> Top.ptr, cur |-> "NUL", more |-> TRUE]
           t == Top.ptr
<1>1. /\ Readable /\ phase = "run" /\ t \in Nat \ {0} /\ arg \in Nat /\ t + 2 < arg /\ arg < End
      /\ word \in Known /\ Text[t] = "#" /\ Text[t + 1] = word
      /\ \A i \in (t + 2)..(arg - 1) : Text[i] = "SP"
      /\ Text[arg] \notin Spaces /\ Text[arg] # "\\"
      /\ End \in Nat /\ Len(Text) \in Nat /\ Text \in Seq(Symbols) /\ End <= Len(Text) + 1
  BY DEF Directed, Readable
<1>2. Cur = [ptr |-> t + 1, cur |-> "#", more |-> TRUE] /\ Cur \in Readers
  <2>1. r \in Readers /\ r.ptr = t
    BY <1>1 DEF Readers, Symbols, Signs
  <2>2. Cur = readnext(r)
    BY DEF Cur
  <2> HIDE DEF r
  <2>3. r.ptr < End /\ Text[r.ptr] = "#"
    BY <1>1, <2>1
  <2>4. readnext(r) = [ptr |-> t + 1, cur |-> "#", more |-> TRUE]
    BY <1>1, <2>1, <2>3, NextPlain
  <2>5. readnext(r) \in Readers
    BY <1>1, <2>1, ReadNext
  <2> QED
    BY <2>2, <2>4, <2>5
<1> HIDE DEF t
<1>3. word \notin Spaces /\ word # "\\"
  BY <1>1 DEF Known, Spaces
<1>4. DirectiveAt = [ptr |-> t + 1, cur |-> word, more |-> TRUE] /\ DirectiveAt \in Readers
  <2>1. Cur.ptr = t + 1 /\ t + 1 \in Nat /\ t + 1 <= t + 1 /\ t + 1 < End
    BY <1>1, <1>2
  <2>2. \A i \in Cur.ptr..((t + 1) - 1) : Text[i] \in Spaces /\ Text[i] # "\\"
    BY <1>1, <2>1
  <2>3. DirectiveAt = [ptr |-> t + 1, cur |-> word, more |-> TRUE]
    <3>1. Readable /\ Cur \in Readers /\ Text[t + 1] = word /\ Text[t + 1] \notin Spaces /\ Text[t + 1] # "\\"
      BY <1>1, <1>2, <1>3
    <3>2. Cur.ptr <= t + 1
      BY <2>1
    <3>3. read_while(Cur, Spaces) = [ptr |-> t + 1, cur |-> Text[t + 1], more |-> TRUE]
      BY ONLY <2>1, <2>2, <3>1, <3>2, WhileIs
    <3> QED
      BY <3>1, <3>3 DEF DirectiveAt
  <2>4. DirectiveAt \in Readers
    BY <1>1, <1>2, ReadWhile DEF DirectiveAt
  <2> QED
    BY <2>3, <2>4
<1>5. DirectiveEnd = [ptr |-> t + 2, cur |-> "SP", more |-> TRUE] /\ DirectiveEnd \in Readers
  <2>1. DirectiveAt.ptr = t + 1 /\ t + 2 \in Nat /\ t + 1 <= t + 2 /\ t + 2 < End
    BY <1>1, <1>4
  <2>2. Text[t + 2] = "SP" /\ "SP" \in Spaces
    BY <1>1 DEF Spaces
  <2>3. Clear(t + 1, t + 2, Spaces)
    BY <1>1, <1>3 DEF Clear
  <2>4. DirectiveEnd = [ptr |-> t + 2, cur |-> "SP", more |-> TRUE]
    <3>1. Readable /\ DirectiveAt \in Readers /\ Text[t + 2] \in Spaces /\ Text[t + 2] # "\\"
      BY <1>1, <1>4, <2>2
    <3>2. DirectiveAt.ptr <= t + 2 /\ Clear(DirectiveAt.ptr, t + 2, Spaces)
      BY <2>1, <2>3
    <3>3. read_until(DirectiveAt, Spaces) = [ptr |-> t + 2, cur |-> Text[t + 2], more |-> TRUE]
      BY ONLY <2>1, <3>1, <3>2, UntilIs
    <3> QED
      BY <2>2, <3>3 DEF DirectiveEnd
  <2>5. "SP" \in Symbols /\ t + 2 \in Nat \ {0}
    BY <1>1 DEF Symbols, Spaces
  <2>6. DirectiveEnd \in Readers
    BY <2>4, <2>5 DEF Readers
  <2> QED
    BY <2>4, <2>6
<1>6. Directive = <<word>>
  <2>1. Directive = SubSeq(Text, t + 1, (t + 2) - 1)
    BY <1>4, <1>5 DEF Directive, Span
  <2>2. (t + 2) - 1 = t + 1 /\ t + 1 \in 1..Len(Text) /\ Text \in Seq(Symbols) /\ Text[t + 1] = word
    BY <1>1
  <2>3. SubSeq(Text, t + 1, t + 1) = <<Text[t + 1]>>
    BY ONLY <2>2, OneSymbol
  <2> QED
    BY <2>1, <2>2, <2>3
<1>7. Arg = [ptr |-> arg, cur |-> Text[arg], more |-> TRUE] /\ Arg \in Readers
  <2>1. DirectiveEnd.ptr = t + 2 /\ t + 2 <= arg
    BY <1>1, <1>5
  <2>2. \A i \in (t + 2)..(arg - 1) : Text[i] \in Spaces /\ Text[i] # "\\"
    BY <1>1 DEF Spaces
  <2>3. Arg = [ptr |-> arg, cur |-> Text[arg], more |-> TRUE]
    <3>1. /\ Readable /\ DirectiveEnd \in Readers /\ Text[arg] \notin Spaces /\ Text[arg] # "\\"
          /\ arg \in Nat /\ arg < End
      BY <1>1, <1>5
    <3>2. DirectiveEnd.ptr <= arg /\ \A i \in DirectiveEnd.ptr..(arg - 1) : Text[i] \in Spaces /\ Text[i] # "\\"
      BY <2>1, <2>2
    <3> QED
      BY ONLY <3>1, <3>2, WhileIs DEF Arg
  <2>4. Arg \in Readers
    BY <1>1, <1>5, ReadWhile DEF Arg
  <2> QED
    BY <2>3, <2>4
<1>8. At(word)
  BY <1>1, <1>2, <1>6 DEF At, Reading
<1>9. \A w \in Known : At(w) => w = word
  BY <1>6 DEF At
<1>10. ~Unrecognized
  BY <1>1, <1>6 DEF Unrecognized
<1> QED
  BY <1>7, <1>8, <1>9, <1>10

\* The turn is one for the directive.
LEMMA TurnAtDirective ==
  ASSUME NEW word, NEW arg, Directed(word, arg), Next
  PROVE  /\ word = "include" => IncludeLocal \/ IncludeSystem \/ IncludeOther
         /\ word = "define" => Define
         /\ word = "undef" => Undef
         /\ word \in {"ifdef", "ifndef"} => IfDefined
         /\ word = "if" => If
<1>1. Cur.more /\ phase = "run" /\ Cur.cur = "#"
  BY DirectiveReads DEF At, Reading
<1>2. ~Unrecognized /\ ~Return /\ ~Ended
  BY <1>1, DirectiveReads DEF Return, Ended
<1>3. ~Comment /\ ~Literal /\ ~Other
  BY <1>1 DEF Comment, Literal, Other
<1>4. ~Name
  <2>1. "#" \in Signs
    BY DEF Signs
  <2> QED
    BY <1>1, <2>1, Apart DEF Name
<1>5. /\ At("include") => word = "include"
      /\ At("define") => word = "define"
      /\ At("undef") => word = "undef"
      /\ At("ifdef") => word = "ifdef"
      /\ At("ifndef") => word = "ifndef"
      /\ At("if") => word = "if"
  <2>1. \A w \in Known : At(w) => w = word
    BY DirectiveReads
  <2> HIDE DEF At
  <2> QED
    BY <2>1 DEF Known
<1>6. /\ IncludeLocal \/ IncludeSystem \/ IncludeOther => At("include")
      /\ Define => At("define") 
      /\ Undef => At("undef")
      /\ IfDefined => At("ifdef") \/ At("ifndef")
      /\ If => At("if")
  BY DEF IncludeLocal, IncludeSystem, IncludeOther, Define, Undef, IfDefined, If
<1> QED
  BY <1>2, <1>3, <1>4, <1>5, <1>6 DEF Next


\* A piece that starts like a directive is read like one.
LEMMA StartsIs ==
  ASSUME NEW p, NEW last, Stands(p, last), NEW word \in Known, NEW arg \in p.from..p.to,
         Starts(Text, p, word, arg)
  PROVE  Directed(word, arg)
<1>1. /\ Readable /\ End \in Nat /\ Top.ptr = p.from /\ p.from \in Nat \ {0} /\ p.to \in Nat /\ p.to <= End
      /\ phase = "run"
  BY StandsIs DEF Stands
<1>2. /\ Text[p.from] = "#" /\ Text[p.from + 1] = word
      /\ p.from + 2 < arg /\ arg < p.to /\ Only(Text, p.from + 2, arg, {"SP"})
      /\ Text[arg] \notin Spaces /\ Text[arg] # "\\"
  BY DEF Starts
<1>3. arg \in Nat /\ arg < End
  BY <1>1, <1>2
<1>4. \A i \in (p.from + 2)..(arg - 1) : Text[i] = "SP"
  BY <1>2 DEF Only
<1> QED
  BY <1>1, <1>2, <1>3, <1>4 DEF Directed

\* The name behind a directive is read.
LEMMA IdReads ==
  ASSUME NEW word, NEW arg, Directed(word, arg), NEW stop \in Nat, arg < stop, stop <= End,
         Without(Text, arg, stop, Spaces), stop < End => Text[stop] \in Spaces
  PROVE  /\ IdEnd \in Readers /\ IdEnd.ptr = stop /\ Id = SubSeq(Text, arg, stop - 1)
         /\ stop = End => IdEnd.cur = Text[End - 1] /\ Text[End - 1] \notin Spaces
<1>1. /\ Readable /\ End \in Nat /\ Text \in Seq(Symbols) /\ arg \in Nat /\ arg < End
      /\ Len(Text) \in Nat /\ End <= Len(Text) + 1 /\ arg >= 1
  BY DEF Directed, Readable
<1>2. Arg \in Readers /\ Arg.ptr = arg
  <2>1. Arg = [ptr |-> arg, cur |-> Text[arg], more |-> TRUE] /\ Arg \in Readers
    BY DirectiveReads
  <2> QED
    BY <2>1
<1>3. Clear(arg, stop, Spaces)
  BY DEF Clear, Without
<1>4. /\ IdEnd.ptr = stop
      /\ stop = End => IdEnd.cur = Text[End - 1]
      /\ \E c, m : IdEnd = [ptr |-> stop, cur |-> c, more |-> m] /\ c \in Symbols /\ m \in BOOLEAN
  <2>1. CASE stop < End
    <3>1. Text[stop] \in Spaces /\ Text[stop] # "\\" /\ Text[stop] \in Symbols
      BY <2>1 DEF Spaces, Symbols
    <3>2. Arg.ptr <= stop /\ Clear(Arg.ptr, stop, Spaces)
      BY <1>1, <1>2, <1>3
    <3>3. IdEnd = [ptr |-> stop, cur |-> Text[stop], more |-> TRUE]
      BY ONLY <1>1, <1>2, <2>1, <3>1, <3>2, stop \in Nat, UntilIs DEF IdEnd
    <3>4. stop # End
      BY <1>1, <2>1
    <3> QED
      BY <3>1, <3>3, <3>4
  <2>2. CASE ~(stop < End)
    <3>1. stop = End
      BY <1>1, <2>2
    <3>2. Arg.ptr < End /\ Clear(Arg.ptr, End, Spaces)
      BY <1>1, <1>2, <1>3, <3>1
    <3>3. IdEnd = [ptr |-> End, cur |-> Text[End - 1], more |-> FALSE]
      BY ONLY <1>1, <1>2, <3>2, UntilEnd DEF IdEnd
    <3>4. Text[End - 1] \in Symbols
      BY <1>1
    <3> QED
      BY <3>1, <3>3, <3>4
  <2> QED
    BY <2>1, <2>2
<1>5. IdEnd \in Readers
  <2>1. stop \in Nat \ {0}
    BY <1>1
  <2> QED
    BY <1>4, <2>1 DEF Readers
<1>6. Id = SubSeq(Text, arg, stop - 1)
  BY <1>2, <1>4 DEF Id, Span
<1>7. stop = End => Text[End - 1] \notin Spaces
  <2>1. stop = End => End - 1 \in arg..(stop - 1)
    BY <1>1
  <2> QED
    BY <2>1 DEF Without
<1> QED
  BY <1>4, <1>5, <1>6, <1>7

\* The spaces behind an argument are read up to the end of the piece.
LEMMA EndsAt ==
  ASSUME Readable, NEW r \in Readers, NEW to \in Nat, to <= End, NEW last, last => to = End,
         EndsPiece(Text, r.ptr, to, last)
  PROVE  /\ read_spaces_until_lf(r) \in Readers /\ read_spaces_until_lf(r).ptr = to
         /\ \/ read_spaces_until_lf(r).cur = "LF"
            \/ /\ to = End /\ r.ptr <= End /\ read_spaces_until_lf(r).cur = LastRead(r)
               /\ \A i \in r.ptr..(End - 1) : Text[i] = "SP"
<1>0. r.ptr \in Nat /\ End \in Nat
  BY DEF Readers, Readable
<1>1. read_spaces_until_lf(r) \in Readers
  BY ReadUpToPassed DEF Passed, read_spaces_until_lf
<1>2. CASE EndsLine(Text, r.ptr, to)
  <2>1. r.ptr < to /\ Text[to - 1] = "LF" /\ \A i \in r.ptr..((to - 1) - 1) : Text[i] = "SP"
    BY <1>2 DEF EndsLine, Only
  <2>2. to - 1 \in Nat /\ r.ptr <= to - 1 /\ to - 1 < End /\ Text[to - 1] \notin {"SP", "\\"}
        /\ (to - 1) + 1 = to
    BY <1>0, <2>1
  <2>3. read_spaces_until_lf(r) = [ptr |-> (to - 1) + 1, cur |-> Text[to - 1], more |-> TRUE]
    BY ONLY Readable, r \in Readers, <2>1, <2>2, SpacesIs
  <2> QED
    BY <1>1, <2>1, <2>2, <2>3
<1>3. CASE last /\ r.ptr <= to /\ Only(Text, r.ptr, to, {"SP"})
  <2>1. to = End /\ r.ptr <= End /\ \A i \in r.ptr..(End - 1) : Text[i] = "SP"
    BY <1>3 DEF Only
  <2>2. read_spaces_until_lf(r) = [ptr |-> End, cur |-> LastRead(r), more |-> FALSE]
    BY ONLY Readable, r \in Readers, <2>1, SpacesEnd
  <2> QED
    BY <1>1, <2>1, <2>2
<1> QED
  BY <1>2, <1>3 DEF EndsPiece

\* Behind a name that a piece ends with stand spaces, or nothing.
LEMMA EndsName ==
  ASSUME NEW stop \in Nat, NEW to \in Nat, stop <= to, to <= End, NEW last, last => to = End, End \in Nat,
         EndsPiece(Text, stop, to, last)
  PROVE  stop < End => Text[stop] \in Spaces
<1> SUFFICES ASSUME stop < End PROVE Text[stop] \in Spaces
  OBVIOUS
<1>1. CASE EndsLine(Text, stop, to)
  <2>1. stop < to /\ Text[to - 1] = "LF" /\ \A i \in stop..(to - 2) : Text[i] = "SP"
    BY <1>1 DEF EndsLine, Only
  <2>2. stop = to - 1 \/ stop \in stop..(to - 2)
    BY <2>1
  <2> QED
    BY <2>1, <2>2 DEF Spaces
<1>2. CASE last /\ Only(Text, stop, to, {"SP"})
  <2>1. stop \in stop..(to - 1)
    BY <1>2
  <2> QED
    BY <1>2, <2>1 DEF Only, Spaces
<1> QED
  BY <1>1, <1>2 DEF EndsPiece

\* An #undef takes the replacement of its name away.
LEMMA UndefTurn ==
  ASSUME NEW p, NEW last, Stands(p, last), IsUndef(Text, p, last), Next
  PROVE  Id = p.id /\ SetAndGoOn(NULL, p.to)
<1>1. /\ Readable /\ End \in Nat /\ p.from \in Nat \ {0} /\ p.to \in Nat /\ p.to <= End
      /\ last => p.to = End
  BY StandsIs DEF Stands
<1>2. PICK arg \in p.from..p.to, stop \in p.from..p.to :
        /\ Starts(Text, p, "undef", arg) /\ arg < stop /\ HasName(Text, p.id, arg, stop)
        /\ EndsPiece(Text, stop, p.to, last)
  BY DEF IsUndef
<1>3. Directed("undef", arg)
  BY <1>2, StartsIs DEF Known
<1>4. stop \in Nat /\ stop <= p.to /\ stop <= End
  BY <1>1, <1>2
<1>5. stop < End => Text[stop] \in Spaces
  BY <1>1, <1>2, <1>4, EndsName
<1>6. Without(Text, arg, stop, Spaces) /\ p.id = SubSeq(Text, arg, stop - 1)
  BY <1>2 DEF HasName
<1>7. IdEnd \in Readers /\ IdEnd.ptr = stop /\ Id = p.id
  BY <1>2, <1>3, <1>4, <1>5, <1>6, IdReads
<1>8. read_spaces_until_lf(IdEnd).ptr = p.to
  BY <1>1, <1>2, <1>7, EndsAt
<1>9. Undef
  BY <1>3, TurnAtDirective
<1> QED
  BY <1>7, <1>8, <1>9 DEF Undef


\* An empty replacement gives nothing.
LEMMA UnescapedNothing == Unescaped(<<>>) = <<>>
<1> DEFINE content == <<>>
           Fix(g) == g = [i \in 1..(Len(content) + 1) |->
                            IF i > Len(content) THEN <<>>
                            ELSE IF i = Len(content) \/ content[i] # "\\" THEN <<content[i]>> \o g[i + 1]
                            ELSE <<IF content[i + 1] = "LF" THEN "SP" ELSE content[i + 1]>> \o g[i + 2]]
           from == CHOOSE g : Fix(g)
<1>1. Len(content) = 0
  OBVIOUS
<1>2. Fix([i \in 1..(Len(content) + 1) |-> <<>>])
  BY <1>1
<1>3. Fix(from)
  <2> HIDE DEF Fix
  <2> QED
    BY <1>2, Zenon
<1>4. Unescaped(content) = from[1]
  BY DEF Unescaped
<1> HIDE DEF from
<1>5. 1 \in 1..(Len(content) + 1) /\ 1 > Len(content)
  BY <1>1
<1>6. from[1] = <<>>
  BY <1>3, <1>5
<1> QED
  BY <1>4, <1>6

\* A replacement is read up to the end of its line.
LEMMA ReplacementReads ==
  ASSUME Readable, NEW r \in Readers, NEW from \in Nat, NEW to \in Nat, NEW end \in Nat, NEW last,
         r.ptr < from, from < to, to <= end, end <= End, last => end = End,
         Only(Text, r.ptr, from, {"SP"}), IsReplacement(Text, from, to),
         Text[to - 1] \notin {"LF", "\\"},
         \/ to + 1 = end /\ Text[to] = "LF"
         \/ to = end /\ last /\ from + 1 < to
  PROVE  LET first == read_spaces_until_lf(r)
             rest == read_until(first, {"LF"})
         IN /\ first.cur # "LF" /\ Span(first.ptr - 1, rest.ptr) = SubSeq(Text, from, to - 1)
            /\ read_spaces_until_lf(rest).ptr = end
<1> DEFINE first == read_spaces_until_lf(r)
           rest == read_until(first, {"LF"})
<1>1. r.ptr \in Nat \ {0} /\ End \in Nat /\ from < End
  BY DEF Readers, Readable
<1>2. Text[from] \notin {"SP", "LF", "\\"} /\ Joined(from, to)
  BY DEF IsReplacement, Joined, Spaces
<1>3. first = [ptr |-> from + 1, cur |-> Text[from], more |-> TRUE]
  <2>1. r.ptr <= from /\ \A i \in r.ptr..(from - 1) : Text[i] = "SP"
    BY <1>1 DEF Only
  <2> QED
    BY ONLY <1>1, <1>2, <2>1, Readable, r \in Readers, from \in Nat, SpacesIs
<1>4. first \in Readers
  BY ReadUpToPassed DEF Passed, read_spaces_until_lf
<1> HIDE DEF first
<1>5. first.ptr = from + 1 /\ first.cur = Text[from] /\ (from + 1) - 1 = from /\ from + 1 <= to
  BY <1>3
<1>6. CASE to + 1 = end /\ Text[to] = "LF"
  <2>1. to < End /\ to <= End
    BY <1>1, <1>6
  <2> DEFINE x == [ptr |-> to + 1, cur |-> "LF", more |-> TRUE]
  <2>2. \/ to < End /\ Text[to] = "LF" /\ x = [ptr |-> to + 1, cur |-> "LF", more |-> TRUE]
        \/ to = End /\ x = [ptr |-> End, cur |-> LastRead(first), more |-> FALSE]
    BY <1>6, <2>1
  <2> HIDE DEF x
  <2>3. ReadUpTo(first, {"LF"}) = x
    BY ONLY <1>2, <1>4, <1>5, <2>1, <2>2, Readable, from \in Nat, to \in Nat, Text[to - 1] \notin {"LF", "\\"},
       UpToJoined
  <2>4. rest = [ptr |-> to, cur |-> "LF", more |-> TRUE]
    <3>1. rest = IF x.more \/ first.ptr >= End THEN Back(x) ELSE x
      BY <2>3 DEF read_until
    <3>2. (to + 1) - 1 = to
      OBVIOUS
    <3> QED
      BY <3>1, <3>2 DEF Back, x
  <2> HIDE DEF rest
  <2>5. rest \in Readers
    <3>1. "LF" \in Symbols /\ to \in Nat \ {0}
      BY <1>1 DEF Symbols, Spaces
    <3> QED
      BY <2>4, <3>1 DEF Readers
  <2>6. read_spaces_until_lf(rest).ptr = to + 1
    <3>1. rest.ptr <= to /\ \A i \in rest.ptr..(to - 1) : Text[i] = "SP"
      BY <2>4
    <3>2. Text[to] \notin {"SP", "\\"}
      BY <1>6
    <3>3. read_spaces_until_lf(rest) = [ptr |-> to + 1, cur |-> Text[to], more |-> TRUE]
      BY ONLY <2>1, <2>5, <3>1, <3>2, Readable, to \in Nat, SpacesIs
    <3> QED
      BY <3>3
  <2>7. Span(first.ptr - 1, rest.ptr) = SubSeq(Text, from, to - 1)
    BY <1>5, <2>4 DEF Span
  <2>8. first.cur # "LF"
    BY <1>2, <1>5
  <2> QED
    BY <1>6, <2>6, <2>7, <2>8 DEF rest, first
<1>7. CASE to = end /\ last /\ from + 1 < to
  <2>1. to = End /\ first.ptr < End /\ ~(first.ptr >= End)
    BY <1>1, <1>5, <1>7
  <2> DEFINE x == [ptr |-> End, cur |-> LastRead(first), more |-> FALSE]
  <2>2. \/ to < End /\ Text[to] = "LF" /\ x = [ptr |-> to + 1, cur |-> "LF", more |-> TRUE]
        \/ to = End /\ x = [ptr |-> End, cur |-> LastRead(first), more |-> FALSE]
    BY <2>1
  <2>22. to <= End
    BY <1>1, <2>1
  <2> HIDE DEF x
  <2>3. ReadUpTo(first, {"LF"}) = x
    BY ONLY <1>2, <1>4, <1>5, <2>22, <2>2, Readable, from \in Nat, to \in Nat, Text[to - 1] \notin {"LF", "\\"},
       UpToJoined
  <2>4. rest = x /\ x.ptr = End
    <3>1. rest = IF x.more \/ first.ptr >= End THEN Back(x) ELSE x
      BY <2>3 DEF read_until
    <3> QED
      BY <2>1, <3>1 DEF x
  <2>5. rest \in Readers
    BY <2>3, <2>4, <1>4, ReadUpToPassed DEF Passed
  <2>6. read_spaces_until_lf(rest).ptr = End
    <3>1. rest.ptr <= End /\ \A i \in rest.ptr..(End - 1) : Text[i] = "SP"
      BY <1>1, <2>4
    <3> HIDE DEF rest
    <3>2. read_spaces_until_lf(rest) = [ptr |-> End, cur |-> LastRead(rest), more |-> FALSE]
      BY <2>5, <3>1, SpacesEnd
    <3> QED
      BY <3>2
  <2>7. Span(first.ptr - 1, rest.ptr) = SubSeq(Text, from, to - 1)
    BY <1>5, <2>1, <2>4 DEF Span
  <2>8. first.cur # "LF"
    BY <1>2, <1>5
  <2> QED
    BY <1>7, <2>1, <2>6, <2>7, <2>8 DEF first
<1> QED
  BY <1>6, <1>7

\* What is read when nothing stands behind the name.
LEMMA EmptyReads ==
  ASSUME Readable, NEW r \in Readers, r.ptr >= 2, r.ptr <= End,
         \A i \in r.ptr..(End - 1) : Text[i] = "SP",
         r.ptr = End => r.cur # "LF"
  PROVE  LET first == read_spaces_until_lf(r)
             rest == read_until(first, {"LF"})
         IN /\ first.cur # "LF" /\ Span(first.ptr - 1, rest.ptr) = <<>>
            /\ read_spaces_until_lf(rest).ptr = End
<1> DEFINE first == read_spaces_until_lf(r)
           rest == read_until(first, {"LF"})
<1>1. r.ptr \in Nat /\ End \in Nat /\ End >= 2 /\ Text \in Seq(Symbols) /\ End - 1 \in Nat /\ End - 1 < End
      /\ End - 1 \in Nat \ {0} /\ (End - 1) + 1 = End /\ End <= Len(Text) + 1 /\ Len(Text) \in Nat
  BY DEF Readers, Readable
<1>2. first.ptr = End /\ first.cur = LastRead(r)
  <2>1. first = [ptr |-> End, cur |-> LastRead(r), more |-> FALSE]
    BY SpacesEnd
  <2> QED
    BY <2>1
<1>3. first.cur # "LF"
  <2>1. r.ptr # End => Text[End - 1] = "SP"
    BY <1>1
  <2> QED
    BY <1>2, <2>1 DEF LastRead
<1>4. first \in Readers
  BY ReadUpToPassed DEF Passed, read_spaces_until_lf
<1> HIDE DEF first
<1>5. rest.ptr = End - 1
  BY <1>2, <1>4, UntilBack
<1>6. rest \in Readers
  <2>1. first.ptr >= 2 /\ first.ptr <= End
    BY <1>1, <1>2
  <2> QED
    BY <1>4, <2>1, ReadUntil
<1> HIDE DEF rest
<1>7. readnext(rest) = [ptr |-> End, cur |-> Text[End - 1], more |-> TRUE]
  <2>1. ~(rest.ptr >= End) /\ rest.ptr + 1 >= End /\ rest.ptr + 1 = End
    BY <1>1, <1>5
  <2> QED
    BY <1>5, <2>1 DEF readnext
<1>8. readnext(rest) \in Readers
  BY <1>6, ReadNext
<1>9. ReadUpTo(readnext(rest), Symbols \ {"SP"}).ptr = End
  <2> DEFINE s == readnext(rest)
  <2>1. s.ptr = End /\ s \in Readers
    BY <1>7, <1>8
  <2> HIDE DEF s
  <2>2. s.ptr <= End /\ Clear(s.ptr, End, Symbols \ {"SP"})
    BY <1>1, <2>1 DEF Clear
  <2>3. ReadUpTo(s, Symbols \ {"SP"}) = [ptr |-> End, cur |-> LastRead(s), more |-> FALSE]
    BY <2>1, <2>2, UpToEnd
  <2> QED
    BY <2>3 DEF s
<1>10. read_spaces_until_lf(rest).ptr = End
  <2>1. read_spaces_until_lf(rest) = IF readnext(rest).more /\ readnext(rest).cur \notin Symbols \ {"SP"}
                                       THEN ReadUpTo(readnext(rest), Symbols \ {"SP"}) ELSE readnext(rest)
    BY <1>6, ReadUpToIs DEF read_spaces_until_lf
  <2>2. readnext(rest).ptr = End
    BY <1>7
  <2> QED
    BY <1>9, <2>1, <2>2
<1>11. Span(first.ptr - 1, rest.ptr) = <<>>
  <2>1. Span(first.ptr - 1, rest.ptr) = SubSeq(Text, End - 1, (End - 1) - 1)
    BY <1>2, <1>5 DEF Span
  <2>2. End - 1 > (End - 1) - 1
    BY <1>1
  <2> QED
    BY <1>1, <2>1, <2>2
<1> QED
  BY <1>3, <1>10, <1>11 DEF rest, first

\* A #define gives its name the replacement of its line.
LEMMA DefineTurn ==
  ASSUME NEW p, NEW last, Stands(p, last), IsDefine(Text, p, last), Next
  PROVE  /\ Id = p.id /\ p.id \in Seq(Symbols)
         /\ \E content \in Seq(Symbols) : Unescaped(content) = p.text /\ SetAndGoOn(content, p.to)
<1> DEFINE first == read_spaces_until_lf(IdEnd)
           rest == read_until(first, {"LF"})
<1>1. /\ Readable /\ End \in Nat /\ p.from \in Nat \ {0} /\ p.to \in Nat /\ p.to <= End
      /\ Text \in Seq(Symbols) /\ Len(Text) \in Nat /\ End <= Len(Text) + 1
      /\ last => p.to = End
  BY StandsIs DEF Stands
<1>2. PICK arg \in p.from..p.to, stop \in p.from..p.to :
        /\ Starts(Text, p, "define", arg) /\ arg < stop /\ HasName(Text, p.id, arg, stop)
        /\ \/ p.text = <<>> /\ EndsPiece(Text, stop, p.to, last)
           \/ \E from, to \in (stop + 1)..p.to :
                /\ from < to /\ Only(Text, stop, from, {"SP"}) /\ IsReplacement(Text, from, to)
                /\ p.text = Unescaped(SubSeq(Text, from, to - 1))
                /\ Text[to - 1] \notin {"LF", "\\"}
                /\ \/ to + 1 = p.to /\ Text[to] = "LF"
                   \/ to = p.to /\ last /\ from + 1 < to
  BY DEF IsDefine
<1>3. Directed("define", arg)
  BY <1>2, StartsIs DEF Known
<1>4. stop \in Nat /\ arg \in Nat /\ arg >= 1 /\ stop <= p.to /\ stop <= End /\ stop >= 2
  BY <1>1, <1>2
<1>5. Without(Text, arg, stop, Spaces) /\ p.id = SubSeq(Text, arg, stop - 1)
  BY <1>2 DEF HasName
<1>6. p.id \in Seq(Symbols)
  <2>1. \A i \in arg..(stop - 1) : Text[i] \in Symbols
    BY <1>1, <1>4
  <2> QED
    BY <1>4, <1>5, <2>1
<1>7. Define
  BY <1>3, TurnAtDirective
<1>8. \/ first.cur = "LF" /\ SetAndGoOn(<<>>, first.ptr)
      \/ first.cur # "LF" /\ SetAndGoOn(Span(first.ptr - 1, rest.ptr), read_spaces_until_lf(rest).ptr)
  BY <1>7 DEF Define
<1>9. CASE p.text = <<>> /\ EndsPiece(Text, stop, p.to, last)
  <2>1. stop < End => Text[stop] \in Spaces
    BY <1>1, <1>4, <1>9, EndsName
  <2>2. /\ IdEnd \in Readers /\ IdEnd.ptr = stop /\ Id = p.id
        /\ stop = End => IdEnd.cur = Text[End - 1] /\ Text[End - 1] \notin Spaces
    BY <1>2, <1>3, <1>4, <1>5, <2>1, IdReads
  <2>3. /\ first.ptr = p.to
        /\ \/ first.cur = "LF"
           \/ p.to = End /\ \A i \in IdEnd.ptr..(End - 1) : Text[i] = "SP"
    <3>1. EndsPiece(Text, IdEnd.ptr, p.to, last)
      BY <1>9, <2>2
    <3> QED
      BY ONLY <1>1, <2>2, <3>1, EndsAt
  <2>20. <<>> \in Seq(Symbols) /\ Unescaped(<<>>) = p.text
    BY <1>9, UnescapedNothing
  <2>4. CASE first.cur = "LF"
    <3>1. SetAndGoOn(<<>>, p.to)
      BY <1>8, <2>3, <2>4
    <3> QED
      BY <1>6, <2>2, <2>20, <3>1
  <2>5. CASE first.cur # "LF"
    <3>1. p.to = End /\ \A i \in IdEnd.ptr..(End - 1) : Text[i] = "SP"
      BY <2>3, <2>5
    <3>2. IdEnd.ptr >= 2 /\ IdEnd.ptr <= End /\ (IdEnd.ptr = End => IdEnd.cur # "LF")
      BY <1>4, <2>2 DEF Spaces
    <3>3. Span(first.ptr - 1, rest.ptr) = <<>> /\ read_spaces_until_lf(rest).ptr = End
      BY <1>1, <2>2, <3>1, <3>2, EmptyReads
    <3>4. SetAndGoOn(<<>>, p.to)
      <4> HIDE DEF first, rest
      <4> QED
        BY <1>8, <2>5, <3>1, <3>3
    <3> QED
      BY <1>6, <2>2, <2>20, <3>4
  <2> QED
    BY <2>4, <2>5
<1>10. CASE ~(p.text = <<>> /\ EndsPiece(Text, stop, p.to, last))
  <2>1. PICK from, to \in (stop + 1)..p.to :
          /\ from < to /\ Only(Text, stop, from, {"SP"}) /\ IsReplacement(Text, from, to)
          /\ p.text = Unescaped(SubSeq(Text, from, to - 1))
          /\ Text[to - 1] \notin {"LF", "\\"}
          /\ \/ to + 1 = p.to /\ Text[to] = "LF"
             \/ to = p.to /\ last /\ from + 1 < to
    BY <1>2, <1>10
  <2>2. from \in Nat /\ to \in Nat /\ stop < from /\ to <= p.to /\ stop < End
    BY <1>1, <1>4, <2>1
  <2>3. Text[stop] = "SP"
    <3>1. stop \in stop..(from - 1)
      BY <1>4, <2>2
    <3> QED
      BY <2>1, <3>1 DEF Only
  <2>4. stop < End => Text[stop] \in Spaces
    BY <2>3 DEF Spaces
  <2>5. IdEnd \in Readers /\ IdEnd.ptr = stop /\ Id = p.id
    BY <1>2, <1>3, <1>4, <1>5, <2>4, IdReads
  <2>6. IdEnd.ptr < from /\ Only(Text, IdEnd.ptr, from, {"SP"})
    BY <2>1, <2>2, <2>5
  <2>7. /\ first.cur # "LF" /\ Span(first.ptr - 1, rest.ptr) = SubSeq(Text, from, to - 1)
        /\ read_spaces_until_lf(rest).ptr = p.to
    BY ONLY <1>1, <2>1, <2>2, <2>5, <2>6, ReplacementReads
  <2>8. SetAndGoOn(SubSeq(Text, from, to - 1), p.to)
    <3> HIDE DEF first, rest
    <3> QED
      BY <1>8, <2>7
  <2>9. SubSeq(Text, from, to - 1) \in Seq(Symbols)
    <3>1. \A i \in from..(to - 1) : Text[i] \in Symbols
      BY <1>1, <1>4, <2>2
    <3> QED
      BY <2>2, <3>1
  <2> QED
    BY <1>6, <2>1, <2>5, <2>8, <2>9
<1> QED
  BY <1>9, <1>10


\* The path between two delimiters is read, and what follows it.
LEMMA PathReads ==
  ASSUME NEW word, NEW arg, Directed(word, arg), NEW close \in {"QUOTE", ">"}, NEW stop \in Nat, NEW to \in Nat,
         arg < stop, stop < to, to <= End, NEW last, last => to = End,
         Text[stop] = close, Without(Text, arg + 1, stop, {close}),
         EndsPiece(Text, stop + 1, to, last)
  PROVE  PathEnd(close).cur = close /\ Path(close) = SubSeq(Text, arg + 1, stop - 1) /\ PathRest(close).ptr = to
<1>1. /\ Readable /\ End \in Nat /\ arg \in Nat /\ arg < End /\ Text[arg] # "\\" /\ arg + 1 \in Nat /\ stop < End
      /\ close # "\\" /\ stop + 1 \in Nat \ {0} /\ arg + 1 <= stop
  BY DEF Directed, Readable
<1>2. Arg \in Readers /\ Arg.ptr = arg
  <2>1. Arg = [ptr |-> arg, cur |-> Text[arg], more |-> TRUE] /\ Arg \in Readers
    BY DirectiveReads
  <2> QED
    BY <2>1
<1>3. PathAt \in Readers /\ PathAt.ptr = arg + 1
  <2>1. Arg.ptr < End /\ Text[Arg.ptr] # "\\"
    BY <1>1, <1>2
  <2>2. PathAt = [ptr |-> Arg.ptr + 1, cur |-> Text[Arg.ptr], more |-> TRUE]
    BY <1>1, <1>2, <2>1, NextPlain DEF PathAt
  <2>3. PathAt \in Readers
    BY <1>1, <1>2, ReadNext DEF PathAt
  <2> QED
    BY <1>2, <2>2, <2>3
<1>4. PathEnd(close) = [ptr |-> stop, cur |-> close, more |-> TRUE]
  <2>1. PathAt.ptr <= stop /\ Clear(PathAt.ptr, stop, {close}) /\ Text[stop] \in {close} /\ Text[stop] # "\\"
    BY <1>1, <1>3 DEF Clear, Without
  <2>2. read_until(PathAt, {close}) = [ptr |-> stop, cur |-> Text[stop], more |-> TRUE]
    BY ONLY <1>1, <1>3, <2>1, stop \in Nat, UntilIs
  <2> QED
    BY <2>2 DEF PathEnd
<1> DEFINE q == PathEnd(close)
           s == readnext(q)
<1>5. q \in Readers /\ q.ptr = stop /\ q.cur = close
  <2>1. close \in Symbols /\ stop \in Nat \ {0}
    BY <1>1 DEF Symbols, Signs
  <2> QED
    BY <1>4, <2>1 DEF Readers
<1> HIDE DEF q
<1>6. s \in Readers /\ s.ptr = stop + 1
  <2>1. q.ptr < End /\ Text[q.ptr] # "\\"
    BY <1>1, <1>5
  <2>2. s = [ptr |-> q.ptr + 1, cur |-> Text[q.ptr], more |-> TRUE]
    BY <1>1, <1>5, <2>1, NextPlain
  <2>3. s \in Readers
    BY <1>1, <1>5, ReadNext
  <2> QED
    BY <1>5, <2>2, <2>3
<1> HIDE DEF s
<1>7. read_spaces_until_lf(s).ptr = to
  <2>1. EndsPiece(Text, s.ptr, to, last)
    BY <1>6
  <2> QED
    BY <1>1, <1>6, <2>1, EndsAt
<1> QED
  BY <1>3, <1>5, <1>7 DEF q, s, Path, PathRest, Span

\* The first search path that has the file is found.
LEMMA SystemPathIs ==
  ASSUME NEW name, NEW i \in DOMAIN SearchPaths, path_join_ssp(SearchPaths[i], name) \in DOMAIN files,
         \A j \in 1..(i - 1) : path_join_ssp(SearchPaths[j], name) \notin DOMAIN files
  PROVE  SystemPath(name) = path_join_ssp(SearchPaths[i], name)
<1> DEFINE Where(j) == path_join_ssp(SearchPaths[j], name)
           found == {j \in DOMAIN SearchPaths : Where(j) \in DOMAIN files}
           first == CHOOSE j \in found : \A k \in found : j <= k
<1>0. DOMAIN SearchPaths \subseteq Nat /\ \A j \in DOMAIN SearchPaths : j < i => j \in 1..(i - 1)
  BY ExpandAssumption
<1>1. i \in found /\ \A k \in found : i <= k
  <2>1. ASSUME NEW k \in found PROVE i <= k
    <3>1. k \in DOMAIN SearchPaths /\ k \notin 1..(i - 1) /\ k \in Nat /\ i \in Nat
      BY <1>0
    <3>2. ~(k < i)
      BY <1>0, <3>1
    <3> QED
      BY <3>1, <3>2
  <2> QED
    BY <2>1
<1>2. SystemPath(name) = IF found = {} THEN Where(Len(SearchPaths)) ELSE Where(first)
  BY DEF SystemPath
<1>3. found \subseteq Nat
  BY <1>0
<1> HIDE DEF found
<1>4. first \in found /\ \A k \in found : first <= k
  BY <1>1
<1> HIDE DEF first
<1>5. first = i
  <2>1. first <= i /\ i <= first /\ first \in Nat /\ i \in Nat
    BY <1>1, <1>3, <1>4
  <2> QED
    BY <2>1
<1>6. found # {}
  BY <1>1
<1> QED
  BY <1>2, <1>5, <1>6

\* An #include expands the file that is meant.
LEMMA IncludeTurn ==
  ASSUME NEW p, NEW last, Stands(p, last), IsInclude(Top.path, p, last), Next
  PROVE  prep_expand(p.target, p.to) /\ unknown' = unknown /\ p.target \in DOMAIN files
<1>1. /\ Readable /\ End \in Nat /\ p.from \in Nat \ {0} /\ p.to \in Nat /\ p.to <= End
      /\ last => p.to = End
  BY StandsIs DEF Stands
<1>2. PICK arg \in p.from..p.to, stop \in p.from..p.to, close \in {"QUOTE", ">"} :
        /\ Starts(Text, p, "include", arg) /\ Text[arg] = IF close = ">" THEN "<" ELSE close
        /\ arg < stop /\ stop < p.to /\ Text[stop] = close /\ Without(Text, arg + 1, stop, {close})
        /\ IsTarget(Top.path, close, SubSeq(Text, arg + 1, stop - 1), p.target)
        /\ EndsPiece(Text, stop + 1, p.to, last)
  BY DEF IsInclude, Text
<1>3. Directed("include", arg)
  BY <1>2, StartsIs DEF Known
<1>4. stop \in Nat
  BY <1>1
<1>5. PathEnd(close).cur = close /\ Path(close) = SubSeq(Text, arg + 1, stop - 1) /\ PathRest(close).ptr = p.to
  <2> DEFINE to == p.to
  <2>1. to \in Nat /\ to <= End /\ (last => to = End)
    BY <1>1
  <2>2. arg < stop /\ stop < to /\ Text[stop] = close /\ Without(Text, arg + 1, stop, {close})
        /\ EndsPiece(Text, stop + 1, to, last)
    BY <1>2
  <2>3. close \in {"QUOTE", ">"}
    OBVIOUS
  <2> HIDE DEF to
  <2>4. PathEnd(close).cur = close /\ Path(close) = SubSeq(Text, arg + 1, stop - 1) /\ PathRest(close).ptr = to
    BY ONLY <1>3, <1>4, <2>1, <2>2, <2>3, PathReads
  <2> QED
    BY <2>4 DEF to
<1>6. Arg.cur = IF close = ">" THEN "<" ELSE "QUOTE"
  <2>1. Arg = [ptr |-> arg, cur |-> Text[arg], more |-> TRUE]
    BY <1>3, DirectiveReads
  <2> QED
    BY <1>2, <2>1
<1>7. IncludeLocal \/ IncludeSystem \/ IncludeOther
  BY <1>3, TurnAtDirective
<1>8. p.target \in DOMAIN files
  BY <1>2 DEF IsTarget
<1>9. CASE close = "QUOTE"
  <2>1. IncludeLocal
    BY <1>6, <1>7, <1>9 DEF IncludeSystem, IncludeOther
  <2>2. p.target = path_join_ssp(Top.dir, Path("QUOTE"))
    <3>1. Top.dir = DirOf(Top.path)
      BY TopIs DEF Stands
    <3> QED
      BY <1>2, <1>5, <1>9, <3>1 DEF IsTarget
  <2> QED
    BY <1>5, <1>8, <1>9, <2>1, <2>2 DEF IncludeLocal
<1>10. CASE close = ">"
  <2>1. IncludeSystem
    BY <1>6, <1>7, <1>10 DEF IncludeLocal, IncludeOther
  <2>2. PICK i \in DOMAIN SearchPaths :
          /\ p.target = path_join_ssp(SearchPaths[i], Path(">"))
          /\ \A j \in 1..(i - 1) : path_join_ssp(SearchPaths[j], Path(">")) \notin DOMAIN files
    BY <1>2, <1>5, <1>10 DEF IsTarget
  <2>3. SystemPath(Path(">")) = p.target
    BY <1>8, <2>2, SystemPathIs
  <2>4. SearchPaths # <<>>
    BY <2>2
  <2> QED
    BY <1>5, <1>8, <1>10, <2>1, <2>3, <2>4 DEF IncludeSystem
<1> QED
  BY <1>9, <1>10

\* The condition of a piece holds.
Wanted(p) == (\A id \in p.ids : IsDefined(id)) <=> p.kind # "ifndef"

\* A condition is the one of its line, or the static stack of eval_expr is full.
LEMMA ConditionTurn ==
  ASSUME NEW p, NEW last, Stands(p, last), p.kind \in Conditions, IsCondition(Text, p), Next
  PROVE  \/ Conditional(p.to, Wanted(p))
         \/ p.kind = "if" /\ Abort /\ unknown' = unknown
<1>1. /\ Readable /\ End \in Nat /\ p.from \in Nat \ {0} /\ p.to \in Nat /\ p.to <= End
  BY StandsIs DEF Stands
<1>2. PICK arg \in p.from..p.to, stop \in p.from..p.to :
        /\ Starts(Text, p, p.kind, arg) /\ arg < stop
        /\ \/ /\ p.kind \in {"ifdef", "ifndef"}
              /\ EndsLine(Text, stop, p.to)
              /\ \E id \in {SubSeq(Text, arg, stop - 1)} : HasName(Text, id, arg, stop) /\ p.ids = {id}
           \/ /\ p.kind = "if"
              /\ stop + 1 = p.to /\ Text[stop] = "LF" /\ Without(Text, arg, stop, {"LF"})
              /\ \E expr \in {SubSeq(Text, arg, stop - 1)} :
                   /\ WellFormed(expr)
                   /\ p.ids = {<<expr[i]>> : i \in {j \in DOMAIN expr : expr[j] \in Letters}}
  BY DEF IsCondition
<1>3. Directed(p.kind, arg)
  BY <1>2, StartsIs DEF Conditions, Known
<1>4. stop \in Nat /\ arg \in Nat
  BY <1>1
<1>5. CASE /\ p.kind \in {"ifdef", "ifndef"}
           /\ EndsLine(Text, stop, p.to)
           /\ \E id \in {SubSeq(Text, arg, stop - 1)} : HasName(Text, id, arg, stop) /\ p.ids = {id}
  <2>1. Without(Text, arg, stop, Spaces) /\ p.ids = {SubSeq(Text, arg, stop - 1)}
    BY <1>5 DEF HasName
  <2>2. EndsPiece(Text, stop, p.to, FALSE) /\ stop <= p.to /\ stop <= End
    BY <1>1, <1>4, <1>5 DEF EndsPiece
  <2>3. stop < End => Text[stop] \in Spaces
    BY <1>1, <1>4, <2>2, EndsName
  <2>4. IdEnd \in Readers /\ IdEnd.ptr = stop /\ Id = SubSeq(Text, arg, stop - 1)
    BY <1>2, <1>3, <1>4, <2>1, <2>2, <2>3, IdReads
  <2>5. read_spaces_until_lf(IdEnd).ptr = p.to
    <3>1. EndsPiece(Text, IdEnd.ptr, p.to, FALSE)
      BY <2>2, <2>4
    <3> QED
      BY ONLY <1>1, <2>4, <3>1, EndsAt
  <2>6. IfDefined
    BY <1>3, <1>5, TurnAtDirective
  <2>7. \/ At("ifdef") /\ Conditional(p.to, IsDefined(Id))
        \/ At("ifndef") /\ Conditional(p.to, ~IsDefined(Id))
    BY <2>5, <2>6 DEF IfDefined
  <2>8. (At("ifdef") => p.kind = "ifdef") /\ (At("ifndef") => p.kind = "ifndef")
    <3>1. \A w \in Known : At(w) => w = p.kind
      BY <1>3, DirectiveReads
    <3> HIDE DEF At
    <3> QED
      BY <3>1 DEF Known
  <2>9. Wanted(p) <=> (IsDefined(Id) <=> p.kind # "ifndef")
    BY <2>1, <2>4 DEF Wanted
  <2>10. CASE p.kind = "ifdef"
    <3>1. Conditional(p.to, IsDefined(Id))
      BY <2>7, <2>8, <2>10
    <3>2. Wanted(p) <=> IsDefined(Id)
      BY <2>9, <2>10
    <3> QED
      BY <3>1, <3>2 DEF Conditional
  <2>11. CASE p.kind = "ifndef"
    <3>1. Conditional(p.to, ~IsDefined(Id))
      BY <2>7, <2>8, <2>11
    <3>2. Wanted(p) <=> ~IsDefined(Id)
      BY <2>9, <2>11
    <3> QED
      BY <3>1, <3>2 DEF Conditional
  <2> QED
    BY <1>5, <2>10, <2>11
<1>6. CASE /\ p.kind = "if"
           /\ stop + 1 = p.to /\ Text[stop] = "LF" /\ Without(Text, arg, stop, {"LF"})
           /\ \E expr \in {SubSeq(Text, arg, stop - 1)} :
                /\ WellFormed(expr)
                /\ p.ids = {<<expr[i]>> : i \in {j \in DOMAIN expr : expr[j] \in Letters}}
  <2> DEFINE exprEnd == read_until(Arg, {"LF"})
             expr == Span(Arg.ptr, exprEnd.ptr)
             r == read_spaces_until_lf(exprEnd)
  <2>1. Arg \in Readers /\ Arg.ptr = arg
    <3>1. Arg = [ptr |-> arg, cur |-> Text[arg], more |-> TRUE] /\ Arg \in Readers
      BY <1>3, DirectiveReads
    <3> QED
      BY <3>1
  <2>2. stop < End
    BY <1>1, <1>4, <1>6
  <2>3. exprEnd = [ptr |-> stop, cur |-> "LF", more |-> TRUE]
    <3>1. Arg.ptr <= stop /\ Clear(Arg.ptr, stop, {"LF"}) /\ Text[stop] \in {"LF"} /\ Text[stop] # "\\"
      BY <1>2, <1>4, <1>6, <2>1 DEF Clear, Without
    <3>2. exprEnd = [ptr |-> stop, cur |-> Text[stop], more |-> TRUE]
      BY ONLY <1>1, <1>4, <2>1, <2>2, <3>1, UntilIs
    <3> QED
      BY <1>6, <3>2
  <2>4. expr = SubSeq(Text, arg, stop - 1)
    BY <2>1, <2>3 DEF Span
  <2> HIDE DEF expr, r, exprEnd
  <2>5. exprEnd \in Readers /\ exprEnd.ptr = stop
    <3>1. "LF" \in Symbols /\ stop \in Nat \ {0}
      BY <1>1, <1>2, <1>4 DEF Symbols, Spaces
    <3> QED
      BY <2>3, <3>1 DEF Readers
  <2>6. r.ptr = p.to
    <3>1. exprEnd.ptr <= stop /\ (\A i \in exprEnd.ptr..(stop - 1) : Text[i] = "SP") /\ Text[stop] \notin {"SP", "\\"}
      BY <1>4, <1>6, <2>5
    <3>2. r = [ptr |-> stop + 1, cur |-> Text[stop], more |-> TRUE]
      BY ONLY <1>1, <1>4, <2>2, <2>5, <3>1, SpacesIs DEF r
    <3> QED
      BY <1>6, <3>2
  <2>7. If
    BY <1>3, <1>6, TurnAtDirective
  <2>8. \/ \E holds \in IF WellFormed(expr) THEN {Value(expr)} ELSE BOOLEAN : Conditional(r.ptr, holds)
        \/ Abort /\ unknown' = unknown
    BY <2>7 DEF If, r, expr, exprEnd
  <2>9. WellFormed(expr) /\ p.ids = {<<expr[i]>> : i \in {j \in DOMAIN expr : expr[j] \in Letters}}
    BY <1>6, <2>4
  <2>10. CASE \E holds \in IF WellFormed(expr) THEN {Value(expr)} ELSE BOOLEAN : Conditional(r.ptr, holds)
    <3>1. Conditional(p.to, Value(expr))
      BY <2>6, <2>9, <2>10
    <3>2. Wanted(p) <=> Value(expr)
      <4>1. (\A id \in p.ids : IsDefined(id)) <=> Value(expr)
        BY <2>9 DEF Value
      <4> QED
        BY <1>6, <4>1 DEF Wanted
    <3> QED
      BY <3>1, <3>2 DEF Conditional
  <2> QED
    BY <1>6, <2>8, <2>10
<1> QED
  BY <1>2, <1>5, <1>6


\* Which turn it is depends on the first symbol.
LEMMA TurnAt ==
  ASSUME Next, Reading, Cur.cur # "#"
  PROVE  /\ Cur.cur = "/" => Comment
         /\ Cur.cur \in {"QUOTE", "APOSTROPHE"} => Literal
         /\ Cur.cur \in Letters \cup Words => Name
         /\ Cur.cur \notin {"/", "QUOTE", "APOSTROPHE"} \cup Letters \cup Words => Other
<1>1. "/" \notin Letters \cup Words /\ "QUOTE" \notin Letters \cup Words /\ "APOSTROPHE" \notin Letters \cup Words
  <2>1. "/" \in Signs /\ "QUOTE" \in Signs /\ "APOSTROPHE" \in Signs
    BY DEF Signs
  <2> QED
    BY <2>1, Apart
<1>2. Comment \/ Literal \/ Name \/ Other
  BY TurnAtText
<1>3. /\ Comment => Cur.cur = "/"
      /\ Literal => Cur.cur \in {"QUOTE", "APOSTROPHE"}
      /\ Name => Cur.cur \in Letters \cup Words
      /\ Other => Cur.cur \notin {"/", "QUOTE", "APOSTROPHE"} \cup Letters \cup Words
  BY DEF Comment, Literal, Name, Other
<1> QED
  BY <1>1, <1>2, <1>3

\* Where a comment ends.
LEMMA CommentEnds ==
  ASSUME NEW p, NEW last, Stands(p, last), Text[p.from] = "/",
         \/ IsSymbol(Text, p, last)
         \/ IsLineComment(Text, p, last)
         \/ IsComment(Text, p)
  PROVE  CommentEnd = p.to
<1> DEFINE ptr == Cur.ptr
           lines == {i \in ptr..(End - 1) : Text[i] = "LF"}
           stars == {i \in ptr..(End - 2) : Text[i] = "*" /\ Text[i + 1] = "/"}
<1>1. /\ Readable /\ End \in Nat /\ p.from \in Nat \ {0} /\ p.to \in Nat /\ p.from < p.to /\ p.to <= End
      /\ (last => p.to = End) /\ (last \/ p.to < End)
  BY StandsIs DEF Stands
<1>2. ptr = p.from + 1
  BY CurAt
<1>3. CommentEnd = CASE ptr < End /\ Text[ptr] = "/" -> FirstOf(lines, End)
                     [] ptr < End /\ Text[ptr] = "*" -> FirstOf(stars, End - 1) + 2
                     [] OTHER -> ptr
  BY DEF CommentEnd
<1> HIDE DEF ptr
<1>4. CASE IsSymbol(Text, p, last)
  <2>1. ptr = p.to /\ (last \/ Text[ptr] \notin {"/", "*"})
    BY <1>2, <1>4 DEF IsSymbol
  <2>2. ~(ptr < End /\ Text[ptr] = "/") /\ ~(ptr < End /\ Text[ptr] = "*")
    BY <1>1, <2>1
  <2> QED
    BY <1>3, <2>1, <2>2
<1>5. CASE IsLineComment(Text, p, last)
  <2>1. /\ p.from + 2 <= p.to /\ Text[p.from + 1] = "/"
        /\ \A i \in p.from..(p.to - 1) : Text[i] # "LF"
        /\ last \/ Text[p.to] = "LF"
    BY <1>5 DEF IsLineComment
  <2>2. ptr < End /\ Text[ptr] = "/"
    BY <1>1, <1>2, <2>1
  <2>3. CommentEnd = FirstOf(lines, End)
    BY <1>3, <2>2
  <2>4. \A i \in lines : i >= p.to
    <3>1. ASSUME NEW i \in lines PROVE i >= p.to
      <4>1. i \in Nat /\ i >= p.from /\ Text[i] = "LF"
        BY <1>1, <1>2
      <4>2. i \notin p.from..(p.to - 1)
        BY <2>1, <4>1
      <4> QED
        BY <1>1, <4>1, <4>2
    <3> QED
      BY <3>1
  <2>5. CASE p.to = End
    <3>1. lines = {}
      <4>1. ASSUME NEW i \in lines PROVE FALSE
        <5>1. i >= p.to /\ i <= End - 1 /\ i \in Int
          BY <1>1, <1>2, <2>4
        <5> QED
          BY <1>1, <2>5, <5>1
      <4> QED
        BY <4>1
    <3> QED
      BY <2>3, <2>5, <3>1, FirstOfNone
  <2>6. CASE p.to # End
    <3>1. p.to \in lines /\ lines \subseteq Nat
      BY <1>1, <1>2, <2>1, <2>6
    <3>2. \A i \in lines : p.to <= i
      BY <1>1, <2>4, <3>1
    <3> HIDE DEF lines
    <3> QED
      BY <2>3, <3>1, <3>2, FirstOfIs
  <2> QED
    BY <2>5, <2>6
<1>6. CASE IsComment(Text, p)
  <2>1. /\ p.from + 4 <= p.to /\ Text[p.from + 1] = "*"
        /\ Text[p.to - 2] = "*" /\ Text[p.to - 1] = "/"
        /\ \A i \in (p.from + 1)..(p.to - 3) : ~(Text[i] = "*" /\ Text[i + 1] = "/")
    BY <1>6 DEF IsComment
  <2>2. ptr < End /\ Text[ptr] = "*" /\ ~(Text[ptr] = "/")
    BY <1>1, <1>2, <2>1
  <2>3. CommentEnd = FirstOf(stars, End - 1) + 2
    BY <1>3, <2>2
  <2>4. p.to - 2 \in stars /\ stars \subseteq Nat
    <3>1. (p.to - 2) + 1 = p.to - 1 /\ p.to - 2 \in ptr..(End - 2)
      BY <1>1, <1>2, <2>1
    <3> QED
      BY <1>1, <1>2, <2>1, <3>1
  <2>5. \A i \in stars : p.to - 2 <= i
    <3>1. ASSUME NEW i \in stars PROVE p.to - 2 <= i
      <4>1. i \in Nat /\ i >= p.from + 1 /\ Text[i] = "*" /\ Text[i + 1] = "/"
        BY <1>1, <1>2
      <4>2. i \notin (p.from + 1)..(p.to - 3)
        BY <2>1, <4>1
      <4> QED
        BY <1>1, <4>1, <4>2
    <3> QED
      BY <3>1
  <2> HIDE DEF stars
  <2>6. FirstOf(stars, End - 1) = p.to - 2
    BY <2>4, <2>5, FirstOfIs
  <2>7. (p.to - 2) + 2 = p.to
    BY <1>1
  <2> QED
    BY <2>3, <2>6, <2>7
<1> QED
  BY <1>4, <1>5, <1>6

\* A piece of text is copied.
LEMMA TextTurn ==
  ASSUME NEW p, NEW last, Stands(p, last), IsText(Text, p, last), Next
  PROVE  Emit(p.text, p.to)
<1>1. /\ Readable /\ End \in Nat /\ p.from \in Nat \ {0} /\ p.to \in Nat /\ p.from < p.to /\ p.to <= End
      /\ Text \in Seq(Symbols) /\ Len(Text) \in Nat /\ End <= Len(Text) + 1 /\ Cur \in Readers
  BY StandsIs DEF Stands
<1>2. p.text = SubSeq(Text, p.from, p.to - 1)
  BY DEF IsText
<1>3. CASE Text[p.from] = "/"
  <2>1. \/ IsSymbol(Text, p, last) \/ IsLineComment(Text, p, last) \/ IsComment(Text, p)
    BY <1>3 DEF IsText, IsLiteral
  <2>2. CommentEnd = p.to
    BY <1>3, <2>1, CommentEnds
  <2>3. Cur.ptr = p.from + 1 /\ Cur.cur = "/" /\ Reading
    BY <1>3, CurAt
  <2>4. Comment
    BY <2>3, TurnAt
  <2>5. Cur.ptr - 1 = p.from /\ (IF CommentEnd < End THEN CommentEnd ELSE End) = p.to
    BY <1>1, <2>2, <2>3
  <2>6. Emit(Span(Cur.ptr - 1, IF CommentEnd < End THEN CommentEnd ELSE End), CommentEnd)
    BY <2>4 DEF Comment
  <2> QED
    BY <1>2, <2>2, <2>5, <2>6 DEF Span
<1>4. CASE Text[p.from] # "/" /\ IsSymbol(Text, p, last)
  <2>1. p.to = p.from + 1 /\ Text[p.from] \notin {"#", "QUOTE", "APOSTROPHE", "\\"} \cup Letters \cup Words
    BY <1>4 DEF IsSymbol
  <2>2. Cur.ptr = p.to /\ Cur.cur = Text[p.from] /\ Reading
    BY <2>1, CurAt
  <2>3. Other
    BY <1>4, <2>1, <2>2, TurnAt
  <2>4. p.text = <<Text[p.from]>>
    <3>1. p.to - 1 = p.from /\ p.from \in 1..Len(Text)
      BY <1>1, <2>1
    <3> QED
      BY <1>1, <1>2, <3>1, OneSymbol
  <2> QED
    BY <2>2, <2>3, <2>4 DEF Other
<1>5. CASE IsLiteral(Text, p)
  <2>1. /\ p.from + 2 <= p.to /\ Text[p.from] \in {"QUOTE", "APOSTROPHE"}
        /\ Text[p.to - 1] = Text[p.from]
        /\ \A i \in (p.from + 1)..((p.to - 1) - 1) : Text[i] # Text[p.from] /\ Text[i] # "\\"
    BY <1>5 DEF IsLiteral, Without
  <2>2. Cur.ptr = p.from + 1 /\ Cur.cur = Text[p.from] /\ Reading
    BY <2>1, CurAt
  <2>3. Literal
    BY <2>1, <2>2, TurnAt
  <2>4. p.to - 1 \in Nat /\ Cur.ptr <= p.to - 1 /\ p.to - 1 < End /\ (p.to - 1) + 1 = p.to /\ Cur.ptr - 1 = p.from
    <3>1. p.from + 2 <= p.to /\ Cur.ptr = p.from + 1
      BY <2>1, <2>2
    <3> QED
      BY ONLY <1>1, <3>1
  <2>5. Text[p.to - 1] = Cur.cur /\ Cur.cur # "\\" /\ Clear(Cur.ptr, p.to - 1, {Cur.cur})
    BY <2>1, <2>2 DEF Clear
  <2>6. LiteralEnd.ptr = p.to
    <3>1. LiteralEnd.ptr = (p.to - 1) + 1
      BY ONLY <1>1, <2>4, <2>5, LiteralEndAt
    <3> QED
      BY <2>4, <3>1
  <2> QED
    BY <1>2, <2>3, <2>4, <2>6 DEF Literal, Span
<1>6. CASE IsLineComment(Text, p, last) \/ IsComment(Text, p)
  BY <1>3, <1>6 DEF IsLineComment, IsComment
<1> QED
  BY <1>3, <1>4, <1>5, <1>6 DEF IsText

\* What is written for a name.
Instead(name) == IF IsDefined(name) THEN Unescaped(defs[name]) ELSE name

\* A name is replaced.
LEMMA NameTurn ==
  ASSUME NEW p, NEW last, Stands(p, last), IsName(Text, p, last), Next
  PROVE  Emit(Instead(p.text), p.to)
<1>1. /\ Readable /\ End \in Nat /\ p.from \in Nat \ {0} /\ p.to \in Nat /\ p.from < p.to /\ p.to <= End
      /\ Cur \in Readers /\ (last => p.to = End) /\ (last \/ p.to < End)
  BY StandsIs DEF Stands
<1>2. /\ p.text = SubSeq(Text, p.from, p.to - 1)
      /\ Text[p.from] \in Letters \cup Words /\ Only(Text, p.from, p.to, IdCharacters)
      /\ last \/ Text[p.to] \notin IdCharacters \cup {"\\"}
  BY DEF IsName
<1>3. Text[p.from] \notin {"\\", "#"}
  <2>1. "\\" \in Signs /\ "#" \in Signs
    BY DEF Signs
  <2> QED
    BY <1>2, <2>1, Apart
<1>4. Cur.ptr = p.from + 1 /\ Cur.cur = Text[p.from] /\ Reading
  BY <1>3, CurAt
<1>5. Name
  BY <1>2, <1>3, <1>4, TurnAt
<1> DEFINE rest == read_while(Cur, IdSymbols \cup {"1"})
<1>6. \A i \in Cur.ptr..(p.to - 1) : Text[i] \in IdCharacters /\ Text[i] # "\\"
  <2>1. \A i \in Cur.ptr..(p.to - 1) : Text[i] \in IdCharacters
    BY <1>1, <1>2, <1>4 DEF Only
  <2> QED
    BY <2>1, Apart
<1>7. rest.ptr = p.to
  <2>1. CASE p.to < End
    <3>1. Text[p.to] \notin IdCharacters /\ Text[p.to] # "\\" /\ Cur.ptr <= p.to
      BY <1>1, <1>2, <1>4, <2>1
    <3>2. read_while(Cur, IdCharacters) = [ptr |-> p.to, cur |-> Text[p.to], more |-> TRUE]
      BY ONLY <1>1, <1>6, <2>1, <3>1, WhileIs
    <3> QED
      BY <3>2 DEF IdCharacters
  <2>2. CASE ~(p.to < End)
    <3>1. p.to = End /\ Cur.ptr <= End
      BY <1>1, <1>4, <2>2
    <3>2. \A i \in Cur.ptr..(End - 1) : Text[i] \in IdCharacters /\ Text[i] # "\\"
      BY <1>6, <3>1
    <3>3. read_while(Cur, IdCharacters) = [ptr |-> End, cur |-> LastRead(Cur), more |-> FALSE]
      BY ONLY <1>1, <3>1, <3>2, WhileEnd
    <3> QED
      BY <3>1, <3>3 DEF IdCharacters
  <2> QED
    BY <2>1, <2>2
<1>8. Span(Cur.ptr - 1, rest.ptr) = p.text
  <2>1. Cur.ptr - 1 = p.from
    BY <1>1, <1>4
  <2> QED
    BY <1>2, <1>7, <2>1 DEF Span
<1> QED
  BY <1>5, <1>7, <1>8 DEF Name, Instead

\* The first #endif behind a position.
LEMMA BlockAt ==
  ASSUME Readable, NEW ptr \in Nat, NEW hash \in Nat, ptr <= hash, hash + 2 <= End,
         Text[hash] = "#", Text[hash + 1] = "endif",
         \A i \in ptr..(hash - 1) : ~(Text[i] = "#" /\ Text[i + 1] = "endif")
  PROVE  /\ Block(ptr).next = hash + 2
         /\ Block(ptr).end = IF Text[hash - 1] = "LF" THEN hash - 1 ELSE hash
<1> DEFINE ends == {i \in ptr..(End - 2) : Text[i] = "#" /\ Text[i + 1] = "endif"}
<1>1. End \in Nat
  BY DEF Readable
<1>2. hash \in ends /\ ends \subseteq Nat
  BY <1>1
<1>3. \A i \in ends : hash <= i
  <2>1. ASSUME NEW i \in ends PROVE hash <= i
    <3>1. i \in Nat /\ i >= ptr /\ Text[i] = "#" /\ Text[i + 1] = "endif"
      BY <1>1
    <3>2. i \notin ptr..(hash - 1)
      BY <3>1
    <3> QED
      BY <3>1, <3>2
  <2> QED
    BY <2>1
<1>4. Block(ptr) = IF ends = {}
                     THEN [end |-> IF End - Lost > ptr THEN End - Lost ELSE ptr, next |-> End + 1]
                     ELSE [end |-> IF Text[FirstOf(ends, End) - 1] = "LF" THEN FirstOf(ends, End) - 1
                                   ELSE FirstOf(ends, End),
                           next |-> FirstOf(ends, End) + 2]
  BY DEF Block
<1> HIDE DEF ends
<1>5. FirstOf(ends, End) = hash /\ ends # {}
  BY <1>2, <1>3, FirstOfIs
<1> QED
  BY <1>4, <1>5


-----------------------------------------------------------------------------
(***************************************************************************)
(* Where the pieces of a file start                                        *)
(***************************************************************************)

\* A file that is made of lines.
Lined(path) == path \in DOMAIN files /\ files[path] \in Seq(Symbols) /\ IsLined(path)

\* The pieces of a file stand one behind the other.
LEMMA FromIs ==
  ASSUME NEW path, Lined(path)
  PROVE  LET n == Len(doc[path]) IN
         /\ n \in Nat /\ doc[path] \in Seq(Pieces) /\ DOMAIN doc[path] = 1..n
         /\ From(path, 1) = 1 /\ From(path, n + 1) = Len(files[path]) + 1
         /\ \A k \in 1..(n + 1) : From(path, k) \in Nat
         /\ \A k \in 1..n : /\ doc[path][k].from = From(path, k) /\ doc[path][k].to = From(path, k + 1)
                            /\ From(path, k) < From(path, k + 1)
<1> DEFINE n == Len(doc[path])
<1>1. n \in Nat /\ doc[path] \in Seq(Pieces) /\ DOMAIN doc[path] = 1..n /\ Len(files[path]) \in Nat
  BY DEF Lined, IsLined
<1>2. From(path, 1) = 1 /\ \A k \in 1..n : doc[path][k].from < doc[path][k].to /\ doc[path][k].to = From(path, k + 1)
  BY <1>1 DEF Lined, IsLined
<1>3. From(path, n + 1) = Len(files[path]) + 1
  BY <1>1 DEF From
<1>4. \A k \in 1..n : From(path, k) = doc[path][k].from /\ doc[path][k].from \in Nat
  <2>1. ASSUME NEW k \in 1..n PROVE From(path, k) = doc[path][k].from /\ doc[path][k].from \in Nat
    <3>1. doc[path][k] \in Pieces
      BY <1>1
    <3> QED
      BY <1>1, <3>1 DEF From, Pieces
  <2> QED
    BY <2>1
<1>5. \A k \in 1..(n + 1) : From(path, k) \in Nat
  <2>1. ASSUME NEW k \in 1..(n + 1) PROVE From(path, k) \in Nat
    <3>1. k \in 1..n \/ k = n + 1
      BY <1>1
    <3> QED
      BY <1>1, <1>3, <1>4, <3>1
  <2> QED
    BY <2>1
<1> HIDE DEF n
<1>6. \A k \in 1..n : From(path, k) < From(path, k + 1)
  BY <1>2, <1>4
<1> QED
  BY <1>1, <1>2, <1>3, <1>4, <1>5, <1>6 DEF n

\* A later piece starts behind an earlier one.
LEMMA FromGrows ==
  ASSUME NEW path, Lined(path),
         NEW j \in 1..(Len(doc[path]) + 1), NEW k \in 1..(Len(doc[path]) + 1), j < k
  PROVE  From(path, j) < From(path, k)
<1> DEFINE n == Len(doc[path])
           T == {d \in 0..(k - j) : From(path, j) <= From(path, j + d) /\ (d > 0 => From(path, j) < From(path, j + d))}
<1>1. /\ n \in Nat /\ j \in Nat /\ k \in Nat /\ k - j \in Nat
      /\ \A i \in 1..(n + 1) : From(path, i) \in Nat
      /\ \A i \in 1..n : From(path, i) < From(path, i + 1)
  BY FromIs
<1> HIDE DEF n
<1>2. 0 \in T
  <2>1. j + 0 = j /\ From(path, j) \in Nat
    BY <1>1 DEF n
  <2> QED
    BY <1>1, <2>1
<1>3. ASSUME NEW d \in 0..((k - j) - 1), d \in T PROVE d + 1 \in T
  <2>1. /\ j + d \in 1..n /\ (j + d) + 1 = j + (d + 1) /\ j \in 1..(n + 1)
        /\ j + d \in 1..(n + 1) /\ j + (d + 1) \in 1..(n + 1) /\ d + 1 \in 0..(k - j)
    BY <1>1 DEF n
  <2>2. From(path, j + d) < From(path, j + (d + 1)) /\ From(path, j) <= From(path, j + d)
    <3>1. From(path, j + d) < From(path, (j + d) + 1)
      BY <1>1, <2>1
    <3>2. From(path, j) <= From(path, j + d)
      BY <1>3
    <3> QED
      BY <2>1, <3>1, <3>2
  <2>3. From(path, j) \in Nat /\ From(path, j + d) \in Nat /\ From(path, j + (d + 1)) \in Nat
    BY <1>1, <2>1
  <2>4. From(path, j) < From(path, j + (d + 1))
    BY <2>2, <2>3
  <2> QED
    BY <2>1, <2>3, <2>4
<1>4. 0..(k - j) \subseteq T
  <2> HIDE DEF T
  <2> QED
    BY <1>1, <1>2, <1>3, InductionUpTo
<1>5. k - j \in T
  <2>1. k - j \in 0..(k - j)
    BY <1>1
  <2> HIDE DEF T
  <2> QED
    BY <1>4, <2>1
<1>6. k - j > 0 /\ j + (k - j) = k
  BY <1>1
<1> QED
  BY <1>5, <1>6

\* A position belongs to the first piece that does not start before it.
LEMMA PieceAtIs ==
  ASSUME NEW path, Lined(path), NEW k \in 1..(Len(doc[path]) + 1), NEW ptr \in Int,
         ptr <= From(path, k), k > 1 => From(path, k - 1) < ptr
  PROVE  PieceAt(path, ptr) = k
<1> DEFINE n == Len(doc[path])
           Is(i) == From(path, i) >= ptr /\ \A j \in 1..(i - 1) : From(path, j) < ptr
           c == CHOOSE i \in 1..(n + 1) : Is(i)
<1>1. n \in Nat /\ \A i \in 1..(n + 1) : From(path, i) \in Nat
  BY FromIs
<1>2. PieceAt(path, ptr) = c
  BY DEF PieceAt
<1>3. \A i, j \in 1..(n + 1) : i < j => From(path, i) < From(path, j)
  BY FromGrows
<1> HIDE DEF n
<1>4. Is(k)
  <2>1. From(path, k) >= ptr /\ k \in Nat
    BY <1>1 DEF n
  <2>2. ASSUME NEW j \in 1..(k - 1) PROVE From(path, j) < ptr
    <3>1. k > 1 /\ k - 1 \in 1..(n + 1) /\ j \in 1..(n + 1) /\ (j = k - 1 \/ j < k - 1)
      BY <1>1 DEF n
    <3>2. From(path, j) <= From(path, k - 1) /\ From(path, j) \in Nat /\ From(path, k - 1) \in Nat
      BY <1>1, <1>3, <3>1
    <3> QED
      BY <3>1, <3>2
  <2> QED
    BY <2>1, <2>2
<1>5. k \in 1..(n + 1)
  BY DEF n
<1>6. c \in 1..(n + 1) /\ Is(c)
  <2> HIDE DEF Is
  <2> QED
    BY <1>4, <1>5
<1> HIDE DEF c
<1>7. c = k
  <2>1. ~(c < k)
    <3> SUFFICES ASSUME c < k PROVE FALSE
      OBVIOUS
    <3>1. c \in 1..(k - 1)
      BY <1>1, <1>5, <1>6
    <3>2. From(path, c) < ptr /\ From(path, c) >= ptr /\ From(path, c) \in Nat
      BY <1>1, <1>4, <1>6, <3>1
    <3> QED
      BY <3>2
  <2>2. ~(k < c)
    <3> SUFFICES ASSUME k < c PROVE FALSE
      OBVIOUS
    <3>1. k \in 1..(c - 1)
      BY <1>1, <1>5, <1>6
    <3>2. From(path, k) < ptr /\ From(path, k) >= ptr /\ From(path, k) \in Nat
      BY <1>1, <1>4, <1>5, <1>6, <3>1
    <3> QED
      BY <3>2
  <2> QED
    BY <1>1, <1>5, <1>6, <2>1, <2>2
<1> QED
  BY <1>2, <1>7

-----------------------------------------------------------------------------
(***************************************************************************)
(* The calls of files that are made of lines                               *)
(***************************************************************************)

\* No conditional before a piece has its #endif there or later.
Outside(path, k) == \A o \in 1..(k - 1) : Kind(path, o) \in Conditions => doc[path][o].close < k

\* The pieces from one up to another are no part of a conditional.
Flat(path, k, m) == \A j \in k..(m - 1) : Kind(path, j) \notin Conditions \cup {"close"}

\* The call is to do the pieces from k on, and m is the first it does not: the
\* end of the file, or an #endif, with which an empty content ends one symbol
\* before it starts.
Between(f, k, m) ==
  /\ Lined(f.path)
  /\ m \in 1..(Len(doc[f.path]) + 1) /\ k \in 1..m
  /\ f.ptr = From(f.path, k)
  /\ \/ m = Len(doc[f.path]) + 1 /\ f.end = From(f.path, m) /\ Outside(f.path, k)
     \/ /\ Kind(f.path, m) = "close" /\ Flat(f.path, k, m)
        /\ \/ f.end = From(f.path, m)
           \/ k = m /\ m > 1 /\ f.end = From(f.path, m) - 1 /\ From(f.path, m - 1) < f.end

\* What is left of such a call.
LEMMA UndoneIs ==
  ASSUME NEW f, NEW k, NEW m, Between(f, k, m)
  PROVE  Undone(f) = [path |-> f.path, next |-> k, last |-> m - 1]
<1> DEFINE path == f.path
           n == Len(doc[path])
<1>1. /\ Lined(path) /\ n \in Nat /\ m \in 1..(n + 1) /\ k \in 1..(n + 1) /\ m \in Nat /\ k \in Nat
      /\ \A i \in 1..(n + 1) : From(path, i) \in Nat
  BY FromIs DEF Between
<1>2. \A i \in 1..(n + 1) : i > 1 => From(path, i - 1) < From(path, i)
  <2>1. ASSUME NEW i \in 1..(n + 1), i > 1 PROVE From(path, i - 1) < From(path, i)
    <3>1. i - 1 \in 1..(n + 1) /\ i - 1 < i
      BY <1>1, <2>1
    <3> QED
      BY <1>1, <3>1, FromGrows
  <2> QED
    BY <2>1
<1> HIDE DEF n, path
<1>3. \A i \in 1..(n + 1) : PieceAt(path, From(path, i)) = i
  <2>1. ASSUME NEW i \in 1..(n + 1) PROVE PieceAt(path, From(path, i)) = i
    <3>1. From(path, i) \in Int /\ From(path, i) <= From(path, i)
      BY <1>1
    <3> QED
      BY <1>1, <1>2, <3>1, PieceAtIs DEF n
  <2> QED
    BY <2>1
<1>4. f.ptr = From(path, k)
  BY DEF Between, path
<1>5. PieceAt(path, f.end) = m
  <2>1. CASE f.end = From(path, m)
    BY <1>1, <1>3, <2>1
  <2>2. CASE m > 1 /\ f.end = From(path, m) - 1 /\ From(path, m - 1) < f.end
    <3>1. f.end \in Int /\ f.end <= From(path, m)
      BY <1>1, <2>2
    <3> QED
      BY <1>1, <2>2, <3>1, PieceAtIs DEF n
  <2> QED
    BY <2>1, <2>2 DEF Between, path
<1> QED
  BY <1>1, <1>3, <1>4, <1>5 DEF Undone, path

\* The pieces before the end of a call.
LEMMA BetweenIs ==
  ASSUME NEW f, NEW k, NEW m, Between(f, k, m)
  PROVE  /\ k \in Nat \ {0} /\ m \in Nat \ {0} /\ k <= m
         /\ k = m => f.ptr >= f.end
         /\ k < m => f.end = From(f.path, m) /\ k \in 1..Len(doc[f.path]) /\ Kind(f.path, k) = doc[f.path][k].kind
<1> DEFINE path == f.path
           n == Len(doc[path])
<1>1. /\ n \in Nat /\ m \in 1..(n + 1) /\ k \in 1..m /\ m \in Nat /\ k \in Nat
      /\ DOMAIN doc[path] = 1..n
      /\ \A i \in 1..(n + 1) : From(path, i) \in Nat
  BY FromIs DEF Between
<1>2. f.ptr = From(path, k) /\ (f.end = From(path, m) \/ (k = m /\ f.end = From(path, m) - 1))
  BY DEF Between
<1> HIDE DEF n, path
<1>3. k = m => f.ptr >= f.end
  BY <1>1, <1>2
<1>4. k < m => f.end = From(path, m) /\ k \in 1..n
  BY <1>1, <1>2
<1> QED
  BY <1>1, <1>3, <1>4 DEF Kind, n, path


\* Every file is made of lines.
LEMMA LinesAre ==
  ASSUME ExpandInv, AreLines, NEW path \in DOMAIN files
  PROVE  Lined(path)
<1>1. files[path] \in Seq(Symbols)
  BY ExpandAssumption DEF ExpandInv
<1> QED
  BY <1>1 DEF Lined, AreLines

\* A piece is the last one before an #endif or the end of the file.
IsLast(path, k) == Kind(path, k + 1) \in {"close", "end"}

\* A piece is written as its kind is, a conditional has its #endif, and an
\* #endif its conditional.
LEMMA LinedPiece ==
  ASSUME NEW path, Lined(path), NEW k \in 1..Len(doc[path])
  PROVE  /\ IsPiece(path, doc[path][k], IsLast(path, k), Kind(path, k - 1) \in Conditions)
         /\ Kind(path, k) = doc[path][k].kind
         /\ doc[path][k].kind \in Conditions => IsBlock(path, k)
         /\ doc[path][k].kind = "close" =>
              \E j \in 1..(k - 1) : doc[path][j].kind \in Conditions /\ doc[path][j].close = k
<1>1. k \in DOMAIN doc[path]
  BY FromIs
<1> QED
  BY <1>1 DEF Lined, IsLined, IsLast, Kind

\* An #endif has its conditional before it.
LEMMA ClosedBy ==
  ASSUME NEW path, Lined(path), NEW k \in 1..Len(doc[path]), Kind(path, k) = "close"
  PROVE  \E j \in 1..(k - 1) : doc[path][j].kind \in Conditions /\ doc[path][j].close = k
<1>1. doc[path][k].kind = "close"
  BY LinedPiece
<1>2. k \in DOMAIN doc[path]
  BY FromIs
<1> QED
  BY <1>1, <1>2 DEF Lined, IsLined

\* The kinds, and what no piece is.
LEMMA KindIs ==
  ASSUME NEW path, Lined(path), NEW k \in 1..(Len(doc[path]) + 1)
  PROVE  /\ k \in 1..Len(doc[path]) => Kind(path, k) = doc[path][k].kind /\ Kind(path, k) # "end"
         /\ k = Len(doc[path]) + 1 => Kind(path, k) = "end"
<1>1. DOMAIN doc[path] = 1..Len(doc[path]) /\ Len(doc[path]) \in Nat
  BY FromIs
<1>2. ASSUME k \in 1..Len(doc[path]) PROVE Kind(path, k) # "end"
  <2>1. IsPiece(path, doc[path][k], IsLast(path, k), Kind(path, k - 1) \in Conditions)
        /\ Kind(path, k) = doc[path][k].kind
    BY <1>2, LinedPiece
  <2> QED
    BY <2>1 DEF IsPiece, Conditions
<1> QED
  BY <1>1, <1>2 DEF Kind

\* No #endif stands where a call has pieces to do.
LEMMA NoClose ==
  ASSUME NEW f, NEW k, NEW m, Between(f, k, m), k < m
  PROVE  Kind(f.path, k) # "close"
<1> SUFFICES ASSUME Kind(f.path, k) = "close" PROVE FALSE
  OBVIOUS
<1>1. k \in 1..Len(doc[f.path]) /\ k \in Nat /\ m \in Nat /\ Lined(f.path)
  BY BetweenIs DEF Between
<1>2. PICK j \in 1..(k - 1) : doc[f.path][j].kind \in Conditions /\ doc[f.path][j].close = k
  BY <1>1, LinedPiece
<1>3. Kind(f.path, j) \in Conditions
  <2>1. j \in 1..Len(doc[f.path])
    BY <1>1
  <2> QED
    BY <1>1, <1>2, <2>1, LinedPiece
<1>4. ~Outside(f.path, k)
  BY <1>1, <1>2, <1>3 DEF Outside
<1>5. ~Flat(f.path, k, m)
  <2>1. k \in k..(m - 1)
    BY <1>1
  <2> QED
    BY <2>1 DEF Flat
<1> QED
  BY <1>4, <1>5 DEF Between

\* A call that has pieces to do is at the first of them.
LEMMA PieceStands ==
  ASSUME ExpandInv, phase = "run", NEW k, NEW m, Between(Top, k, m), k < m
  PROVE  LET p == doc[Top.path][k] IN
         /\ p.kind \notin Conditions => Stands(p, IsLast(Top.path, k))
         /\ k + 1 < m => Stands(p, FALSE)
<1> DEFINE path == Top.path
           n == Len(doc[path])
           p == doc[path][k]
<1>1. /\ Lined(path) /\ n \in Nat /\ m \in 1..(n + 1) /\ k \in 1..n /\ m \in Nat /\ k \in Nat
      /\ Top.end = From(path, m) /\ Top.ptr = From(path, k) /\ Kind(path, k) = p.kind
      /\ k + 1 \in 1..(n + 1)
  <2>1. Lined(path) /\ m \in 1..(n + 1) /\ k \in 1..m /\ Top.ptr = From(path, k)
    BY DEF Between
  <2>2. k \in Nat /\ m \in Nat /\ Top.end = From(path, m) /\ k \in 1..n /\ Kind(path, k) = p.kind
    BY BetweenIs
  <2>3. n \in Nat
    BY <2>1, FromIs
  <2> HIDE DEF path, n, p
  <2> QED
    BY <2>1, <2>2, <2>3
<1>2. /\ p.from = From(path, k) /\ p.to = From(path, k + 1) /\ From(path, k) < From(path, k + 1)
      /\ From(path, k) \in Nat /\ From(path, k + 1) \in Nat /\ From(path, 1) = 1
  <2>1. k \in 1..(n + 1) /\ k + 1 \in 1..(n + 1)
    BY <1>1
  <2> QED
    BY <1>1, <2>1, FromIs
<1>3. p.from \in Nat \ {0}
  <2>1. Top.ptr \in Nat \ {0}
    BY Running
  <2> HIDE DEF path, p
  <2> QED
    BY <1>1, <1>2, <2>1
<1>4. k + 1 < m => p.to < End
  <2>1. k + 1 < m => From(path, k + 1) < From(path, m)
    BY <1>1, FromGrows
  <2> QED
    BY <1>1, <1>2, <2>1 DEF End
<1>5. k + 1 = m => p.to = End
  BY <1>1, <1>2 DEF End
<1>6. k + 1 = m => IsLast(path, k)
  <2>1. m = n + 1 => Kind(path, m) = "end"
    BY <1>1, KindIs
  <2>2. m = n + 1 \/ Kind(path, m) = "close"
    BY DEF Between
  <2> QED
    BY <2>1, <2>2 DEF IsLast
<1>7. ASSUME p.kind \notin Conditions, k + 1 < m PROVE ~IsLast(path, k)
  <2>1. k + 1 \in 1..n
    BY <1>1, <1>7
  <2>2. Kind(path, k + 1) # "end"
    BY <1>1, <2>1, KindIs
  <2>3. Kind(path, k + 1) # "close"
    <3> SUFFICES ASSUME Kind(path, k + 1) = "close" PROVE FALSE
      OBVIOUS
    <3>1. Outside(path, k) \/ Flat(path, k, m)
      BY DEF Between
    <3>2. ~Flat(path, k, m)
      <4>1. k + 1 \in k..(m - 1)
        BY <1>1, <1>7
      <4> QED
        BY <4>1 DEF Flat
    <3>3. PICK j \in 1..((k + 1) - 1) : doc[path][j].kind \in Conditions /\ doc[path][j].close = k + 1
      <4> DEFINE next == k + 1
      <4>1. Lined(path) /\ next \in 1..Len(doc[path]) /\ Kind(path, next) = "close"
        BY <1>1, <2>1
      <4> HIDE DEF next, path
      <4>2. \E j \in 1..(next - 1) : doc[path][j].kind \in Conditions /\ doc[path][j].close = next
        BY ONLY <4>1, ClosedBy
      <4> QED
        BY <4>2 DEF next
    <3>4. j # k /\ j \in 1..(k - 1) /\ j \in 1..n
      BY <1>1, <1>7, <3>3
    <3>5. Kind(path, j) \in Conditions
      BY <1>1, <3>3, <3>4, LinedPiece
    <3>6. ~(k + 1 < k)
      BY <1>1
    <3> QED
      BY <3>1, <3>2, <3>3, <3>4, <3>5, <3>6 DEF Outside
  <2> QED
    BY <2>2, <2>3 DEF IsLast
<1>8. k + 1 < m \/ k + 1 = m
  BY <1>1
<1> HIDE DEF p, n, path
<1> QED
  BY <1>1, <1>2, <1>3, <1>4, <1>5, <1>6, <1>7, <1>8 DEF Stands, p, path


\* A conditional has its #endif in its call, and its content has none.
LEMMA BlockOf ==
  ASSUME ExpandInv, phase = "run", NEW k, NEW m, Between(Top, k, m), k < m,
         Kind(Top.path, k) \in Conditions
  PROVE  LET path == Top.path
             p == doc[path][k]
             c == p.close
         IN /\ c \in Nat /\ k < c /\ c < m /\ Kind(path, c) = "close" /\ Flat(path, k + 1, c)
            /\ m = Len(doc[path]) + 1 /\ Outside(path, c + 1)
            /\ Block(p.to).next = From(path, c + 1)
            /\ \/ Block(p.to).end = From(path, c)
               \/ /\ k + 1 = c /\ Block(p.to).end = From(path, c) - 1
                  /\ From(path, c - 1) < Block(p.to).end
<1> DEFINE path == Top.path
           n == Len(doc[path])
           p == doc[path][k]
           c == p.close
           close == doc[path][c]
           hash == close.to - 2
<1>1. /\ Lined(path) /\ n \in Nat /\ k \in Nat /\ k \in 1..n /\ m \in Nat /\ m <= n + 1
      /\ DOMAIN doc[path] = 1..n /\ p.kind \in Conditions /\ Kind(path, k) = p.kind
      /\ k + 1 \in 1..(n + 1) /\ n + 1 \in 1..(n + 1)
  <2>1. Lined(path) /\ m \in 1..(n + 1)
    BY DEF Between
  <2>2. k \in Nat \ {0} /\ m \in Nat \ {0} /\ k \in 1..n /\ Kind(path, k) = p.kind
    BY BetweenIs
  <2>3. n \in Nat /\ DOMAIN doc[path] = 1..n
    BY <2>1, FromIs
  <2> HIDE DEF path, n, p
  <2>4. p.kind \in Conditions
    BY <2>2 DEF path
  <2> QED
    BY <2>1, <2>2, <2>3, <2>4
<1>2. m = n + 1 /\ Outside(path, k) /\ End = From(path, m)
  <2>1. ~Flat(path, k, m)
    <3>1. k \in k..(m - 1)
      BY <1>1
    <3> QED
      BY <3>1 DEF Flat
  <2> QED
    BY <2>1 DEF Between, End
<1>3. /\ c \in 1..n /\ k < c /\ close.kind = "close"
      /\ \A j \in (k + 1)..(c - 1) : Kind(path, j) \notin Conditions \cup {"close"}
      /\ \A i \in p.to..(close.to - 3) : ~(files[path][i] = "#" /\ files[path][i + 1] = "endif")
  <2>1. IsBlock(path, k)
    BY <1>1, LinedPiece
  <2> QED
    BY <1>1, <2>1 DEF IsBlock
<1> HIDE DEF n
<1>4. c \in Nat /\ c < m /\ c + 1 \in 1..(n + 1) /\ c \in 1..(n + 1) /\ c - 1 \in Nat
  BY <1>1, <1>2, <1>3
<1>5. Kind(path, c) = "close" /\ IsClose(Text, close, Kind(path, c - 1) \in Conditions)
  <2>1. IsPiece(path, close, IsLast(path, c), Kind(path, c - 1) \in Conditions) /\ Kind(path, c) = close.kind
    <3>1. Lined(path) /\ c \in 1..Len(doc[path])
      BY <1>1, <1>3 DEF n
    <3> HIDE DEF c, path
    <3> QED
      BY ONLY <3>1, LinedPiece DEF close
  <2> HIDE DEF close
  <2> QED
    BY <1>3, <2>1 DEF IsPiece, Conditions, Text
<1>6. Flat(path, k + 1, c)
  BY <1>3 DEF Flat
<1>7. Outside(path, c + 1)
  <2>1. ASSUME NEW o \in 1..((c + 1) - 1), Kind(path, o) \in Conditions PROVE doc[path][o].close < c + 1
    <3>1. o \in Nat /\ (o < k \/ o = k \/ o \in (k + 1)..(c - 1) \/ o = c)
      BY <1>1, <1>4
    <3>2. CASE o < k
      <4>1. o \in 1..(k - 1) /\ o \in 1..n
        BY <1>1, <3>1, <3>2
      <4>2. doc[path][o].close < k
        BY <1>2, <2>1, <4>1 DEF Outside
      <4>3. doc[path][o].close \in Nat
        <5>1. doc[path] \in Seq(Pieces)
          BY <1>1, FromIs
        <5>2. doc[path][o] \in Pieces
          BY <1>1, <4>1, <5>1
        <5> QED
          BY <5>2 DEF Pieces
      <4>4. k \in Nat /\ c \in Nat /\ k < c
        BY <1>1, <1>3, <1>4
      <4> HIDE DEF c
      <4> QED
        BY ONLY <4>2, <4>3, <4>4
    <3>3. CASE o = k
      BY <1>4, <3>3
    <3>4. CASE o \in (k + 1)..(c - 1)
      BY <1>3, <2>1, <3>4
    <3>5. CASE o = c
      BY <1>5, <2>1, <3>5 DEF Conditions
    <3> QED
      BY <3>1, <3>2, <3>3, <3>4, <3>5
  <2> QED
    BY <2>1 DEF Outside
<1>8. /\ \A i \in 1..(n + 1) : From(path, i) \in Nat
      /\ \A i, j \in 1..(n + 1) : i < j => From(path, i) < From(path, j)
      /\ p.to = From(path, k + 1) /\ close.from = From(path, c) /\ close.to = From(path, c + 1)
      /\ p.from = From(path, k)
  <2>1. \A i, j \in 1..(n + 1) : i < j => From(path, i) < From(path, j)
    BY <1>1, FromGrows DEF n
  <2>2. /\ \A i \in 1..(n + 1) : From(path, i) \in Nat
        /\ \A i \in 1..n : doc[path][i].from = From(path, i) /\ doc[path][i].to = From(path, i + 1)
    BY <1>1, FromIs DEF n
  <2> QED
    BY <1>1, <1>3, <2>1, <2>2
<1>9. /\ From(path, k + 1) \in Nat /\ From(path, c) \in Nat /\ From(path, c + 1) \in Nat /\ From(path, n + 1) \in Nat
      /\ From(path, k + 1) <= From(path, c) /\ From(path, c + 1) <= End /\ End = From(path, n + 1)
  <2>1. k + 1 < c \/ k + 1 = c
    BY <1>1, <1>3, <1>4
  <2>2. c + 1 < n + 1 \/ c + 1 = n + 1
    BY <1>1, <1>4
  <2>3. From(path, k + 1) \in Nat /\ From(path, c) \in Nat /\ From(path, c + 1) \in Nat /\ From(path, n + 1) \in Nat
    BY <1>1, <1>4, <1>8
  <2> HIDE DEF hash, close, c, p, path
  <2>4. From(path, k + 1) <= From(path, c)
    <3>1. k + 1 < c => From(path, k + 1) < From(path, c)
      BY <1>1, <1>4, <1>8
    <3> QED
      BY <2>1, <2>3, <3>1
  <2>5. From(path, c + 1) <= From(path, n + 1)
    <3>1. c + 1 < n + 1 => From(path, c + 1) < From(path, n + 1)
      BY <1>1, <1>4, <1>8
    <3> QED
      BY <2>2, <2>3, <3>1
  <2> QED
    BY <1>2, <2>3, <2>4, <2>5
<1>10. /\ Text[hash] = "#" /\ Text[hash + 1] = "endif" /\ hash + 1 = close.to - 1
       /\ \/ hash = From(path, c) + 1 /\ Text[From(path, c)] = "LF"
          \/ hash = From(path, c) /\ (Kind(path, c - 1) \in Conditions \/ Text[From(path, c) - 1] # "LF")
  BY <1>5, <1>8, <1>9 DEF IsClose
<1>11. /\ hash \in Nat /\ p.to <= hash /\ hash + 2 = From(path, c + 1) /\ hash + 2 <= End /\ p.to \in Nat
       /\ (close.to - 3) = hash - 1
  BY <1>8, <1>9, <1>10
<1>12. \A i \in p.to..(hash - 1) : ~(Text[i] = "#" /\ Text[i + 1] = "endif")
  BY <1>3, <1>11 DEF Text
<1>13. Readable
  BY TopIs
<1> HIDE DEF hash, close, c
<1>14. Block(p.to).next = From(path, c + 1) /\ Block(p.to).end = IF Text[hash - 1] = "LF" THEN hash - 1 ELSE hash
  BY <1>10, <1>11, <1>12, <1>13, BlockAt
<1>15. \/ Block(p.to).end = From(path, c)
       \/ /\ k + 1 = c /\ Block(p.to).end = From(path, c) - 1
          /\ From(path, c - 1) < Block(p.to).end
  <2>1. CASE hash = From(path, c) + 1 /\ Text[From(path, c)] = "LF"
    <3>1. hash - 1 = From(path, c)
      BY <1>9, <2>1
    <3> QED
      BY <1>14, <2>1, <3>1
  <2>2. CASE hash = From(path, c) /\ Text[From(path, c) - 1] # "LF"
    BY <1>14, <2>2
  <2>3. CASE hash = From(path, c) /\ Kind(path, c - 1) \in Conditions /\ Text[From(path, c) - 1] = "LF"
    <3>1. c - 1 \notin (k + 1)..(c - 1)
      BY <1>3, <2>3
    <3>2. c - 1 = k /\ k + 1 = c
      BY <1>1, <1>3, <1>4, <3>1
    <3>3. From(path, k) < From(path, c) - 1
      <4>1. IsPiece(path, p, IsLast(path, k), Kind(path, k - 1) \in Conditions)
        BY <1>1, LinedPiece DEF n
      <4>2. IsCondition(Text, p)
        BY <1>1, <4>1 DEF IsPiece, Conditions, Text
      <4>3. PICK arg \in p.from..p.to : p.from + 2 < arg /\ arg < p.to
        BY <4>2 DEF IsCondition, Starts
      <4>4. p.from \in Nat /\ p.to \in Nat /\ arg \in Nat
        BY <1>1, <1>8, <1>9
      <4>5. p.from < p.to - 1
        BY <4>3, <4>4
      <4> QED
        BY <1>8, <3>2, <4>5
    <3> QED
      BY <1>14, <2>3, <3>2, <3>3
  <2> QED
    BY <1>10, <2>1, <2>2, <2>3
<1> HIDE DEF p, path
<1>16. c \in Nat /\ k < c
  BY <1>3, <1>4
<1> QED
  BY <1>2, <1>4, <1>5, <1>6, <1>7, <1>14, <1>15, <1>16 DEF p, path, c, n


-----------------------------------------------------------------------------
(***************************************************************************)
(* What is left of the calls                                               *)
(***************************************************************************)
Placed(f) == \E k, m : Between(f, k, m)

\* What is left of some calls.
Rest(calls) == [i \in DOMAIN calls |-> Undone(calls[i])]

\* The innermost call, further on.
Moved(ptr) == [Top EXCEPT !.ptr = ptr]

\* The innermost call with other pieces to do.
LEMMA MovedIs ==
  ASSUME ExpandInv, phase = "run", NEW ptr \in Nat
  PROVE  LET n == Len(frames) IN
         /\ n \in Nat \ {0} /\ DOMAIN frames = 1..n /\ frames[n] = Top
         /\ Moved(ptr).path = Top.path /\ Moved(ptr).end = Top.end /\ Moved(ptr).ptr = ptr
         /\ DOMAIN FramesAt(ptr) = 1..n /\ Len(FramesAt(ptr)) = n
         /\ FramesAt(ptr)[n] = Moved(ptr) /\ \A i \in 1..(n - 1) : FramesAt(ptr)[i] = frames[i]
<1> DEFINE n == Len(frames)
<1>1. n \in Nat \ {0} /\ Top \in Calls /\ frames \in Seq(Calls)
  BY TopIs DEF ExpandInv
<1>2. Moved(ptr).path = Top.path /\ Moved(ptr).end = Top.end /\ Moved(ptr).ptr = ptr
  <2>1. Top \in [path : DOMAIN files, dir : {DirOf(path) : path \in DOMAIN files}, ptr : Nat, end : Nat]
    BY <1>1 DEF Calls
  <2> QED
    BY <2>1 DEF Moved
<1>3. FramesAt(ptr) = [frames EXCEPT ![n] = Moved(ptr)]
  BY DEF FramesAt, Moved, Top
<1>4. frames[n] = Top
  BY DEF Top
<1> QED
  BY <1>1, <1>2, <1>3, <1>4

\* What is to be done first.
LEMMA TodoIs ==
  ASSUME ExpandInv, phase = "run", doc # <<>>, NEW k, NEW m, Between(Top, k, m)
  PROVE  LET n == Len(frames) IN
         /\ Todo = Rest(frames) /\ Todo # <<>> /\ Len(Todo) = n /\ DOMAIN Todo = 1..n
         /\ Todo[n] = [path |-> Top.path, next |-> k, last |-> m - 1]
         /\ \A i \in 1..n : Todo[i] = Undone(frames[i])
         /\ Meant!Top.path = Top.path /\ Meant!Top.next = k /\ Meant!Top.last = m - 1
         /\ Meant!Piece = doc[Top.path][k]
<1> DEFINE n == Len(frames)
<1>1. n \in Nat \ {0} /\ frames \in Seq(Calls) /\ DOMAIN frames = 1..n /\ frames[n] = Top
  BY TopIs DEF ExpandInv, Top
<1>2. Todo = Rest(frames)
  BY DEF Todo, Rest
<1>3. DOMAIN Todo = 1..n /\ \A i \in 1..n : Todo[i] = Undone(frames[i])
  BY <1>1, <1>2 DEF Rest
<1>4. Len(Todo) = n /\ Todo # <<>>
  <2>1. Todo \in Seq({Undone(frames[i]) : i \in 1..n})
    BY <1>1, <1>2 DEF Rest
  <2> QED
    BY <1>1, <1>3, <2>1
<1>5. Todo[n] = [path |-> Top.path, next |-> k, last |-> m - 1]
  BY <1>1, <1>3, UndoneIs
<1>6. Meant!Top = Todo[n]
  BY <1>4 DEF Meant!Top
<1> QED
  BY <1>2, <1>3, <1>4, <1>5, <1>6 DEF Meant!Piece

\* The innermost call goes on with another piece.
LEMMA RestMoved ==
  ASSUME ExpandInv, phase = "run", doc # <<>>, NEW k, NEW m, Between(Top, k, m),
         NEW ptr \in Nat, NEW j, Between(Moved(ptr), j, m)
  PROVE  Rest(FramesAt(ptr)) = Meant!GoOn(j)
<1> DEFINE n == Len(frames)
           g == FramesAt(ptr)
<1>1. /\ n \in Nat \ {0} /\ DOMAIN frames = 1..n /\ frames[n] = Top
      /\ Moved(ptr).path = Top.path
      /\ DOMAIN g = 1..n /\ g[n] = Moved(ptr) /\ \A i \in 1..(n - 1) : g[i] = frames[i]
  BY MovedIs
<1>2. /\ Len(Todo) = n /\ DOMAIN Todo = 1..n
      /\ Todo[n] = [path |-> Top.path, next |-> k, last |-> m - 1]
      /\ \A i \in 1..n : Todo[i] = Undone(frames[i])
  BY TodoIs
<1>3. Undone(Moved(ptr)) = [path |-> Top.path, next |-> j, last |-> m - 1]
  BY <1>1, UndoneIs
<1>4. Meant!GoOn(j) = [Todo EXCEPT ![n] = [Todo[n] EXCEPT !.next = j]]
  BY <1>2 DEF Meant!GoOn
<1>5. [Todo[n] EXCEPT !.next = j] = Undone(Moved(ptr))
  BY <1>2, <1>3
<1> HIDE DEF g, n
<1>6. Rest(g) = [i \in 1..n |-> Undone(g[i])]
  BY <1>1 DEF Rest
<1>7. Meant!GoOn(j) = [i \in 1..n |-> IF i = n THEN Undone(Moved(ptr)) ELSE Todo[i]]
  BY <1>2, <1>4, <1>5
<1>8. ASSUME NEW i \in 1..n PROVE Undone(g[i]) = IF i = n THEN Undone(Moved(ptr)) ELSE Todo[i]
  <2>1. CASE i = n
    BY <1>1, <2>1
  <2>2. CASE i # n
    <3>1. i \in 1..(n - 1)
      BY <1>1, <2>2
    <3> QED
      BY <1>1, <1>2, <2>2, <3>1
  <2> QED
    BY <2>1, <2>2
<1>9. Rest(g) = Meant!GoOn(j)
  BY <1>6, <1>7, <1>8
<1> QED
  BY <1>9 DEF g

\* What Append gives, element by element.
LEMMA AppendIs ==
  ASSUME NEW S, NEW s \in Seq(S), NEW x
  PROVE  Append(s, x) = [i \in 1..(Len(s) + 1) |-> IF i = Len(s) + 1 THEN x ELSE s[i]]
<1> DEFINE t == Append(s, x)
           u == [i \in 1..(Len(s) + 1) |-> IF i = Len(s) + 1 THEN x ELSE s[i]]
<1>1. s \in Seq(S \cup {x}) /\ x \in S \cup {x}
  OBVIOUS
<1>2. t \in Seq(S \cup {x}) /\ Len(t) = Len(s) + 1 /\ Len(s) \in Nat
  BY <1>1
<1>3. \A i \in 1..(Len(s) + 1) : t[i] = IF i = Len(s) + 1 THEN x ELSE s[i]
  BY <1>1
<1>4. u \in Seq(S \cup {x}) /\ Len(u) = Len(s) + 1
  BY <1>1, <1>2
<1>5. \A i \in 1..(Len(s) + 1) : u[i] = t[i]
  BY <1>3
<1> HIDE DEF t, u
<1>6. t = u
  BY <1>2, <1>4, <1>5
<1> QED
  BY <1>6 DEF t, u

\* A call is entered.
LEMMA RestEntered ==
  ASSUME ExpandInv, phase = "run", doc # <<>>, NEW k, NEW m, Between(Top, k, m),
         NEW ptr \in Nat, NEW j, Between(Moved(ptr), j, m),
         NEW frame, NEW a, NEW b, Between(frame, a, b)
  PROVE  Rest(Append(FramesAt(ptr), frame)) = Append(Meant!GoOn(j), Meant!Call(frame.path, a, b - 1))
<1> DEFINE n == Len(frames)
           g == FramesAt(ptr)
           c == Meant!Call(frame.path, a, b - 1)
           h == Append(g, frame)
<1>1. n \in Nat \ {0} /\ DOMAIN g = 1..n /\ Len(g) = n
  BY MovedIs
<1>2. Rest(g) = Meant!GoOn(j)
  BY RestMoved
<1>3. Undone(frame) = c
  BY UndoneIs DEF Meant!Call
<1> HIDE DEF c, n, g
<1>4. g = [i \in 1..n |-> g[i]]
  <2>1. g = [i \in DOMAIN g |-> g[i]]
    <3>1. frames \in Seq(Calls)
      BY DEF ExpandInv
    <3> QED
      BY <3>1 DEF g, FramesAt
  <2> QED
    BY <1>1, <2>1
<1>5. g \in Seq({g[i] : i \in 1..n})
  BY <1>1, <1>4
<1>6. /\ DOMAIN h = 1..(n + 1) /\ h[n + 1] = frame
      /\ \A i \in 1..n : h[i] = g[i]
  BY <1>1, <1>5
<1>7. Rest(g) \in Seq({Undone(g[i]) : i \in 1..n}) /\ Len(Rest(g)) = n
  BY <1>1 DEF Rest
<1>8. Append(Rest(g), c) = [i \in 1..(n + 1) |-> IF i = n + 1 THEN c ELSE Rest(g)[i]]
  <2> HIDE DEF Rest
  <2>1. Append(Rest(g), c) = [i \in 1..(Len(Rest(g)) + 1) |-> IF i = Len(Rest(g)) + 1 THEN c ELSE Rest(g)[i]]
    BY <1>7, AppendIs
  <2> QED
    BY <1>7, <2>1
<1> HIDE DEF h
<1>9. Rest(h) = [i \in 1..(n + 1) |-> Undone(h[i])]
  BY <1>6 DEF Rest
<1>10. ASSUME NEW i \in 1..(n + 1) PROVE Undone(h[i]) = IF i = n + 1 THEN c ELSE Rest(g)[i]
  <2>1. CASE i = n + 1
    BY <1>3, <1>6, <2>1
  <2>2. CASE i # n + 1
    <3>1. i \in 1..n
      BY <1>1, <2>2
    <3> QED
      BY <1>1, <1>6, <2>2, <3>1 DEF Rest
  <2> QED
    BY <2>1, <2>2
<1>11. Rest(h) = Append(Rest(g), c)
  BY <1>8, <1>9, <1>10
<1> QED
  BY <1>2, <1>11 DEF h, g, c

\* Pieces stay where they are when the files do.
LEMMA PlacedStays ==
  ASSUME files' = files, doc' = doc
  PROVE  /\ AreLines' <=> AreLines
         /\ \A f : (Placed(f))' <=> Placed(f)
         /\ \A f : (Undone(f))' = Undone(f)
<1>1. \A path : (IsLined(path))' <=> IsLined(path)
  BY DEF IsLined, From, Kind, IsPiece, IsInclude, IsTarget, IsBlock
<1>2. AreLines' <=> AreLines
  BY <1>1 DEF AreLines
<1>3. \A f, k, m : (Between(f, k, m))' <=> Between(f, k, m)
  BY <1>1 DEF Between, Lined, From, Outside, Kind, Flat
<1>4. \A f : (Placed(f))' <=> Placed(f)
  BY <1>3 DEF Placed
<1>5. \A f : (Undone(f))' = Undone(f)
  BY DEF Undone, PieceAt, From
<1> QED
  BY <1>2, <1>4, <1>5

\* What is left after a step.
LEMMA TodoThen ==
  ASSUME files' = files, doc' = doc, doc # <<>>
  PROVE  Todo' = Rest(frames')
<1>1. Todo' = [i \in DOMAIN frames' |-> (Undone(frames[i]))']
  BY DEF Todo
<1>2. \A i : (Undone(frames[i]))' = Undone(frames'[i])
  BY DEF Undone, PieceAt, From
<1> QED
  BY <1>1, <1>2 DEF Rest


-----------------------------------------------------------------------------
(***************************************************************************)
(* Where the calls go on                                                   *)
(***************************************************************************)

\* Every call is to do some pieces.
Everywhere == AreLines /\ \A i \in DOMAIN frames : Placed(frames[i])

\* A new call is to do all the pieces of its file.
LEMMA WholeFile ==
  ASSUME NEW path, Lined(path)
  PROVE  Between(FileFrame(path), 1, Len(doc[path]) + 1)
<1> DEFINE n == Len(doc[path])
<1>1. n \in Nat /\ From(path, 1) = 1 /\ From(path, n + 1) = Len(files[path]) + 1
  BY FromIs
<1>2. FileFrame(path).path = path /\ FileFrame(path).ptr = 1 /\ FileFrame(path).end = Len(files[path]) + 1
  BY DEF FileFrame, Frame
<1>3. Outside(path, 1)
  BY DEF Outside
<1>4. n + 1 \in 1..(n + 1) /\ 1 \in 1..(n + 1)
  BY <1>1
<1> QED
  BY <1>1, <1>2, <1>3, <1>4 DEF Between

\* Behind a piece that is no conditional the call goes on with the next one.
LEMMA NextPiece ==
  ASSUME ExpandInv, phase = "run", NEW k, NEW m, Between(Top, k, m), k < m,
         Kind(Top.path, k) \notin Conditions
  PROVE  LET to == doc[Top.path][k].to IN
         to \in Nat /\ to = From(Top.path, k + 1) /\ Between(Moved(to), k + 1, m)
<1> DEFINE path == Top.path
           n == Len(doc[path])
           to == doc[path][k].to
<1>1. /\ k \in Nat \ {0} /\ m \in Nat \ {0} /\ Top.end = From(path, m) /\ k \in 1..n
  BY BetweenIs
<1>2. /\ n \in Nat /\ to = From(path, k + 1) /\ From(path, k + 1) \in Nat
      /\ \A i \in 1..n : doc[path][i] \in Pieces
  BY <1>1, FromIs DEF Between
<1>3. Moved(to).path = path /\ Moved(to).end = Top.end /\ Moved(to).ptr = to
  BY <1>2, MovedIs
<1>4. Lined(path) /\ m \in 1..(n + 1) /\ k + 1 \in 1..m
  BY <1>1, <1>2 DEF Between
<1>5. m = n + 1 /\ Outside(path, k) => Between(Moved(to), k + 1, m)
  <2> SUFFICES ASSUME m = n + 1 /\ Outside(path, k) PROVE Between(Moved(to), k + 1, m)
    OBVIOUS
  <2>1. Outside(path, k + 1)
    <3> SUFFICES ASSUME NEW o \in 1..k, Kind(path, o) \in Conditions PROVE doc[path][o].close < k + 1
      BY <1>1 DEF Outside
    <3>1. o # k
      OBVIOUS
    <3>2. o \in 1..(k - 1)
      BY <1>1, <3>1
    <3>3. doc[path][o].close < k
      BY <3>2 DEF Outside
    <3>4. o \in 1..n
      BY <1>1, <3>2
    <3>5. doc[path][o].close \in Nat
      BY <1>2, <3>4 DEF Pieces
    <3> QED
      BY <1>1, <3>3, <3>5
  <2> HIDE DEF path, n, to
  <2> QED
    BY <1>1, <1>2, <1>3, <1>4, <2>1 DEF Between, n
<1>6. Kind(path, m) = "close" /\ Flat(path, k, m) => Between(Moved(to), k + 1, m)
  <2> SUFFICES ASSUME Kind(path, m) = "close", Flat(path, k, m) PROVE Between(Moved(to), k + 1, m)
    OBVIOUS
  <2>1. Flat(path, k + 1, m)
    BY <1>1 DEF Flat
  <2> HIDE DEF path, n, to
  <2> QED
    BY <1>1, <1>2, <1>3, <1>4, <2>1 DEF Between, n
<1>7. Between(Moved(to), k + 1, m)
  BY <1>5, <1>6 DEF Between
<1> QED
  BY <1>2, <1>7

\* Behind a conditional it goes on with the piece behind its #endif, and a call
\* on the content is to do the pieces between.
LEMMA NextBlock ==
  ASSUME ExpandInv, phase = "run", NEW k, NEW m, Between(Top, k, m), k < m,
         Kind(Top.path, k) \in Conditions
  PROVE  LET p == doc[Top.path][k]
             block == Block(p.to)
         IN /\ block.next \in Nat /\ Between(Moved(block.next), p.close + 1, m)
            /\ Between(Frame(Top.path, Top.dir, p.to, block.end), k + 1, p.close)
<1> DEFINE path == Top.path
           n == Len(doc[path])
           p == doc[path][k]
           c == p.close
           next == Block(p.to).next
           end == Block(p.to).end
           f == Frame(path, Top.dir, p.to, end)
<1>1. /\ k \in Nat \ {0} /\ m \in Nat \ {0} /\ Top.end = From(path, m) /\ k \in 1..n
  BY BetweenIs
<1>2. /\ n \in Nat /\ p.to = From(path, k + 1)
      /\ \A i \in 1..(n + 1) : From(path, i) \in Nat
      /\ Lined(path)
  BY <1>1, FromIs DEF Between
<1>3. /\ c \in Nat /\ k < c /\ c < m /\ Kind(path, c) = "close" /\ Flat(path, k + 1, c)
      /\ m = n + 1 /\ Outside(path, c + 1)
      /\ next = From(path, c + 1)
      /\ (end = From(path, c) \/ (k + 1 = c /\ end = From(path, c) - 1 /\ From(path, c - 1) < end))
  BY BlockOf
<1>4. next \in Nat
  BY <1>1, <1>2, <1>3
<1>5. Moved(next).path = path /\ Moved(next).end = Top.end /\ Moved(next).ptr = next
  BY <1>4, MovedIs
<1>6. f.path = path /\ f.ptr = p.to /\ f.end = end
  BY DEF Frame
<1>7. c + 1 \in 1..m /\ m \in 1..(n + 1) /\ c \in 1..(n + 1) /\ k + 1 \in 1..c /\ c > 1
  <2>1. c \in Nat /\ k < c /\ c < m /\ m = n + 1 /\ n \in Nat /\ k \in Nat /\ k >= 1
    BY <1>1, <1>2, <1>3
  <2> HIDE DEF c, n
  <2> QED
    BY ONLY <2>1
<1> HIDE DEF path, n, c, next, end, f
<1>8. Between(Moved(next), c + 1, m)
  BY <1>1, <1>2, <1>3, <1>5, <1>7 DEF Between, n
<1>9. Between(f, k + 1, c)
  BY <1>2, <1>3, <1>6, <1>7 DEF Between, n
<1> QED
  BY <1>4, <1>8, <1>9 DEF path, c, next, end, f

\* Where the calls are after a step.
LEMMA PlacedThen ==
  ASSUME files' = files, doc' = doc, AreLines, \A i \in DOMAIN frames' : Placed(frames'[i])
  PROVE  Everywhere'
<1>1. AreLines'
  BY PlacedStays
<1>2. \A path : (IsLined(path))' <=> IsLined(path)
  BY DEF IsLined, From, Kind, IsPiece, IsInclude, IsTarget, IsBlock
<1>3. \A i : (Placed(frames[i]))' <=> Placed(frames'[i])
  <2>1. \A i, k, m : (Between(frames[i], k, m))' <=> Between(frames'[i], k, m)
    BY <1>2 DEF Between, Lined, From, Outside, Kind, Flat
  <2> QED
    BY <2>1 DEF Placed
<1> QED
  BY <1>1, <1>3 DEF Everywhere

\* A step moves the innermost call.
LEMMA MovedOn ==
  ASSUME ExpandInv, phase = "run", doc # <<>>, Everywhere, NEW k, NEW m, Between(Top, k, m),
         NEW ptr \in Nat, NEW j, Between(Moved(ptr), j, m),
         frames' = FramesAt(ptr), files' = files, doc' = doc
  PROVE  Everywhere' /\ Todo' = Meant!GoOn(j)
<1> DEFINE n == Len(frames)
<1>1. /\ n \in Nat \ {0} /\ DOMAIN frames = 1..n
      /\ DOMAIN FramesAt(ptr) = 1..n
      /\ FramesAt(ptr)[n] = Moved(ptr) /\ \A i \in 1..(n - 1) : FramesAt(ptr)[i] = frames[i]
  BY MovedIs
<1> HIDE DEF n
<1>2. ASSUME NEW i \in 1..n PROVE Placed(FramesAt(ptr)[i])
  <2>1. CASE i = n
    BY <1>1, <2>1 DEF Placed
  <2>2. CASE i # n
    <3>1. i \in 1..(n - 1) /\ i \in DOMAIN frames
      BY <1>1, <2>2
    <3>2. Placed(frames[i])
      BY <3>1 DEF Everywhere
    <3> QED
      BY <1>1, <3>1, <3>2
  <2> QED
    BY <2>1, <2>2
<1>3. Everywhere'
  <2>1. \A i \in DOMAIN frames' : Placed(frames'[i])
    BY <1>1, <1>2
  <2> QED
    BY <2>1, PlacedThen DEF Everywhere
<1>4. Todo' = Rest(FramesAt(ptr))
  BY TodoThen
<1> QED
  BY <1>3, <1>4, RestMoved

\* A step moves the innermost call and enters another one.
LEMMA EnteredOn ==
  ASSUME ExpandInv, phase = "run", doc # <<>>, Everywhere, NEW k, NEW m, Between(Top, k, m),
         NEW ptr \in Nat, NEW j, Between(Moved(ptr), j, m),
         NEW frame, NEW a, NEW b, Between(frame, a, b),
         frames' = Append(FramesAt(ptr), frame), files' = files, doc' = doc
  PROVE  Everywhere' /\ Todo' = Append(Meant!GoOn(j), Meant!Call(frame.path, a, b - 1))
<1> DEFINE n == Len(frames)
           g == FramesAt(ptr)
           h == Append(g, frame)
<1>1. /\ n \in Nat \ {0} /\ DOMAIN frames = 1..n
      /\ DOMAIN g = 1..n /\ Len(g) = n
      /\ g[n] = Moved(ptr) /\ \A i \in 1..(n - 1) : g[i] = frames[i]
  BY MovedIs
<1>2. g \in Seq({g[i] : i \in 1..n})
  <2>1. frames \in Seq(Calls)
    BY DEF ExpandInv
  <2>2. g = [i \in DOMAIN g |-> g[i]]
    BY <2>1 DEF FramesAt
  <2> HIDE DEF g, n
  <2> QED
    BY <1>1, <2>2
<1> HIDE DEF n, g
<1>3. h = [i \in 1..(n + 1) |-> IF i = n + 1 THEN frame ELSE g[i]]
  <2>1. h = [i \in 1..(Len(g) + 1) |-> IF i = Len(g) + 1 THEN frame ELSE g[i]]
    BY ONLY <1>2, AppendIs
  <2> QED
    BY ONLY <1>1, <2>1
<1> HIDE DEF h
<1>4. ASSUME NEW i \in 1..(n + 1) PROVE Placed(h[i])
  <2>1. CASE i = n + 1
    BY <1>3, <2>1 DEF Placed
  <2>2. CASE i = n
    <3>1. h[i] = Moved(ptr)
      BY <1>1, <1>3, <2>2
    <3> QED
      BY <3>1 DEF Placed
  <2>3. CASE i # n + 1 /\ i # n
    <3>1. i \in 1..(n - 1) /\ i \in DOMAIN frames
      BY <1>1, <2>3
    <3>2. Placed(frames[i])
      BY <3>1 DEF Everywhere
    <3>3. h[i] = frames[i]
      BY <1>1, <1>3, <2>3, <3>1
    <3> QED
      BY <3>2, <3>3
  <2> QED
    BY <2>1, <2>2, <2>3
<1>5. frames' = h
  BY DEF h, g
<1>6. Everywhere'
  <2>1. \A i \in DOMAIN frames' : Placed(frames'[i])
    BY <1>3, <1>4, <1>5
  <2> QED
    BY <2>1, PlacedThen DEF Everywhere
<1>7. Todo' = Rest(h)
  BY <1>5, TodoThen
<1> QED
  BY <1>6, <1>7, RestEntered DEF h, g


-----------------------------------------------------------------------------
(***************************************************************************)
(* The table                                                               *)
(***************************************************************************)

\* What stands for "taken away" is no content.
LEMMA NullIsNone == NULL \notin Seq(Symbols)
<1>1. "NULL" \notin Symbols
  <2>1. "NULL" \notin Letters
    BY LettersAssumption
  <2>2. "NULL" \notin Words /\ "NULL" # "_"
    BY DEF Words
  <2>3. "NULL" \notin Spaces /\ "NULL" \notin Signs
    BY DEF Spaces, Signs
  <2> QED
    BY <2>1, <2>2, <2>3 DEF Symbols, IdSymbols
<1>2. ASSUME NULL \in Seq(Symbols) PROVE FALSE
  <2>1. Len(NULL) = 1 /\ NULL[1] = "NULL"
    BY DEF NULL
  <2> HIDE DEF NULL
  <2>2. NULL[1] \in Symbols
    BY <1>2, <2>1
  <2> QED
    BY <1>1, <2>1, <2>2
<1> QED
  BY <1>2

\* A definition adds a name to the table, or gives it another replacement.
LEMMA TableDefined ==
  ASSUME doc # <<>>, doc' = doc, NEW id, NEW content \in Seq(Symbols), defs' = SetDefine(id, content)
  PROVE  Table' = [n \in DOMAIN Table \cup {id} |-> IF n = id THEN Unescaped(content) ELSE Table[n]]
<1>1. content # NULL
  BY NullIsNone
<1>2. Table = [n \in {n \in DOMAIN defs : defs[n] # NULL} |-> Unescaped(defs[n])]
  BY DEF Table, IsDefined
<1>3. Table' = [n \in {n \in DOMAIN defs' : defs'[n] # NULL} |-> Unescaped(defs'[n])]
  BY DEF Table, IsDefined
<1>4. defs' = [n \in DOMAIN defs \cup {id} |-> IF n = id THEN content ELSE defs[n]]
  BY DEF SetDefine
<1> HIDE DEF Unescaped, NULL, Table
<1>5. {n \in DOMAIN defs' : defs'[n] # NULL} = DOMAIN Table \cup {id}
  BY <1>1, <1>2, <1>4
<1>6. \A n \in DOMAIN Table \cup {id} :
        Unescaped(defs'[n]) = IF n = id THEN Unescaped(content) ELSE Table[n]
  <2>1. ASSUME NEW n \in DOMAIN Table \cup {id}
        PROVE  Unescaped(defs'[n]) = IF n = id THEN Unescaped(content) ELSE Table[n]
    <3>1. CASE n = id
      BY <1>4, <3>1
    <3>2. CASE n # id
      <4>1. n \in DOMAIN Table /\ n \in DOMAIN defs
        BY <1>2, <3>2
      <4>2. defs'[n] = defs[n] /\ Table[n] = Unescaped(defs[n])
        BY <1>2, <1>4, <3>2, <4>1
      <4> QED
        BY <3>2, <4>2
    <3> QED
      BY <3>1, <3>2
  <2> QED
    BY <2>1
<1> QED
  BY <1>3, <1>5, <1>6

\* #undef takes a name away.
LEMMA TableUndefined ==
  ASSUME doc # <<>>, doc' = doc, NEW id, defs' = SetDefine(id, NULL)
  PROVE  Table' = [n \in DOMAIN Table \ {id} |-> Table[n]]
<1>1. Table = [n \in {n \in DOMAIN defs : defs[n] # NULL} |-> Unescaped(defs[n])]
  BY DEF Table, IsDefined
<1>2. Table' = [n \in {n \in DOMAIN defs' : defs'[n] # NULL} |-> Unescaped(defs'[n])]
  BY DEF Table, IsDefined
<1>3. defs' = [n \in DOMAIN defs \cup {id} |-> IF n = id THEN NULL ELSE defs[n]]
  BY DEF SetDefine
<1> HIDE DEF Unescaped, NULL, Table
<1>4. {n \in DOMAIN defs' : defs'[n] # NULL} = DOMAIN Table \ {id}
  BY <1>1, <1>3
<1>5. \A n \in DOMAIN Table \ {id} : Unescaped(defs'[n]) = Table[n]
  BY <1>1, <1>3
<1> QED
  BY <1>2, <1>4, <1>5

\* What a piece stands for.
LEMMA TableIs ==
  ASSUME doc # <<>>
  PROVE  /\ \A n : n \in DOMAIN Table <=> IsDefined(n)
         /\ \A p : Meant!Meaning(p) = IF p.kind = "name" THEN Instead(p.text) ELSE p.text
<1>1. Table = [n \in {n \in DOMAIN defs : IsDefined(n)} |-> Unescaped(defs[n])]
  BY DEF Table
<1>2. \A n : n \in DOMAIN Table <=> IsDefined(n)
  BY <1>1 DEF IsDefined
<1>3. \A n : IsDefined(n) => Table[n] = Unescaped(defs[n])
  BY <1>1, <1>2
<1> QED
  BY <1>2, <1>3 DEF Meant!Meaning, Instead

-----------------------------------------------------------------------------
(***************************************************************************)
(* A step of expand is one that is meant, or the program ends because      *)
(* there is no room                                                        *)
(***************************************************************************)

\* There is no room for the next piece.
Full ==
  \/ Len(out) + (IF Meant!Doing({"text", "name"}) THEN Len(Meant!Meaning(Meant!Piece)) ELSE 0) >= OutSize
  \/ Meant!Doing({"include"}) /\ loads = MaxLoads
  \/ Meant!Doing({"if"})

Follows == Everywhere' /\ [Meant!Next]_(Meant!vars) /\ FailsOnlyWhenFull'

\* The program ends, and no call goes on.
LEMMA StopsRight ==
  ASSUME doc # <<>>, Everywhere, Full, UNCHANGED <<files, frames, defs, out, loads, doc>>
  PROVE  Follows
<1>1. Everywhere'
  BY PlacedThen DEF Everywhere
<1>2. Todo' = Todo
  BY TodoThen DEF Todo, Rest
<1>3. Table' = Table
  BY DEF Table, IsDefined
<1>4. Expansion' = Expansion
  BY DEF Expansion
<1>5. UNCHANGED Meant!vars
  BY <1>2, <1>3, <1>4 DEF Meant!vars
<1>6. Full'
  BY <1>2, <1>3 DEF Full, Meant!Doing, Meant!Meaning, Meant!Piece, Meant!Top
<1>7. FailsOnlyWhenFull'
  BY <1>6 DEF FailsOnlyWhenFull, Full
<1> QED
  BY <1>1, <1>5, <1>7 DEF Follows

\* The program goes on as it is meant to.
LEMMA GoesRight ==
  ASSUME Everywhere', Meant!Next, phase' = "run" \/ phase' = "done"
  PROVE  Follows
BY DEF Follows, FailsOnlyWhenFull

\* The call is to do a piece.
Facing(k, m) ==
  /\ ExpandInv /\ phase = "run" /\ doc # <<>> /\ Everywhere /\ Next /\ doc' = doc
  /\ Between(Top, k, m) /\ k < m

\* What is known of it then.
LEMMA FacingIs ==
  ASSUME NEW k, NEW m, Facing(k, m)
  PROVE  LET p == doc[Top.path][k] IN
         /\ \A kinds : Meant!Doing(kinds) <=> p.kind \in kinds
         /\ Meant!Top.next = k /\ Meant!Piece = p /\ Meant!Top.path = Top.path
         /\ Lined(Top.path) /\ Kind(Top.path, k) = p.kind /\ p.kind # "close"
         /\ IsPiece(Top.path, p, IsLast(Top.path, k), Kind(Top.path, k - 1) \in Conditions)
         /\ Expansion = out
<1> DEFINE p == doc[Top.path][k]
<1>1. /\ Todo # <<>> /\ Meant!Top.path = Top.path /\ Meant!Top.next = k /\ Meant!Top.last = m - 1
      /\ Meant!Piece = p
  BY TodoIs DEF Facing
<1>2. k \in Nat \ {0} /\ m \in Nat \ {0} /\ k \in 1..Len(doc[Top.path]) /\ Kind(Top.path, k) = p.kind /\ k <= m - 1
  BY BetweenIs DEF Facing
<1>3. \A kinds : Meant!Doing(kinds) <=> p.kind \in kinds
  BY <1>1, <1>2 DEF Meant!Doing
<1>4. p.kind # "close"
  BY <1>2, NoClose DEF Facing
<1>5. Lined(Top.path)
  BY DEF Facing, Between
<1>6. IsPiece(Top.path, p, IsLast(Top.path, k), Kind(Top.path, k - 1) \in Conditions)
  BY <1>2, <1>5, LinedPiece
<1>7. Expansion = out
  BY DEF Facing, Expansion
<1> QED
  BY <1>1, <1>2, <1>3, <1>4, <1>5, <1>6, <1>7


\* A piece that is no conditional stands where the reader of the call is.
LEMMA FacingStands ==
  ASSUME NEW k, NEW m, Facing(k, m), doc[Top.path][k].kind \notin Conditions
  PROVE  LET p == doc[Top.path][k] IN
         /\ Stands(p, IsLast(Top.path, k)) /\ Between(Top, k, m)
         /\ p.to \in Nat /\ Between(Moved(p.to), k + 1, m)
         /\ frames' = FramesAt(p.to) /\ files' = files => Everywhere' /\ Todo' = Meant!GoOn(k + 1)
<1> DEFINE p == doc[Top.path][k]
<1>1. /\ ExpandInv /\ phase = "run" /\ doc # <<>> /\ Everywhere /\ doc' = doc
      /\ Between(Top, k, m) /\ k < m
  BY DEF Facing
<1>2. Kind(Top.path, k) = p.kind
  BY FacingIs
<1>3. Stands(p, IsLast(Top.path, k))
  BY <1>1, PieceStands
<1>4. p.to \in Nat /\ Between(Moved(p.to), k + 1, m)
  BY <1>1, <1>2, NextPiece
<1>5. ASSUME frames' = FramesAt(p.to), files' = files PROVE Everywhere' /\ Todo' = Meant!GoOn(k + 1)
  <2> HIDE DEF p
  <2> QED
    BY <1>1, <1>4, <1>5, MovedOn
<1> QED
  BY <1>1, <1>3, <1>4, <1>5

\* Text is copied, and a name is replaced.
LEMMA CopiesRight ==
  ASSUME NEW k, NEW m, Facing(k, m), doc[Top.path][k].kind \in {"name", "text"}
  PROVE  Follows
<1> DEFINE p == doc[Top.path][k]
           symbols == Meant!Meaning(p)
<1>1. /\ Meant!Doing({"name", "text"}) /\ Meant!Doing({"text", "name"}) /\ Meant!Top.next = k /\ Meant!Piece = p
      /\ IsPiece(Top.path, p, IsLast(Top.path, k), Kind(Top.path, k - 1) \in Conditions)
      /\ Expansion = out
  BY FacingIs
<1>2. p.kind \notin Conditions
  BY DEF Conditions
<1>3. /\ Stands(p, IsLast(Top.path, k))
      /\ frames' = FramesAt(p.to) /\ files' = files => Everywhere' /\ Todo' = Meant!GoOn(k + 1)
  BY <1>2, FacingStands
<1>4. doc # <<>> /\ doc' = doc /\ Next /\ phase = "run" /\ Everywhere
  BY DEF Facing
<1>5. symbols = IF p.kind = "name" THEN Instead(p.text) ELSE p.text
  BY <1>4, TableIs
<1>6. Emit(symbols, p.to)
  <2>1. CASE p.kind = "name"
    <3>1. IsName(Text, p, IsLast(Top.path, k))
      BY <1>1, <2>1 DEF IsPiece, Text, Conditions
    <3>2. Emit(Instead(p.text), p.to)
      BY <1>3, <1>4, <3>1, NameTurn
    <3> QED
      BY <1>5, <2>1, <3>2
  <2>2. CASE p.kind = "text"
    <3>1. IsText(Text, p, IsLast(Top.path, k))
      BY <1>1, <2>2 DEF IsPiece, Text, Conditions
    <3>2. Emit(p.text, p.to)
      BY <1>3, <1>4, <3>1, TextTurn
    <3> QED
      BY <1>5, <2>2, <3>2
  <2> QED
    BY <2>1, <2>2
<1> HIDE DEF p, symbols
<1>7. CASE Len(out) + Len(symbols) <= OutSize
  <2>1. /\ out' = out \o symbols /\ frames' = FramesAt(p.to) /\ phase' = phase
        /\ files' = files /\ defs' = defs
    BY <1>6, <1>7 DEF Emit
  <2>2. Everywhere' /\ Todo' = Meant!GoOn(k + 1)
    BY <1>3, <2>1 DEF p
  <2>3. Table' = Table /\ Expansion' = Expansion \o symbols
    BY <1>1, <1>4, <2>1 DEF Table, Expansion, IsDefined
  <2>4. Meant!Text
    BY <1>1, <1>4, <2>2, <2>3 DEF Meant!Text, symbols
  <2>5. Meant!Next
    BY <2>4 DEF Meant!Next
  <2> QED
    BY <1>4, <2>1, <2>2, <2>5, GoesRight
<1>8. CASE ~(Len(out) + Len(symbols) <= OutSize)
  <2>1. UNCHANGED <<files, frames, defs, out, loads, doc>>
    BY <1>4, <1>6, <1>8 DEF Emit
  <2>2. Len(out) + Len(symbols) >= OutSize
    <3>1. Len(out) \in Nat /\ OutSize \in Nat
      BY ExpandAssumption DEF Facing, ExpandInv
    <3>2. Len(out) + Len(symbols) \in Int
      BY <3>1, <1>6, <1>8
    <3> QED
      BY <1>8, <3>1, <3>2
  <2>3. Full
    BY <1>1, <2>2 DEF Full, symbols
  <2> QED
    BY <1>4, <2>1, <2>3, StopsRight
<1> QED
  BY <1>7, <1>8

\* A name gets its replacement.
LEMMA DefinesRight ==
  ASSUME NEW k, NEW m, Facing(k, m), doc[Top.path][k].kind = "define"
  PROVE  Follows
<1> DEFINE p == doc[Top.path][k]
<1>1. /\ Meant!Doing({"define"}) /\ Meant!Top.next = k /\ Meant!Piece = p
      /\ IsPiece(Top.path, p, IsLast(Top.path, k), Kind(Top.path, k - 1) \in Conditions)
  BY FacingIs
<1>2. p.kind \notin Conditions
  BY DEF Conditions
<1>3. /\ Stands(p, IsLast(Top.path, k))
      /\ frames' = FramesAt(p.to) /\ files' = files => Everywhere' /\ Todo' = Meant!GoOn(k + 1)
  BY <1>2, FacingStands
<1>4. doc # <<>> /\ doc' = doc /\ Next /\ phase = "run" /\ Everywhere
  BY DEF Facing
<1>5. IsDefine(Text, p, IsLast(Top.path, k))
  BY <1>1 DEF IsPiece, Text, Conditions
<1>6. PICK content \in Seq(Symbols) : Unescaped(content) = p.text /\ Id = p.id /\ SetAndGoOn(content, p.to)
  BY <1>3, <1>4, <1>5, DefineTurn
<1> HIDE DEF p
<1>7. defs' = SetDefine(p.id, content) /\ frames' = FramesAt(p.to) /\ files' = files /\ out' = out /\ phase' = phase
  BY <1>6 DEF SetAndGoOn
<1>8. Everywhere' /\ Todo' = Meant!GoOn(k + 1)
  BY <1>3, <1>7 DEF p
<1>9. Table' = [n \in DOMAIN Table \cup {p.id} |-> IF n = p.id THEN p.text ELSE Table[n]]
  <2>1. Table' = [n \in DOMAIN Table \cup {p.id} |-> IF n = p.id THEN Unescaped(content) ELSE Table[n]]
    BY <1>4, <1>7, TableDefined
  <2> QED
    BY <1>6, <2>1
<1>10. Expansion' = Expansion
  BY <1>4, <1>7 DEF Expansion
<1>11. Meant!Define
  BY <1>1, <1>4, <1>8, <1>9, <1>10 DEF Meant!Define
<1>12. Meant!Next
  BY <1>11 DEF Meant!Next
<1> QED
  BY <1>4, <1>7, <1>8, <1>12, GoesRight

\* A name loses its replacement.
LEMMA UndefinesRight ==
  ASSUME NEW k, NEW m, Facing(k, m), doc[Top.path][k].kind = "undef"
  PROVE  Follows
<1> DEFINE p == doc[Top.path][k]
<1>1. /\ Meant!Doing({"undef"}) /\ Meant!Top.next = k /\ Meant!Piece = p
      /\ IsPiece(Top.path, p, IsLast(Top.path, k), Kind(Top.path, k - 1) \in Conditions)
  BY FacingIs
<1>2. p.kind \notin Conditions
  BY DEF Conditions
<1>3. /\ Stands(p, IsLast(Top.path, k))
      /\ frames' = FramesAt(p.to) /\ files' = files => Everywhere' /\ Todo' = Meant!GoOn(k + 1)
  BY <1>2, FacingStands
<1>4. doc # <<>> /\ doc' = doc /\ Next /\ phase = "run" /\ Everywhere
  BY DEF Facing
<1>5. IsUndef(Text, p, IsLast(Top.path, k))
  BY <1>1 DEF IsPiece, Text, Conditions
<1>6. Id = p.id /\ SetAndGoOn(NULL, p.to)
  BY <1>3, <1>4, <1>5, UndefTurn
<1> HIDE DEF p
<1>7. defs' = SetDefine(p.id, NULL) /\ frames' = FramesAt(p.to) /\ files' = files /\ out' = out /\ phase' = phase
  BY <1>6 DEF SetAndGoOn
<1>8. Everywhere' /\ Todo' = Meant!GoOn(k + 1)
  BY <1>3, <1>7 DEF p
<1>9. Table' = [n \in DOMAIN Table \ {p.id} |-> Table[n]]
  BY <1>4, <1>7, TableUndefined
<1>10. Expansion' = Expansion
  BY <1>4, <1>7 DEF Expansion
<1>11. Meant!Undef
  BY <1>1, <1>4, <1>8, <1>9, <1>10 DEF Meant!Undef
<1>12. Meant!Next
  BY <1>11 DEF Meant!Next
<1> QED
  BY <1>4, <1>7, <1>8, <1>12, GoesRight

\* A file is included, or there is no room to do it.
LEMMA IncludesRight ==
  ASSUME NEW k, NEW m, Facing(k, m), doc[Top.path][k].kind = "include"
  PROVE  Follows
<1> DEFINE p == doc[Top.path][k]
<1>1. /\ Meant!Doing({"include"}) /\ Meant!Top.next = k /\ Meant!Piece = p
      /\ ~Meant!Doing({"text", "name"})
      /\ IsPiece(Top.path, p, IsLast(Top.path, k), Kind(Top.path, k - 1) \in Conditions)
  BY FacingIs
<1>2. p.kind \notin Conditions
  BY DEF Conditions
<1>3. /\ Stands(p, IsLast(Top.path, k)) /\ Between(Top, k, m)
      /\ p.to \in Nat /\ Between(Moved(p.to), k + 1, m)
  BY <1>2, FacingStands
<1>4. doc # <<>> /\ doc' = doc /\ Next /\ phase = "run" /\ Everywhere /\ ExpandInv
  BY DEF Facing
<1>5. IsInclude(Top.path, p, IsLast(Top.path, k))
  BY <1>1 DEF IsPiece, Conditions
<1>6. prep_expand(p.target, p.to) /\ p.target \in DOMAIN files
  BY <1>3, <1>4, <1>5, IncludeTurn
<1>7. Len(out) \in Nat /\ OutSize \in Nat /\ loads \in Nat /\ MaxLoads \in Nat /\ loads <= MaxLoads
  BY <1>4, ExpandAssumption DEF ExpandInv
<1> HIDE DEF p
<1>8. CASE loads < MaxLoads /\ Len(out) < OutSize
  <2>1. /\ frames' = Append(FramesAt(p.to), FileFrame(p.target))
        /\ files' = files /\ defs' = defs /\ out' = out /\ phase' = phase
    BY <1>6, <1>8 DEF prep_expand, Enter
  <2>2. Lined(p.target)
    BY <1>4, <1>6, LinesAre DEF Everywhere
  <2>3. Between(FileFrame(p.target), 1, Len(doc[p.target]) + 1) /\ FileFrame(p.target).path = p.target
    BY <2>2, WholeFile DEF FileFrame, Frame
  <2>4. /\ Everywhere'
        /\ Todo' = Append(Meant!GoOn(k + 1), Meant!Call(FileFrame(p.target).path, 1, (Len(doc[p.target]) + 1) - 1))
    BY <1>3, <1>4, <2>1, <2>3, EnteredOn
  <2>5. Meant!Whole(p.target) = Meant!Call(p.target, 1, (Len(doc[p.target]) + 1) - 1)
    <3>1. (Len(doc[p.target]) + 1) - 1 = Len(doc[p.target])
      BY <2>2, FromIs
    <3> QED
      BY <3>1 DEF Meant!Whole
  <2>6. Table' = Table /\ Expansion' = Expansion
    BY <1>4, <2>1 DEF Table, Expansion, IsDefined
  <2>7. Meant!Include
    BY <1>1, <1>4, <2>3, <2>4, <2>5, <2>6 DEF Meant!Include
  <2>8. Meant!Next
    BY <2>7 DEF Meant!Next
  <2> QED
    BY <1>4, <2>1, <2>4, <2>8, GoesRight
<1>9. CASE ~(loads < MaxLoads /\ Len(out) < OutSize)
  <2>1. UNCHANGED <<files, frames, defs, out, loads, doc>>
    BY <1>4, <1>6, <1>9 DEF prep_expand, Enter, Abort
  <2>2. loads = MaxLoads \/ Len(out) + 0 >= OutSize
    BY <1>7, <1>9
  <2>3. Full
    BY <1>1, <2>2 DEF Full
  <2> QED
    BY <1>4, <2>1, <2>3, StopsRight
<1> QED
  BY <1>8, <1>9

\* The content of a conditional is expanded when its condition holds.
LEMMA ChoosesRight ==
  ASSUME NEW k, NEW m, Facing(k, m), doc[Top.path][k].kind \in Conditions
  PROVE  Follows
<1> DEFINE p == doc[Top.path][k]
           block == Block(p.to)
           frame == Frame(Top.path, Top.dir, p.to, block.end)
<1>1. /\ Meant!Doing({"ifdef", "ifndef", "if"}) /\ Meant!Top.next = k /\ Meant!Piece = p
      /\ (p.kind = "if" => Meant!Doing({"if"}))
      /\ Meant!Top.path = Top.path
      /\ ~Meant!Doing({"text", "name"})
      /\ Kind(Top.path, k) = p.kind
      /\ IsPiece(Top.path, p, IsLast(Top.path, k), Kind(Top.path, k - 1) \in Conditions)
  BY FacingIs DEF Conditions
<1>2. doc # <<>> /\ doc' = doc /\ Next /\ phase = "run" /\ Everywhere /\ ExpandInv /\ Between(Top, k, m) /\ k < m
  BY DEF Facing
<1>3. /\ block.next \in Nat /\ Between(Moved(block.next), p.close + 1, m)
      /\ Between(frame, k + 1, p.close)
  BY <1>1, <1>2, NextBlock
<1>4. Stands(p, FALSE)
  <2>1. k + 1 < m
    <3>1. p.close \in Nat /\ k < p.close /\ p.close < m
      BY <1>1, <1>2, BlockOf
    <3>2. k \in Nat /\ m \in Nat
      BY <1>2, BetweenIs
    <3> QED
      BY <3>1, <3>2
  <2> QED
    BY <1>2, <2>1, PieceStands
<1>5. IsCondition(Text, p)
  BY <1>1 DEF IsPiece, Text, Conditions
<1>6. \/ Conditional(p.to, Wanted(p))
      \/ p.kind = "if" /\ Abort /\ unknown' = unknown
  BY <1>2, <1>4, <1>5, ConditionTurn
<1>7. Len(out) \in Nat /\ OutSize \in Nat
  BY <1>2, ExpandAssumption DEF ExpandInv
<1>8. Meant!Holds(p) <=> Wanted(p)
  <2>1. \A n : n \in DOMAIN Table <=> IsDefined(n)
    BY <1>2, TableIs
  <2>2. (p.ids \subseteq DOMAIN Table) <=> (\A id \in p.ids : IsDefined(id))
    BY <2>1
  <2> QED
    BY <2>2 DEF Meant!Holds, Wanted
<1>9. frame.path = Top.path
  BY DEF Frame
<1> HIDE DEF p, block, frame
<1>10. CASE p.kind = "if" /\ Abort
  <2>1. Full
    BY <1>1, <1>10 DEF Full
  <2> QED
    BY <1>2, <1>10, <2>1, StopsRight DEF Abort
<1>11. CASE Conditional(p.to, Wanted(p)) /\ Wanted(p) /\ Len(out) < OutSize
  <2>1. /\ frames' = Append(FramesAt(block.next), frame)
        /\ files' = files /\ defs' = defs /\ out' = out /\ phase' = phase
    BY <1>11 DEF Conditional, Enter, block, frame
  <2>2. /\ Everywhere'
        /\ Todo' = Append(Meant!GoOn(p.close + 1), Meant!Call(frame.path, k + 1, p.close - 1))
    BY <1>2, <1>3, <2>1, EnteredOn
  <2>3. Table' = Table /\ Expansion' = Expansion
    BY <1>2, <2>1 DEF Table, Expansion, IsDefined
  <2>4. Meant!Conditional
    BY <1>1, <1>2, <1>8, <1>9, <1>11, <2>2, <2>3 DEF Meant!Conditional
  <2>5. Meant!Next
    BY <2>4 DEF Meant!Next
  <2> QED
    BY <1>2, <2>1, <2>2, <2>5, GoesRight
<1>12. CASE Conditional(p.to, Wanted(p)) /\ ~Wanted(p)
  <2>1. /\ frames' = FramesAt(block.next)
        /\ files' = files /\ defs' = defs /\ out' = out /\ phase' = phase
    BY <1>12 DEF Conditional, block
  <2>2. Everywhere' /\ Todo' = Meant!GoOn(p.close + 1)
    BY <1>2, <1>3, <2>1, MovedOn
  <2>3. Table' = Table /\ Expansion' = Expansion
    BY <1>2, <2>1 DEF Table, Expansion, IsDefined
  <2>4. Meant!Conditional
    BY <1>1, <1>2, <1>8, <1>12, <2>2, <2>3 DEF Meant!Conditional
  <2>5. Meant!Next
    BY <2>4 DEF Meant!Next
  <2> QED
    BY <1>2, <2>1, <2>2, <2>5, GoesRight
<1>13. CASE Conditional(p.to, Wanted(p)) /\ Wanted(p) /\ ~(Len(out) < OutSize)
  <2>1. UNCHANGED <<files, frames, defs, out, loads, doc>>
    BY <1>2, <1>13 DEF Conditional, Enter, Abort
  <2>2. Len(out) + 0 >= OutSize
    BY <1>7, <1>13
  <2>3. Full
    BY <1>1, <2>2 DEF Full
  <2> QED
    BY <1>2, <2>1, <2>3, StopsRight
<1> QED
  BY <1>6, <1>10, <1>11, <1>12, <1>13


\* A call that has nothing left to do is left.
LEMMA ReturnsRight ==
  ASSUME ExpandInv, phase = "run", doc # <<>>, Everywhere, Next, doc' = doc,
         NEW k, Between(Top, k, k)
  PROVE  Follows
<1> DEFINE n == Len(frames)
           g == SubSeq(frames, 1, n - 1)
<1>1. n \in Nat \ {0} /\ DOMAIN frames = 1..n /\ frames \in Seq(Calls) /\ Readable
  BY TopIs DEF ExpandInv
<1>2. Top.ptr >= End
  BY BetweenIs DEF End
<1>3. ~Cur.more
  BY <1>2 DEF Cur, readnext
<1>4. Return
  BY <1>3 DEF Next, IncludeLocal, IncludeSystem, IncludeOther, Define, Undef, IfDefined, If, Unrecognized,
              Comment, Literal, Name, Other, Ended, At, Reading
<1>5. /\ frames' = g
      /\ phase' = IF n > 1 THEN "run" ELSE IF Len(out) < OutSize THEN "done" ELSE "outside"
      /\ files' = files /\ defs' = defs /\ out' = out /\ loads' = loads
  BY <1>4 DEF Return
<1>6. DOMAIN g = 1..(n - 1) /\ \A i \in 1..(n - 1) : g[i] = frames[i]
  BY <1>1
<1>7. /\ Todo = Rest(frames) /\ Todo # <<>> /\ Len(Todo) = n /\ DOMAIN Todo = 1..n
      /\ Meant!Top.next = k /\ Meant!Top.last = k - 1
      /\ \A i \in 1..n : Todo[i] = Undone(frames[i])
  BY TodoIs
<1>8. k \in Nat
  BY BetweenIs
<1> HIDE DEF n, g
<1>9. Everywhere'
  <2>1. \A i \in DOMAIN frames' : Placed(frames'[i])
    <3>1. ASSUME NEW i \in 1..(n - 1) PROVE Placed(g[i])
      <4>1. i \in DOMAIN frames
        BY <1>1
      <4> QED
        BY <1>6, <4>1 DEF Everywhere
    <3> QED
      BY <1>5, <1>6, <3>1
  <2> QED
    BY <1>5, <2>1, PlacedThen DEF Everywhere
<1>10. Todo' = SubSeq(Todo, 1, Len(Todo) - 1)
  <2>1. Todo' = Rest(g)
    BY <1>5, TodoThen
  <2>2. Rest(g) = [i \in 1..(n - 1) |-> Undone(g[i])]
    BY <1>6 DEF Rest
  <2>3. SubSeq(Todo, 1, n - 1) = [i \in 1..(n - 1) |-> Todo[i]]
    <3>1. Todo = [i \in 1..n |-> Undone(frames[i])]
      BY <1>1, <1>7 DEF Rest
    <3>2. Todo \in Seq({Undone(frames[i]) : i \in 1..n})
      BY <1>1, <3>1
    <3> HIDE DEF Todo
    <3> QED
      BY <1>1, <1>7, <3>2
  <2>4. \A i \in 1..(n - 1) : Undone(g[i]) = Todo[i]
    <3>1. ASSUME NEW i \in 1..(n - 1) PROVE Undone(g[i]) = Todo[i]
      <4>1. i \in 1..n
        BY <1>1
      <4> QED
        BY <1>6, <1>7, <4>1
    <3> QED
      BY <3>1
  <2> QED
    BY <1>7, <2>1, <2>2, <2>3, <2>4
<1>11. Table' = Table /\ Expansion' = Expansion
  BY <1>5 DEF Table, Expansion, IsDefined
<1>12. k > k - 1
  BY <1>8
<1>13. Meant!Next
  <2>1. Meant!Return
    BY <1>7, <1>10, <1>11, <1>12 DEF Meant!Return
  <2> QED
    BY <2>1 DEF Meant!Next
<1>14. CASE phase' = "run" \/ phase' = "done"
  BY <1>9, <1>13, <1>14, GoesRight
<1>15. CASE ~(phase' = "run" \/ phase' = "done")
  <2>1. n = 1 /\ ~(Len(out) < OutSize)
    BY <1>1, <1>5, <1>15
  <2>2. Len(out) \in Nat /\ OutSize \in Nat
    BY ExpandAssumption DEF ExpandInv
  <2>3. Len(out) + 0 >= OutSize
    BY <2>1, <2>2
  <2>4. Todo' = <<>>
    BY <1>7, <1>10, <2>1
  <2>5. ~(Meant!Doing({"text", "name"}))'
    BY <2>4 DEF Meant!Doing
  <2>6. FailsOnlyWhenFull'
    BY <1>5, <2>3, <2>5 DEF FailsOnlyWhenFull
  <2> QED
    BY <1>9, <1>13, <2>6 DEF Follows
<1> QED
  BY <1>14, <1>15

-----------------------------------------------------------------------------
(***************************************************************************)
(* The expansion is the one that is meant                                  *)
(***************************************************************************)
LinesInv ==
  /\ ExpandInv
  /\ doc # <<>> => Everywhere
  /\ FailsOnlyWhenFull

\* Without pieces nothing is said of the expansion.
LEMMA NothingMeant ==
  ASSUME doc = <<>>, doc' = <<>>
  PROVE  UNCHANGED Meant!vars /\ FailsOnlyWhenFull'
BY DEF Meant!vars, Todo, Table, Expansion, FailsOnlyWhenFull

\* A turn of the loop.
LEMMA TurnRight ==
  ASSUME ExpandInv, phase = "run", doc # <<>>, Everywhere, Next, doc' = doc
  PROVE  Follows
<1>1. Len(frames) \in DOMAIN frames
  BY TopIs DEF ExpandInv
<1>2. PICK k, m : Between(Top, k, m)
  BY <1>1 DEF Everywhere, Placed, Top
<1>3. k \in Nat \ {0} /\ m \in Nat \ {0} /\ k <= m
  BY <1>2, BetweenIs
<1>4. CASE k = m
  BY <1>2, <1>4, ReturnsRight
<1>5. CASE k < m
  <2> DEFINE p == doc[Top.path][k]
  <2>1. Facing(k, m)
    BY <1>2, <1>5 DEF Facing
  <2>2. p.kind # "close"
    BY <2>1, FacingIs
  <2>3. p.kind \in {"text", "name", "define", "undef", "include", "close"} \cup Conditions
    <3>1. k \in 1..Len(doc[Top.path]) /\ Lined(Top.path)
      BY <1>2, <1>5, BetweenIs DEF Between
    <3>2. p \in Pieces
      BY <3>1, FromIs
    <3> QED
      BY <3>2 DEF Pieces
  <2>4. p.kind \in {"name", "text"} => Follows
    BY <2>1, CopiesRight
  <2>5. p.kind = "define" => Follows
    BY <2>1, DefinesRight
  <2>6. p.kind = "undef" => Follows
    BY <2>1, UndefinesRight
  <2>7. p.kind = "include" => Follows
    BY <2>1, IncludesRight
  <2>8. p.kind \in Conditions => Follows
    BY <2>1, ChoosesRight
  <2> QED
    BY <2>2, <2>3, <2>4, <2>5, <2>6, <2>7, <2>8
<1> QED
  BY <1>3, <1>4, <1>5

\* Nothing happens.
LEMMA StillRight ==
  ASSUME doc # <<>>, Everywhere, FailsOnlyWhenFull, UNCHANGED <<vars, doc>>
  PROVE  Follows
<1>1. UNCHANGED <<files, frames, defs, out, loads, phase, doc>>
  BY DEF vars
<1>2. Everywhere'
  BY <1>1, PlacedThen DEF Everywhere
<1>3. Todo' = Todo
  BY <1>1, TodoThen DEF Todo, Rest
<1>4. Table' = Table /\ Expansion' = Expansion
  BY <1>1 DEF Table, IsDefined, Expansion
<1>5. UNCHANGED Meant!vars
  BY <1>1, <1>3, <1>4 DEF Meant!vars
<1>6. FailsOnlyWhenFull'
  BY <1>1, <1>3, <1>4 DEF FailsOnlyWhenFull, Meant!Doing, Meant!Meaning, Meant!Piece, Meant!Top
<1> QED
  BY <1>2, <1>5, <1>6 DEF Follows

\* A step keeps the invariant, and is one that is meant.
LEMMA LinesStep ==
  ASSUME LinesInv, [DocNext]_<<vars, doc>>
  PROVE  LinesInv' /\ [Meant!Next]_(Meant!vars)
<1>1. doc' = doc /\ [Next]_vars
  BY DEF DocNext
<1>2. ExpandInv'
  BY <1>1, ExpandStep, StutterStep DEF LinesInv
<1>3. CASE doc = <<>>
  BY <1>1, <1>2, <1>3, NothingMeant DEF LinesInv
<1>4. CASE doc # <<>>
  <2>1. Follows
    <3>1. CASE UNCHANGED vars
      BY <1>1, <1>4, <3>1, StillRight DEF LinesInv
    <3>2. CASE phase # "run" /\ Next
      <4>1. Ended
        BY <3>2 DEF Next, IncludeLocal, IncludeSystem, IncludeOther, Define, Undef, IfDefined, If, Unrecognized,
                    Comment, Literal, Name, Other, Return, At, Reading
      <4> QED
        BY <1>1, <1>4, <4>1, StillRight DEF LinesInv, Ended
    <3>3. CASE phase = "run" /\ Next
      BY <1>1, <1>4, <3>3, TurnRight DEF LinesInv
    <3> QED
      BY <1>1, <3>1, <3>2, <3>3
  <2> QED
    BY <1>1, <1>2, <2>1 DEF Follows, LinesInv
<1> QED
  BY <1>3, <1>4

\* It holds at first, and the first state is one that is meant.
LEMMA LinesInitial ==
  ASSUME DocInit
  PROVE  LinesInv /\ Meant!Init
<1>1. Init /\ (doc = <<>> \/ AreLines)
  BY DEF DocInit
<1>2. ExpandInv
  BY <1>1, ExpandInitial
<1>3. frames = <<FileFrame(Main)>> /\ defs = <<>> /\ out = <<>> /\ phase = "run"
  BY <1>1 DEF Init, Start
<1>4. FailsOnlyWhenFull
  BY <1>3 DEF FailsOnlyWhenFull
<1>5. Table = <<>> /\ Expansion = <<>>
  <2>1. DOMAIN defs = {}
    BY <1>3
  <2>2. {n \in DOMAIN defs : IsDefined(n)} = {}
    BY <2>1
  <2>3. Table = <<>>
    BY <2>2 DEF Table
  <2> QED
    BY <1>3, <2>3 DEF Expansion
<1>6. CASE doc = <<>>
  BY <1>2, <1>4, <1>5, <1>6 DEF LinesInv, Meant!Init, Todo
<1>7. CASE doc # <<>>
  <2>1. Main \in DOMAIN files /\ Lined(Main)
    <3>1. Main \in DOMAIN files
      BY <1>1, ExpandAssumption DEF Init
    <3> QED
      BY <1>1, <1>2, <1>7, <3>1, LinesAre
  <2>2. Between(FileFrame(Main), 1, Len(doc[Main]) + 1) /\ FileFrame(Main).path = Main
    BY <2>1, WholeFile DEF FileFrame, Frame
  <2>3. Everywhere
    <3>1. DOMAIN frames = {1} /\ frames[1] = FileFrame(Main)
      BY <1>3
    <3> QED
      BY <1>1, <1>7, <2>2, <3>1 DEF Everywhere, Placed
  <2>4. Undone(FileFrame(Main)) = Meant!Whole(Main)
    <3>1. Undone(FileFrame(Main)) = [path |-> Main, next |-> 1, last |-> (Len(doc[Main]) + 1) - 1]
      BY <2>2, UndoneIs
    <3>2. (Len(doc[Main]) + 1) - 1 = Len(doc[Main])
      BY <2>1, FromIs
    <3> QED
      BY <3>1, <3>2 DEF Meant!Whole, Meant!Call
  <2>5. Todo = <<Meant!Whole(Main)>>
    <3>1. Todo = [i \in {1} |-> Undone(frames[i])]
      BY <1>3, <1>7 DEF Todo
    <3>2. frames[1] = FileFrame(Main)
      BY <1>3
    <3> QED
      BY <2>4, <3>1, <3>2
  <2> QED
    BY <1>2, <1>4, <1>5, <1>7, <2>3, <2>5 DEF LinesInv, Meant!Init
<1> QED
  BY <1>6, <1>7

\* The expansion of files of lines is an expansion: what holds of every one
\* holds of it.
LEMMA LinesExpand == DocSpec => Spec
<1>1. DocInit => Init
  BY DEF DocInit
<1>2. [DocNext]_<<vars, doc>> => [Next]_vars
  BY DEF DocNext, vars
<1> QED
  BY <1>1, <1>2, PTL DEF DocSpec, Spec

\* The invariant holds of files of lines and of all others.
LEMMA LinesInvariant == DocSpec => []LinesInv
<1>1. DocInit => LinesInv
  BY LinesInitial
<1>2. LinesInv /\ [DocNext]_<<vars, doc>> => LinesInv'
  BY LinesStep
<1> QED
  BY <1>1, <1>2, PTL DEF DocSpec

\* What prep_expand does to a file of lines is what its pieces mean: each
\* directive has the effect of its line, the file included is the one meant, and
\* names are replaced in the code only.  This holds of every file of lines,
\* whatever their number and length.
THEOREM ExpandIsMeant == DocSpec => ExpansionRight
<1>1. DocInit => Meant!Init
  BY LinesInitial
<1>2. LinesInv /\ [DocNext]_<<vars, doc>> => [Meant!Next]_(Meant!vars)
  BY LinesStep
<1>3. DocSpec => []LinesInv
  BY LinesInvariant
<1> QED
  BY <1>1, <1>2, <1>3, PTL DEF DocSpec, ExpansionRight, Meant!Spec

\* A file of lines is expanded, or there was no room for the next piece.
THEOREM ExpandFailsWhenFull == DocSpec => []FailsOnlyWhenFull
<1>1. LinesInv => FailsOnlyWhenFull
  BY DEF LinesInv
<1> QED
  BY <1>1, LinesInvariant, PTL
=============================================================================
