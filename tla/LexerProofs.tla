---------------------------- MODULE LexerProofs ----------------------------
(***************************************************************************)
(* For every alphabet and every set of sources: the types of the lexer,    *)
(* the lines and columns of its tokens, what it may lose, where its tokens *)
(* may overlap, where a word, a number and an operator end, and that it    *)
(* keeps a plain source to its last symbol.                                *)
(***************************************************************************)
EXTENDS Lexer, FiniteSetTheorems, TLAPS

-----------------------------------------------------------------------------
(***************************************************************************)
(* Lines and columns of positions                                          *)
(***************************************************************************)

LEMMA Apart ==
  ASSUME NEW S, NEW T, IsFiniteSet(S), IsFiniteSet(T), S \cap T = {}
  PROVE  Cardinality(S \cup T) = Cardinality(S) + Cardinality(T)
<1>1. Cardinality(S \cup T) = Cardinality(S) + Cardinality(T) - Cardinality({})
  BY FS_Union
<1>2. Cardinality({}) = 0 /\ Cardinality(S) \in Nat /\ Cardinality(T) \in Nat
  BY FS_EmptySet, FS_CardinalityType
<1> QED
  BY <1>1, <1>2

LEMMA BreaksFinite ==
  ASSUME NEW a \in Int, NEW b \in Int
  PROVE  IsFiniteSet(Breaks(a, b)) /\ Cardinality(Breaks(a, b)) \in Nat
<1>1. IsFiniteSet(a..(b - 1))
  BY FS_Interval
<1>2. Breaks(a, b) \in SUBSET (a..(b - 1))
  BY DEF Breaks
<1> QED
  BY <1>1, <1>2, FS_Subset, FS_CardinalityType

LEMMA OnLineFinite ==
  ASSUME NEW a \in Int, NEW b \in Int
  PROVE  IsFiniteSet(OnLine(a, b)) /\ Cardinality(OnLine(a, b)) \in Nat
<1>1. IsFiniteSet(a..b)
  BY FS_Interval
<1>2. OnLine(a, b) \in SUBSET (a..b)
  BY DEF OnLine
<1> QED
  BY <1>1, <1>2, FS_Subset, FS_CardinalityType

LEMMA LineAtType ==
  ASSUME NEW p \in Int
  PROVE  LineAt(p) \in Nat \ {0}
<1>1. Cardinality(Breaks(0, p)) \in Nat
  BY BreaksFinite
<1> QED
  BY <1>1 DEF LineAt, LineAfter

\* A text moves the line of its start to the line of its end.
LEMMA LinesAdd ==
  ASSUME NEW a \in Nat, NEW b \in Nat, a <= b
  PROVE  LineAt(b) = LineAfter(LineAt(a), a, b)
<1>1. Breaks(0, b) = Breaks(0, a) \cup Breaks(a, b)
  BY DEF Breaks
<1>2. Breaks(0, a) \cap Breaks(a, b) = {}
  BY DEF Breaks
<1>3. /\ IsFiniteSet(Breaks(0, a)) /\ Cardinality(Breaks(0, a)) \in Nat
      /\ IsFiniteSet(Breaks(a, b)) /\ Cardinality(Breaks(a, b)) \in Nat
  BY BreaksFinite
<1>4. Cardinality(Breaks(0, a) \cup Breaks(a, b))
        = Cardinality(Breaks(0, a)) + Cardinality(Breaks(a, b))
  BY <1>2, <1>3, Apart
<1>5. Cardinality(Breaks(0, b)) = Cardinality(Breaks(0, a)) + Cardinality(Breaks(a, b))
  BY <1>1, <1>4
<1>6. 1 + Cardinality(Breaks(0, b)) = (1 + Cardinality(Breaks(0, a))) + Cardinality(Breaks(a, b))
  BY <1>3, <1>5
<1> QED
  BY <1>6 DEF LineAt, LineAfter

\* Its end is as far from the last break before it as its start was, and as it
\* is long, when it has no break.
LEMMA ColumnsMove ==
  ASSUME NEW a \in Nat, NEW b \in Nat, a <= b, Breaks(a, b) = {}
  PROVE  ColumnAt(b) = ColumnAt(a) + (b - a)
<1> DEFINE added == (a + 1)..b
<1>1. OnLine(0, b) = OnLine(0, a) \cup added
  <2>1. ASSUME NEW q \in 0..a
        PROVE  Breaks(q, b) = Breaks(q, a)
    BY <2>1 DEF Breaks
  <2>2. ASSUME NEW q \in (a + 1)..b
        PROVE  Breaks(q, b) = {}
    BY <2>2 DEF Breaks
  <2> QED
    BY <2>1, <2>2 DEF OnLine
<1>2. OnLine(0, a) \cap added = {}
  BY DEF OnLine
<1>3. IsFiniteSet(added) /\ Cardinality(added) = b - a
  <2>1. a + 1 \in Int /\ b \in Int /\ a + 1 - b <= 1
    OBVIOUS
  <2>2. /\ IsFiniteSet((a + 1)..b)
        /\ Cardinality((a + 1)..b) = IF a + 1 > b THEN 0 ELSE b - (a + 1) + 1
    BY <2>1, FS_Interval
  <2> QED
    BY <2>2
<1>4. IsFiniteSet(OnLine(0, a)) /\ Cardinality(OnLine(0, a)) \in Nat
  BY OnLineFinite
<1> HIDE DEF added
<1>5. Cardinality(OnLine(0, a) \cup added) = Cardinality(OnLine(0, a)) + Cardinality(added)
  BY <1>2, <1>3, <1>4, Apart
<1> QED
  BY <1>1, <1>3, <1>4, <1>5 DEF ColumnAt

\* The columns behind a break are counted from the break on.
LEMMA ColumnsReset ==
  ASSUME NEW a \in Nat, NEW b \in Nat, a <= b, Breaks(a, b) # {}
  PROVE  ColumnAt(b) = Cardinality(OnLine(a, b))
<1>1. ASSUME NEW q \in 0..a
      PROVE  Breaks(q, b) # {}
  BY <1>1 DEF Breaks
<1>2. OnLine(0, b) = OnLine(a, b)
  BY <1>1 DEF OnLine
<1> QED
  BY <1>2 DEF ColumnAt

LEMMA ColumnsAdd ==
  ASSUME NEW a \in Nat, NEW b \in Nat, a <= b
  PROVE  ColumnAt(b) = ColumnAfter(ColumnAt(a), a, b)
BY ColumnsMove, ColumnsReset DEF ColumnAfter

LEMMA AtStart == LineAt(0) = 1 /\ ColumnAt(0) = 1
<1>1. Breaks(0, 0) = {}
  BY DEF Breaks
<1>2. OnLine(0, 0) = {0}
  BY <1>1 DEF OnLine
<1>3. Cardinality({}) = 0
  BY FS_EmptySet
<1>4. Cardinality({0}) = 1
  BY FS_Singleton
<1> QED
  BY <1>1, <1>2, <1>3, <1>4 DEF LineAt, LineAfter, ColumnAt

-----------------------------------------------------------------------------
(***************************************************************************)
(* The invariant.  What the properties say of out is said here of any o,   *)
(* so that the texts a step inserts can be taken one after another.        *)
(***************************************************************************)

Typed(o) ==
  /\ o.tokens \in Seq(Tokens)
  /\ o.line \in Nat \ {0}
  /\ o.column \in Nat \ {0}

Lost(o) == \E i \in DOMAIN o.tokens : o.tokens[i].type = MultiComment /\ ~HasText(o.tokens[i])

\* Where the last token ends.
LastEnd(o) == IF o.tokens = <<>> THEN 0 ELSE o.tokens[Len(o.tokens)].end

LinesOf(o) ==
  \A i \in DOMAIN o.tokens :
    HasText(o.tokens[i]) => o.tokens[i].line = LineAt(o.tokens[i].start)

ColumnsOf(o) ==
  \A i \in DOMAIN o.tokens :
    Contiguous(o.tokens, i) /\ HasText(o.tokens[i]) =>
      /\ o.tokens[i].line = LineAt(o.tokens[i].start)
      /\ o.tokens[i].column = ColumnAt(o.tokens[i].start)

OverlapsOf(o, e) ==
  \A i \in 2..Len(o.tokens) :
    HasText(o.tokens[i]) /\ HasText(o.tokens[i - 1]) /\ o.tokens[i].start < o.tokens[i - 1].end =>
      o.tokens[i].start = Len0 - 1 /\ e

\* Where the text behind the first i - 1 tokens of o begins, and where the text of a
\* token does.
From(o, i) ==
  IF i = 1 THEN 0
  ELSE IF HasText(o.tokens[i - 1]) THEN o.tokens[i - 1].end ELSE o.tokens[i - 1].start
To(type, start) == IF type = <<"STUB">> THEN Len0 ELSE start

\* Why the text behind the first i - 1 tokens of o may be lost up to a position, and
\* why the last symbol of the source may.
Reason(o, i, to) ==
  \/ /\ \A q \in From(o, i)..(to - 1) : At(q) \notin Spaces
     /\ At(From(o, i)) = "#" \/ (i > 2 /\ o.tokens[i - 2].type = <<"INCLUDE">>)
  \/ i > 1 /\ o.tokens[i - 1].type = MultiComment /\ ~HasText(o.tokens[i - 1])
Cut(o, i) == i > 1 /\ o.tokens[i - 1].type = LineComment /\ From(o, i) = Len0 - 1

ExplainedAt(o, i, type, start) ==
  (i = 1 \/ ~IsStub(o.tokens[i - 1])) /\ From(o, i) < To(type, start) =>
    Reason(o, i, To(type, start)) \/ (Cut(o, i) /\ type = <<"STUB">>)

Explained(o) ==
  \A i \in DOMAIN o.tokens : ExplainedAt(o, i, o.tokens[i].type, o.tokens[i].start)

\* Why the text behind the tokens there are may be lost up to p.
Coming(o) == Len(o.tokens) + 1
MayLose(o, p) == From(o, Coming(o)) < p => Reason(o, Coming(o), p)

\* What stays true of the tokens, whatever follows them.
Kept(o, e) ==
  /\ Typed(o)
  /\ Lost(o) \/ LinesOf(o)
  /\ Explained(o)
  /\ ColumnsOf(o)
  /\ OverlapsOf(o, e)

\* The column that is counted belongs to the end of the last token, as long as
\* the tokens cover the text up to it.
ColumnCounted(o) ==
  IF o.tokens = <<>> THEN o.line = 1 /\ o.column = 1
  ELSE Contiguous(o.tokens, Len(o.tokens)) /\ LastEnd(o) \in Nat =>
         o.line = LineAt(LastEnd(o)) /\ o.column = ColumnAt(LastEnd(o))

\* The text is read up to p, and the tokens are those of the text before it.
Reached(o, p, e) ==
  /\ Kept(o, e)
  /\ Lost(o) \/ o.line = LineAt(p)
  /\ MayLose(o, p)
  /\ LastEnd(o) <= p /\ From(o, Coming(o)) <= p
  /\ ColumnCounted(o)

\* The source is read to its end, but for a symbol that a line comment gave back.
Ended(o, p) == p = Len0 \/ Cut(o, Coming(o))

\* The types of the tokens that have a text.
TextTypes == TokenTypes \ {<<"STUB">>}

-----------------------------------------------------------------------------
(***************************************************************************)
(* One more token                                                          *)
(***************************************************************************)

LEMMA AfterType ==
  ASSUME NEW line \in Nat \ {0}, NEW column \in Nat \ {0}, NEW a \in Int, NEW b \in Int
  PROVE  LineAfter(line, a, b) \in Nat \ {0} /\ ColumnAfter(column, a, b) \in Nat \ {0}
<1>1. Cardinality(Breaks(a, b)) \in Nat
  BY BreaksFinite
<1>2. LineAfter(line, a, b) \in Nat \ {0}
  BY <1>1 DEF LineAfter
<1>3. CASE Breaks(a, b) # {}
  <2>1. b \in OnLine(a, b)
    BY <1>3 DEF OnLine, Breaks
  <2>2. IsFiniteSet(OnLine(a, b)) /\ Cardinality(OnLine(a, b)) \in Nat
    BY OnLineFinite
  <2>3. Cardinality(OnLine(a, b)) # 0
    BY <2>1, <2>2, FS_EmptySet
  <2> QED
    BY <1>2, <1>3, <2>2, <2>3 DEF ColumnAfter
<1>4. CASE Breaks(a, b) = {}
  BY <1>2, <1>4 DEF ColumnAfter
<1> QED
  BY <1>3, <1>4

LEMMA InsertTyped ==
  ASSUME NEW o, Typed(o), NEW type \in TokenTypes, NEW a \in Int, NEW b \in Int
  PROVE  Typed(InsertToken(o, type, a, b))
<1> DEFINE token == Token(type, a, b, o.line, o.column)
<1>1. token \in Tokens
  BY DEF Token, Tokens, Typed
<1>2. Append(o.tokens, token) \in Seq(Tokens)
  BY <1>1 DEF Typed
<1>3. LineAfter(o.line, a, b) \in Nat \ {0} /\ ColumnAfter(o.column, a, b) \in Nat \ {0}
  BY AfterType DEF Typed
<1> QED
  BY <1>2, <1>3 DEF Typed, InsertToken

LEMMA LastEndType ==
  ASSUME NEW o, Typed(o)
  PROVE  LastEnd(o) \in Int
<1>1. CASE o.tokens = <<>>
  BY <1>1 DEF LastEnd
<1>2. CASE o.tokens # <<>>
  <2>1. Len(o.tokens) \in 1..Len(o.tokens) /\ o.tokens \in Seq(Tokens)
    BY <1>2 DEF Typed
  <2>2. o.tokens[Len(o.tokens)] \in Tokens
    BY <2>1
  <2> QED
    BY <1>2, <2>2 DEF LastEnd, Tokens
<1> QED
  BY <1>1, <1>2

\* The tokens before stay, and the last one is the new one.
LEMMA InsertAppends ==
  ASSUME NEW o, Typed(o), NEW type \in TokenTypes, NEW a \in Int, NEW b \in Int,
         NEW tokens, tokens = InsertToken(o, type, a, b).tokens
  PROVE  /\ tokens \in Seq(Tokens)
         /\ Len(tokens) = Len(o.tokens) + 1
         /\ Len(o.tokens) \in Nat
         /\ DOMAIN tokens = 1..(Len(o.tokens) + 1)
         /\ DOMAIN o.tokens = 1..Len(o.tokens)
         /\ \A i \in 1..Len(o.tokens) : tokens[i] = o.tokens[i] /\ o.tokens[i] \in Tokens
         /\ tokens[Len(tokens)] = Token(type, a, b, o.line, o.column)
         /\ tokens # <<>>
         /\ o.tokens = <<>> <=> Len(o.tokens) = 0
<1> DEFINE token == Token(type, a, b, o.line, o.column)
<1>1. token \in Tokens
  BY DEF Token, Tokens, Typed
<1>2. tokens = Append(o.tokens, token)
  BY DEF InsertToken
<1>3. o.tokens \in Seq(Tokens)
  BY DEF Typed
<1> HIDE DEF token
<1>4. /\ tokens \in Seq(Tokens)
      /\ Len(tokens) = Len(o.tokens) + 1
      /\ Len(o.tokens) \in Nat
      /\ DOMAIN tokens = 1..(Len(o.tokens) + 1)
      /\ DOMAIN o.tokens = 1..Len(o.tokens)
      /\ \A i \in 1..Len(o.tokens) : tokens[i] = o.tokens[i] /\ o.tokens[i] \in Tokens
      /\ tokens[Len(tokens)] = token
      /\ o.tokens = <<>> <=> Len(o.tokens) = 0
  BY <1>1, <1>2, <1>3
<1>5. tokens # <<>>
  BY <1>4
<1> QED
  BY <1>4, <1>5 DEF token

LEMMA InsertGrows ==
  ASSUME NEW o, Typed(o), NEW type \in TokenTypes, NEW a \in Int, NEW b \in Int
  PROVE  /\ Len(InsertToken(o, type, a, b).tokens) = Len(o.tokens) + 1
         /\ \A i \in 1..Len(o.tokens) : InsertToken(o, type, a, b).tokens[i] = o.tokens[i]
         /\ InsertToken(o, type, a, b).tokens[Len(o.tokens) + 1].type = type
<1> DEFINE tokens == InsertToken(o, type, a, b).tokens
<1>1. /\ Len(tokens) = Len(o.tokens) + 1
      /\ \A i \in 1..Len(o.tokens) : tokens[i] = o.tokens[i]
      /\ tokens[Len(tokens)] = Token(type, a, b, o.line, o.column)
  BY InsertAppends
<1> HIDE DEF tokens
<1>2. tokens[Len(o.tokens) + 1].type = type
  BY <1>1 DEF Token
<1> QED
  BY <1>1, <1>2 DEF tokens

LEMMA InsertLost ==
  ASSUME NEW o, Typed(o), NEW type \in TokenTypes, NEW a \in Int, NEW b \in Int
  PROVE  Lost(InsertToken(o, type, a, b)) <=> Lost(o) \/ (type = MultiComment /\ b = NoPtr)
<1> DEFINE tokens == InsertToken(o, type, a, b).tokens
<1>1. /\ Len(tokens) = Len(o.tokens) + 1
      /\ Len(o.tokens) \in Nat
      /\ DOMAIN tokens = 1..(Len(o.tokens) + 1)
      /\ DOMAIN o.tokens = 1..Len(o.tokens)
      /\ \A i \in 1..Len(o.tokens) : tokens[i] = o.tokens[i]
      /\ tokens[Len(tokens)] = Token(type, a, b, o.line, o.column)
  BY InsertAppends
<1> HIDE DEF tokens
<1>2. /\ tokens[Len(o.tokens) + 1].type = type
      /\ tokens[Len(o.tokens) + 1].end = b
  BY <1>1 DEF Token
<1>3. ASSUME NEW i \in DOMAIN tokens, tokens[i].type = MultiComment, ~HasText(tokens[i])
      PROVE  Lost(o) \/ (type = MultiComment /\ b = NoPtr)
  <2>1. CASE i \in 1..Len(o.tokens)
    <3>1. tokens[i] = o.tokens[i] /\ i \in DOMAIN o.tokens
      BY <1>1, <2>1
    <3> QED
      BY <1>3, <3>1 DEF Lost
  <2>2. CASE i = Len(o.tokens) + 1
    BY <1>2, <1>3, <2>2 DEF HasText
  <2> QED
    BY <1>1, <1>3, <2>1, <2>2
<1>4. ASSUME NEW i \in DOMAIN o.tokens, o.tokens[i].type = MultiComment, ~HasText(o.tokens[i])
      PROVE  i \in DOMAIN tokens /\ tokens[i].type = MultiComment /\ ~HasText(tokens[i])
  <2>1. i \in 1..Len(o.tokens) /\ i \in DOMAIN tokens
    BY <1>1, <1>4
  <2>2. tokens[i] = o.tokens[i]
    BY <1>1, <2>1
  <2> QED
    BY <1>4, <2>1, <2>2
<1>5. Len(o.tokens) + 1 \in DOMAIN tokens
  BY <1>1
<1>6. type = MultiComment /\ b = NoPtr =>
        tokens[Len(o.tokens) + 1].type = MultiComment /\ ~HasText(tokens[Len(o.tokens) + 1])
  BY <1>2 DEF HasText
<1> QED
  BY <1>3, <1>4, <1>5, <1>6 DEF Lost, tokens

LEMMA InsertLines ==
  ASSUME NEW o, Typed(o), NEW type \in TokenTypes, NEW a \in Int, NEW b \in Int,
         LinesOf(o), b = NoPtr \/ o.line = LineAt(a)
  PROVE  LinesOf(InsertToken(o, type, a, b))
<1> DEFINE tokens == InsertToken(o, type, a, b).tokens
<1>1. /\ Len(tokens) = Len(o.tokens) + 1
      /\ Len(o.tokens) \in Nat
      /\ DOMAIN tokens = 1..(Len(o.tokens) + 1)
      /\ DOMAIN o.tokens = 1..Len(o.tokens)
      /\ \A i \in 1..Len(o.tokens) : tokens[i] = o.tokens[i]
      /\ tokens[Len(tokens)] = Token(type, a, b, o.line, o.column)
  BY InsertAppends
<1> HIDE DEF tokens
<1>2. /\ tokens[Len(o.tokens) + 1].start = a
      /\ tokens[Len(o.tokens) + 1].end = b
      /\ tokens[Len(o.tokens) + 1].line = o.line
  BY <1>1 DEF Token
<1>3. ASSUME NEW i \in DOMAIN tokens, HasText(tokens[i]) PROVE tokens[i].line = LineAt(tokens[i].start)
  <2>1. CASE i = Len(o.tokens) + 1
    BY <1>2, <1>3, <2>1 DEF HasText
  <2>2. CASE i # Len(o.tokens) + 1
    <3>1. i \in DOMAIN o.tokens /\ tokens[i] = o.tokens[i]
      BY <1>1, <2>2
    <3> QED
      BY <1>3, <3>1 DEF LinesOf
  <2> QED
    BY <2>1, <2>2
<1> QED
  BY <1>3 DEF LinesOf, tokens

LEMMA InsertOverlaps ==
  ASSUME NEW o, Typed(o), NEW type \in TokenTypes, NEW a \in Int, NEW b \in Int,
         NEW e \in BOOLEAN, NEW f \in BOOLEAN, e => f,
         OverlapsOf(o, e),
         b = NoPtr \/ (a < LastEnd(o) => a = Len0 - 1 /\ f)
  PROVE  OverlapsOf(InsertToken(o, type, a, b), f)
<1> DEFINE tokens == InsertToken(o, type, a, b).tokens
<1>1. /\ Len(tokens) = Len(o.tokens) + 1
      /\ Len(o.tokens) \in Nat
      /\ \A i \in 1..Len(o.tokens) : tokens[i] = o.tokens[i]
      /\ tokens[Len(tokens)] = Token(type, a, b, o.line, o.column)
      /\ o.tokens = <<>> <=> Len(o.tokens) = 0
  BY InsertAppends
<1> HIDE DEF tokens
<1>2. /\ tokens[Len(o.tokens) + 1].start = a
      /\ tokens[Len(o.tokens) + 1].end = b
  BY <1>1 DEF Token
<1>3. ASSUME NEW i \in 2..Len(tokens),
             HasText(tokens[i]), HasText(tokens[i - 1]), tokens[i].start < tokens[i - 1].end
      PROVE  tokens[i].start = Len0 - 1 /\ f
  <2>1. CASE i \in 2..Len(o.tokens)
    <3>0. i \in 1..Len(o.tokens) /\ i - 1 \in 1..Len(o.tokens)
      BY <1>1, <2>1
    <3>1. tokens[i] = o.tokens[i] /\ tokens[i - 1] = o.tokens[i - 1]
      BY <1>1, <3>0
    <3> QED
      BY <1>3, <2>1, <3>1 DEF OverlapsOf
  <2>2. CASE i = Len(o.tokens) + 1
    <3>1. tokens[i - 1] = o.tokens[Len(o.tokens)] /\ o.tokens # <<>>
      BY <1>1, <1>3, <2>2
    <3>2. tokens[i - 1].end = LastEnd(o)
      BY <3>1 DEF LastEnd
    <3> QED
      BY <1>2, <1>3, <2>2, <3>2 DEF HasText
  <2> QED
    BY <1>1, <1>3, <2>1, <2>2
<1> QED
  BY <1>3 DEF OverlapsOf, tokens

\* What is said of the text behind the first tokens stays true when one more follows.
LEMMA InsertBehind ==
  ASSUME NEW o, Typed(o), NEW type \in TokenTypes, NEW a \in Int, NEW b \in Int,
         NEW n, n = InsertToken(o, type, a, b), NEW i \in 1..Coming(o)
  PROVE  /\ From(n, i) = From(o, i) /\ From(o, i) \in Int
         /\ \A to : Reason(n, i, to) <=> Reason(o, i, to)
         /\ Cut(n, i) <=> Cut(o, i)
         /\ \A t, start : ExplainedAt(n, i, t, start) <=> ExplainedAt(o, i, t, start)
<1>0. n.tokens = InsertToken(o, type, a, b).tokens
  OBVIOUS
<1>1. /\ Len(o.tokens) \in Nat
      /\ \A k \in 1..Len(o.tokens) : n.tokens[k] = o.tokens[k] /\ o.tokens[k] \in Tokens
  BY <1>0, InsertAppends
<1>2. /\ i > 1 => i - 1 \in 1..Len(o.tokens)
      /\ i > 2 => i - 2 \in 1..Len(o.tokens)
      /\ i = 1 \/ i > 1
  BY <1>1 DEF Coming
<1>3. /\ i > 1 => n.tokens[i - 1] = o.tokens[i - 1] /\ o.tokens[i - 1] \in Tokens
      /\ i > 2 => n.tokens[i - 2] = o.tokens[i - 2]
  BY <1>1, <1>2
<1>4. From(n, i) = From(o, i) /\ From(o, i) \in Int
  BY <1>2, <1>3 DEF From, Tokens
<1>5. \A to : Reason(n, i, to) <=> Reason(o, i, to)
  BY <1>3, <1>4 DEF Reason
<1>6. Cut(n, i) <=> Cut(o, i)
  BY <1>3, <1>4 DEF Cut
<1>7. i = 1 \/ ~IsStub(n.tokens[i - 1]) <=> i = 1 \/ ~IsStub(o.tokens[i - 1])
  BY <1>2, <1>3
<1> QED
  BY <1>4, <1>5, <1>6, <1>7 DEF ExplainedAt

LEMMA ComingInt ==
  ASSUME NEW o, Typed(o)
  PROVE  From(o, Coming(o)) \in Int
<1>1. o.tokens \in Seq(Tokens) /\ Len(o.tokens) \in Nat
  BY DEF Typed
<1>2. Coming(o) # 1 => o.tokens[Coming(o) - 1] \in Tokens
  BY <1>1 DEF Coming
<1> QED
  BY <1>2 DEF From, Tokens

LEMMA InsertExplained ==
  ASSUME NEW o, Typed(o), NEW type \in TokenTypes, NEW a \in Int, NEW b \in Int,
         Explained(o), ExplainedAt(o, Coming(o), type, a)
  PROVE  Explained(InsertToken(o, type, a, b))
<1> DEFINE n == InsertToken(o, type, a, b)
<1>1. /\ Len(n.tokens) = Len(o.tokens) + 1
      /\ Len(o.tokens) \in Nat
      /\ DOMAIN n.tokens = 1..(Len(o.tokens) + 1)
      /\ DOMAIN o.tokens = 1..Len(o.tokens)
      /\ \A i \in 1..Len(o.tokens) : n.tokens[i] = o.tokens[i]
      /\ n.tokens[Len(n.tokens)] = Token(type, a, b, o.line, o.column)
  BY InsertAppends
<1>2. \A i \in 1..Coming(o) : \A t, start :
        ExplainedAt(n, i, t, start) <=> ExplainedAt(o, i, t, start)
  BY InsertBehind
<1> HIDE DEF n
<1>3. ASSUME NEW i \in DOMAIN n.tokens
      PROVE  ExplainedAt(n, i, n.tokens[i].type, n.tokens[i].start)
  <2>1. i \in 1..Coming(o)
    BY <1>1 DEF Coming
  <2>2. CASE i \in 1..Len(o.tokens)
    BY <1>1, <1>2, <2>1, <2>2 DEF Explained
  <2>3. CASE i = Len(o.tokens) + 1
    <3>1. n.tokens[i].type = type /\ n.tokens[i].start = a /\ i = Coming(o)
      BY <1>1, <2>3 DEF Token, Coming
    <3> QED
      BY <1>2, <2>1, <3>1
  <2> QED
    BY <1>1, <2>2, <2>3
<1> QED
  BY <1>3 DEF Explained, n

\* Behind the token that is inserted.
LEMMA InsertComing ==
  ASSUME NEW o, Typed(o), NEW type \in TokenTypes, NEW a \in Int, NEW b \in Int,
         NEW n, n = InsertToken(o, type, a, b)
  PROVE  /\ Coming(n) > 1 /\ Coming(n) \in Nat
         /\ n.tokens[Coming(n) - 1] = Token(type, a, b, o.line, o.column)
         /\ From(n, Coming(n)) = IF b = NoPtr THEN a ELSE b
         /\ LastEnd(n) = b
<1>0. n.tokens = InsertToken(o, type, a, b).tokens
  OBVIOUS
<1>1. /\ Len(n.tokens) = Len(o.tokens) + 1
      /\ Len(o.tokens) \in Nat
      /\ n.tokens[Len(n.tokens)] = Token(type, a, b, o.line, o.column)
      /\ n.tokens # <<>>
  BY <1>0, InsertAppends
<1>2. /\ Coming(n) > 1 /\ Coming(n) \in Nat
      /\ n.tokens[Coming(n) - 1] = Token(type, a, b, o.line, o.column)
  BY <1>1 DEF Coming
<1>3. From(n, Coming(n)) = IF b = NoPtr THEN a ELSE b
  BY <1>2 DEF From, HasText, Token
<1>4. LastEnd(n) = b
  BY <1>1 DEF LastEnd, Token
<1> QED
  BY <1>2, <1>3, <1>4

\* A token with a text takes the place of what may be lost up to it.
LEMMA MayLoseExplains ==
  ASSUME NEW o, Typed(o), NEW type \in TextTypes, NEW a \in Int, NEW p \in Int, a <= p, MayLose(o, p)
  PROVE  ExplainedAt(o, Coming(o), type, a)
<1>1. To(type, a) = a
  BY DEF To, TextTypes
<1>2. From(o, Coming(o)) \in Int
  BY ComingInt
<1>3. ASSUME From(o, Coming(o)) < a
      PROVE  Reason(o, Coming(o), a)
  BY <1>2, <1>3 DEF MayLose, Reason
<1> QED
  BY <1>1, <1>3 DEF ExplainedAt

LEMMA InsertColumns ==
  ASSUME NEW o, Typed(o), NEW type \in TokenTypes, NEW a \in Int, NEW b \in Int,
         ColumnsOf(o), ColumnCounted(o), b \in Nat => a <= b
  PROVE  /\ ColumnsOf(InsertToken(o, type, a, b))
         /\ ColumnCounted(InsertToken(o, type, a, b))
<1> DEFINE n == InsertToken(o, type, a, b)
           tokens == InsertToken(o, type, a, b).tokens
           last == Len(o.tokens) + 1
<1>1. /\ Len(tokens) = Len(o.tokens) + 1
      /\ Len(o.tokens) \in Nat
      /\ DOMAIN tokens = 1..(Len(o.tokens) + 1)
      /\ DOMAIN o.tokens = 1..Len(o.tokens)
      /\ \A i \in 1..Len(o.tokens) : tokens[i] = o.tokens[i]
      /\ tokens[Len(tokens)] = Token(type, a, b, o.line, o.column)
      /\ o.tokens = <<>> <=> Len(o.tokens) = 0
  BY InsertAppends
<1>7. tokens # <<>>
  BY InsertAppends
<1>0. /\ n.line = LineAfter(o.line, a, b)
      /\ n.column = ColumnAfter(o.column, a, b)
  BY DEF InsertToken
<1> HIDE DEF n, tokens
<1>2. /\ tokens[last].start = a
      /\ tokens[last].end = b
      /\ tokens[last].line = o.line
      /\ tokens[last].column = o.column
  BY <1>1 DEF Token
<1>3. ASSUME NEW i \in 1..Len(o.tokens), Contiguous(tokens, i)
      PROVE  Contiguous(o.tokens, i)
  <2>1. \A j \in 1..(i - 1) : j \in 1..Len(o.tokens) /\ j + 1 \in 1..Len(o.tokens)
    BY <1>1
  <2>2. \A j \in 1..(i - 1) : tokens[j] = o.tokens[j] /\ tokens[j + 1] = o.tokens[j + 1]
    BY <1>1, <2>1
  <2>3. tokens[1] = o.tokens[1]
    BY <1>1
  <2> QED
    BY <1>3, <2>2, <2>3 DEF Contiguous
<1>4. ASSUME Contiguous(tokens, last)
      PROVE  a \in Nat /\ o.line = LineAt(a) /\ o.column = ColumnAt(a)
  <2>1. CASE o.tokens = <<>>
    <3>1. a = 0
      BY <1>1, <1>2, <1>4, <2>1 DEF Contiguous
    <3> QED
      BY <2>1, <3>1, AtStart DEF ColumnCounted
  <2>2. CASE o.tokens # <<>>
    <3>1. Len(o.tokens) \in 1..(last - 1) /\ Len(o.tokens) \in 1..Len(o.tokens)
      BY <1>1, <2>2
    <3>2. tokens[Len(o.tokens)].end \in Nat /\ tokens[last].start = tokens[Len(o.tokens)].end
      BY <1>4, <3>1 DEF Contiguous
    <3>3. Contiguous(o.tokens, Len(o.tokens))
      <4>1. Contiguous(tokens, Len(o.tokens))
        BY <1>1, <1>4 DEF Contiguous
      <4> QED
        BY <1>3, <3>1, <4>1
    <3>4. LastEnd(o) = a
      BY <1>1, <1>2, <2>2, <3>1, <3>2 DEF LastEnd
    <3> QED
      BY <1>2, <2>2, <3>2, <3>3, <3>4 DEF ColumnCounted
  <2> QED
    BY <2>1, <2>2
<1>5. ColumnsOf(n)
  <2>1. ASSUME NEW i \in DOMAIN tokens, Contiguous(tokens, i), HasText(tokens[i])
        PROVE  /\ tokens[i].line = LineAt(tokens[i].start)
               /\ tokens[i].column = ColumnAt(tokens[i].start)
    <3>1. CASE i \in 1..Len(o.tokens)
      BY <1>1, <1>3, <2>1, <3>1 DEF ColumnsOf
    <3>2. CASE i = last
      BY <1>2, <1>4, <2>1, <3>2
    <3> QED
      BY <1>1, <3>1, <3>2
  <2> QED
    BY <2>1 DEF ColumnsOf, n, tokens
<1>6. ColumnCounted(n)
  <2>1. LastEnd(n) = b /\ n.tokens # <<>> /\ Len(n.tokens) = last
    BY <1>7, <1>1, <1>2 DEF LastEnd, n, tokens
  <2>2. ASSUME Contiguous(tokens, last), b \in Nat
        PROVE  n.line = LineAt(b) /\ n.column = ColumnAt(b)
    BY <1>0, <1>4, <2>2, LinesAdd, ColumnsAdd
  <2> QED
    BY <2>1, <2>2 DEF ColumnCounted, n, tokens
<1> QED
  BY <1>5, <1>6 DEF n

\* A text between two positions that follows what is read, or the last symbol
\* of the source again.
LEMMA InsertText ==
  ASSUME NEW o, NEW p \in Nat, NEW e \in BOOLEAN, NEW f \in BOOLEAN, e => f,
         Reached(o, p, e),
         NEW type \in TextTypes, NEW a \in Nat, NEW b \in Nat, a <= b, a <= p,
         LineAt(a) = LineAt(p), a < LastEnd(o) => a = Len0 - 1 /\ f
  PROVE  Reached(InsertToken(o, type, a, b), b, f)
<1> DEFINE n == InsertToken(o, type, a, b)
<1>1. Kept(o, e) /\ Typed(o) /\ ColumnCounted(o) /\ type \in TokenTypes
  BY DEF Reached, Kept, TextTypes
<1>2. Typed(n)
  BY <1>1, InsertTyped
<1>0. b # NoPtr /\ a \in Int /\ b \in Int
  BY DEF NoPtr
<1>3. Lost(n) <=> Lost(o)
  BY <1>0, <1>1, InsertLost
<1>4. ASSUME ~Lost(o)
      PROVE  LinesOf(n) /\ n.line = LineAt(b)
  <2>1. LinesOf(o) /\ o.line = LineAt(a)
    BY <1>4 DEF Reached, Kept
  <2>2. LinesOf(n)
    BY <1>1, <2>1, InsertLines
  <2>3. n.line = LineAt(b)
    BY <2>1, LinesAdd DEF InsertToken
  <2> QED
    BY <2>2, <2>3
<1>5. ColumnsOf(n) /\ ColumnCounted(n)
  BY <1>1, InsertColumns DEF Kept
<1>6. OverlapsOf(n, f)
  BY <1>1, InsertOverlaps DEF Kept
<1>7. LastEnd(n) = b
  BY <1>0, <1>1, InsertComing
<1>8. Explained(n)
  <2>1. ExplainedAt(o, Coming(o), type, a)
    BY <1>1, MayLoseExplains DEF Reached
  <2> QED
    BY <1>1, <2>1, InsertExplained DEF Kept
<1>9. From(n, Coming(n)) = b
  <2>1. From(n, Coming(n)) = IF b = NoPtr THEN a ELSE b
    BY <1>0, <1>1, InsertComing
  <2> QED
    BY <1>0, <2>1
<1> HIDE DEF n
<1>10. MayLose(n, b)
  BY <1>9 DEF MayLose
<1>11. Reached(n, b, f)
  BY <1>2, <1>3, <1>4, <1>5, <1>6, <1>7, <1>8, <1>9, <1>10 DEF Reached, Kept
<1> QED
  BY <1>11 DEF n

LEMMA InsertNext ==
  ASSUME NEW o, NEW a \in Nat, NEW b \in Nat, a <= b, NEW e \in BOOLEAN, NEW f \in BOOLEAN, e => f,
         Reached(o, a, e), NEW type \in TextTypes
  PROVE  Reached(InsertToken(o, type, a, b), b, f)
<1>1. LastEnd(o) <= a /\ LastEnd(o) \in Int
  BY LastEndType DEF Reached, Kept
<1>2. ~(a < LastEnd(o))
  BY <1>1
<1> QED
  BY <1>2, InsertText

\* A token without a text: a stub, or a comment that nothing closes.
LEMMA InsertNoText ==
  ASSUME NEW o, NEW e \in BOOLEAN, Kept(o, e), ColumnCounted(o),
         NEW type \in TokenTypes, NEW a \in Int, ExplainedAt(o, Coming(o), type, a)
  PROVE  /\ Kept(InsertToken(o, type, a, NoPtr), e)
         /\ ColumnCounted(InsertToken(o, type, a, NoPtr))
         /\ LastEnd(InsertToken(o, type, a, NoPtr)) = NoPtr
         /\ type = MultiComment => Lost(InsertToken(o, type, a, NoPtr))
<1> DEFINE n == InsertToken(o, type, a, NoPtr)
<1>1. Typed(o) /\ NoPtr \in Int /\ NoPtr \notin Nat
  BY DEF Kept, NoPtr
<1>2. Typed(n)
  BY <1>1, InsertTyped
<1>3. Lost(n) <=> Lost(o) \/ type = MultiComment
  BY <1>1, InsertLost
<1>4. ASSUME ~Lost(o)
      PROVE  LinesOf(n)
  BY <1>1, <1>4, InsertLines DEF Kept
<1>9. Explained(n)
  BY <1>1, InsertExplained DEF Kept
<1>5. ColumnsOf(n) /\ ColumnCounted(n)
  BY <1>1, InsertColumns DEF Kept
<1>6. OverlapsOf(n, e)
  BY <1>1, InsertOverlaps DEF Kept
<1>7. LastEnd(n) = NoPtr
  BY <1>1, InsertComing
<1> HIDE DEF n
<1>8. Kept(n, e)
  BY <1>2, <1>3, <1>4, <1>5, <1>6, <1>9 DEF Kept
<1> QED
  BY <1>3, <1>5, <1>7, <1>8 DEF n

\* A text that is dropped: no whitespace, and a "#" in front or "#include".
LEMMA DropText ==
  ASSUME NEW o, NEW a \in Nat, NEW b \in Nat, a <= b, NEW e \in BOOLEAN, NEW f \in BOOLEAN, e => f,
         Reached(o, a, e),
         \A q \in a..(b - 1) : At(q) \notin Spaces,
         a < b => \/ At(a) = "#"
                  \/ Coming(o) > 2 /\ o.tokens[Coming(o) - 2].type = <<"INCLUDE">>
  PROVE  Reached(o, b, f)
<1>1. LastEnd(o) <= a /\ LastEnd(o) \in Int
  BY LastEndType DEF Reached, Kept
<1>2. LineAt(b) = LineAt(a)
  <2>1. Breaks(a, b) = {}
    BY DEF Breaks, Spaces
  <2>2. Cardinality({}) = 0 /\ LineAt(a) \in Nat
    BY FS_EmptySet, LineAtType
  <2>3. LineAfter(LineAt(a), a, b) = LineAt(a)
    BY <2>1, <2>2 DEF LineAfter
  <2> QED
    BY <2>3, LinesAdd
<1>3. MayLose(o, b)
  <2>1. From(o, Coming(o)) \in Int /\ From(o, Coming(o)) <= a /\ MayLose(o, a)
    BY ComingInt DEF Reached, Kept
  <2>2. CASE From(o, Coming(o)) < a
    <3>1. Reason(o, Coming(o), a)
      BY <2>1, <2>2 DEF MayLose
    <3> QED
      BY <2>1, <3>1 DEF MayLose, Reason
  <2>3. CASE From(o, Coming(o)) = a
    BY <2>3 DEF MayLose, Reason
  <2> QED
    BY <2>1, <2>2, <2>3
<1>5. From(o, Coming(o)) <= b
  BY ComingInt DEF Reached, Kept
<1>4. Kept(o, f)
  BY DEF Reached, Kept, OverlapsOf
<1> QED
  BY <1>1, <1>2, <1>3, <1>4, <1>5 DEF Reached

-----------------------------------------------------------------------------
(***************************************************************************)
(* What is said of a source stays true of it: src never changes.           *)
(***************************************************************************)

LEMMA SameText ==
  ASSUME src' = src
  PROVE  /\ Len0' = Len0
         /\ \A p : At(p)' = At(p)
         /\ \A p : LineAt(p)' = LineAt(p)
         /\ \A p : ColumnAt(p)' = ColumnAt(p)
BY DEF Len0, At, LineAt, ColumnAt, LineAfter, OnLine, Breaks

LEMMA SameKept ==
  ASSUME src' = src, Kept(out', eof')
  PROVE  Kept(out, eof)'
<1>1. Lost(out)' <=> Lost(out')
  BY DEF Lost, HasText
<1>2. Typed(out)' <=> Typed(out')
  BY DEF Typed
<1>3. LinesOf(out)' <=> LinesOf(out')
  BY SameText DEF LinesOf, HasText
<1>4. Explained(out)' <=> Explained(out')
  BY SameText DEF Explained, ExplainedAt, From, To, Reason, Cut, IsStub, HasText
<1>5. ColumnsOf(out)' <=> ColumnsOf(out')
  BY SameText DEF ColumnsOf, HasText, Contiguous
<1>6. OverlapsOf(out, eof)' <=> OverlapsOf(out', eof')
  BY SameText DEF OverlapsOf, HasText
<1> QED
  BY <1>1, <1>2, <1>3, <1>4, <1>5, <1>6 DEF Kept

LEMMA SameReached ==
  ASSUME src' = src
  PROVE  /\ Reached(out', pos', eof') => Reached(out, pos, eof)'
         /\ Reached(out', comment', eof') => Reached(out, comment, eof)'
         /\ Ended(out', pos') => Ended(out, pos)'
<1>1. Kept(out', eof') => Kept(out, eof)'
  BY SameKept
<1>2. Lost(out)' <=> Lost(out')
  BY DEF Lost, HasText
<1>3. LastEnd(out)' = LastEnd(out')
  BY DEF LastEnd
<1>7. Coming(out)' = Coming(out') /\ From(out, Coming(out))' = From(out', Coming(out'))
  BY DEF Coming, From, HasText
<1>4. /\ MayLose(out, pos)' <=> MayLose(out', pos')
      /\ MayLose(out, comment)' <=> MayLose(out', comment')
  BY <1>7, SameText DEF MayLose, Reason, Coming, From, HasText
<1>5. ColumnCounted(out)' <=> ColumnCounted(out')
  BY <1>3, SameText DEF ColumnCounted, Contiguous
<1>6. /\ LineAt(pos)' = LineAt(pos')
      /\ LineAt(comment)' = LineAt(comment')
  BY SameText
<1>8. Ended(out', pos') => Ended(out, pos)'
  BY <1>7, SameText DEF Ended, Cut, Coming, From, HasText
<1> QED
  BY <1>1, <1>2, <1>3, <1>4, <1>5, <1>6, <1>7, <1>8 DEF Reached

-----------------------------------------------------------------------------
(***************************************************************************)
(* The steps                                                               *)
(***************************************************************************)

Reading ==
  /\ mode = "lexing" => Reached(out, pos, eof) /\ (eof => Ended(out, pos))
  /\ mode = "comment" => /\ Reached(out, comment, eof)
                         /\ comment \in 0..(pos - 1)
                         /\ ~eof

LexInv == TypeOK /\ Kept(out, eof) /\ Reading

\* What is known of the state.
LEMMA Known ==
  ASSUME LexInv
  PROVE  TypeOK /\ Typed(out) /\ Len0 \in Nat /\ pos \in Nat /\ comment \in Int
<1>1. TypeOK /\ Typed(out)
  BY DEF LexInv, Kept
<1>2. Len0 \in Nat
  BY <1>1 DEF TypeOK, Len0
<1> QED
  BY <1>1, <1>2 DEF TypeOK, NoPtr

\* What a step that goes on lexing has to show.
LEMMA GoesOn ==
  ASSUME TypeOK, src' = src, mode' = "lexing", comment' = comment, err' = err,
         pos' \in 0..(Len0 + 1), eof' \in BOOLEAN, Reached(out', pos', eof'),
         eof' => Ended(out', pos')
  PROVE  LexInv'
<1>1. Kept(out, eof)'
  BY SameKept DEF Reached
<1>2. TypeOK'
  <2>1. Typed(out')
    BY DEF Reached, Kept
  <2>2. Len0' = Len0 /\ Len0 \in Nat
    BY DEF Len0, TypeOK
  <2>3. Tokens' = Tokens /\ LexErrors' = LexErrors
    BY DEF Tokens, LexErrors
  <2> QED
    BY <2>1, <2>2, <2>3 DEF TypeOK, Typed
<1>3. Reading'
  BY SameReached DEF Reading
<1> QED
  BY <1>1, <1>2, <1>3 DEF LexInv

\* A reading function that meets the end of the source has read all of it.
LEMMA StopsThere ==
  ASSUME NEW end \in Nat, Len0 \in Nat, end <= Len0, NEW stop, stop = Len0 => end = Len0,
         pos' = end, eof' = (stop = Len0)
  PROVE  pos' \in 0..(Len0 + 1) /\ eof' \in BOOLEAN /\ (eof' => Ended(out', pos'))
<1>1. pos' \in 0..(Len0 + 1)
  OBVIOUS
<1>2. eof' \in BOOLEAN
  BY Zenon
<1>3. eof' => stop = Len0
  BY Zenon
<1>4. stop = Len0 => Ended(out', pos')
  BY DEF Ended
<1> QED
  BY <1>1, <1>2, <1>3, <1>4

LEMMA RunStops ==
  ASSUME NEW p \in Nat, NEW S, NEW q \in Run(p, S), Len0 \in Nat
  PROVE  /\ q \in Nat /\ p <= q /\ q <= Len0
         /\ \A r \in p..(q - 1) : At(r) \in S
         /\ q = Len0 \/ At(q) \notin S
         /\ Closed(q) \in Nat /\ q <= Closed(q) /\ Closed(q) <= Len0
BY DEF Run, Closed

LEMMA TypesOfTokens ==
  /\ SimpleTokens \subseteq TokenTypes /\ SimpleTokens \subseteq TextTypes
  /\ LineComment \in TextTypes /\ MultiComment \in TextTypes
  /\ \A type \in LongTypes : <<type>> \in TokenTypes
  /\ \A type \in LongTypes \ {"STUB"} : <<type>> \in TextTypes
  /\ TextTypes \subseteq TokenTypes
<1>1. <<"STUB">> \notin SimpleTokens
  BY DEF SimpleTokens
<1>2. LineComment \in SimpleTokens /\ MultiComment \in SimpleTokens
  BY DEF SimpleTokens, LineComment, MultiComment
<1> QED
  BY <1>1, <1>2 DEF TokenTypes, TextTypes

\* What every action of the lexing loop begins with.
LEMMA Begins ==
  ASSUME LexInv, NEW S, Lexing(S)
  PROVE  /\ Reached(out, pos, FALSE) /\ eof = FALSE
         /\ pos \in Nat /\ pos < Len0 /\ Len0 \in Nat
         /\ At(pos) \in S
         /\ mode = "lexing" /\ src' = src /\ comment' = comment /\ err' = err
         /\ TypeOK
<1>1. Len0 \in Nat
  BY DEF LexInv, TypeOK, Len0
<1>2. eof = FALSE
  BY DEF Lexing, LexInv, TypeOK
<1>3. Reached(out, pos, FALSE)
  BY <1>2 DEF Lexing, LexInv, Reading
<1>4. pos \in Nat
  BY <1>1 DEF LexInv, TypeOK
<1>5. src' = src /\ comment' = comment /\ err' = err
  BY DEF Lexing
<1>6. mode = "lexing" /\ pos < Len0 /\ At(pos) \in S
  BY DEF Lexing
<1> QED
  BY <1>1, <1>2, <1>3, <1>4, <1>5, <1>6 DEF LexInv

LEMMA DropDirectiveStep ==
  ASSUME LexInv, DropDirective
  PROVE  LexInv'
<1>1. Lexing({"#"})
  BY DEF DropDirective
<1>2. PICK word \in Run(pos + 1, NonSpace) : ReadTo(word)
  BY DEF DropDirective
<1>0. At(pos) \in {"#"}
  BY <1>1, Begins
<1>3. /\ Reached(out, pos, FALSE) /\ pos \in Nat /\ pos < Len0 /\ Len0 \in Nat
      /\ mode = "lexing" /\ src' = src /\ comment' = comment /\ err' = err
      /\ TypeOK
  BY <1>1, Begins
<1>4. /\ word \in Nat /\ pos + 1 <= word /\ word <= Len0
      /\ \A r \in (pos + 1)..(word - 1) : At(r) \in NonSpace
  BY <1>2, <1>3, RunStops
<1>5. \A q \in pos..(word - 1) : At(q) \notin Spaces
  <2>1. "#" \notin Spaces
    BY DEF Spaces, LF
  <2> QED
    BY <1>0, <1>3, <1>4, <2>1 DEF NonSpace
<1>6. out' = out /\ mode' = "lexing" /\ pos' = word /\ eof' = (word = Len0)
  BY <1>2, <1>3 DEF DropDirective, ReadTo
<1>7. Reached(out, word, eof')
  <2>1. pos <= word /\ At(pos) = "#"
    BY <1>0, <1>3, <1>4
  <2>2. FALSE \in BOOLEAN /\ (FALSE => eof') /\ eof' \in BOOLEAN
    BY <1>6
  <2> QED
    BY ONLY <1>3, <1>4, <1>5, <1>6, <2>1, <2>2, DropText
<1>8. pos' \in 0..(Len0 + 1) /\ eof' \in BOOLEAN /\ (eof' => Ended(out', pos'))
  BY <1>3, <1>4, <1>6, StopsThere
<1> QED
  BY <1>3, <1>6, <1>7, <1>8, GoesOn

\* A branch that inserts one text from where the lexer stands.
LEMMA OneText ==
  ASSUME LexInv, NEW S, Lexing(S), NEW type \in TextTypes,
         NEW end \in Nat, pos <= end, end <= Len0,
         out' = InsertToken(out, type, pos, end),
         pos' = end, mode' = mode,
         eof' \in BOOLEAN, eof' => end = Len0
  PROVE  LexInv'
<1>1. /\ Reached(out, pos, FALSE) /\ pos \in Nat /\ Len0 \in Nat
      /\ mode = "lexing" /\ src' = src /\ comment' = comment /\ err' = err
      /\ TypeOK
  BY Begins
<1>2. Reached(out', pos', eof')
  BY <1>1, InsertNext
<1>3. pos' \in 0..(Len0 + 1) /\ eof' \in BOOLEAN /\ (eof' => Ended(out', pos'))
  BY <1>1 DEF Ended
<1> QED
  BY <1>1, <1>2, <1>3, GoesOn

LEMMA StringLiteralStep ==
  ASSUME LexInv, StringLiteral
  PROVE  LexInv'
<1>1. Lexing({Quote}) /\ mode' = mode
  BY DEF StringLiteral
<1>2. PICK close \in Run(pos + 1, Alphabet \ {Quote}) :
        /\ out' = InsertToken(out, <<"S_CHAR_SEQ">>, pos, Closed(close))
        /\ pos' = Closed(close) /\ eof' = (close = Len0)
  BY DEF StringLiteral
<1>3. pos \in Nat /\ Len0 \in Nat
  BY <1>1, Begins
<1>4. /\ Closed(close) \in Nat /\ pos <= Closed(close) /\ Closed(close) <= Len0
      /\ close = Len0 => Closed(close) = Len0
  <2>1. pos + 1 \in Nat
    BY <1>3
  <2>2. /\ close \in Nat /\ pos + 1 <= close
        /\ Closed(close) \in Nat /\ close <= Closed(close) /\ Closed(close) <= Len0
    BY <1>3, <2>1, RunStops
  <2> QED
    BY <1>3, <2>2 DEF Closed
<1>5. <<"S_CHAR_SEQ">> \in TextTypes
  BY TypesOfTokens DEF LongTypes
<1>6. eof' \in BOOLEAN /\ (eof' => close = Len0)
  BY <1>2, Zenon
<1>7. eof' => Closed(close) = Len0
  BY <1>4, <1>6
<1>8. out' = InsertToken(out, <<"S_CHAR_SEQ">>, pos, Closed(close)) /\ pos' = Closed(close)
  BY <1>2
<1> QED
  BY <1>1, <1>4, <1>5, <1>6, <1>7, <1>8, OneText

LEMMA WhitespaceStep ==
  ASSUME LexInv, Whitespace
  PROVE  LexInv'
<1>1. Lexing(Spaces) /\ mode' = mode
  BY DEF Whitespace
<1>2. PICK end \in Run(pos, Spaces) :
        /\ out' = InsertToken(out, <<"WHITESPACE">>, pos, end)
        /\ pos' = end /\ eof' = (end = Len0)
  BY DEF Whitespace, ReadTo
<1>3. pos \in Nat /\ Len0 \in Nat
  BY <1>1, Begins
<1>4. end \in Nat /\ pos <= end /\ end <= Len0
  BY <1>3, RunStops
<1>5. <<"WHITESPACE">> \in TextTypes
  BY TypesOfTokens DEF LongTypes
<1>6. eof' \in BOOLEAN /\ (eof' => end = Len0)
  BY <1>2, Zenon
<1> QED
  BY <1>1, <1>2, <1>4, <1>5, <1>6, OneText

LEMMA NumLiteralStep ==
  ASSUME LexInv, NumLiteral
  PROVE  LexInv'
<1>1. Lexing(Digits) /\ mode' = mode
  BY DEF NumLiteral
<1>2. PICK end \in Run(pos, Digits) :
        /\ out' = InsertToken(out, <<"NUM_LITERAL">>, pos, end)
        /\ pos' = end /\ eof' = (end = Len0)
  BY DEF NumLiteral, ReadTo
<1>3. pos \in Nat /\ Len0 \in Nat
  BY <1>1, Begins
<1>4. end \in Nat /\ pos <= end /\ end <= Len0
  BY <1>3, RunStops
<1>5. <<"NUM_LITERAL">> \in TextTypes
  BY TypesOfTokens DEF LongTypes
<1>6. eof' \in BOOLEAN /\ (eof' => end = Len0)
  BY <1>2, Zenon
<1> QED
  BY <1>1, <1>2, <1>4, <1>5, <1>6, OneText

LEMMA WordTokenStep ==
  ASSUME LexInv, WordToken
  PROVE  LexInv'
<1>1. Lexing(Words) /\ mode' = mode
  BY DEF WordToken
<1>2. PICK end \in Run(pos, Word) :
        /\ out' = InsertToken(out, IF IsKeyword(Text(pos, end)) THEN <<"KEYWORD">> ELSE <<"IDENTIFIER">>,
                              pos, end)
        /\ pos' = end /\ eof' = (end = Len0)
  BY DEF WordToken, ReadTo
<1>3. pos \in Nat /\ Len0 \in Nat
  BY <1>1, Begins
<1>4. end \in Nat /\ pos <= end /\ end <= Len0
  BY <1>3, RunStops
<1>5. (IF IsKeyword(Text(pos, end)) THEN <<"KEYWORD">> ELSE <<"IDENTIFIER">>) \in TextTypes
  BY TypesOfTokens DEF LongTypes
<1>6. eof' \in BOOLEAN /\ (eof' => end = Len0)
  BY <1>2, Zenon
<1> QED
  BY <1>1, <1>2, <1>4, <1>5, <1>6, OneText

\* The name of a directive that is kept, and the spaces behind it.
LEMMA DirectiveReached ==
  ASSUME LexInv, Lexing({"#"}), NEW type \in {"INCLUDE", "DEFINE"},
         NEW word \in Run(pos + 1, NonSpace), NEW name \in Run(word, Spaces)
  PROVE  /\ Reached(Directive(type, word, name), name, FALSE)
         /\ word \in Nat /\ name \in Nat /\ name <= Len0 /\ Len0 \in Nat
         /\ name < Len0 => At(name) \notin Spaces
<1>1. Reached(out, pos, FALSE) /\ pos \in Nat /\ Len0 \in Nat
  BY Begins
<1>2. word \in Nat /\ pos <= word /\ word <= Len0
  BY <1>1, RunStops
<1>3. /\ name \in Nat /\ word <= name /\ name <= Len0
      /\ name = Len0 \/ At(name) \notin Spaces
  BY <1>1, <1>2, RunStops
<1>4. <<type>> \in TextTypes /\ <<"WHITESPACE">> \in TextTypes
  BY TypesOfTokens DEF LongTypes
<1>5. Reached(InsertToken(out, <<type>>, pos, word), word, FALSE)
  BY <1>1, <1>2, <1>4, InsertNext
<1>6. Reached(Directive(type, word, name), name, FALSE)
  BY <1>2, <1>3, <1>4, <1>5, InsertNext DEF Directive
<1>7. name < Len0 => At(name) \notin Spaces
  BY <1>1, <1>3
<1> QED
  BY <1>1, <1>2, <1>3, <1>6, <1>7

\* The directive is the token before the last.
LEMMA DirectiveInFront ==
  ASSUME Typed(out), NEW type \in {"INCLUDE", "DEFINE"}, pos \in Int, NEW word \in Int, NEW name \in Int
  PROVE  /\ Coming(Directive(type, word, name)) > 2
         /\ Directive(type, word, name).tokens[Coming(Directive(type, word, name)) - 2].type = <<type>>
<1> DEFINE first == InsertToken(out, <<type>>, pos, word)
           second == InsertToken(first, <<"WHITESPACE">>, word, name)
<1>1. <<type>> \in TokenTypes /\ <<"WHITESPACE">> \in TokenTypes
  BY TypesOfTokens DEF LongTypes
<1>2. Typed(first)
  BY <1>1, InsertTyped
<1>3. /\ Coming(first) > 1 /\ Coming(first) \in Nat
      /\ first.tokens[Coming(first) - 1].type = <<type>>
  <2>1. first.tokens[Coming(first) - 1] = Token(<<type>>, pos, word, out.line, out.column)
    BY <1>1, InsertComing
  <2> QED
    BY <1>1, <2>1, InsertComing DEF Token
<1>4. Directive(type, word, name) = second
  BY DEF Directive
<1> HIDE DEF first
<1>5. /\ Len(second.tokens) = Len(first.tokens) + 1
      /\ \A i \in 1..Len(first.tokens) : second.tokens[i] = first.tokens[i]
      /\ Len(first.tokens) \in Nat
  <2>1. second.tokens = InsertToken(first, <<"WHITESPACE">>, word, name).tokens
    OBVIOUS
  <2> HIDE DEF second
  <2> QED
    BY <1>1, <1>2, <2>1, InsertAppends
<1> HIDE DEF second
<1>6. /\ Coming(second) > 2 /\ Coming(second) - 2 = Coming(first) - 1
      /\ Coming(first) - 1 \in 1..Len(first.tokens)
  BY <1>3, <1>5 DEF Coming
<1> QED
  BY <1>3, <1>4, <1>5, <1>6

LEMMA DefineDirectiveStep ==
  ASSUME LexInv, DefineDirective
  PROVE  LexInv'
<1>1. Lexing({"#"}) /\ mode' = mode
  BY DEF DefineDirective
<1>2. PICK word \in Run(pos + 1, NonSpace) : \E name \in Run(word, Spaces) :
      \E end \in Run(name, NonSpace) :
        /\ out' = InsertToken(Directive("DEFINE", word, name), <<"IDENTIFIER">>, name, end)
        /\ pos' = end /\ eof' = (end = Len0)
  BY DEF DefineDirective, ReadTo
<1>3. PICK name \in Run(word, Spaces) : \E end \in Run(name, NonSpace) :
        /\ out' = InsertToken(Directive("DEFINE", word, name), <<"IDENTIFIER">>, name, end)
        /\ pos' = end /\ eof' = (end = Len0)
  BY <1>2
<1>4. PICK end \in Run(name, NonSpace) :
        /\ out' = InsertToken(Directive("DEFINE", word, name), <<"IDENTIFIER">>, name, end)
        /\ pos' = end /\ eof' = (end = Len0)
  BY <1>3
<1>5. /\ src' = src /\ comment' = comment /\ err' = err /\ mode = "lexing"
      /\ TypeOK
  BY <1>1, Begins
<1>6. <<"IDENTIFIER">> \in TextTypes
  BY TypesOfTokens DEF LongTypes
<1>7. Reached(Directive("DEFINE", word, name), name, FALSE) /\ name \in Nat /\ Len0 \in Nat
  BY <1>1, <1>6, DirectiveReached
<1>8. end \in Nat /\ name <= end /\ end <= Len0
  BY <1>7, RunStops
<1>9. Reached(out', pos', eof')
  BY <1>4, <1>6, <1>7, <1>8, InsertNext
<1>10. pos' \in 0..(Len0 + 1) /\ eof' \in BOOLEAN /\ (eof' => Ended(out', pos'))
  BY <1>4, <1>7, <1>8, StopsThere
<1> QED
  BY <1>1, <1>5, <1>9, <1>10, GoesOn

LEMMA IncludeDirectiveStep ==
  ASSUME LexInv, IncludeDirective
  PROVE  LexInv'
<1>1. Lexing({"#"}) /\ mode' = mode
  BY DEF IncludeDirective
<1> DEFINE Named(word, name) == Directive("INCLUDE", word, name)
           Header(word, name, close) ==
             /\ out' = InsertToken(Named(word, name), <<"HEADER_NAME">>, name, Closed(close))
             /\ pos' = Closed(close) /\ eof' = (close = Len0)
           Path(word, name, close) ==
             /\ out' = InsertToken(Named(word, name), <<"INCLUDE_PATH">>, name, Closed(close))
             /\ pos' = Closed(close) /\ eof' = (close = Len0)
           Dropped(word, name) ==
             /\ out' = Named(word, name)
             /\ pos' = Closed(name) /\ eof' = (name = Len0)
<1>2. PICK word \in Run(pos + 1, NonSpace) : \E name \in Run(word, Spaces) :
        \/ \E close \in Run(name, Alphabet \ {">"}) : Header(word, name, close)
        \/ \E close \in Run(name + 1, Alphabet \ {Quote}) : Path(word, name, close)
        \/ Dropped(word, name)
  BY DEF IncludeDirective
<1>3. PICK name \in Run(word, Spaces) :
        \/ \E close \in Run(name, Alphabet \ {">"}) : Header(word, name, close)
        \/ \E close \in Run(name + 1, Alphabet \ {Quote}) : Path(word, name, close)
        \/ Dropped(word, name)
  BY <1>2
<1>4. /\ src' = src /\ comment' = comment /\ err' = err /\ mode = "lexing"
      /\ TypeOK
  BY <1>1, Begins
<1>5. <<"HEADER_NAME">> \in TextTypes /\ <<"INCLUDE_PATH">> \in TextTypes
  BY TypesOfTokens DEF LongTypes
<1>6. /\ Reached(Named(word, name), name, FALSE)
      /\ word \in Nat /\ name \in Nat /\ name <= Len0 /\ Len0 \in Nat
      /\ name < Len0 => At(name) \notin Spaces
  BY <1>1, <1>5, DirectiveReached
<1>7. CASE \E close \in Run(name, Alphabet \ {">"}) : Header(word, name, close)
  <2>1. PICK close \in Run(name, Alphabet \ {">"}) : Header(word, name, close)
    BY <1>7
  <2>2. /\ Closed(close) \in Nat /\ name <= Closed(close) /\ Closed(close) <= Len0
        /\ close = Len0 => Closed(close) = Len0
    <3>1. /\ close \in Nat /\ name <= close
          /\ Closed(close) \in Nat /\ close <= Closed(close) /\ Closed(close) <= Len0
      BY <1>6, RunStops
    <3> QED
      BY <1>6, <3>1 DEF Closed
  <2> HIDE DEF Named
  <2>3. Reached(out', pos', eof')
    BY <1>5, <1>6, <2>1, <2>2, InsertNext
  <2>4. pos' \in 0..(Len0 + 1) /\ eof' \in BOOLEAN /\ (eof' => Ended(out', pos'))
    BY <1>6, <2>1, <2>2, StopsThere
  <2> QED
    BY <1>1, <1>4, <2>3, <2>4, GoesOn
<1>8. CASE \E close \in Run(name + 1, Alphabet \ {Quote}) : Path(word, name, close)
  <2>1. PICK close \in Run(name + 1, Alphabet \ {Quote}) : Path(word, name, close)
    BY <1>8
  <2>2. /\ Closed(close) \in Nat /\ name <= Closed(close) /\ Closed(close) <= Len0
        /\ close = Len0 => Closed(close) = Len0
    <3>1. name + 1 \in Nat
      BY <1>6
    <3>2. /\ close \in Nat /\ name + 1 <= close
          /\ Closed(close) \in Nat /\ close <= Closed(close) /\ Closed(close) <= Len0
      BY <1>6, <3>1, RunStops
    <3> QED
      BY <1>6, <3>2 DEF Closed
  <2> HIDE DEF Named
  <2>3. Reached(out', pos', eof')
    BY <1>5, <1>6, <2>1, <2>2, InsertNext
  <2>4. pos' \in 0..(Len0 + 1) /\ eof' \in BOOLEAN /\ (eof' => Ended(out', pos'))
    BY <1>6, <2>1, <2>2, StopsThere
  <2> QED
    BY <1>1, <1>4, <2>3, <2>4, GoesOn
<1>9. CASE Dropped(word, name)
  <2>1. /\ Closed(name) \in Nat /\ name <= Closed(name) /\ Closed(name) <= Len0
        /\ \A q \in name..(Closed(name) - 1) : q = name /\ name < Len0
    BY <1>6 DEF Closed
  <2>2. /\ Coming(Named(word, name)) > 2
        /\ Named(word, name).tokens[Coming(Named(word, name)) - 2].type = <<"INCLUDE">>
    <3>1. Typed(out) /\ pos \in Int /\ word \in Int /\ name \in Int
      BY <1>6 DEF LexInv, Kept, TypeOK
    <3> QED
      BY <3>1, DirectiveInFront
  <2>3. \A q \in name..(Closed(name) - 1) : At(q) \notin Spaces
    BY <1>6, <2>1
  <2> HIDE DEF Named
  <2>4. Reached(out', pos', eof')
    <3>1. eof' \in BOOLEAN
      BY <1>9
    <3>2. Reached(Named(word, name), Closed(name), eof')
      <4> DEFINE o == Named(word, name)
                 b == Closed(name)
      <4>1. FALSE \in BOOLEAN /\ (FALSE => eof') /\ name \in Nat /\ Reached(o, name, FALSE)
        BY <1>6
      <4>2. b \in Nat /\ name <= b /\ \A q \in name..(b - 1) : At(q) \notin Spaces
        BY <2>1, <2>3
      <4>3. Coming(o) > 2 /\ o.tokens[Coming(o) - 2].type = <<"INCLUDE">>
        BY <2>2
      <4> HIDE DEF o, b
      <4>4. Reached(o, b, eof')
        BY ONLY <3>1, <4>1, <4>2, <4>3, DropText
      <4> QED
        BY <4>4 DEF o, b
    <3> QED
      BY <1>9, <3>2
  <2>6. name = Len0 => Closed(name) = Len0
    BY <1>6 DEF Closed
  <2>5. pos' \in 0..(Len0 + 1) /\ eof' \in BOOLEAN /\ (eof' => Ended(out', pos'))
    BY <1>6, <1>9, <2>1, <2>6, StopsThere
  <2> QED
    BY <1>1, <1>4, <2>4, <2>5, GoesOn
<1> QED
  BY <1>3, <1>7, <1>8, <1>9

\* The end of a simple token is inside the source.
LEMMA SpanEnds ==
  ASSUME Len0 \in Nat, NEW p \in Nat, p < Len0, NEW l \in Matches(p)
  PROVE  /\ SpanEnd(p, l) \in Nat /\ p < SpanEnd(p, l) /\ SpanEnd(p, l) <= Len0
         /\ Text(p, p + l) \in SimpleTokens
<1>1. TextsTried(p) \in Nat /\ p + TextsTried(p) <= Len0 /\ TextsTried(p) <= 3
  BY DEF TextsTried, MaxTokenLen
<1>2. l \in 1..TextsTried(p) /\ Text(p, p + l) \in SimpleTokens
  BY DEF Matches
<1> QED
  BY <1>1, <1>2 DEF SpanEnd, MaxTokenLen

LEMMA LongestMatches ==
  ASSUME NEW p, NEW l \in Longest(p)
  PROVE  l \in Matches(p)
BY DEF Longest

\* What a step that starts to read a comment has to show.
LEMMA CommentStarts ==
  ASSUME TypeOK, src' = src, out' = out, mode' = "comment", err' = err, eof' \in BOOLEAN, ~eof',
         comment' \in 0..(pos' - 1), comment' \in 0..(Len0 - 1), pos' \in 0..(Len0 + 1),
         Reached(out, comment', eof')
  PROVE  LexInv'
<1>1. Kept(out, eof)'
  <2>1. Kept(out', eof')
    BY DEF Reached
  <2> QED
    BY <2>1, SameKept
<1>2. TypeOK'
  <2>1. Typed(out')
    BY DEF Reached, Kept
  <2>2. Len0' = Len0
    BY DEF Len0
  <2>3. Tokens' = Tokens /\ LexErrors' = LexErrors
    BY DEF Tokens, LexErrors
  <2> QED
    BY <2>1, <2>2, <2>3 DEF TypeOK, Typed
<1>3. Reached(out', comment', eof')
  OBVIOUS
<1>4. Reading'
  BY <1>3, SameReached DEF Reading
<1> QED
  BY <1>1, <1>2, <1>4 DEF LexInv

\* What a step that ends in an error has to show.
LEMMA ErrorEnds ==
  ASSUME LexInv, src' = src, out' = out, comment' = comment, mode' = "error",
         eof' \in BOOLEAN, eof => eof', pos' \in 0..(Len0 + 1), err' \in LexErrors
  PROVE  LexInv'
<1>1. Kept(out, eof)'
  <2>1. Kept(out', eof')
    BY DEF LexInv, Kept, OverlapsOf
  <2> QED
    BY <2>1, SameKept
<1>2. TypeOK'
  <2>1. Len0' = Len0
    BY DEF Len0
  <2>2. Tokens' = Tokens /\ LexErrors' = LexErrors
    BY DEF Tokens, LexErrors
  <2> QED
    BY <2>1, <2>2 DEF LexInv, TypeOK
<1> QED
  BY <1>1, <1>2 DEF LexInv, Reading

LEMMA SimpleTokenStep ==
  ASSUME LexInv, SimpleToken
  PROVE  LexInv'
<1>1. /\ TypeOK /\ Len0 \in Nat /\ pos \in Nat /\ pos < Len0
      /\ mode = "lexing" /\ eof \in BOOLEAN /\ ~eof /\ src' = src
  <2>1. Len0 \in Nat
    BY DEF LexInv, TypeOK, Len0
  <2>2. eof \in BOOLEAN /\ ~eof
    BY DEF SimpleToken, LexInv, TypeOK
  <2>3. pos \in Nat
    BY <2>1 DEF LexInv, TypeOK
  <2> QED
    BY <2>1, <2>2, <2>3 DEF SimpleToken, LexInv
<1>2. Reached(out, pos, eof)
  BY <1>1 DEF LexInv, Reading
<1>3. CASE \E l \in Longest(pos) : InsertSimple(pos, l) /\ UNCHANGED <<eof, err>>
  <2>1. PICK l \in Longest(pos) : InsertSimple(pos, l) /\ UNCHANGED <<eof, err>>
    BY <1>3
  <2>2. l \in Matches(pos)
    BY LongestMatches
  <2>3. /\ SpanEnd(pos, l) \in Nat /\ pos < SpanEnd(pos, l) /\ SpanEnd(pos, l) <= Len0
        /\ Text(pos, pos + l) \in TextTypes
    BY <1>1, <2>2, SpanEnds, TypesOfTokens
  <2>4. PICK end \in Nat, type \in TextTypes :
          /\ pos < end /\ end <= Len0
          /\ \/ out' = InsertToken(out, type, pos, end) /\ pos' = end /\ mode' = mode /\ comment' = comment
             \/ pos' = end /\ mode' = "comment" /\ comment' = pos /\ out' = out
    BY <2>1, <2>3 DEF InsertSimple
  <2>5. eof' = eof /\ err' = err
    BY <2>1
  <2>6. CASE out' = InsertToken(out, type, pos, end) /\ pos' = end /\ mode' = mode /\ comment' = comment
    <3>1. Reached(out', pos', eof')
      BY <1>1, <1>2, <2>4, <2>5, <2>6, InsertNext
    <3> QED
      BY <1>1, <2>4, <2>5, <2>6, <3>1, GoesOn
  <2>7. CASE pos' = end /\ mode' = "comment" /\ comment' = pos /\ out' = out
    <3>1. /\ comment' \in 0..(pos' - 1) /\ comment' \in 0..(Len0 - 1) /\ pos' \in 0..(Len0 + 1)
          /\ Reached(out, comment', eof')
      BY <1>1, <1>2, <2>4, <2>5, <2>7
    <3> QED
      BY <1>1, <2>5, <2>7, <3>1, CommentStarts
  <2> QED
    BY <2>4, <2>6, <2>7
<1>4. CASE \E l \in Longest(pos) : InsertLineComment(pos, l) /\ UNCHANGED err
  <2>1. PICK l \in Longest(pos) : InsertLineComment(pos, l) /\ UNCHANGED err
    BY <1>4
  <2>2. l \in Matches(pos)
    BY LongestMatches
  <2>3. SpanEnd(pos, l) \in Nat /\ pos < SpanEnd(pos, l) /\ SpanEnd(pos, l) <= Len0
    BY <1>1, <2>2, SpanEnds
  <2> DEFINE end(newline) == IF newline < Len0 THEN newline ELSE Len0 - 1
  <2>4. PICK newline \in Run(SpanEnd(pos, l), Alphabet \ {LF}) :
          /\ out' = InsertToken(out, LineComment, pos, end(newline))
          /\ pos' = end(newline)
          /\ eof' = (newline = Len0)
    BY <2>1 DEF InsertLineComment
  <2>5. mode' = mode /\ comment' = comment /\ err' = err
    BY <2>1 DEF InsertLineComment
  <2>6. newline \in Nat /\ SpanEnd(pos, l) <= newline /\ newline <= Len0
    BY <1>1, <2>3, RunStops
  <2>7. end(newline) \in Nat /\ pos <= end(newline) /\ end(newline) <= Len0
    BY <1>1, <2>3, <2>6
  <2>8. LineComment \in TextTypes
    BY TypesOfTokens
  <2>10. newline = Len0 => end(newline) = Len0 - 1 /\ end(newline) # NoPtr
    BY <2>7 DEF NoPtr
  <2> HIDE DEF end
  <2>11. eof' => Ended(out', pos')
    <3>1. ASSUME newline = Len0
          PROVE  Cut(out', Coming(out'))
      <4>1. Typed(out) /\ LineComment \in TokenTypes /\ pos \in Int /\ end(newline) \in Int
        BY <1>1, <1>2, <2>7, <2>8, TypesOfTokens DEF Reached, Kept
      <4>2. /\ Coming(out') > 1
            /\ out'.tokens[Coming(out') - 1] = Token(LineComment, pos, end(newline), out.line, out.column)
            /\ From(out', Coming(out')) = Len0 - 1
        BY <2>4, <2>10, <3>1, <4>1, InsertComing
      <4> QED
        BY <4>2 DEF Cut, Token
    <3> QED
      BY <2>4, <3>1 DEF Ended
  <2>9. Reached(out', pos', eof')
    BY <1>1, <1>2, <2>4, <2>7, <2>8, InsertNext
  <2> QED
    BY <1>1, <2>4, <2>5, <2>7, <2>9, <2>11, GoesOn
<1>5. CASE LexError(At(pos)) /\ pos' = pos + 1 /\ UNCHANGED eof
  <2>1. out' = out /\ comment' = comment /\ mode' = "error" /\ eof' = eof
    BY <1>5 DEF LexError
  <2>2. err' \in LexErrors
    <3>1. At(pos) \in Alphabet \cup {NUL}
      BY <1>1 DEF At, TypeOK, Len0
    <3>2. out.line \in Int /\ out.column \in Int
      BY <1>1 DEF TypeOK
    <3> QED
      BY <1>5, <3>1, <3>2 DEF LexError, LexErrors
  <2>3. pos' \in 0..(Len0 + 1)
    BY <1>1, <1>5
  <2>4. eof' \in BOOLEAN /\ (eof => eof')
    BY <1>1, <2>1
  <2> QED
    BY <1>1, <2>1, <2>2, <2>3, <2>4, ErrorEnds
<1> QED
  BY <1>3, <1>4, <1>5 DEF SimpleToken

\* At the end of the source only tokens of one symbol are found.
LEMMA OneSymbol ==
  ASSUME NEW p \in Int, Text(p, p + 1) \in SimpleTokens
  PROVE  /\ At(p) # NUL /\ At(p) # LF
         /\ Text(p, p + 1) # LineComment /\ Text(p, p + 1) # MultiComment
<1>1. Text(p, p + 1) = <<At(p)>>
  BY DEF Text
<1>2. <<"NUL">> \notin SimpleTokens /\ <<"LF">> \notin SimpleTokens
  BY DEF SimpleTokens
<1>3. \A a, b, c : <<a>> # <<b, c>>
  OBVIOUS
<1> QED
  BY <1>1, <1>2, <1>3 DEF NUL, LF, LineComment, MultiComment

LEMMA LexAgainStep ==
  ASSUME LexInv, LexAgain
  PROVE  LexInv'
<1>1. /\ TypeOK /\ Len0 \in Nat /\ pos \in Nat /\ Len0 <= pos /\ pos <= Len0 + 1
      /\ mode = "lexing" /\ eof \in BOOLEAN /\ ~eof /\ eof' \in BOOLEAN /\ eof' /\ src' = src
  <2>1. Len0 \in Nat
    BY DEF LexInv, TypeOK, Len0
  <2>2. pos \in Nat /\ Len0 <= pos /\ pos <= Len0 + 1
    BY <2>1 DEF LexAgain, LexInv, TypeOK
  <2> QED
    BY <2>1, <2>2 DEF LexAgain, LexInv, TypeOK
<1>2. Reached(out, pos, eof)
  BY <1>1 DEF LexInv, Reading
<1>3. CASE \E l \in Longest(pos - 1) : InsertSimple(pos - 1, l) /\ UNCHANGED err
  <2>1. PICK l \in Longest(pos - 1) : InsertSimple(pos - 1, l) /\ UNCHANGED err
    BY <1>3
  <2>2. l \in Matches(pos - 1)
    BY LongestMatches
  <2>3. l \in 1..TextsTried(pos - 1) /\ Text(pos - 1, (pos - 1) + l) \in SimpleTokens
    BY <2>2 DEF Matches
  <2>4. TextsTried(pos - 1) = Len0 - (pos - 1)
    BY <1>1 DEF TextsTried, MaxTokenLen
  <2>5. pos = Len0 /\ l = 1 /\ TextsTried(pos - 1) = 1
    BY <1>1, <2>3, <2>4
  <2>6. Text(Len0 - 1, (Len0 - 1) + 1) \in SimpleTokens
    BY <2>3, <2>5
  <2>7. /\ At(Len0 - 1) # NUL /\ At(Len0 - 1) # LF
        /\ Text(Len0 - 1, (Len0 - 1) + 1) # LineComment
        /\ Text(Len0 - 1, (Len0 - 1) + 1) # MultiComment
    BY <1>1, <2>6, OneSymbol
  <2>8. Len0 - 1 \in Nat
    BY <1>1, <2>7 DEF At
  <2>9. SpanEnd(Len0 - 1, 1) = Len0
    BY <1>1, <2>5 DEF SpanEnd, MaxTokenLen
  <2>10. PICK type \in TextTypes :
           /\ out' = InsertToken(out, type, Len0 - 1, Len0)
           /\ pos' = Len0 /\ mode' = "lexing" /\ comment' = comment
    BY <1>1, <2>1, <2>5, <2>6, <2>7, <2>9, TypesOfTokens DEF InsertSimple
  <2>11. LineAt(Len0 - 1) = LineAt(pos)
    <3>1. Breaks(Len0 - 1, Len0) = {}
      BY <1>1, <2>7, <2>8 DEF Breaks
    <3>2. Cardinality({}) = 0 /\ LineAt(Len0 - 1) \in Nat
      BY <2>8, FS_EmptySet, LineAtType
    <3>3. LineAfter(LineAt(Len0 - 1), Len0 - 1, Len0) = LineAt(Len0 - 1)
      BY <3>1, <3>2 DEF LineAfter
    <3>4. LineAt(Len0) = LineAfter(LineAt(Len0 - 1), Len0 - 1, Len0)
      BY <1>1, <2>8, LinesAdd
    <3> QED
      BY <2>5, <3>3, <3>4
  <2>12. Reached(out', pos', eof')
    <3> DEFINE start == Len0 - 1
    <3>1. /\ start \in Nat /\ Len0 \in Nat /\ start <= Len0 /\ start <= pos
          /\ start < LastEnd(out) => start = Len0 - 1 /\ eof'
      BY <1>1, <2>8
    <3>2. /\ LineAt(start) = LineAt(pos)
          /\ out' = InsertToken(out, type, start, Len0) /\ pos' = Len0
      BY <2>10, <2>11
    <3> HIDE DEF start
    <3>3. Reached(InsertToken(out, type, start, Len0), Len0, eof')
      BY <1>1, <1>2, <3>1, <3>2, InsertText
    <3> QED
      BY <3>2, <3>3
  <2>13. pos' \in 0..(Len0 + 1) /\ Ended(out', pos')
    BY <1>1, <2>10 DEF Ended
  <2> QED
    BY <1>1, <2>1, <2>10, <2>12, <2>13, GoesOn
<1>4. CASE LexError(NUL) /\ pos' = pos
  <2>1. out' = out /\ comment' = comment /\ mode' = "error"
    BY <1>4 DEF LexError
  <2>2. err' \in LexErrors
    <3>1. out.line \in Int /\ out.column \in Int
      BY <1>1 DEF TypeOK
    <3> QED
      BY <1>4, <3>1 DEF LexError, LexErrors
  <2>3. pos' \in 0..(Len0 + 1)
    BY <1>1, <1>4
  <2> QED
    BY <1>1, <2>1, <2>2, <2>3, ErrorEnds
<1> QED
  BY <1>3, <1>4 DEF LexAgain

LEMMA CommentSkipStep ==
  ASSUME LexInv, CommentSkip
  PROVE  LexInv'
<1>1. Len0 \in Nat /\ TypeOK
  BY DEF LexInv, TypeOK, Len0
<1>2. /\ mode = "comment" /\ pos < Len0
      /\ src' = src /\ eof' = eof /\ out' = out /\ mode' = mode /\ comment' = comment /\ err' = err
      /\ pos' = pos + 2 \/ pos' = pos + 1
  BY DEF CommentSkip
<1>3. Reached(out, comment, eof) /\ comment \in 0..(pos - 1) /\ ~eof
  BY <1>2 DEF LexInv, Reading
<1>4. pos \in Nat /\ eof \in BOOLEAN
  BY <1>1 DEF TypeOK
<1>5. comment' \in 0..(pos' - 1) /\ comment' \in 0..(Len0 - 1) /\ pos' \in 0..(Len0 + 1)
  BY <1>1, <1>2, <1>3, <1>4
<1> QED
  BY <1>1, <1>2, <1>3, <1>4, <1>5, CommentStarts

LEMMA CommentEndStep ==
  ASSUME LexInv, CommentEnd
  PROVE  LexInv'
<1>1. Len0 \in Nat /\ TypeOK
  BY DEF LexInv, TypeOK, Len0
<1>2. /\ mode = "comment" /\ mode' = "lexing"
      /\ src' = src /\ eof' = eof /\ comment' = comment /\ err' = err
  BY DEF CommentEnd
<1>3. Reached(out, comment, eof) /\ comment \in 0..(pos - 1) /\ ~eof
  BY <1>2 DEF LexInv, Reading
<1>4. pos \in 0..(Len0 + 1) /\ eof \in BOOLEAN
  BY <1>1 DEF TypeOK
<1>5. MultiComment \in TextTypes /\ MultiComment \in TokenTypes
  BY TypesOfTokens
<1>6. CASE /\ pos < Len0 /\ ClosesAt(pos)
           /\ out' = InsertToken(out, MultiComment, comment, pos + 2)
           /\ pos' = pos + 2
  <2>1. At(pos + 1) # NUL
    BY <1>6 DEF ClosesAt, NUL
  <2>2. pos + 2 <= Len0
    BY <1>1, <1>4, <2>1 DEF At
  <2>3. comment \in Nat /\ pos + 2 \in Nat /\ comment <= pos + 2
    BY <1>1, <1>3, <1>4
  <2>4. Reached(out', pos', eof')
    BY <1>2, <1>3, <1>4, <1>5, <1>6, <2>3, InsertNext
  <2>5. pos' \in 0..(Len0 + 1)
    BY <1>1, <1>4, <1>6, <2>2
  <2> QED
    BY <1>1, <1>2, <1>3, <1>4, <2>4, <2>5, GoesOn
<1>7. CASE /\ pos >= Len0
           /\ out' = InsertToken(out, MultiComment, comment, NoPtr)
           /\ UNCHANGED pos
  <2>1. comment \in Int
    BY <1>3
  <2>2. Kept(out, eof) /\ ColumnCounted(out)
    BY <1>3 DEF Reached
  <2>3. /\ Kept(out', eof) /\ ColumnCounted(out')
        /\ LastEnd(out') = NoPtr /\ Lost(out')
    <3>1. ExplainedAt(out, Coming(out), MultiComment, comment)
      BY <1>3, <1>5, <2>1, MayLoseExplains DEF Reached, Kept
    <3> QED
      BY <1>4, <1>5, <1>7, <2>1, <2>2, <3>1, InsertNoText
  <2>4. NoPtr <= pos
    BY <1>1, <1>4 DEF NoPtr
  <2>6. /\ From(out', Coming(out')) = comment /\ Coming(out') > 1
        /\ out'.tokens[Coming(out') - 1].type = MultiComment
        /\ ~HasText(out'.tokens[Coming(out') - 1])
    <3>1. Typed(out) /\ NoPtr \in Int
      BY <2>2 DEF Kept, NoPtr
    <3>2. /\ From(out', Coming(out')) = comment /\ Coming(out') > 1
          /\ out'.tokens[Coming(out') - 1] = Token(MultiComment, comment, NoPtr, out.line, out.column)
      BY <1>5, <1>7, <2>1, <3>1, InsertComing
    <3> QED
      BY <3>2 DEF Token, HasText
  <2>7. MayLose(out', pos)
    BY <2>6 DEF MayLose, Reason
  <2>5. Reached(out', pos', eof')
    BY <1>2, <1>3, <1>4, <1>7, <2>3, <2>4, <2>6, <2>7 DEF Reached
  <2> QED
    BY <1>1, <1>2, <1>3, <1>4, <1>7, <2>5, GoesOn
<1> QED
  BY <1>6, <1>7 DEF CommentEnd

LEMMA FinishStep ==
  ASSUME LexInv, Finish
  PROVE  LexInv'
<1>1. /\ mode = "lexing" /\ mode' = "done"
      /\ src' = src /\ pos' = pos /\ eof' = eof /\ comment' = comment /\ err' = err
      /\ out' = InsertStub(InsertStub(InsertStub(InsertStub(out))))
  BY DEF Finish
<1>2. TypeOK /\ eof \in BOOLEAN /\ Kept(out, eof) /\ ColumnCounted(out)
  BY <1>1 DEF LexInv, Reading, TypeOK, Reached
<1>7. <<"STUB">> \in TokenTypes /\ NoPtr \in Int
  BY TypesOfTokens DEF LongTypes, NoPtr
<1>8. ExplainedAt(out, Coming(out), <<"STUB">>, NoPtr)
  <2>1. Reached(out, pos, eof) /\ Ended(out, pos)
    BY <1>1 DEF LexInv, Reading, Finish
  <2>2. To(<<"STUB">>, NoPtr) = Len0
    BY DEF To
  <2> QED
    BY <2>1, <2>2 DEF ExplainedAt, Ended, Reached, MayLose
<1>3. ASSUME NEW o, Kept(o, eof), ColumnCounted(o), ExplainedAt(o, Coming(o), <<"STUB">>, NoPtr)
      PROVE  /\ Kept(InsertStub(o), eof) /\ ColumnCounted(InsertStub(o))
             /\ ExplainedAt(InsertStub(o), Coming(InsertStub(o)), <<"STUB">>, NoPtr)
  <2>1. Kept(InsertStub(o), eof) /\ ColumnCounted(InsertStub(o))
    BY <1>2, <1>3, <1>7, InsertNoText DEF InsertStub
  <2>2. /\ Coming(InsertStub(o)) > 1
        /\ InsertStub(o).tokens[Coming(InsertStub(o)) - 1]
             = Token(<<"STUB">>, NoPtr, NoPtr, o.line, o.column)
    BY <1>3, <1>7, InsertComing DEF InsertStub, Kept
  <2>3. IsStub(InsertStub(o).tokens[Coming(InsertStub(o)) - 1])
    BY <2>2 DEF IsStub, Token
  <2> QED
    BY <2>1, <2>2, <2>3 DEF ExplainedAt
<1>4. Kept(out', eof')
  BY <1>1, <1>2, <1>3, <1>8
<1>5. TypeOK'
  <2>1. Typed(out')
    BY <1>4 DEF Kept
  <2>2. Len0' = Len0
    BY <1>1 DEF Len0
  <2>3. Tokens' = Tokens /\ LexErrors' = LexErrors
    BY DEF Tokens, LexErrors
  <2> QED
    BY <1>1, <1>2, <2>1, <2>2, <2>3 DEF TypeOK, Typed
<1>6. Kept(out, eof)'
  BY <1>1, <1>4, SameKept
<1> QED
  BY <1>1, <1>5, <1>6 DEF LexInv, Reading

-----------------------------------------------------------------------------
(***************************************************************************)
(* The theorems                                                            *)
(***************************************************************************)

LEMMA InitInv ==
  ASSUME Init
  PROVE  LexInv
<1>1. out.tokens = <<>> /\ out.line = 1 /\ out.column = 1
  BY DEF Init
<1>2. src \in Seq(Alphabet)
  BY LexerAssumption DEF Init
<1>3. TypeOK
  <2>1. Len0 \in Nat
    BY <1>2 DEF Len0
  <2>2. err \in LexErrors
    BY DEF Init, LexErrors
  <2>3. pos \in 0..(Len0 + 1) /\ comment = NoPtr
    BY <2>1 DEF Init
  <2>4. eof \in BOOLEAN
    BY Zenon DEF Init
  <2>5. mode \in {"lexing", "comment", "done", "error"}
    BY DEF Init
  <2> QED
    BY <1>1, <1>2, <2>1, <2>2, <2>3, <2>4, <2>5 DEF TypeOK
<1>4. Kept(out, eof)
  BY <1>1 DEF Kept, Typed, LinesOf, Explained, ColumnsOf, OverlapsOf
<1>5. Reached(out, pos, eof)
  <2>1. LastEnd(out) = 0 /\ pos = 0 /\ From(out, Coming(out)) = 0
    BY <1>1 DEF LastEnd, Init, From, Coming
  <2>2. MayLose(out, pos)
    BY <2>1 DEF MayLose
  <2> QED
    BY <1>1, <1>4, <2>1, <2>2, AtStart DEF Reached, ColumnCounted
<1>6. ~eof /\ mode # "comment"
  BY DEF Init
<1> QED
  BY <1>3, <1>4, <1>5, <1>6 DEF LexInv, Reading

LEMMA StutterInv ==
  ASSUME LexInv, UNCHANGED vars
  PROVE  LexInv'
<1>1. /\ src' = src /\ pos' = pos /\ eof' = eof /\ out' = out
      /\ mode' = mode /\ comment' = comment /\ err' = err
  BY DEF vars
<1>2. TypeOK'
  BY <1>1 DEF LexInv, TypeOK, Len0, Tokens, LexErrors
<1>3. Kept(out, eof)'
  <2>1. Kept(out', eof')
    BY <1>1 DEF LexInv
  <2> QED
    BY <1>1, <2>1, SameKept
<1>4. /\ mode = "lexing" => Reached(out', pos', eof') /\ (eof' => Ended(out', pos'))
      /\ mode = "comment" => Reached(out', comment', eof')
  BY <1>1 DEF LexInv, Reading
<1>5. Reading'
  BY <1>1, <1>4, SameReached DEF LexInv, Reading
<1> QED
  BY <1>2, <1>3, <1>5 DEF LexInv

\* Every step of tokenize keeps the invariant: the types, what the properties
\* say of the tokens there are, and that the tokens are those of the text up to
\* the reading position or the start of the comment being read.
THEOREM LexerCorrect == Spec => []LexInv
<1>1. Init => LexInv
  BY InitInv
<1>2. LexInv /\ [Next]_vars => LexInv'
  <2>1. ASSUME LexInv, Next
        PROVE  LexInv'
    BY <2>1, DropDirectiveStep, IncludeDirectiveStep, DefineDirectiveStep, StringLiteralStep,
       WhitespaceStep, NumLiteralStep, WordTokenStep, SimpleTokenStep, LexAgainStep,
       CommentSkipStep, CommentEndStep, FinishStep DEF Next
  <2> QED
    BY <2>1, StutterInv
<1> QED
  BY <1>1, <1>2, PTL DEF Spec

\* The statics and the tokens keep their types; the reading position leaves
\* the source by one symbol at most.
THEOREM LexerTypeCorrect == Spec => []TypeOK
<1>1. LexInv => TypeOK
  BY DEF LexInv
<1> QED
  BY <1>1, LexerCorrect, PTL

\* insert_token numbers every token by the line its text starts on, whatever
\* text a directive lost before it.
THEOREM LexerLines == Spec => []LinesRight
<1>1. LexInv => LinesRight
  BY DEF LexInv, Kept, LinesOf, LinesRight, LostComment, Lost
<1> QED
  BY <1>1, LexerCorrect, PTL

\* As long as no text is lost, the column insert_token counts is the one the
\* token has in the file.
THEOREM LexerColumns == Spec => []ColumnsRight
<1>1. LexInv => ColumnsRight
  BY DEF LexInv, Kept, ColumnsOf, ColumnsRight
<1> QED
  BY <1>1, LexerCorrect, PTL

\* Whatever is in no token is the text of a directive without a tokenizer, what follows
\* a malformed "#include", the last symbol of a line comment that ends the file, or what
\* follows the start of a comment that is not closed.
THEOREM LexerLosses == Spec => []LossesExplained
<1>1. ASSUME LexInv
      PROVE  LossesExplained
  <2>1. SUFFICES ASSUME NEW i \in DOMAIN out.tokens,
                        i = 1 \/ ~IsStub(out.tokens[i - 1]), Gap(i) # {}
                 PROVE  \/ /\ \A p \in Gap(i) : At(p) \notin Spaces
                           /\ At(Behind(i)) = "#" \/ (i > 2 /\ out.tokens[i - 2].type = <<"INCLUDE">>)
                        \/ BehindCutComment(i) /\ Gap(i) = {Len0 - 1}
                        \/ BehindLostComment(i)
    BY DEF LossesExplained
  <2> DEFINE type == out.tokens[i].type
             start == out.tokens[i].start
  <2>2. ExplainedAt(out, i, type, start)
    BY <1>1 DEF LexInv, Kept, Explained
  <2>3. Behind(i) = From(out, i) /\ Ahead(i) = To(type, start)
    BY DEF Behind, From, Ahead, To, IsStub
  <2>4. From(out, i) \in Int /\ To(type, start) \in Int
    <3>1. Typed(out) /\ Len0 \in Int
      BY <1>1, Known
    <3>2. out.tokens \in Seq(Tokens)
      BY <3>1 DEF Typed
    <3>3. out.tokens[i] \in Tokens /\ (i # 1 => out.tokens[i - 1] \in Tokens)
      BY <3>2
    <3> QED
      BY <3>1, <3>3 DEF From, To, Tokens
  <2>5. IsStub(out.tokens[i]) <=> type = <<"STUB">>
    BY DEF IsStub
  <2> HIDE DEF type, start
  <2>6. Gap(i) = From(out, i)..(To(type, start) - 1) /\ From(out, i) < To(type, start)
    BY <2>1, <2>3, <2>4 DEF Gap
  <2>7. CASE Reason(out, i, To(type, start))
    BY <2>3, <2>6, <2>7 DEF Reason, BehindLostComment
  <2>8. CASE Cut(out, i) /\ type = <<"STUB">>
    <3>1. To(type, start) = Len0 /\ From(out, i) = Len0 - 1
      BY <2>8 DEF To, Cut
    <3>2. Gap(i) = {Len0 - 1}
      BY <2>4, <2>6, <3>1
    <3> QED
      BY <2>5, <2>8, <3>2 DEF Cut, BehindCutComment
  <2> QED
    BY <2>1, <2>2, <2>6, <2>7, <2>8 DEF ExplainedAt
<1>2. LexInv => LossesExplained
  BY <1>1
<1> QED
  BY <1>2, LexerCorrect, PTL

\* Only the last symbol of the source is ever given to two tokens, in the turn
\* of the loop behind the token that ends the file.
THEOREM LexerOverlaps == Spec => []OverlapsOnlyAtEnd
<1>1. LexInv => OverlapsOnlyAtEnd
  BY DEF LexInv, Kept, OverlapsOf, OverlapsOnlyAtEnd
<1> QED
  BY <1>1, LexerCorrect, PTL

-----------------------------------------------------------------------------
(***************************************************************************)
(* The ends of words, numbers and operators                                *)
(***************************************************************************)

\* What the two properties say of one token, by itself.
WordWhole(t) ==
  /\ t.type \in {<<"KEYWORD">>, <<"IDENTIFIER">>} => At(t.end) \notin Word
  /\ t.type = <<"NUM_LITERAL">> => At(t.end) \notin Digits
  /\ t.type = <<"KEYWORD">> => IsKeyword(Text(t.start, t.end))

OperatorWhole(t) ==
  t.type \in SimpleTokens \ {LineComment, MultiComment} /\ t.start + MaxTokenLen <= Len0 =>
    /\ Text(t.start, t.end) = t.type
    /\ \A longer \in (t.end + 1)..(t.start + MaxTokenLen) : Text(t.start, longer) \notin SimpleTokens

Whole(t) == WordWhole(t) /\ OperatorWhole(t)

\* Only a name that "#define" gives may be spelt like a keyword.
NameGiven(o, i, type, start, end) ==
  type = <<"IDENTIFIER">> /\ IsKeyword(Text(start, end)) =>
    i > 2 /\ o.tokens[i - 2].type = <<"DEFINE">>

AllWhole(o) ==
  \A i \in DOMAIN o.tokens :
    /\ Whole(o.tokens[i])
    /\ NameGiven(o, i, o.tokens[i].type, o.tokens[i].start, o.tokens[i].end)

\* The types whose tokens are read to an end of their own.
ClosedTypes == LongTypes \ {"KEYWORD", "IDENTIFIER", "NUM_LITERAL"}

\* The tokens whose type decides.
LEMMA LongTypeWhole ==
  ASSUME NEW type \in ClosedTypes, NEW a, NEW b, NEW line, NEW column
  PROVE  Whole(Token(<<type>>, a, b, line, column)) /\ <<type>> # <<"IDENTIFIER">>
<1>1. <<type>> \notin {<<"KEYWORD">>, <<"IDENTIFIER">>, <<"NUM_LITERAL">>}
  BY DEF ClosedTypes
<1>2. <<type>> \notin SimpleTokens
  BY DEF SimpleTokens, LongTypes, ClosedTypes
<1>3. Token(<<type>>, a, b, line, column).type = <<type>>
  BY DEF Token
<1> QED
  BY <1>1, <1>2, <1>3 DEF Whole, WordWhole, OperatorWhole

LEMMA CommentWhole ==
  ASSUME NEW type \in {LineComment, MultiComment}, NEW a, NEW b, NEW line, NEW column
  PROVE  Whole(Token(type, a, b, line, column)) /\ type # <<"IDENTIFIER">>
<1>1. type \notin {<<"KEYWORD">>, <<"IDENTIFIER">>, <<"NUM_LITERAL">>}
  BY DEF LineComment, MultiComment
<1>2. Token(type, a, b, line, column).type = type
  BY DEF Token
<1> QED
  BY <1>1, <1>2 DEF Whole, WordWhole, OperatorWhole

LEMMA InsertWhole ==
  ASSUME NEW o, Typed(o), AllWhole(o), NEW type \in TokenTypes, NEW a \in Int, NEW b \in Int,
         Whole(Token(type, a, b, o.line, o.column)), NameGiven(o, Coming(o), type, a, b)
  PROVE  AllWhole(InsertToken(o, type, a, b)) /\ Typed(InsertToken(o, type, a, b))
<1> DEFINE tokens == InsertToken(o, type, a, b).tokens
<1>1. /\ Len(tokens) = Len(o.tokens) + 1
      /\ DOMAIN tokens = 1..(Len(o.tokens) + 1)
      /\ DOMAIN o.tokens = 1..Len(o.tokens)
      /\ Len(o.tokens) \in Nat
      /\ \A i \in 1..Len(o.tokens) : tokens[i] = o.tokens[i]
      /\ tokens[Len(tokens)] = Token(type, a, b, o.line, o.column)
  BY InsertAppends
<1>2. Typed(InsertToken(o, type, a, b))
  BY InsertTyped
<1> HIDE DEF tokens
<1>3. ASSUME NEW i \in DOMAIN tokens
      PROVE  /\ Whole(tokens[i])
             /\ NameGiven(InsertToken(o, type, a, b), i, tokens[i].type, tokens[i].start, tokens[i].end)
  <2>0. i > 2 => i - 2 \in 1..Len(o.tokens) /\ tokens[i - 2] = o.tokens[i - 2]
    BY <1>1, <1>3
  <2>1. CASE i \in 1..Len(o.tokens)
    <3>1. /\ tokens[i] = o.tokens[i] /\ Whole(o.tokens[i])
          /\ NameGiven(o, i, o.tokens[i].type, o.tokens[i].start, o.tokens[i].end)
      BY <1>1, <2>1 DEF AllWhole
    <3> QED
      BY <2>0, <3>1 DEF NameGiven, tokens
  <2>2. CASE i = Len(o.tokens) + 1
    <3>1. tokens[i] = Token(type, a, b, o.line, o.column) /\ i = Coming(o)
      BY <1>1, <2>2 DEF Coming
    <3>2. tokens[i].type = type /\ tokens[i].start = a /\ tokens[i].end = b
      BY <3>1 DEF Token
    <3>3. NameGiven(o, i, tokens[i].type, tokens[i].start, tokens[i].end)
      BY <3>1, <3>2
    <3> QED
      BY <2>0, <3>1, <3>3 DEF NameGiven, tokens
  <2> QED
    BY <1>1, <1>3, <2>1, <2>2
<1> QED
  BY <1>2, <1>3 DEF AllWhole, tokens

LEMMA InsertLongWhole ==
  ASSUME NEW o, Typed(o), AllWhole(o), NEW type \in ClosedTypes,
         NEW a \in Int, NEW b \in Int
  PROVE  AllWhole(InsertToken(o, <<type>>, a, b)) /\ Typed(InsertToken(o, <<type>>, a, b))
<1>1. <<type>> \in TokenTypes
  BY TypesOfTokens DEF ClosedTypes
<1>2. Whole(Token(<<type>>, a, b, o.line, o.column))
  BY LongTypeWhole
<1>3. NameGiven(o, Coming(o), <<type>>, a, b)
  BY LongTypeWhole DEF NameGiven
<1> QED
  BY <1>1, <1>2, <1>3, InsertWhole

LEMMA InsertCommentWhole ==
  ASSUME NEW o, Typed(o), AllWhole(o), NEW type \in {LineComment, MultiComment},
         NEW a \in Int, NEW b \in Int
  PROVE  AllWhole(InsertToken(o, type, a, b))
<1>1. type \in TokenTypes
  BY TypesOfTokens
<1>2. Whole(Token(type, a, b, o.line, o.column))
  BY CommentWhole
<1>3. NameGiven(o, Coming(o), type, a, b)
  BY CommentWhole DEF NameGiven
<1> QED
  BY <1>1, <1>2, <1>3, InsertWhole

\* src never changes.
LEMMA SameWhole ==
  ASSUME src' = src, AllWhole(out')
  PROVE  AllWhole(out)'
<1>1. \A a, b : Text(a, b)' = Text(a, b)
  BY DEF Text, At, Len0
<1>2. AllWhole(out)' <=> AllWhole(out')
  BY <1>1, SameText DEF AllWhole, NameGiven, IsKeyword, Whole, WordWhole, OperatorWhole
<1> QED
  BY <1>2

-----------------------------------------------------------------------------
(***************************************************************************)
(* The steps                                                               *)
(***************************************************************************)

LEMMA RunInt ==
  ASSUME NEW p \in Int, NEW S, NEW q \in Run(p, S), Len0 \in Nat
  PROVE  q \in Int /\ Closed(q) \in Int
BY DEF Run, Closed

\* Behind a run there is a symbol of another kind, or the end of the source.
LEMMA RunEnds ==
  ASSUME NEW p, NEW S, NEW q \in Run(p, S)
  PROVE  At(q) \notin S \ {NUL}
BY DEF Run, At

LEMMA NameEnds ==
  ASSUME NEW p, NEW q \in Run(p, NonSpace)
  PROVE  At(q) \notin Word
<1>1. Word \subseteq NonSpace \ {NUL}
  BY LexerAssumption DEF Word, NonSpace
<1> QED
  BY <1>1, RunEnds

LEMMA DirectivesWhole ==
  ASSUME LexInv, AllWhole(out), IncludeDirective \/ DefineDirective
  PROVE  AllWhole(out')
<1>1. Typed(out) /\ Len0 \in Nat /\ pos \in Int
  BY Known
<1>2. ASSUME NEW type \in {"INCLUDE", "DEFINE"}, NEW word \in Int, NEW name \in Int
      PROVE  Typed(Directive(type, word, name)) /\ AllWhole(Directive(type, word, name))
  <2>1. /\ Typed(InsertToken(out, <<type>>, pos, word))
        /\ AllWhole(InsertToken(out, <<type>>, pos, word))
    <3>1. type \in ClosedTypes
      BY DEF LongTypes, ClosedTypes
    <3> QED
      BY <1>1, <1>2, <3>1, InsertLongWhole
  <2>2. "WHITESPACE" \in ClosedTypes
    BY DEF LongTypes, ClosedTypes
  <2> QED
    BY <1>2, <2>1, <2>2, InsertLongWhole DEF Directive
<1>3. "HEADER_NAME" \in ClosedTypes /\ "INCLUDE_PATH" \in ClosedTypes
  BY DEF LongTypes, ClosedTypes
<1>4. CASE IncludeDirective
  <2>1. PICK word \in Run(pos + 1, NonSpace) : \E name \in Run(word, Spaces) :
          LET named == Directive("INCLUDE", word, name) IN
          \/ \E close \in Run(name, Alphabet \ {">"}) :
               out' = InsertToken(named, <<"HEADER_NAME">>, name, Closed(close))
          \/ \E close \in Run(name + 1, Alphabet \ {Quote}) :
               out' = InsertToken(named, <<"INCLUDE_PATH">>, name, Closed(close))
          \/ out' = named
    BY <1>4 DEF IncludeDirective
  <2>2. PICK name \in Run(word, Spaces) :
          LET named == Directive("INCLUDE", word, name) IN
          \/ \E close \in Run(name, Alphabet \ {">"}) :
               out' = InsertToken(named, <<"HEADER_NAME">>, name, Closed(close))
          \/ \E close \in Run(name + 1, Alphabet \ {Quote}) :
               out' = InsertToken(named, <<"INCLUDE_PATH">>, name, Closed(close))
          \/ out' = named
    BY <2>1
  <2>3. word \in Int
    <3>1. pos + 1 \in Int
      BY <1>1
    <3> QED
      BY <1>1, <3>1, RunInt
  <2>4. name \in Int /\ name + 1 \in Int
    BY <1>1, <2>3, RunInt
  <2>5. Typed(Directive("INCLUDE", word, name)) /\ AllWhole(Directive("INCLUDE", word, name))
    BY <1>2, <2>3, <2>4
  <2>6. ASSUME NEW close \in Run(name, Alphabet \ {">"})
        PROVE  AllWhole(InsertToken(Directive("INCLUDE", word, name), <<"HEADER_NAME">>, name, Closed(close)))
    <3>1. Closed(close) \in Int
      BY <1>1, <2>4, <2>6, RunInt
    <3> QED
      BY <1>3, <2>4, <2>5, <3>1, InsertLongWhole
  <2>7. ASSUME NEW close \in Run(name + 1, Alphabet \ {Quote})
        PROVE  AllWhole(InsertToken(Directive("INCLUDE", word, name), <<"INCLUDE_PATH">>, name, Closed(close)))
    <3>1. Closed(close) \in Int
      BY <1>1, <2>4, <2>7, RunInt
    <3> QED
      BY <1>3, <2>4, <2>5, <3>1, InsertLongWhole
  <2> QED
    BY <2>2, <2>5, <2>6, <2>7
<1>5. CASE DefineDirective
  <2>1. PICK word \in Run(pos + 1, NonSpace) : \E name \in Run(word, Spaces) : \E end \in Run(name, NonSpace) :
          out' = InsertToken(Directive("DEFINE", word, name), <<"IDENTIFIER">>, name, end)
    BY <1>5 DEF DefineDirective
  <2>2. PICK name \in Run(word, Spaces) : \E end \in Run(name, NonSpace) :
          out' = InsertToken(Directive("DEFINE", word, name), <<"IDENTIFIER">>, name, end)
    BY <2>1
  <2>3. PICK end \in Run(name, NonSpace) :
          out' = InsertToken(Directive("DEFINE", word, name), <<"IDENTIFIER">>, name, end)
    BY <2>2
  <2>4. word \in Int
    <3>1. pos + 1 \in Int
      BY <1>1
    <3> QED
      BY <1>1, <3>1, RunInt
  <2>5. name \in Int
    BY <1>1, <2>4, RunInt
  <2>6. end \in Int /\ At(end) \notin Word
    BY <1>1, <2>5, RunInt, NameEnds
  <2>7. Typed(Directive("DEFINE", word, name)) /\ AllWhole(Directive("DEFINE", word, name))
    BY <1>2, <2>4, <2>5
  <2> DEFINE o == Directive("DEFINE", word, name)
  <2>8. NameGiven(o, Coming(o), <<"IDENTIFIER">>, name, end)
    BY <1>1, <2>4, <2>5, DirectiveInFront DEF NameGiven
  <2>9. Whole(Token(<<"IDENTIFIER">>, name, end, o.line, o.column))
    <3>1. <<"IDENTIFIER">> \notin SimpleTokens
      BY DEF SimpleTokens
    <3> HIDE DEF o
    <3> QED
      BY <2>6, <3>1 DEF Token, Whole, WordWhole, OperatorWhole
  <2>10. <<"IDENTIFIER">> \in TokenTypes /\ Typed(o) /\ AllWhole(o) /\ out' = InsertToken(o, <<"IDENTIFIER">>, name, end)
    BY <2>3, <2>7, TypesOfTokens DEF LongTypes
  <2> HIDE DEF o
  <2> QED
    BY <2>5, <2>6, <2>8, <2>9, <2>10, InsertWhole
<1> QED
  BY <1>4, <1>5

\* One token that is neither an operator nor a word nor a number, behind the others.
LEMMA OneLongWhole ==
  ASSUME LexInv, AllWhole(out), NEW type \in ClosedTypes, NEW end \in Int,
         out' = InsertToken(out, <<type>>, pos, end)
  PROVE  AllWhole(out')
BY Known, InsertLongWhole

LEMMA LiteralsWhole ==
  ASSUME LexInv, AllWhole(out), StringLiteral \/ Whitespace \/ NumLiteral
  PROVE  AllWhole(out')
<1>1. Len0 \in Nat /\ pos \in Int /\ pos + 1 \in Int
  BY Known
<1>2. "S_CHAR_SEQ" \in ClosedTypes /\ "WHITESPACE" \in ClosedTypes
  BY DEF LongTypes, ClosedTypes
<1>3. CASE StringLiteral
  <2>1. PICK close \in Run(pos + 1, Alphabet \ {Quote}) :
          out' = InsertToken(out, <<"S_CHAR_SEQ">>, pos, Closed(close))
    BY <1>3 DEF StringLiteral
  <2>2. Closed(close) \in Int
    BY <1>1, RunInt
  <2> QED
    BY <1>2, <2>1, <2>2, OneLongWhole
<1>4. CASE Whitespace
  <2>1. PICK end \in Run(pos, Spaces) : out' = InsertToken(out, <<"WHITESPACE">>, pos, end)
    BY <1>4 DEF Whitespace
  <2>2. end \in Int
    BY <1>1, RunInt
  <2> QED
    BY <1>2, <2>1, <2>2, OneLongWhole
<1>5. CASE NumLiteral
  <2>1. PICK end \in Run(pos, Digits) : out' = InsertToken(out, <<"NUM_LITERAL">>, pos, end)
    BY <1>5 DEF NumLiteral
  <2>2. end \in Int
    BY <1>1, RunInt
  <2>3. At(end) \notin Digits
    <3>1. NUL \notin Digits
      BY LexerAssumption
    <3> QED
      BY <3>1, RunEnds
  <2>4. <<"NUM_LITERAL">> \in TokenTypes /\ <<"NUM_LITERAL">> \notin SimpleTokens
        /\ <<"NUM_LITERAL">> \notin {<<"KEYWORD">>, <<"IDENTIFIER">>}
    BY TypesOfTokens DEF LongTypes, SimpleTokens
  <2>5. Whole(Token(<<"NUM_LITERAL">>, pos, end, out.line, out.column))
    BY <2>3, <2>4 DEF Token, Whole, WordWhole, OperatorWhole
  <2>6. NameGiven(out, Coming(out), <<"NUM_LITERAL">>, pos, end)
    BY <2>4 DEF NameGiven
  <2> QED
    BY <1>1, <2>1, <2>2, <2>4, <2>5, <2>6, InsertWhole, Known
<1> QED
  BY <1>3, <1>4, <1>5

\* A run of letters and digits stops at a symbol that is neither.
LEMMA WordTokenWhole ==
  ASSUME LexInv, AllWhole(out), WordToken
  PROVE  AllWhole(out')
<1>1. Typed(out) /\ Len0 \in Nat /\ pos \in Nat
  BY Known
<1>2. PICK end \in Run(pos, Word) :
        out' = InsertToken(out, IF IsKeyword(Text(pos, end)) THEN <<"KEYWORD">> ELSE <<"IDENTIFIER">>,
                           pos, end)
  BY DEF WordToken
<1>3. end \in Nat
  BY <1>1, RunStops
<1>4. At(end) \notin Word
  <2>1. NUL \notin Word
    BY LexerAssumption DEF Word
  <2> QED
    BY <2>1, RunEnds
<1>5. PICK type \in {<<"KEYWORD">>, <<"IDENTIFIER">>} :
        /\ out' = InsertToken(out, type, pos, end)
        /\ type = <<"KEYWORD">> <=> IsKeyword(Text(pos, end))
  BY <1>2
<1>6. type \in TokenTypes /\ type \notin SimpleTokens
  <2>1. <<"KEYWORD">> \in TokenTypes /\ <<"IDENTIFIER">> \in TokenTypes
    BY TypesOfTokens DEF LongTypes
  <2>2. <<"KEYWORD">> \notin SimpleTokens /\ <<"IDENTIFIER">> \notin SimpleTokens
    BY DEF SimpleTokens
  <2> QED
    BY <1>5, <2>1, <2>2
<1>7. Whole(Token(type, pos, end, out.line, out.column))
  BY <1>4, <1>5, <1>6 DEF Token, Whole, WordWhole, OperatorWhole
<1>8. NameGiven(out, Coming(out), type, pos, end)
  BY <1>5 DEF NameGiven
<1> QED
  BY <1>1, <1>3, <1>5, <1>6, <1>7, <1>8, InsertWhole

\* The longest match, where three texts fit.
LEMMA SimpleWhole ==
  ASSUME Len0 \in Nat, NEW p \in Int, NEW l \in Longest(p), NEW line, NEW column
  PROVE  /\ SpanEnd(p, l) \in Int
         /\ Text(p, p + l) \in SimpleTokens
         /\ Whole(Token(Text(p, p + l), p, SpanEnd(p, l), line, column))
<1>1. TextsTried(p) \in Int
  BY DEF TextsTried, MaxTokenLen
<1>2. l \in 1..TextsTried(p) /\ Text(p, p + l) \in SimpleTokens
  BY DEF Longest, Matches
<1>3. SpanEnd(p, l) \in Int
  BY <1>1, <1>2 DEF SpanEnd, MaxTokenLen
<1> DEFINE t == Token(Text(p, p + l), p, SpanEnd(p, l), line, column)
<1>4. t.type = Text(p, p + l) /\ t.start = p /\ t.end = SpanEnd(p, l)
  BY DEF Token
<1> HIDE DEF t
<1>5. WordWhole(t)
  <2>1. {<<"KEYWORD">>, <<"IDENTIFIER">>, <<"NUM_LITERAL">>} \cap SimpleTokens = {}
    BY DEF SimpleTokens
  <2> QED
    BY <1>2, <1>4, <2>1 DEF WordWhole
<1>6. ASSUME p + MaxTokenLen <= Len0
      PROVE  /\ SpanEnd(p, l) = p + l
             /\ \A longer \in (p + l + 1)..(p + MaxTokenLen) : Text(p, longer) \notin SimpleTokens
  <2>1. TextsTried(p) = 3
    BY <1>6 DEF TextsTried, MaxTokenLen
  <2>2. SpanEnd(p, l) = p + l
    BY <1>2, <2>1 DEF SpanEnd, MaxTokenLen
  <2>3. ASSUME NEW longer \in (p + l + 1)..(p + MaxTokenLen), Text(p, longer) \in SimpleTokens
        PROVE  FALSE
    <3>1. PICK m \in Int : longer = p + m /\ m \in 1..3 /\ m > l
      <4>1. longer \in Int /\ p + l + 1 <= longer /\ longer <= p + 3 /\ l \in Int /\ 1 <= l
        BY <1>1, <1>2, <2>3 DEF MaxTokenLen
      <4>2. longer - p \in Int /\ longer = p + (longer - p) /\ longer - p \in 1..3 /\ longer - p > l
        BY <4>1
      <4> QED
        BY <4>2
    <3>2. m \in Matches(p)
      BY <2>1, <2>3, <3>1 DEF Matches
    <3>3. m <= l
      BY <3>2 DEF Longest
    <3> QED
      BY <1>1, <1>2, <3>1, <3>3
  <2> QED
    BY <2>2, <2>3
<1>7. OperatorWhole(t)
  BY <1>4, <1>6 DEF OperatorWhole
<1> QED
  BY <1>2, <1>3, <1>5, <1>7 DEF Whole, t

LEMMA InsertSimpleWhole ==
  ASSUME Len0 \in Nat, Typed(out), AllWhole(out), NEW p \in Int, NEW l \in Longest(p),
         InsertSimple(p, l)
  PROVE  AllWhole(out')
<1>1. CASE out' = out
  BY <1>1
<1>2. CASE out' = InsertToken(out, Text(p, p + l), p, SpanEnd(p, l))
  <2>1. /\ SpanEnd(p, l) \in Int /\ Text(p, p + l) \in TokenTypes
        /\ Whole(Token(Text(p, p + l), p, SpanEnd(p, l), out.line, out.column))
    BY SimpleWhole, TypesOfTokens
  <2>2. NameGiven(out, Coming(out), Text(p, p + l), p, SpanEnd(p, l))
    <3>1. Text(p, p + l) \in SimpleTokens /\ <<"IDENTIFIER">> \notin SimpleTokens
      BY SimpleWhole DEF SimpleTokens
    <3> QED
      BY <3>1 DEF NameGiven
  <2> QED
    BY <1>2, <2>1, <2>2, InsertWhole
<1> QED
  BY <1>1, <1>2 DEF InsertSimple

LEMMA SimpleTokenWhole ==
  ASSUME LexInv, AllWhole(out), SimpleToken
  PROVE  AllWhole(out')
<1>1. Typed(out) /\ Len0 \in Nat /\ pos \in Int
  BY Known
<1>2. CASE \E l \in Longest(pos) : InsertSimple(pos, l)
  BY <1>1, <1>2, InsertSimpleWhole
<1>3. CASE \E l \in Longest(pos) : InsertLineComment(pos, l)
  <2>1. PICK l \in Longest(pos) : InsertLineComment(pos, l)
    BY <1>3
  <2>2. PICK newline \in Run(SpanEnd(pos, l), Alphabet \ {LF}) :
          out' = InsertToken(out, LineComment, pos, IF newline < Len0 THEN newline ELSE Len0 - 1)
    BY <2>1 DEF InsertLineComment
  <2>3. SpanEnd(pos, l) \in Int
    BY <1>1, SimpleWhole
  <2>4. newline \in Int
    BY <1>1, <2>3, RunInt
  <2>5. (IF newline < Len0 THEN newline ELSE Len0 - 1) \in Int
    BY <1>1, <2>4
  <2> QED
    BY <1>1, <2>2, <2>5, InsertCommentWhole
<1>4. CASE UNCHANGED out
  BY <1>4
<1> QED
  BY <1>2, <1>3, <1>4 DEF SimpleToken, LexError

LEMMA LexAgainWhole ==
  ASSUME LexInv, AllWhole(out), LexAgain
  PROVE  AllWhole(out')
<1>1. Typed(out) /\ Len0 \in Nat /\ pos - 1 \in Int
  BY Known
<1>2. CASE \E l \in Longest(pos - 1) : InsertSimple(pos - 1, l)
  BY <1>1, <1>2, InsertSimpleWhole
<1>3. CASE UNCHANGED out
  BY <1>3
<1> QED
  BY <1>2, <1>3 DEF LexAgain, LexError

LEMMA CommentEndWhole ==
  ASSUME LexInv, AllWhole(out), CommentEnd
  PROVE  AllWhole(out')
<1>1. Typed(out) /\ comment \in Int /\ pos + 2 \in Int /\ NoPtr \in Int
  BY Known DEF NoPtr
<1>2. PICK end \in {pos + 2, NoPtr} : out' = InsertToken(out, MultiComment, comment, end)
  BY DEF CommentEnd
<1>3. end \in Int
  BY <1>1, <1>2
<1> QED
  BY <1>1, <1>2, <1>3, InsertCommentWhole

LEMMA FinishWhole ==
  ASSUME LexInv, AllWhole(out), Finish
  PROVE  AllWhole(out')
<1>1. "STUB" \in ClosedTypes /\ NoPtr \in Int
  BY DEF LongTypes, ClosedTypes, NoPtr
<1>2. ASSUME NEW o, Typed(o), AllWhole(o)
      PROVE  Typed(InsertStub(o)) /\ AllWhole(InsertStub(o))
  BY <1>1, <1>2, InsertLongWhole DEF InsertStub
<1>3. out' = InsertStub(InsertStub(InsertStub(InsertStub(out))))
  BY DEF Finish
<1> QED
  BY <1>2, <1>3, Known

-----------------------------------------------------------------------------
(***************************************************************************)
(* The theorems                                                            *)
(***************************************************************************)

\* Every token tokenize has made is whole, at every step.
THEOREM LexerWhole == Spec => [](LexInv /\ AllWhole(out))
<1>1. Init => AllWhole(out)
  BY DEF Init, AllWhole
<1>2. ASSUME LexInv, AllWhole(out), [Next]_vars
      PROVE  AllWhole(out)'
  <2>1. src' = src
    BY <1>2 DEF Next, vars, Lexing, DropDirective, IncludeDirective, DefineDirective, StringLiteral,
       Whitespace, NumLiteral, WordToken, SimpleToken, LexAgain, CommentSkip, CommentEnd, Finish
  <2>2. DropDirective \/ CommentSkip \/ UNCHANGED vars => out' = out
    BY DEF DropDirective, CommentSkip, vars
  <2>3. CASE Next
    <3>1. CASE DropDirective \/ CommentSkip
      <4>1. AllWhole(out')
        BY <1>2, <2>2, <3>1
      <4> QED
        BY <2>1, <4>1, SameWhole
    <3>2. CASE IncludeDirective \/ DefineDirective
      BY <1>2, <2>1, <3>2, DirectivesWhole, SameWhole
    <3>3. CASE StringLiteral \/ Whitespace \/ NumLiteral
      BY <1>2, <2>1, <3>3, LiteralsWhole, SameWhole
    <3>4. CASE WordToken \/ SimpleToken \/ LexAgain
      BY <1>2, <2>1, <3>4, WordTokenWhole, SimpleTokenWhole, LexAgainWhole, SameWhole
    <3>5. CASE CommentEnd \/ Finish
      BY <1>2, <2>1, <3>5, CommentEndWhole, FinishWhole, SameWhole
    <3> QED
      BY <2>3, <3>1, <3>2, <3>3, <3>4, <3>5 DEF Next
  <2>4. CASE UNCHANGED vars
    <3>1. AllWhole(out')
      BY <1>2, <2>2, <2>4
    <3> QED
      BY <2>1, <3>1, SameWhole
  <2> QED
    BY <1>2, <2>3, <2>4
<1> QED
  BY <1>1, <1>2, LexerCorrect, PTL DEF Spec

\* The longest operator counts: a--b is never a, -, -, b, wherever three
\* symbols are left in the file.
THEOREM LexerOperators == Spec => []OperatorsWhole
<1>1. AllWhole(out) => OperatorsWhole
  BY DEF AllWhole, Whole, OperatorWhole, OperatorsWhole
<1> QED
  BY <1>1, LexerWhole, PTL

\* No letter or digit touches a word from behind and no digit a number, and of all the
\* words only keywords and the names of definitions are spelt like keywords.
THEOREM LexerWords == Spec => []WordsWhole
<1>1. AllWhole(out) => WordsWhole
  BY DEF AllWhole, Whole, WordWhole, NameGiven, WordsWhole
<1> QED
  BY <1>1, LexerWhole, PTL

-----------------------------------------------------------------------------
(***************************************************************************)
(* Plain sources: tokenize stops at their last symbol, a newline, only     *)
(* when it has met their end, so that it never steps back onto it.         *)
(***************************************************************************)

\* The tokens cover the text up to p.
Covers(o, p) ==
  /\ o.tokens # <<>> => Contiguous(o.tokens, Len(o.tokens))
  /\ LastEnd(o) = p

PlainInv ==
  PlainSource =>
    /\ mode # "comment"
    /\ mode = "lexing" => Covers(out, pos) /\ (IF eof THEN pos = Len0 ELSE pos < Len0)
    /\ PlainSourceKept

\* A token that starts where the text read so far ends.
LEMMA InsertCovers ==
  ASSUME NEW o, Typed(o), NEW type \in TokenTypes, NEW a \in Nat, NEW b \in Nat, Covers(o, a)
  PROVE  Covers(InsertToken(o, type, a, b), b)
<1> DEFINE tokens == InsertToken(o, type, a, b).tokens
           n == Len(o.tokens)
<1>1. /\ Len(tokens) = n + 1 /\ n \in Nat
      /\ \A i \in 1..n : tokens[i] = o.tokens[i]
      /\ tokens[Len(tokens)] = Token(type, a, b, o.line, o.column)
      /\ tokens # <<>>
      /\ o.tokens = <<>> <=> n = 0
  BY InsertAppends
<1> HIDE DEF tokens
<1>2. tokens[n + 1].start = a /\ tokens[n + 1].end = b
  BY <1>1 DEF Token
<1>3. CASE n = 0
  <2>1. a = 0
    BY <1>1, <1>3 DEF Covers, LastEnd
  <2>2. Contiguous(tokens, Len(tokens))
    BY <1>1, <1>2, <1>3, <2>1 DEF Contiguous
  <2> QED
    BY <1>1, <1>2, <2>2 DEF Covers, LastEnd, tokens
<1>4. CASE n # 0
  <2>1. Contiguous(o.tokens, n) /\ o.tokens[n].end = a
    BY <1>1, <1>4 DEF Covers, LastEnd
  <2>2. tokens[1].start = 0
    BY <1>1, <1>4, <2>1 DEF Contiguous
  <2>3. ASSUME NEW j \in 1..n PROVE tokens[j].end \in Nat /\ tokens[j + 1].start = tokens[j].end
    <3>1. CASE j = n
      BY <1>1, <1>2, <2>1, <3>1
    <3>2. CASE j # n
      <4>1. j \in 1..(n - 1) /\ j + 1 \in 1..n
        BY <1>1, <3>2
      <4> QED
        BY <1>1, <2>1, <4>1 DEF Contiguous
    <3> QED
      BY <3>1, <3>2
  <2>4. Contiguous(tokens, Len(tokens))
    BY <1>1, <2>2, <2>3 DEF Contiguous
  <2> QED
    BY <1>1, <1>2, <2>4 DEF Covers, LastEnd, tokens
<1> QED
  BY <1>3, <1>4

\* No simple token has a newline in it.
LEMMA NoBreak ==
  ASSUME NEW type \in SimpleTokens, NEW i \in DOMAIN type
  PROVE  type[i] # LF
<1>1. \A a : a # LF => \A j \in DOMAIN <<a>> : <<a>>[j] # LF
  OBVIOUS
<1>2. \A a, b : a # LF /\ b # LF => \A j \in DOMAIN <<a, b>> : <<a, b>>[j] # LF
  OBVIOUS
<1>3. \A a, b, c : a # LF /\ b # LF /\ c # LF => \A j \in DOMAIN <<a, b, c>> : <<a, b, c>>[j] # LF
  OBVIOUS
<1>4. \/ \E a : a # LF /\ type = <<a>>
      \/ \E a, b : a # LF /\ b # LF /\ type = <<a, b>>
      \/ \E a, b, c : a # LF /\ b # LF /\ c # LF /\ type = <<a, b, c>>
  BY DEF SimpleTokens, LF
<1> QED
  BY <1>1, <1>2, <1>3, <1>4

\* In a plain source a simple token ends before the last symbol.
LEMMA PlainSpan ==
  ASSUME PlainSource, Len0 \in Nat, NEW p \in Nat, p < Len0, At(p) # LF, NEW l \in Longest(p)
  PROVE  /\ SpanEnd(p, l) \in Nat /\ p < SpanEnd(p, l) /\ SpanEnd(p, l) < Len0
         /\ Text(p, p + l) \in SimpleTokens /\ Text(p, p + l) # MultiComment
<1>1. l \in Matches(p)
  BY LongestMatches
<1>2. /\ SpanEnd(p, l) \in Nat /\ p < SpanEnd(p, l) /\ SpanEnd(p, l) <= Len0
      /\ Text(p, p + l) \in SimpleTokens
  BY <1>1, SpanEnds
<1>3. p + 1 < Len0
  BY DEF PlainSource
<1>4. l \in 1..TextsTried(p) /\ TextsTried(p) \in 0..3 /\ p + TextsTried(p) <= Len0
  BY <1>1 DEF Matches, TextsTried, MaxTokenLen
<1>5. Len(Text(p, p + l)) = l /\ DOMAIN Text(p, p + l) = 1..l /\ Text(p, p + l)[l] = At(p + l - 1)
  BY <1>4 DEF Text
<1>6. SpanEnd(p, l) # Len0
  <2>1. At(p + l - 1) # LF
    BY <1>2, <1>4, <1>5, NoBreak
  <2>2. p + l - 1 # Len0 - 1
    BY <2>1 DEF PlainSource
  <2> QED
    BY <1>3, <1>4, <2>2 DEF SpanEnd, MaxTokenLen
<1>7. Text(p, p + l) # MultiComment
  <2> SUFFICES ASSUME Text(p, p + l) = MultiComment PROVE FALSE
    OBVIOUS
  <2>1. l = 2
    BY <1>5 DEF MultiComment
  <2> QED
    BY <2>1 DEF PlainSource
<1> QED
  BY <1>2, <1>6, <1>7

\* src never changes.
LEMMA SamePlain ==
  ASSUME src' = src
  PROVE  (PlainSource' <=> PlainSource) /\ Len0' = Len0
<1>1. Len0' = Len0 /\ \A a, b : Text(a, b)' = Text(a, b) /\ At(a)' = At(a)
  BY DEF Len0, Text, At
<1> QED
  BY <1>1 DEF PlainSource

\* Nothing is said of the other sources.
LEMMA NotPlain ==
  ASSUME src' = src, ~PlainSource
  PROVE  PlainInv'
BY SamePlain DEF PlainInv

\* Nor of one that ends in an error.
LEMMA ErrorPlain ==
  ASSUME mode' = "error"
  PROVE  PlainInv'
BY DEF PlainInv, PlainSourceKept

\* What a step that goes on lexing has to show.
LEMMA PlainGoesOn ==
  ASSUME src' = src, mode' = "lexing", PlainSource => Covers(out', pos') /\ (IF eof' THEN pos' = Len0 ELSE pos' < Len0)
  PROVE  PlainInv'
<1>1. (PlainSource' <=> PlainSource) /\ Len0' = Len0
  BY SamePlain
<1>2. Covers(out, pos)' <=> Covers(out', pos')
  BY DEF Covers, LastEnd, Contiguous
<1> QED
  BY <1>1, <1>2 DEF PlainInv, PlainSourceKept

\* A step of the loop that inserts one token.
LEMMA PlainOneText ==
  ASSUME LexInv, PlainInv, NEW S, Lexing(S), mode' = mode, NEW type \in TokenTypes,
         NEW end \in Nat, out' = InsertToken(out, type, pos, end), pos' = end,
         PlainSource => IF eof' THEN end = Len0 ELSE end < Len0
  PROVE  PlainInv'
<1>1. pos \in Nat /\ mode = "lexing" /\ src' = src /\ Typed(out)
  BY Begins, Known
<1>2. PlainSource => Covers(out', pos')
  BY <1>1, InsertCovers DEF PlainInv
<1> QED
  BY <1>1, <1>2, PlainGoesOn

\* A plain source has no directive.
LEMMA DirectivesPlain ==
  ASSUME LexInv, PlainInv, DropDirective \/ IncludeDirective \/ DefineDirective
  PROVE  PlainInv'
<1>1. Lexing({"#"}) /\ mode' = mode
  BY DEF DropDirective, IncludeDirective, DefineDirective
<1>2. pos \in Nat /\ pos < Len0 /\ At(pos) \in {"#"} /\ mode = "lexing" /\ src' = src
  BY <1>1, Begins
<1>3. Len0 \in Nat
  BY Known
<1>4. ~PlainSource
  BY <1>2, <1>3 DEF PlainSource
<1> QED
  BY <1>1, <1>2, <1>4, PlainGoesOn

\* A text or a run that stops before the newline at the end leaves eof unset; one
\* that takes it meets the end.
LEMMA LiteralsPlain ==
  ASSUME LexInv, PlainInv, StringLiteral \/ Whitespace \/ NumLiteral \/ WordToken
  PROVE  PlainInv'
<1>1. Len0 \in Nat /\ pos \in Nat
  BY Known
<1>2. /\ <<"S_CHAR_SEQ">> \in TokenTypes /\ <<"WHITESPACE">> \in TokenTypes /\ <<"NUM_LITERAL">> \in TokenTypes
      /\ <<"KEYWORD">> \in TokenTypes /\ <<"IDENTIFIER">> \in TokenTypes
  BY TypesOfTokens DEF LongTypes
<1>3. ASSUME NEW S, Lexing(S), mode' = mode, NEW R, NEW end \in Run(pos, R), ReadTo(end),
             NEW type \in TokenTypes, out' = InsertToken(out, type, pos, end)
      PROVE  PlainInv'
  <2>1. end \in Nat /\ end <= Len0
    BY <1>1, <1>3, RunStops
  <2>2. pos' = end /\ eof' = (end = Len0)
    BY <1>3 DEF ReadTo
  <2>3. end = Len0 \/ end < Len0
    BY <1>1, <2>1
  <2>4. IF eof' THEN end = Len0 ELSE end < Len0
    BY <2>2, <2>3, Zenon
  <2> QED
    BY <1>3, <2>1, <2>2, <2>4, PlainOneText
<1>4. CASE StringLiteral
  <2>1. PICK close \in Run(pos + 1, Alphabet \ {Quote}) :
          /\ out' = InsertToken(out, <<"S_CHAR_SEQ">>, pos, Closed(close))
          /\ pos' = Closed(close) /\ eof' = (close = Len0)
    BY <1>4 DEF StringLiteral
  <2>2. /\ close \in Nat /\ close <= Len0 /\ Closed(close) \in Nat
        /\ close = Len0 \/ At(close) = Quote
    <3>1. /\ close \in Nat /\ close <= Len0 /\ Closed(close) \in Nat
          /\ close = Len0 \/ At(close) \notin Alphabet \ {Quote}
      BY <1>1, RunStops
    <3>2. close < Len0 => At(close) \in Alphabet
      <4>1. src \in Seq(Alphabet)
        BY Known DEF TypeOK
      <4> QED
        BY <3>1, <4>1 DEF At, Len0
    <3> QED
      BY <1>1, <3>1, <3>2
  <2>3. PlainSource => IF eof' THEN Closed(close) = Len0 ELSE Closed(close) < Len0
    <3>1. CASE close = Len0
      <4>1. Closed(close) = Len0
        BY <1>1, <3>1 DEF Closed
      <4> QED
        BY <2>1, <3>1, <4>1, Zenon
    <3>2. CASE close # Len0
      <4>1. PlainSource => close # Len0 - 1
        BY <2>2, <3>2 DEF PlainSource, Quote, LF
      <4>2. PlainSource => Closed(close) < Len0
        BY <1>1, <2>2, <3>2, <4>1 DEF Closed
      <4> QED
        BY <2>1, <3>2, <4>2, Zenon
    <3> QED
      BY <3>1, <3>2
  <2> QED
    BY <1>2, <1>4, <2>1, <2>2, <2>3, PlainOneText DEF StringLiteral
<1>5. CASE Whitespace
  BY <1>2, <1>3, <1>5 DEF Whitespace
<1>6. CASE NumLiteral
  BY <1>2, <1>3, <1>6 DEF NumLiteral
<1>7. CASE WordToken
  <2>1. PICK end \in Run(pos, Word) :
          /\ out' = InsertToken(out, IF IsKeyword(Text(pos, end)) THEN <<"KEYWORD">> ELSE <<"IDENTIFIER">>, pos, end)
          /\ ReadTo(end)
    BY <1>7 DEF WordToken
  <2>2. PICK type \in TokenTypes : out' = InsertToken(out, type, pos, end)
    BY <1>2, <2>1
  <2> QED
    BY <1>3, <1>7, <2>1, <2>2 DEF WordToken
<1> QED
  BY <1>4, <1>5, <1>6, <1>7

\* Operators and line comments stop before the newline at the end.
LEMMA SimpleTokenPlain ==
  ASSUME LexInv, PlainInv, SimpleToken
  PROVE  PlainInv'
<1>1. /\ Typed(out) /\ Len0 \in Nat /\ pos \in Nat /\ pos < Len0
      /\ mode = "lexing" /\ eof = FALSE /\ src' = src /\ At(pos) # LF
  <2>1. eof \in BOOLEAN
    BY Known DEF TypeOK
  <2> QED
    BY <2>1, Known DEF SimpleToken, IsSimple, Spaces
<1>2. PlainSource => Covers(out, pos)
  BY <1>1 DEF PlainInv
<1>3. CASE \E l \in Longest(pos) : InsertSimple(pos, l) /\ UNCHANGED <<eof, err>>
  <2>1. PICK l \in Longest(pos) : InsertSimple(pos, l) /\ UNCHANGED <<eof, err>>
    BY <1>3
  <2>2. CASE PlainSource
    <3>1. /\ SpanEnd(pos, l) \in Nat /\ SpanEnd(pos, l) < Len0
          /\ Text(pos, pos + l) \in TokenTypes /\ Text(pos, pos + l) # MultiComment
      BY <1>1, <2>2, PlainSpan, TypesOfTokens
    <3>2. /\ out' = InsertToken(out, Text(pos, pos + l), pos, SpanEnd(pos, l))
          /\ pos' = SpanEnd(pos, l) /\ mode' = mode /\ eof' = FALSE
      BY <1>1, <2>1, <3>1 DEF InsertSimple
    <3>3. Covers(out', pos')
      BY <1>1, <1>2, <2>2, <3>1, <3>2, InsertCovers
    <3> QED
      BY <1>1, <3>1, <3>2, <3>3, PlainGoesOn
  <2>3. CASE ~PlainSource
    BY <1>1, <2>3, NotPlain
  <2> QED
    BY <2>2, <2>3
<1>4. CASE \E l \in Longest(pos) : InsertLineComment(pos, l) /\ UNCHANGED err
  <2>1. PICK l \in Longest(pos) : InsertLineComment(pos, l) /\ UNCHANGED err
    BY <1>4
  <2>2. PICK newline \in Run(SpanEnd(pos, l), Alphabet \ {LF}) :
          LET end == IF newline < Len0 THEN newline ELSE Len0 - 1 IN
          /\ out' = InsertToken(out, LineComment, pos, end)
          /\ pos' = end
          /\ eof' = (newline = Len0)
    BY <2>1 DEF InsertLineComment
  <2>3. CASE PlainSource
    <3>1. SpanEnd(pos, l) \in Nat /\ pos < SpanEnd(pos, l) /\ SpanEnd(pos, l) < Len0
      BY <1>1, <2>3, PlainSpan
    <3>2. /\ newline \in Nat /\ newline <= Len0
          /\ \A r \in SpanEnd(pos, l)..(newline - 1) : At(r) \in Alphabet \ {LF}
      BY <1>1, <3>1, RunStops
    <3>3. newline # Len0
      BY <1>1, <2>3, <3>1, <3>2 DEF PlainSource
    <3>4. newline < Len0
      BY <1>1, <3>2, <3>3
    <3>5. out' = InsertToken(out, LineComment, pos, newline) /\ pos' = newline /\ eof' = FALSE
      BY <2>2, <3>3, <3>4
    <3>6. LineComment \in TokenTypes
      BY TypesOfTokens
    <3>7. Covers(out', pos')
      BY <1>1, <1>2, <2>3, <3>2, <3>5, <3>6, InsertCovers
    <3> QED
      BY <1>1, <2>1, <3>4, <3>5, <3>7, PlainGoesOn DEF InsertLineComment
  <2>4. CASE ~PlainSource
    BY <1>1, <2>4, NotPlain
  <2> QED
    BY <2>3, <2>4
<1>5. CASE LexError(At(pos))
  BY <1>1, <1>5, ErrorPlain DEF LexError
<1> QED
  BY <1>3, <1>4, <1>5 DEF SimpleToken

\* The steps a plain source does not take.
LEMMA StepsNotPlain ==
  ASSUME LexInv, PlainInv, LexAgain \/ CommentSkip \/ CommentEnd
  PROVE  PlainInv'
<1>1. Len0 \in Nat /\ pos \in Nat /\ src' = src
  BY Known DEF LexAgain, CommentSkip, CommentEnd
<1>2. ~PlainSource
  BY <1>1 DEF LexAgain, CommentSkip, CommentEnd, PlainInv
<1> QED
  BY <1>1, <1>2, NotPlain

\* Behind the last symbol are four stubs, each without a text.
LEMMA FinishPlain ==
  ASSUME LexInv, PlainInv, Finish
  PROVE  PlainInv'
<1>1. /\ mode = "lexing" /\ eof /\ mode' = "done" /\ src' = src
      /\ out' = InsertStub(InsertStub(InsertStub(InsertStub(out))))
  BY DEF Finish
<1>2. Typed(out) /\ Len0 \in Nat
  BY Known
<1> SUFFICES ASSUME PlainSource PROVE PlainInv'
  BY <1>1, NotPlain
<1>3. Covers(out, Len0) /\ Len0 > 0
  BY <1>1 DEF PlainInv, PlainSource
<1> DEFINE n == Len(out.tokens)
<1>4. out.tokens # <<>> /\ Contiguous(out.tokens, n) /\ out.tokens[n].end = Len0
  BY <1>2, <1>3 DEF Covers, LastEnd
<1>5. n \in Nat /\ n > 0
  BY <1>2, <1>4 DEF Typed
<1>6. ASSUME NEW o, Typed(o)
      PROVE  /\ Typed(InsertStub(o))
             /\ Len(InsertStub(o).tokens) = Len(o.tokens) + 1
             /\ \A i \in 1..Len(o.tokens) : InsertStub(o).tokens[i] = o.tokens[i]
             /\ InsertStub(o).tokens[Len(o.tokens) + 1].type = <<"STUB">>
  <2>1. <<"STUB">> \in TokenTypes /\ NoPtr \in Int
    BY TypesOfTokens DEF LongTypes, NoPtr
  <2> QED
    BY <1>6, <2>1, InsertTyped, InsertGrows DEF InsertStub
<1> DEFINE o1 == InsertStub(out)
           o2 == InsertStub(o1)
           o3 == InsertStub(o2)
           o4 == InsertStub(o3)
<1>7. /\ Typed(o1) /\ Typed(o2) /\ Typed(o3) /\ Typed(o4)
      /\ Len(o1.tokens) = n + 1 /\ \A i \in 1..n : o1.tokens[i] = out.tokens[i]
      /\ Len(o2.tokens) = n + 2 /\ \A i \in 1..(n + 1) : o2.tokens[i] = o1.tokens[i]
      /\ Len(o3.tokens) = n + 3 /\ \A i \in 1..(n + 2) : o3.tokens[i] = o2.tokens[i]
      /\ Len(o4.tokens) = n + 4 /\ \A i \in 1..(n + 3) : o4.tokens[i] = o3.tokens[i]
      /\ o1.tokens[n + 1].type = <<"STUB">> /\ o2.tokens[n + 2].type = <<"STUB">>
      /\ o3.tokens[n + 3].type = <<"STUB">> /\ o4.tokens[n + 4].type = <<"STUB">>
  <2>1. Typed(o1) /\ Typed(o2) /\ Typed(o3) /\ Typed(o4)
    BY <1>2, <1>6
  <2> HIDE DEF o4
  <2>2. /\ Len(o4.tokens) = Len(o3.tokens) + 1
        /\ \A i \in 1..Len(o3.tokens) : o4.tokens[i] = o3.tokens[i]
        /\ o4.tokens[Len(o3.tokens) + 1].type = <<"STUB">>
    BY <1>6, <2>1 DEF o4
  <2> HIDE DEF o3
  <2>3. /\ Len(o3.tokens) = Len(o2.tokens) + 1
        /\ \A i \in 1..Len(o2.tokens) : o3.tokens[i] = o2.tokens[i]
        /\ o3.tokens[Len(o2.tokens) + 1].type = <<"STUB">>
    BY <1>6, <2>1 DEF o3
  <2> HIDE DEF o2
  <2>4. /\ Len(o2.tokens) = Len(o1.tokens) + 1
        /\ \A i \in 1..Len(o1.tokens) : o2.tokens[i] = o1.tokens[i]
        /\ o2.tokens[Len(o1.tokens) + 1].type = <<"STUB">>
    BY <1>6, <2>1 DEF o2
  <2> HIDE DEF o1
  <2>5. /\ Len(o1.tokens) = n + 1
        /\ \A i \in 1..n : o1.tokens[i] = out.tokens[i]
        /\ o1.tokens[n + 1].type = <<"STUB">>
    BY <1>2, <1>6 DEF o1
  <2>6. n + 1 + 1 = n + 2 /\ n + 2 + 1 = n + 3 /\ n + 3 + 1 = n + 4
    BY <1>5
  <2> HIDE DEF n
  <2>7. Len(o1.tokens) = n + 1 /\ Len(o2.tokens) = n + 2 /\ Len(o3.tokens) = n + 3 /\ Len(o4.tokens) = n + 4
    BY <2>2, <2>3, <2>4, <2>5, <2>6
  <2> QED
    BY <2>1, <2>2, <2>3, <2>4, <2>5, <2>6, <2>7, Zenon
<1> HIDE DEF o1, o2, o3, o4, n
<1>8. out' = o4
  BY <1>1 DEF o1, o2, o3, o4
<1>9. \A i \in 1..n : o4.tokens[i] = out.tokens[i]
  BY <1>5, <1>7
<1>10. \A i \in (n + 1)..(n + 4) : o4.tokens[i].type = <<"STUB">>
  <2>1. /\ n + 1 \in 1..(n + 1) /\ n + 1 \in 1..(n + 2) /\ n + 1 \in 1..(n + 3)
        /\ n + 2 \in 1..(n + 2) /\ n + 2 \in 1..(n + 3) /\ n + 3 \in 1..(n + 3)
    BY <1>5
  <2>2. /\ o4.tokens[n + 1].type = <<"STUB">> /\ o4.tokens[n + 2].type = <<"STUB">>
        /\ o4.tokens[n + 3].type = <<"STUB">> /\ o4.tokens[n + 4].type = <<"STUB">>
    <3>1. o4.tokens[n + 4].type = <<"STUB">> /\ o4.tokens[n + 3] = o3.tokens[n + 3]
      BY <1>7, <2>1, Zenon
    <3>2. o3.tokens[n + 3].type = <<"STUB">> /\ o4.tokens[n + 2] = o3.tokens[n + 2] /\ o3.tokens[n + 2] = o2.tokens[n + 2]
      BY <1>7, <2>1, Zenon
    <3>3. o2.tokens[n + 2].type = <<"STUB">> /\ o1.tokens[n + 1].type = <<"STUB">>
      BY <1>7, Zenon
    <3>4. o4.tokens[n + 1] = o3.tokens[n + 1] /\ o3.tokens[n + 1] = o2.tokens[n + 1] /\ o2.tokens[n + 1] = o1.tokens[n + 1]
      BY <1>7, <2>1, Zenon
    <3> QED
      BY <3>1, <3>2, <3>3, <3>4, Zenon
  <2>3. \A i \in (n + 1)..(n + 4) : i = n + 1 \/ i = n + 2 \/ i = n + 3 \/ i = n + 4
    BY <1>5
  <2> QED
    BY <2>2, <2>3, Zenon
<1>11. Contiguous(o4.tokens, n)
  <2>1. \A j \in 1..(n - 1) : j \in 1..n /\ j + 1 \in 1..n
    BY <1>5
  <2>2. 1 \in 1..n
    BY <1>5
  <2> QED
    BY <1>4, <1>9, <2>1, <2>2, Zenon DEF Contiguous
<1>12. PlainSourceKept'
  <2>1. Len(out'.tokens) - 4 = n
    BY <1>5, <1>7, <1>8
  <2>2. out'.tokens[n].end = Len0'
    BY <1>1, <1>4, <1>5, <1>8, <1>9 DEF Len0
  <2>3. Contiguous(out'.tokens, n)
    BY <1>8, <1>11
  <2> QED
    BY <1>5, <1>8, <1>10, <2>1, <2>2, <2>3 DEF PlainSourceKept, Contiguous
<1> QED
  BY <1>1, <1>12 DEF PlainInv

\* Before the first token nothing is covered.
LEMMA PlainInvInit == Init => PlainInv
<1> SUFFICES ASSUME Init, PlainSource PROVE Covers(out, 0)
  BY DEF Init, PlainInv, PlainSource, PlainSourceKept
<1> QED
  BY DEF Init, Covers, LastEnd

\* A file that ends in a newline and has neither a "#" nor a comment with a star
\* anywhere: its tokens cover it in order, to its last symbol, and four stubs follow.
THEOREM LexerKeepsPlain == Spec => []PlainSourceKept
<1>1. ASSUME LexInv, PlainInv, [Next]_vars
      PROVE  PlainInv'
  <2>1. CASE UNCHANGED vars
    <3>1. (PlainSource' <=> PlainSource) /\ Len0' = Len0
      BY <2>1, SamePlain DEF vars
    <3>2. Covers(out, pos)' <=> Covers(out, pos)
      BY <2>1 DEF Covers, LastEnd, Contiguous, vars
    <3>3. PlainSourceKept' <=> PlainSourceKept
      BY <2>1, <3>1 DEF PlainSourceKept, Contiguous, vars
    <3> QED
      BY <1>1, <2>1, <3>1, <3>2, <3>3 DEF PlainInv, vars
  <2> QED
    BY <1>1, <2>1, DirectivesPlain, LiteralsPlain, SimpleTokenPlain, StepsNotPlain, FinishPlain DEF Next
<1>2. PlainInv => PlainSourceKept
  BY DEF PlainInv, PlainSourceKept
<1> QED
  BY PlainInvInit, <1>1, <1>2, LexerCorrect, PTL DEF Spec
=============================================================================
