-------------------------- MODULE HtmlWriterProofs --------------------------
(***************************************************************************)
(* For every set of tags, attributes and texts and every depth of the      *)
(* stack: writing opening tags late cannot be seen on the page, and the    *)
(* tags of the page nest.                                                  *)
(***************************************************************************)
EXTENDS HtmlWriter, SequenceTheorems, FiniteSetTheorems, TLAPS

(***************************************************************************)
(* The inductive invariant: written and unwritten tags do not mix, so that *)
(* taking the innermost tag away leaves nothing that still waits.          *)
(***************************************************************************)
WriterInv == TypeOK /\ OnlyTopPending

\* ensure_open_tag_written leaves a stack of the same tags, all of them written.
LEMMA EnsuredWritten ==
  ASSUME WriterInv
  PROVE  /\ EnsuredStack \in Seq(Tags)
         /\ Len(EnsuredStack) = Len(stack)
         /\ \A i \in 1..Len(stack) : /\ EnsuredStack[i].open_tag_written
                                     /\ EnsuredStack[i].name = stack[i].name
                                     /\ EnsuredStack[i].attrs = stack[i].attrs
<1>1. stack \in Seq(Tags) /\ \A i \in 1..(Len(stack) - 1) : stack[i].open_tag_written
  BY DEF WriterInv, TypeOK, OnlyTopPending
<1>2. CASE Pending
  <2> DEFINE n == Len(stack)
  <2> DEFINE top == [stack[n] EXCEPT !.open_tag_written = TRUE]
  <2>1. n \in 1..n /\ stack[n] \in Tags
    BY <1>1, <1>2 DEF Pending, Empty
  <2>2. top \in Tags /\ top.open_tag_written /\ top.name = stack[n].name /\ top.attrs = stack[n].attrs
    BY <2>1 DEF Tags
  <2>3. EnsuredStack = [stack EXCEPT ![n] = top]
    BY <1>2 DEF EnsuredStack
  <2> HIDE DEF top
  <2> QED
    BY <1>1, <2>1, <2>2, <2>3
<1>3. CASE ~Pending
  <2>1. EnsuredStack = stack
    BY <1>3 DEF EnsuredStack
  <2> QED
    BY <1>1, <1>3, <2>1 DEF Pending, Empty, Top, Tags
<1> QED
  BY <1>2, <1>3

\* What it has written is the page.
LEMMA EnsuredPage ==
  ASSUME WriterInv
  PROVE  EnsuredFile = Page /\ Page \in Seq(FileItems)
<1>1. EnsuredFile = Page
  BY DEF EnsuredFile, Page
<1>2. CASE Pending
  <2>1. Top \in Tags
    BY <1>2 DEF WriterInv, TypeOK, Pending, Empty, Top
  <2>2. OpenItem(Top.name, Top.attrs) \in FileItems
    BY <2>1, WriterAssumption DEF OpenItem, FileItems, Tags
  <2> QED
    BY <1>1, <1>2, <2>2 DEF Page, WriterInv, TypeOK
<1>3. CASE ~Pending
  BY <1>1, <1>3 DEF Page, WriterInv, TypeOK
<1> QED
  BY <1>2, <1>3

LEMMA ItemsType ==
  ASSUME NEW token \in Tokens
  PROVE  Items(token) \in Seq(FileItems) /\ Len(Items(token)) = Len(token)
<1>1. token \in Seq(Symbols)
  BY WriterAssumption
<1>2. ASSUME NEW i \in 1..Len(token)
      PROVE  TokenItem(token[i]) \in FileItems
  <2>1. token[i] \in Symbols
    BY <1>1
  <2> DEFINE none == <<>>
  <2>2. none \in Seq(Attrs)
    OBVIOUS
  <2>3. TokenItem(token[i]) = IF token[i] = LF THEN [kind |-> "open", name |-> "br", attrs |-> none]
                              ELSE [kind |-> "text", name |-> token[i], attrs |-> none]
    BY DEF TokenItem, OpenItem, TextItem
  <2> HIDE DEF none
  <2>4. [kind |-> "open", name |-> "br", attrs |-> none] \in FileItems
    BY <2>2 DEF FileItems
  <2>5. [kind |-> "text", name |-> token[i], attrs |-> none] \in FileItems
    BY <2>1, <2>2 DEF FileItems
  <2> QED
    BY <2>3, <2>4, <2>5
<1>3. Len(token) \in Nat /\ DOMAIN token = 1..Len(token)
  BY <1>1
<1>4. Items(token) = [i \in 1..Len(token) |-> TokenItem(token[i])]
  BY <1>3 DEF Items
<1>5. Items(token) \in [1..Len(token) -> FileItems]
  BY <1>2, <1>4
<1> QED
  BY <1>3, <1>5

-----------------------------------------------------------------------------
(***************************************************************************)
(* Each call: what it does to the stack, to the page and to what is        *)
(* pending.                                                                *)
(***************************************************************************)
Step(newPage, pending) ==
  /\ WriterInv'
  /\ Page' = newPage
  /\ Pending' = pending

LEMMA WriterInit == Init => WriterInv /\ Page = <<>> /\ ~Pending
<1> SUFFICES ASSUME Init PROVE WriterInv /\ Page = <<>> /\ ~Pending
  OBVIOUS
<1>1. file = <<>> /\ stack = <<>> /\ Len(stack) = 0 /\ failed = FALSE
  BY DEF Init
<1>2. ~Pending /\ Page = <<>>
  BY <1>1 DEF Page, Pending, Empty
<1>3. TypeOK
  <2>1. <<>> \in Seq(FileItems) /\ <<>> \in Seq(Tags)
    OBVIOUS
  <2>2. Len(stack) <= MaxDepth
    BY <1>1, WriterAssumption
  <2> QED
    BY <1>1, <2>1, <2>2 DEF TypeOK
<1>4. OnlyTopPending
  BY <1>1 DEF OnlyTopPending
<1> QED
  BY <1>2, <1>3, <1>4 DEF WriterInv

\* A stack whose tags are all written has nothing pending.
LEMMA NothingPending ==
  ASSUME stack' \in Seq(Tags), Len(stack') <= MaxDepth, file' \in Seq(FileItems), failed' \in BOOLEAN,
         \A i \in 1..Len(stack') : stack'[i].open_tag_written
  PROVE  Step(file', FALSE)
<1>1. ~Pending'
  BY DEF Pending, Empty, Top
<1>2. OnlyTopPending'
  BY DEF OnlyTopPending
<1> QED
  BY <1>1, <1>2 DEF Step, Page, WriterInv, TypeOK

LEMMA FailStep ==
  ASSUME WriterInv, AssertFails
  PROVE  Step(Page, FALSE) /\ stack' = EnsuredStack
<1>1. stack' = EnsuredStack /\ file' = Page /\ failed' = TRUE
  BY EnsuredPage DEF AssertFails
<1>2. Step(file', FALSE)
  BY <1>1, EnsuredWritten, EnsuredPage, NothingPending DEF WriterInv, TypeOK
<1> QED
  BY <1>1, <1>2

LEMMA OpenStep ==
  ASSUME WriterInv, NEW name \in Names, html_open_tag(name), Len(stack) < MaxDepth
  PROVE  /\ Step(Append(Page, OpenItem(name, <<>>)), TRUE)
         /\ stack' = Append(EnsuredStack, NewTag(name))
         /\ failed' = failed
<1>1. /\ stack' = Append(EnsuredStack, NewTag(name))
      /\ file' = Page
      /\ failed' = failed
  BY EnsuredPage DEF html_open_tag, Push
<1>2. NewTag(name) \in Tags
  BY DEF NewTag, Tags
<1>3. /\ stack' \in Seq(Tags) /\ Len(stack') = Len(stack) + 1
      /\ stack'[Len(stack')] = NewTag(name)
      /\ \A i \in 1..Len(stack) : stack'[i] = EnsuredStack[i]
  BY <1>1, <1>2, EnsuredWritten
<1>4. Len(stack) \in Nat /\ Len(stack') <= MaxDepth
  BY <1>3, WriterAssumption DEF WriterInv, TypeOK
<1>5. OnlyTopPending'
  BY <1>3, <1>4, EnsuredWritten DEF OnlyTopPending
<1>6. TypeOK'
  BY <1>1, <1>3, <1>4, EnsuredPage DEF TypeOK, WriterInv
<1>7. Pending' /\ Top' = NewTag(name)
  BY <1>3, <1>4 DEF Pending, Empty, Top, NewTag
<1>8. Page' = Append(Page, OpenItem(name, <<>>))
  BY <1>1, <1>7 DEF Page, NewTag
<1> QED
  BY <1>1, <1>5, <1>6, <1>7, <1>8 DEF Step, WriterInv

LEMMA CloseStep ==
  ASSUME WriterInv, html_close_tag, ~Empty
  PROVE  /\ Step(Page \o Eager!Closing(Top.name), FALSE)
         /\ stack' = Pop(stack)
         /\ failed' = failed
<1>1. /\ stack' = Pop(stack) /\ failed' = failed
      /\ file' = Page \o Eager!Closing(Top.name)
  BY EnsuredPage DEF html_close_tag, Eager!Closing, Eager!CloseItem, CloseItem
<1>2. stack \in Seq(Tags) /\ Len(stack) \in Nat \ {0} /\ Top \in Tags
  BY DEF WriterInv, TypeOK, Empty, Top
<1>3. Eager!Closing(Top.name) \in Seq(FileItems)
  <2>1. Top.name \in Names
    BY <1>2 DEF Tags
  <2>2. Eager!CloseItem(Top.name) \in FileItems
    BY <2>1 DEF Eager!CloseItem, FileItems
  <2> QED
    BY <2>2 DEF Eager!Closing
<1>4. file' \in Seq(FileItems)
  BY <1>1, <1>3, EnsuredPage
<1>5. /\ stack' \in Seq(Tags) /\ Len(stack') = Len(stack) - 1
      /\ \A i \in 1..Len(stack') : stack'[i] = stack[i]
  <2> DEFINE n == Len(stack)
  <2>1. n - 1 \in Nat /\ n - 1 <= n
    BY <1>2
  <2>2. stack' = SubSeq(stack, 1, n - 1)
    BY <1>1 DEF Pop
  <2>3. \A i \in 1..(n - 1) : stack[i] \in Tags
    BY <1>2, <2>1
  <2> HIDE DEF n
  <2>4. /\ SubSeq(stack, 1, n - 1) \in Seq(Tags)
        /\ Len(SubSeq(stack, 1, n - 1)) = IF 1 <= n - 1 THEN (n - 1) - 1 + 1 ELSE 0
        /\ \A i \in 1..((n - 1) - 1 + 1) : SubSeq(stack, 1, n - 1)[i] = stack[1 + i - 1]
    BY <2>1, <2>3, SubSeqProperties
  <2>5. \A i \in 1..(n - 1) : SubSeq(stack, 1, n - 1)[i] = stack[i]
    BY <2>1, <2>4
  <2> QED
    <3>1. Len(stack') = n - 1
      BY <2>1, <2>2, <2>4
    <3>2. stack' \in Seq(Tags) /\ \A i \in 1..Len(stack') : stack'[i] = stack[i]
      BY <3>1, <2>2, <2>4, <2>5
    <3> QED
      BY <3>1, <3>2 DEF n
<1>6. \A i \in 1..Len(stack') : stack'[i].open_tag_written
  BY <1>2, <1>5 DEF WriterInv, OnlyTopPending
<1>7. Len(stack') <= MaxDepth /\ failed' \in BOOLEAN
  BY <1>1, <1>2, <1>5, WriterAssumption DEF WriterInv, TypeOK
<1> QED
  BY <1>1, <1>4, <1>5, <1>6, <1>7, NothingPending

\* The page an attribute leaves.
WithAttribute(attr) ==
  IF Pending THEN Append(file, OpenItem(Top.name, Append(Top.attrs, attr))) ELSE file

LEMMA AttrStep ==
  ASSUME WriterInv, NEW attr \in Attrs, html_add_attr(attr), ~Empty
  PROVE  /\ Step(WithAttribute(attr), Pending)
         /\ Len(stack') = Len(stack) /\ \A i \in 1..Len(stack) : stack'[i].name = stack[i].name
         /\ failed' = failed
<1> DEFINE n == Len(stack)
<1> DEFINE top == [stack[n] EXCEPT !.attrs = Append(@, attr)]
<1>1. stack \in Seq(Tags) /\ n \in Nat \ {0} /\ stack[n] \in Tags /\ Top = stack[n]
  BY DEF WriterInv, TypeOK, Empty, Top
<1>2. /\ top \in Tags /\ top.name = Top.name /\ top.attrs = Append(Top.attrs, attr)
      /\ top.open_tag_written = Top.open_tag_written
  <2>1. stack[n].attrs \in Seq(Attrs)
    BY <1>1 DEF Tags
  <2>2. Append(stack[n].attrs, attr) \in Seq(Attrs)
    BY <2>1
  <2> DEFINE longer == Append(stack[n].attrs, attr)
  <2>3. top = [stack[n] EXCEPT !.attrs = longer]
    OBVIOUS
  <2> HIDE DEF longer, top
  <2>4. longer \in Seq(Attrs)
    BY <2>2 DEF longer
  <2>5. top \in Tags /\ top.name = stack[n].name /\ top.attrs = longer
        /\ top.open_tag_written = stack[n].open_tag_written
    BY <1>1, <2>3, <2>4 DEF Tags
  <2> QED
    BY <1>1, <2>5 DEF longer
<1>3. stack' = [stack EXCEPT ![n] = top] /\ file' = file /\ failed' = failed
  BY DEF html_add_attr
<1> HIDE DEF top
<1>4. /\ stack' \in Seq(Tags) /\ Len(stack') = n /\ stack'[n] = top
      /\ \A i \in 1..(n - 1) : stack'[i] = stack[i]
  BY <1>1, <1>2, <1>3
<1>5. Top' = top /\ ~Empty'
  BY <1>1, <1>4 DEF Top, Empty
<1>6. Pending' = Pending
  BY <1>2, <1>5 DEF Pending
<1>7. Page' = WithAttribute(attr)
  BY <1>2, <1>3, <1>5, <1>6 DEF Page, WithAttribute
<1>8. TypeOK'
  BY <1>1, <1>3, <1>4 DEF WriterInv, TypeOK
<1>9. OnlyTopPending'
  BY <1>1, <1>4 DEF WriterInv, OnlyTopPending
<1>10. \A i \in 1..n : stack'[i].name = stack[i].name
  BY <1>1, <1>2, <1>4
<1> QED
  BY <1>3, <1>4, <1>6, <1>7, <1>8, <1>9, <1>10 DEF Step, WriterInv

LEMMA TokenStep ==
  ASSUME WriterInv, NEW token \in Tokens, html_write_token(token)
  PROVE  /\ stack' = EnsuredStack
         /\ \/ Step(Page \o Items(token), FALSE) /\ failed' = failed
            \/ /\ failed' = TRUE
               /\ \E i \in DOMAIN token : Step(Page \o SubSeq(Items(token), 1, i - 1), FALSE)
<1>1. stack' = EnsuredStack
  BY DEF html_write_token
<1>2. ASSUME NEW new \in Seq(FileItems), file' = new, failed' \in BOOLEAN
      PROVE  Step(new, FALSE)
  BY <1>1, <1>2, EnsuredWritten, NothingPending DEF WriterInv, TypeOK
<1>3. CASE Breaks(token) = {}
  <2>1. file' = Page \o Items(token) /\ failed' = failed
    BY <1>3, EnsuredPage DEF html_write_token
  <2>2. Page \o Items(token) \in Seq(FileItems)
    BY EnsuredPage, ItemsType
  <2> QED
    BY <1>1, <1>2, <2>1, <2>2 DEF WriterInv, TypeOK
<1>4. CASE Breaks(token) # {}
  <2>1. PICK i \in Breaks(token) : file' = Page \o SubSeq(Items(token), 1, i - 1)
    BY <1>4, EnsuredPage DEF html_write_token
  <2>2. failed' = TRUE
    BY <1>4 DEF html_write_token
  <2>3. i \in DOMAIN token /\ i \in 1..Len(token)
    BY WriterAssumption DEF Breaks
  <2>4. SubSeq(Items(token), 1, i - 1) \in Seq(FileItems)
    BY <2>3, ItemsType
  <2>5. Page \o SubSeq(Items(token), 1, i - 1) \in Seq(FileItems)
    BY <2>4, EnsuredPage
  <2> QED
    BY <1>1, <1>2, <2>1, <2>2, <2>3, <2>5
<1> QED
  BY <1>3, <1>4

\* gen_html starts the page: no tag waits yet.
LEMMA DoctypeStep ==
  ASSUME WriterInv, html_add_doctype
  PROVE  /\ ~failed /\ failed' = failed /\ stack' = stack
         /\ Page = <<>> /\ Step(<<Doctype>>, FALSE)
<1>1. ~failed /\ failed' = failed /\ stack' = stack /\ stack = <<>> /\ file = <<>> /\ Empty
  BY DEF html_add_doctype, Empty
<1>2. Page = <<>>
  BY <1>1 DEF Page, Pending
<1>3. Doctype \in FileItems
  <2> DEFINE none == <<>>
  <2>1. none \in Seq(Attrs)
    OBVIOUS
  <2>2. Doctype = [kind |-> "text", name |-> "DOCTYPE", attrs |-> none]
    BY DEF Doctype, TextItem
  <2> HIDE DEF none
  <2> QED
    BY <2>1, <2>2 DEF FileItems
<1>4. file' = <<Doctype>> /\ file' \in Seq(FileItems)
  <2>1. file' = Append(<<>>, Doctype)
    BY <1>1 DEF html_add_doctype
  <2> QED
    BY <1>3, <2>1
<1>5. \A i \in 1..Len(stack') : stack'[i].open_tag_written
  BY <1>1
<1>6. Step(file', FALSE)
  BY <1>1, <1>4, <1>5, NothingPending DEF WriterInv, TypeOK
<1> QED
  BY <1>1, <1>2, <1>4, <1>6

-----------------------------------------------------------------------------
LEMMA UnchangedStep ==
  ASSUME WriterInv, UNCHANGED vars
  PROVE  WriterInv' /\ Page' = Page /\ Pending' = Pending
BY DEF vars, WriterInv, TypeOK, OnlyTopPending, Page, Pending, Empty, Top

LEMMA WriterNext == WriterInv /\ [Next]_vars => WriterInv'
<1> SUFFICES ASSUME WriterInv, [Next]_vars PROVE WriterInv'
  OBVIOUS
<1>1. ASSUME NEW name \in Names, html_open_tag(name) PROVE WriterInv'
  <2>1. CASE Len(stack) < MaxDepth
    BY <1>1, <2>1, OpenStep DEF Step
  <2>2. CASE ~(Len(stack) < MaxDepth)
    <3>1. AssertFails
      BY <1>1, <2>2 DEF html_open_tag
    <3> QED
      BY <3>1, FailStep DEF Step
  <2> QED
    BY <2>1, <2>2
<1>2. CASE html_close_tag
  <2>1. CASE Empty
    <3>1. AssertFails
      BY <1>2, <2>1 DEF html_close_tag
    <3> QED
      BY <3>1, FailStep DEF Step
  <2>2. CASE ~Empty
    BY <1>2, <2>2, CloseStep DEF Step
  <2> QED
    BY <2>1, <2>2
<1>3. ASSUME NEW attr \in Attrs, html_add_attr(attr) PROVE WriterInv'
  <2>1. CASE Empty
    <3>1. AssertFails
      BY <1>3, <2>1 DEF html_add_attr
    <3> QED
      BY <3>1, FailStep DEF Step
  <2>2. CASE ~Empty
    BY <1>3, <2>2, AttrStep DEF Step
  <2> QED
    BY <2>1, <2>2
<1>4. ASSUME NEW token \in Tokens, html_write_token(token) PROVE WriterInv'
  BY <1>4, TokenStep DEF Step
<1>5. CASE html_add_doctype
  BY <1>5, DoctypeStep DEF Step
<1>6. CASE UNCHANGED vars
  BY <1>6, UnchangedStep
<1> QED
  BY <1>1, <1>2, <1>3, <1>4, <1>5, <1>6 DEF Next

\* html_writer.c never writes behind its 32 tags, and never has a tag waiting
\* inside another tag that waits.
THEOREM WriterCorrect == Spec => [](TypeOK /\ OnlyTopPending)
<1>1. Init => WriterInv
  BY WriterInit
<1>2. WriterInv <=> TypeOK /\ OnlyTopPending
  BY DEF WriterInv
<1> QED
  BY <1>1, <1>2, WriterNext, PTL DEF Spec

\* The stack never outgrows the array html_new allocates.
THEOREM WriterTypeCorrect == Spec => []TypeOK
BY WriterCorrect, PTL

-----------------------------------------------------------------------------
(***************************************************************************)
(* The refinement.                                                         *)
(***************************************************************************)
LEMMA SeqIsFunction ==
  ASSUME NEW S, NEW s \in Seq(S)
  PROVE  s = [i \in 1..Len(s) |-> s[i]]
<1>1. s \in [1..Len(s) -> S]
  BY LenProperties
<1> QED
  BY <1>1

LEMMA TagNames ==
  ASSUME stack \in Seq(Tags), NEW i \in 1..Len(stack)
  PROVE  stack[i].name \in Names
<1>1. stack[i] \in Tags
  OBVIOUS
<1> QED
  BY <1>1 DEF Tags

LEMMA OpenNamesType ==
  ASSUME stack \in Seq(Tags)
  PROVE  /\ OpenNames \in Seq(Names)
         /\ Len(OpenNames) = Len(stack)
         /\ \A i \in 1..Len(stack) : OpenNames[i] = stack[i].name
<1>1. Len(stack) \in Nat /\ DOMAIN stack = 1..Len(stack)
  OBVIOUS
<1>2. \A i \in 1..Len(stack) : stack[i].name \in Names
  BY TagNames
<1>3. OpenNames = [i \in 1..Len(stack) |-> stack[i].name]
  BY <1>1 DEF OpenNames
<1>4. OpenNames \in [1..Len(stack) -> Names]
  BY <1>2, <1>3
<1> QED
  BY <1>1, <1>3, <1>4

\* The names stay as long as every tag of the stack keeps its own.
LEMMA SameNames ==
  ASSUME stack \in Seq(Tags), stack' \in Seq(Tags), Len(stack') = Len(stack),
         \A i \in 1..Len(stack) : stack'[i].name = stack[i].name
  PROVE  OpenNames' = OpenNames
<1>1. /\ OpenNames' \in Seq(Names) /\ Len(OpenNames') = Len(stack)
      /\ \A i \in 1..Len(stack) : OpenNames'[i] = stack[i].name
  <2>1. OpenNames' = [i \in DOMAIN stack' |-> stack'[i].name]
    BY DEF OpenNames
  <2>2. Len(stack) \in Nat /\ DOMAIN stack' = 1..Len(stack)
    OBVIOUS
  <2>3. OpenNames' = [i \in 1..Len(stack) |-> stack[i].name]
    BY <2>1, <2>2
  <2>4. \A i \in 1..Len(stack) : stack[i].name \in Names
    BY TagNames
  <2>5. OpenNames' \in [1..Len(stack) -> Names]
    BY <2>3, <2>4
  <2> QED
    BY <2>2, <2>3, <2>5
<1>2. /\ OpenNames \in Seq(Names) /\ Len(OpenNames) = Len(stack)
      /\ \A i \in 1..Len(stack) : OpenNames[i] = stack[i].name
  BY OpenNamesType
<1> QED
  BY <1>1, <1>2, SeqEqual

LEMMA EnsuredNames ==
  ASSUME WriterInv, WriterInv', stack' = EnsuredStack
  PROVE  OpenNames' = OpenNames
BY EnsuredWritten, SameNames DEF WriterInv, TypeOK

LEMMA FailRefines ==
  ASSUME WriterInv, ~failed, AssertFails
  PROVE  Eager!Fail
<1>1. WriterInv' /\ Page' = Page /\ Pending' = FALSE /\ stack' = EnsuredStack
  BY FailStep DEF Step
<1>2. OpenNames' = OpenNames
  BY <1>1, EnsuredNames
<1>3. failed' = TRUE
  BY DEF AssertFails
<1> QED
  BY <1>1, <1>2, <1>3 DEF Eager!Fail

LEMMA OpenRefines ==
  ASSUME WriterInv, NEW name \in Names, html_open_tag(name), Len(stack) < MaxDepth
  PROVE  Eager!Open(name)
<1>1. /\ WriterInv' /\ Page' = Append(Page, OpenItem(name, <<>>)) /\ Pending' = TRUE
      /\ stack' = Append(EnsuredStack, NewTag(name))
      /\ failed' = failed /\ ~failed
  BY OpenStep DEF Step, html_open_tag
<1>2. stack \in Seq(Tags) /\ stack' \in Seq(Tags) /\ Len(stack) \in Nat
  BY <1>1 DEF WriterInv, TypeOK
<1>3. /\ EnsuredStack \in Seq(Tags) /\ Len(EnsuredStack) = Len(stack)
      /\ \A i \in 1..Len(stack) : EnsuredStack[i].name = stack[i].name
  BY EnsuredWritten
<1>4. NewTag(name) \in Tags /\ NewTag(name).name = name
  BY DEF NewTag, Tags
<1>5. /\ Len(stack') = Len(stack) + 1
      /\ stack'[Len(stack) + 1] = NewTag(name)
      /\ \A i \in 1..Len(stack) : stack'[i] = EnsuredStack[i]
  BY <1>1, <1>2, <1>3, <1>4
<1>6. /\ OpenNames \in Seq(Names) /\ Len(OpenNames) = Len(stack)
      /\ \A i \in 1..Len(stack) : OpenNames[i] = stack[i].name
  BY <1>2, OpenNamesType
<1>7. OpenNames' = Append(OpenNames, name)
  <2>1. OpenNames' = [i \in 1..(Len(stack) + 1) |-> stack'[i].name]
    <3>1. DOMAIN stack' = 1..(Len(stack) + 1)
      BY <1>2, <1>5
    <3> QED
      BY <3>1 DEF OpenNames
  <2>2. \A i \in 1..(Len(stack) + 1) : stack'[i].name = Append(OpenNames, name)[i]
    <3> SUFFICES ASSUME NEW i \in 1..(Len(stack) + 1)
                 PROVE  stack'[i].name = Append(OpenNames, name)[i]
      OBVIOUS
    <3>1. CASE i = Len(stack) + 1
      BY <3>1, <1>4, <1>5, <1>6
    <3>2. CASE i # Len(stack) + 1
      <4>1. i \in 1..Len(stack)
        BY <3>2, <1>2
      <4>2. Append(OpenNames, name)[i] = OpenNames[i]
        BY <4>1, <1>6
      <4> QED
        BY <4>1, <4>2, <1>3, <1>5, <1>6
    <3> QED
      BY <3>1, <3>2
  <2>3. Append(OpenNames, name) \in Seq(Names) /\ Len(Append(OpenNames, name)) = Len(stack) + 1
    BY <1>6
  <2>4. Append(OpenNames, name) = [i \in 1..(Len(stack) + 1) |-> Append(OpenNames, name)[i]]
    BY <2>3, SeqIsFunction
  <2> QED
    BY <2>1, <2>2, <2>4
<1>8. Len(OpenNames) < MaxDepth
  BY <1>6
<1> QED
  BY <1>1, <1>7, <1>8 DEF Eager!Open, OpenItem, Eager!OpenItem

LEMMA CloseRefines ==
  ASSUME WriterInv, html_close_tag, ~Empty
  PROVE  Eager!Close
<1>1. /\ WriterInv' /\ Page' = Page \o Eager!Closing(Top.name) /\ Pending' = FALSE
      /\ stack' = Pop(stack)
      /\ failed' = failed /\ ~failed
  BY CloseStep DEF Step, html_close_tag
<1> DEFINE n == Len(stack) - 1
<1>2. stack \in Seq(Tags) /\ stack' \in Seq(Tags) /\ n \in Nat
  BY <1>1 DEF WriterInv, TypeOK, Empty
<1>3. /\ OpenNames \in Seq(Names) /\ Len(OpenNames) = n + 1
      /\ \A i \in 1..(n + 1) : OpenNames[i] = stack[i].name
  BY <1>2, OpenNamesType
<1>4. stack' = SubSeq(stack, 1, n)
  BY <1>1 DEF Pop
<1>5. \A i \in 1..n : stack[i] \in Tags /\ OpenNames[i] \in Names
  BY <1>2, <1>3
<1>6. OpenNames # <<>> /\ OpenNames[Len(OpenNames)] = Top.name
  BY <1>2, <1>3 DEF Top
<1> HIDE DEF n
<1>7. Len(stack') = n /\ \A i \in 1..n : stack'[i] = stack[i]
  <2>1. /\ Len(SubSeq(stack, 1, n)) = IF 1 <= n THEN n - 1 + 1 ELSE 0
        /\ \A i \in 1..(n - 1 + 1) : SubSeq(stack, 1, n)[i] = stack[1 + i - 1]
    BY <1>2, <1>5, SubSeqProperties
  <2> QED
    BY <2>1, <1>2, <1>4
<1>8. /\ SubSeq(OpenNames, 1, n) \in Seq(Names)
      /\ Len(SubSeq(OpenNames, 1, n)) = n
      /\ \A i \in 1..n : SubSeq(OpenNames, 1, n)[i] = OpenNames[i]
  <2>1. /\ SubSeq(OpenNames, 1, n) \in Seq(Names)
        /\ Len(SubSeq(OpenNames, 1, n)) = IF 1 <= n THEN n - 1 + 1 ELSE 0
        /\ \A i \in 1..(n - 1 + 1) : SubSeq(OpenNames, 1, n)[i] = OpenNames[1 + i - 1]
    BY <1>2, <1>5, SubSeqProperties
  <2> QED
    BY <2>1, <1>2
<1>9. OpenNames' = SubSeq(OpenNames, 1, n)
  <2>1. OpenNames' = [i \in 1..n |-> stack'[i].name]
    <3>1. DOMAIN stack' = 1..n
      BY <1>2, <1>7
    <3> QED
      BY <3>1 DEF OpenNames
  <2>2. SubSeq(OpenNames, 1, n) = [i \in 1..n |-> SubSeq(OpenNames, 1, n)[i]]
    BY <1>2, <1>8
  <2>3. \A i \in 1..n : SubSeq(OpenNames, 1, n)[i] = stack'[i].name
    BY <1>2, <1>3, <1>7, <1>8
  <2> QED
    BY <2>1, <2>2, <2>3
<1>10. n = Len(OpenNames) - 1
  BY <1>2, <1>3
<1> QED
  BY <1>1, <1>6, <1>9, <1>10 DEF Eager!Close

LEMMA AttrRefines ==
  ASSUME WriterInv, NEW attr \in Attrs, html_add_attr(attr), ~Empty
  PROVE  Eager!Attribute(attr)
<1>1. /\ WriterInv' /\ Page' = WithAttribute(attr) /\ Pending' = Pending
      /\ Len(stack') = Len(stack) /\ \A i \in 1..Len(stack) : stack'[i].name = stack[i].name
      /\ failed' = failed /\ ~failed
  BY AttrStep DEF Step, html_add_attr
<1>2. stack \in Seq(Tags) /\ stack' \in Seq(Tags) /\ file \in Seq(FileItems)
  BY <1>1 DEF WriterInv, TypeOK
<1>3. OpenNames' = OpenNames
  BY <1>1, <1>2, SameNames
<1>4. OpenNames # <<>>
  <2>1. Len(OpenNames) = Len(stack) /\ Len(stack) # 0
    BY <1>2, OpenNamesType DEF Empty
  <2> QED
    BY <2>1
<1>5. CASE ~Pending
  <2>1. Page' = Page
    BY <1>1, <1>5 DEF WithAttribute, Page
  <2> QED
    BY <1>1, <1>3, <1>4, <1>5, <2>1 DEF Eager!Attribute
<1>6. CASE Pending
  <2> DEFINE item == OpenItem(Top.name, Top.attrs)
  <2> DEFINE new == OpenItem(Top.name, Append(Top.attrs, attr))
  <2> DEFINE n == Len(file)
  <2>1. Page = Append(file, item) /\ Page' = Append(file, new)
    BY <1>1, <1>6 DEF Page, WithAttribute
  <2>2. Page \in Seq(FileItems) /\ WriterInv' /\ n \in Nat
    BY <1>1, <1>2, EnsuredPage
  <2>3. item.name = Top.name /\ item.attrs = Top.attrs
    BY DEF OpenItem
  <2>4. new = Eager!OpenItem(item.name, Append(item.attrs, attr))
    BY <2>3 DEF OpenItem, Eager!OpenItem
  <2> HIDE DEF item, new
  <2>5. Len(Page) = n + 1 /\ Page[n + 1] = item /\ \A i \in 1..n : Page[i] = file[i]
    BY <1>2, <2>1
  <2>6. SubSeq(Page, 1, n) = file
    <3> HIDE DEF n
    <3>1. \A i \in 1..n : Page[i] \in FileItems
      BY <1>2, <2>5 DEF n
    <3>2. /\ SubSeq(Page, 1, n) \in Seq(FileItems)
          /\ Len(SubSeq(Page, 1, n)) = IF 1 <= n THEN n - 1 + 1 ELSE 0
          /\ \A i \in 1..(n - 1 + 1) : SubSeq(Page, 1, n)[i] = Page[1 + i - 1]
      BY <2>2, <3>1, SubSeqProperties
    <3>3. Len(SubSeq(Page, 1, n)) = n /\ \A i \in 1..n : SubSeq(Page, 1, n)[i] = file[i]
      BY <2>2, <2>5, <3>2
    <3> QED
      BY <1>2, <3>2, <3>3, SeqEqual DEF n
  <2>7. Append(file, new) = file \o <<new>>
    BY <1>2
  <2>8. Len(Page) - 1 = n /\ Page[Len(Page)] = item
    BY <2>2, <2>5
  <2>9. Page' = SubSeq(Page, 1, Len(Page) - 1)
                  \o <<Eager!OpenItem(Page[Len(Page)].name, Append(Page[Len(Page)].attrs, attr))>>
    BY <2>1, <2>4, <2>6, <2>7, <2>8
  <2> QED
    BY <1>1, <1>3, <1>4, <1>6, <2>9 DEF Eager!Attribute
<1> QED
  BY <1>5, <1>6

LEMMA TokenRefines ==
  ASSUME WriterInv, NEW token \in Tokens, html_write_token(token)
  PROVE  Eager!Write(Eager!Items(token)) \/ Eager!Fail
<1>1. /\ stack' = EnsuredStack
      /\ \/ Step(Page \o Items(token), FALSE) /\ failed' = failed
         \/ /\ failed' = TRUE
            /\ \E i \in DOMAIN token : Step(Page \o SubSeq(Items(token), 1, i - 1), FALSE)
  BY TokenStep
<1>2. ~failed
  BY DEF html_write_token
<1>3. Items(token) = Eager!Items(token)
  BY DEF Items, Eager!Items, TokenItem, OpenItem, TextItem, Eager!OpenItem, Eager!TextItem, LF, Eager!LF
<1>4. OpenNames' = OpenNames
  BY <1>1, EnsuredNames DEF Step
<1>5. CASE Step(Page \o Items(token), FALSE) /\ failed' = failed
  BY <1>2, <1>3, <1>4, <1>5 DEF Step, Eager!Write
<1>6. CASE /\ failed' = TRUE
           /\ \E i \in DOMAIN token : Step(Page \o SubSeq(Items(token), 1, i - 1), FALSE)
  BY <1>2, <1>3, <1>4, <1>6 DEF Step, Eager!Fail
<1> QED
  BY <1>1, <1>5, <1>6

LEMMA StepRefines == WriterInv /\ [Next]_vars => [Eager!Next]_(Eager!markupVars)
<1> SUFFICES ASSUME WriterInv, [Next]_vars PROVE [Eager!Next]_(Eager!markupVars)
  OBVIOUS
<1>1. ASSUME NEW name \in Names, html_open_tag(name) PROVE Eager!Next
  <2>1. CASE Len(stack) < MaxDepth
    BY <1>1, <2>1, OpenRefines DEF Eager!Next
  <2>2. CASE ~(Len(stack) < MaxDepth)
    BY <1>1, <2>2, FailRefines DEF html_open_tag, Eager!Next
  <2> QED
    BY <2>1, <2>2
<1>2. CASE html_close_tag
  <2>1. CASE Empty
    BY <1>2, <2>1, FailRefines DEF html_close_tag, Eager!Next
  <2>2. CASE ~Empty
    BY <1>2, <2>2, CloseRefines DEF Eager!Next
  <2> QED
    BY <2>1, <2>2
<1>3. ASSUME NEW attr \in Attrs, html_add_attr(attr) PROVE Eager!Next
  <2>1. CASE Empty
    BY <1>3, <2>1, FailRefines DEF html_add_attr, Eager!Next
  <2>2. CASE ~Empty
    BY <1>3, <2>2, AttrRefines DEF Eager!Next
  <2> QED
    BY <2>1, <2>2
<1>4. ASSUME NEW token \in Tokens, html_write_token(token) PROVE Eager!Next
  BY <1>4, TokenRefines DEF Eager!Next
<1>5. CASE html_add_doctype
  <2>1. /\ ~failed /\ failed' = failed /\ stack' = stack
        /\ Page = <<>> /\ Page' = <<Doctype>> /\ Pending' = FALSE
    BY <1>5, DoctypeStep DEF Step
  <2>2. OpenNames' = OpenNames
    BY <2>1 DEF OpenNames
  <2>3. Page' = Page \o <<Eager!Doctype>>
    BY <2>1 DEF Doctype, Eager!Doctype, TextItem, Eager!TextItem
  <2> QED
    BY <2>1, <2>2, <2>3 DEF Eager!Write, Eager!Next
<1>6. CASE UNCHANGED vars
  <2>1. OpenNames' = OpenNames
    BY <1>6 DEF vars, OpenNames
  <2>2. Page' = Page /\ Pending' = Pending /\ failed' = failed
    BY <1>6, UnchangedStep DEF vars
  <2> QED
    BY <2>1, <2>2 DEF Eager!markupVars
<1> QED
  BY <1>1, <1>2, <1>3, <1>4, <1>5, <1>6 DEF Next

\* However tags, attributes and texts follow one another, the page is the one
\* of a writer that does not wait.
THEOREM WriterIsEager == Spec => IsEager
<1>1. Init => Eager!Init
  <2> SUFFICES ASSUME Init PROVE Eager!Init
    OBVIOUS
  <2>1. Page = <<>> /\ Pending = FALSE /\ failed = FALSE
    BY WriterInit DEF Init
  <2>2. OpenNames = <<>>
    <3>1. stack \in Seq(Tags) /\ Len(stack) = 0
      BY DEF Init
    <3>2. OpenNames \in Seq(Names) /\ Len(OpenNames) = 0
      BY <3>1, OpenNamesType
    <3> QED
      BY <3>2, EmptySeq
  <2> QED
    BY <2>1, <2>2 DEF Eager!Init
<1>2. Spec => []WriterInv
  BY WriterInit, WriterNext, PTL DEF Spec
<1> QED
  BY <1>1, <1>2, StepRefines, PTL DEF Spec, Eager!Spec, IsEager

-----------------------------------------------------------------------------
(***************************************************************************)
(* What Balanced says of a file and a stack, and what makes it inductive:  *)
(* the tags the file leaves open are the written ones of the stack, each   *)
(* at its depth.                                                           *)
(***************************************************************************)
Opens(f, n) == {i \in 1..n : OpenBy(f, i)}
Closes(f, n) == {i \in 1..n : f[i].kind = "close"}
DepthOf(f, n) == Cardinality(Opens(f, n)) - Cardinality(Closes(f, n))

\* The tags of the stack that the file shows and that will be closed.
Shown(s, i) == s[i].open_tag_written /\ s[i].name \notin VoidTags
CountOf(s, n) == Cardinality({i \in 1..n : Shown(s, i)})

\* No item behind the i-th one closes it.
StillOpen(f, i) == OpenBy(f, i) /\ \A k \in i..Len(f) : DepthOf(f, k) >= DepthOf(f, i)

NeverNegative(f) == \A n \in 0..Len(f) : DepthOf(f, n) >= 0

Pairs(f) ==
  \A i, j \in 1..Len(f) :
    (/\ i < j /\ OpenBy(f, i) /\ f[j].kind = "close"
     /\ DepthOf(f, j) = DepthOf(f, i) - 1
     /\ \A k \in (i + 1)..(j - 1) : DepthOf(f, k) >= DepthOf(f, i))
      => f[i].name = f[j].name

OpenOnStack(f, s) ==
  \A i \in 1..Len(f) :
    StillOpen(f, i) =>
      \E k \in 1..Len(s) : Shown(s, k) /\ CountOf(s, k) = DepthOf(f, i) /\ s[k].name = f[i].name

Nested(f, s) ==
  /\ NeverNegative(f)
  /\ DepthOf(f, Len(f)) = CountOf(s, Len(s))
  /\ Pairs(f)
  /\ OpenOnStack(f, s)

\* Files that g goes on from, and items that open and close nothing.
Extends(f, g) == Len(f) <= Len(g) /\ \A i \in 1..Len(f) : g[i] = f[i]
Flat(f, i) == ~OpenBy(f, i) /\ f[i].kind # "close"

-----------------------------------------------------------------------------
(***************************************************************************)
(* Counting                                                                *)
(***************************************************************************)
LEMMA Finite ==
  ASSUME NEW f, NEW n \in Nat
  PROVE  /\ IsFiniteSet(Opens(f, n)) /\ Cardinality(Opens(f, n)) \in Nat
         /\ IsFiniteSet(Closes(f, n)) /\ Cardinality(Closes(f, n)) \in Nat
         /\ DepthOf(f, n) \in Int
<1>1. IsFiniteSet(1..n)
  BY FS_Interval
<1>2. Opens(f, n) \in SUBSET (1..n) /\ Closes(f, n) \in SUBSET (1..n)
  BY DEF Opens, Closes
<1>3. IsFiniteSet(Opens(f, n)) /\ IsFiniteSet(Closes(f, n))
  BY <1>1, <1>2, FS_Subset
<1>4. Cardinality(Opens(f, n)) \in Nat /\ Cardinality(Closes(f, n)) \in Nat
  BY <1>3, FS_CardinalityType
<1> QED
  BY <1>3, <1>4 DEF DepthOf

LEMMA DepthNext ==
  ASSUME NEW f, NEW n \in Nat
  PROVE  /\ OpenBy(f, n + 1) => DepthOf(f, n + 1) = DepthOf(f, n) + 1
         /\ f[n + 1].kind = "close" => DepthOf(f, n + 1) = DepthOf(f, n) - 1
<1>1. n + 1 \notin Opens(f, n) /\ n + 1 \notin Closes(f, n)
  BY DEF Opens, Closes
<1>2. /\ IsFiniteSet(Opens(f, n)) /\ Cardinality(Opens(f, n)) \in Nat
      /\ IsFiniteSet(Closes(f, n)) /\ Cardinality(Closes(f, n)) \in Nat
  BY Finite
<1>3. /\ Cardinality(Opens(f, n) \cup {n + 1}) = Cardinality(Opens(f, n)) + 1
      /\ Cardinality(Closes(f, n) \cup {n + 1}) = Cardinality(Closes(f, n)) + 1
  BY <1>1, <1>2, FS_AddElement
<1>4. CASE OpenBy(f, n + 1)
  <2>1. f[n + 1].kind # "close"
    BY <1>4 DEF OpenBy
  <2>2. Opens(f, n + 1) = Opens(f, n) \cup {n + 1} /\ Closes(f, n + 1) = Closes(f, n)
    BY <1>4, <2>1 DEF Opens, Closes
  <2>3. DepthOf(f, n + 1) = DepthOf(f, n) + 1
    BY <1>2, <1>3, <2>2 DEF DepthOf
  <2> QED
    BY <2>1, <2>3
<1>5. CASE f[n + 1].kind = "close"
  <2>1. ~OpenBy(f, n + 1)
    BY <1>5 DEF OpenBy
  <2>2. Opens(f, n + 1) = Opens(f, n) /\ Closes(f, n + 1) = Closes(f, n) \cup {n + 1}
    BY <1>5, <2>1 DEF Opens, Closes
  <2>3. DepthOf(f, n + 1) = DepthOf(f, n) - 1
    <3>1. /\ Cardinality(Opens(f, n + 1)) = Cardinality(Opens(f, n))
          /\ Cardinality(Closes(f, n + 1)) = Cardinality(Closes(f, n)) + 1
      BY <1>3, <2>2
    <3> QED
      BY <1>2, <3>1 DEF DepthOf
  <2> QED
    BY <2>1, <2>3
<1> QED
  BY <1>4, <1>5

LEMMA FlatDepth ==
  ASSUME NEW f, NEW a \in Nat, NEW b \in Nat, a <= b, \A i \in (a + 1)..b : Flat(f, i)
  PROVE  DepthOf(f, b) = DepthOf(f, a)
<1>1. Opens(f, b) = Opens(f, a) /\ Closes(f, b) = Closes(f, a)
  BY DEF Opens, Closes, Flat
<1> QED
  BY <1>1 DEF DepthOf

LEMMA SameDepth ==
  ASSUME NEW f, NEW g, Len(f) \in Nat, Extends(f, g), NEW n \in 0..Len(f)
  PROVE  DepthOf(g, n) = DepthOf(f, n)
<1>1. \A i \in 1..n : g[i] = f[i]
  BY DEF Extends
<1>2. Opens(g, n) = Opens(f, n) /\ Closes(g, n) = Closes(f, n)
  BY <1>1 DEF Opens, Closes, OpenBy
<1> QED
  BY <1>2 DEF DepthOf

LEMMA CountType ==
  ASSUME NEW s, NEW n \in Nat
  PROVE  IsFiniteSet({i \in 1..n : Shown(s, i)}) /\ CountOf(s, n) \in Nat
<1>1. IsFiniteSet(1..n)
  BY FS_Interval
<1>2. {i \in 1..n : Shown(s, i)} \in SUBSET (1..n)
  OBVIOUS
<1> QED
  BY <1>1, <1>2, FS_Subset, FS_CardinalityType DEF CountOf

LEMMA CountNext ==
  ASSUME NEW s, NEW n \in Nat, Shown(s, n + 1)
  PROVE  CountOf(s, n + 1) = CountOf(s, n) + 1
<1>1. {i \in 1..(n + 1) : Shown(s, i)} = {i \in 1..n : Shown(s, i)} \cup {n + 1}
  OBVIOUS
<1>2. n + 1 \notin {i \in 1..n : Shown(s, i)}
  OBVIOUS
<1>3. IsFiniteSet({i \in 1..n : Shown(s, i)})
  BY CountType
<1>4. Cardinality({i \in 1..n : Shown(s, i)} \cup {n + 1}) = Cardinality({i \in 1..n : Shown(s, i)}) + 1
  BY <1>2, <1>3, FS_AddElement
<1> QED
  BY <1>1, <1>4 DEF CountOf

\* Tags that do not show do not count.
LEMMA CountSame ==
  ASSUME NEW s, NEW a \in Nat, NEW b \in Nat, a <= b, \A i \in (a + 1)..b : ~Shown(s, i)
  PROVE  CountOf(s, b) = CountOf(s, a)
<1>1. {i \in 1..b : Shown(s, i)} = {i \in 1..a : Shown(s, i)}
  OBVIOUS
<1> QED
  BY <1>1 DEF CountOf

LEMMA CountGrows ==
  ASSUME NEW s, NEW a \in Nat, NEW b \in Nat, a <= b
  PROVE  CountOf(s, a) <= CountOf(s, b)
<1>1. {i \in 1..a : Shown(s, i)} \in SUBSET {i \in 1..b : Shown(s, i)}
  OBVIOUS
<1>2. IsFiniteSet({i \in 1..b : Shown(s, i)})
  BY CountType
<1> QED
  BY <1>1, <1>2, FS_Subset DEF CountOf

LEMMA CountEqual ==
  ASSUME NEW s, NEW r, NEW n \in Nat, \A i \in 1..n : Shown(r, i) <=> Shown(s, i)
  PROVE  CountOf(r, n) = CountOf(s, n)
<1>1. {i \in 1..n : Shown(r, i)} = {i \in 1..n : Shown(s, i)}
  OBVIOUS
<1> QED
  BY <1>1 DEF CountOf

-----------------------------------------------------------------------------
(***************************************************************************)
(* What may happen to a file and a stack                                   *)
(***************************************************************************)

\* The stack gains or loses tags that do not show.
LEMMA NestedStack ==
  ASSUME NEW f, NEW s, NEW r, Len(s) \in Nat, Len(r) \in Nat, Nested(f, s),
         NEW m \in Nat, m <= Len(s), m <= Len(r),
         \A i \in 1..m : (Shown(r, i) <=> Shown(s, i)) /\ r[i].name = s[i].name,
         \A i \in (m + 1)..Len(s) : ~Shown(s, i),
         \A i \in (m + 1)..Len(r) : ~Shown(r, i)
  PROVE  Nested(f, r)
<1>1. \A k \in 0..m : CountOf(r, k) = CountOf(s, k)
  BY CountEqual
<1>2. CountOf(s, Len(s)) = CountOf(s, m) /\ CountOf(r, Len(r)) = CountOf(r, m)
  BY CountSame
<1>3. DepthOf(f, Len(f)) = CountOf(r, Len(r))
  BY <1>1, <1>2 DEF Nested
<1>4. OpenOnStack(f, r)
  <2> SUFFICES ASSUME NEW i \in 1..Len(f), StillOpen(f, i)
               PROVE  \E k \in 1..Len(r) : Shown(r, k) /\ CountOf(r, k) = DepthOf(f, i) /\ r[k].name = f[i].name
    BY DEF OpenOnStack
  <2>1. PICK k \in 1..Len(s) : Shown(s, k) /\ CountOf(s, k) = DepthOf(f, i) /\ s[k].name = f[i].name
    BY DEF Nested, OpenOnStack
  <2>2. k \in 1..m
    BY <2>1
  <2>3. k \in 1..Len(r) /\ k \in 0..m
    BY <2>2
  <2> QED
    BY <1>1, <2>1, <2>2, <2>3
<1> QED
  BY <1>3, <1>4 DEF Nested

\* Pairs and tags left open of a file that goes on with flat items.
LEMMA NestedFlat ==
  ASSUME NEW f, NEW g, NEW s, Len(f) \in Nat, Len(g) \in Nat, Nested(f, s), Extends(f, g),
         \A i \in (Len(f) + 1)..Len(g) : Flat(g, i)
  PROVE  Nested(g, s)
<1>1. \A n \in 0..Len(f) : DepthOf(g, n) = DepthOf(f, n)
  BY SameDepth
<1>2. \A n \in Len(f)..Len(g) : DepthOf(g, n) = DepthOf(g, Len(f))
  BY FlatDepth
<1>3. Len(f) <= Len(g) /\ \A i \in 1..Len(f) : g[i] = f[i]
  BY DEF Extends
<1>4. \A i \in 1..Len(g) : OpenBy(g, i) \/ g[i].kind = "close" => i \in 1..Len(f)
  BY DEF Flat
<1>5. NeverNegative(g)
  <2> SUFFICES ASSUME NEW n \in 0..Len(g) PROVE DepthOf(g, n) >= 0
    BY DEF NeverNegative
  <2>1. CASE n <= Len(f)
    BY <1>1, <2>1 DEF Nested, NeverNegative
  <2>2. CASE ~(n <= Len(f))
    <3>1. DepthOf(g, n) = DepthOf(f, Len(f))
      BY <1>1, <1>2, <2>2
    <3> QED
      BY <3>1 DEF Nested, NeverNegative
  <2> QED
    BY <2>1, <2>2
<1>6. DepthOf(g, Len(g)) = CountOf(s, Len(s))
  BY <1>1, <1>2, <1>3 DEF Nested
<1>7. Pairs(g)
  <2> SUFFICES ASSUME NEW i \in 1..Len(g), NEW j \in 1..Len(g),
                      i < j, OpenBy(g, i), g[j].kind = "close",
                      DepthOf(g, j) = DepthOf(g, i) - 1,
                      \A k \in (i + 1)..(j - 1) : DepthOf(g, k) >= DepthOf(g, i)
               PROVE  g[i].name = g[j].name
    BY DEF Pairs
  <2>1. i \in 1..Len(f) /\ j \in 1..Len(f)
    BY <1>4
  <2>2. \A k \in i..j : DepthOf(g, k) = DepthOf(f, k)
    BY <1>1, <2>1
  <2>3. OpenBy(f, i) /\ f[j].kind = "close" /\ DepthOf(f, j) = DepthOf(f, i) - 1
    BY <1>3, <2>1, <2>2 DEF OpenBy
  <2>4. \A k \in (i + 1)..(j - 1) : DepthOf(f, k) >= DepthOf(f, i)
    BY <2>1, <2>2
  <2>5. f[i].name = f[j].name
    BY <2>1, <2>3, <2>4 DEF Nested, Pairs
  <2> QED
    BY <1>3, <2>1, <2>5
<1>8. OpenOnStack(g, s)
  <2> SUFFICES ASSUME NEW i \in 1..Len(g), StillOpen(g, i)
               PROVE  \E k \in 1..Len(s) : Shown(s, k) /\ CountOf(s, k) = DepthOf(g, i) /\ s[k].name = g[i].name
    BY DEF OpenOnStack
  <2>1. i \in 1..Len(f)
    BY <1>4 DEF StillOpen
  <2>2. \A k \in i..Len(f) : DepthOf(g, k) = DepthOf(f, k)
    BY <1>1, <2>1
  <2>3. StillOpen(f, i)
    BY <1>3, <2>1, <2>2 DEF StillOpen, OpenBy
  <2>4. DepthOf(g, i) = DepthOf(f, i) /\ g[i].name = f[i].name
    BY <1>3, <2>1, <2>2
  <2> QED
    BY <2>1, <2>3, <2>4 DEF Nested, OpenOnStack
<1> QED
  BY <1>5, <1>6, <1>7, <1>8 DEF Nested

LEMMA LastOrBefore ==
  ASSUME NEW n \in Nat, NEW j \in 1..(n + 1)
  PROVE  /\ j \in 1..n \/ j = n + 1
         /\ \A i \in 1..(n + 1) : i < j => i \in 1..n
OBVIOUS

\* The innermost tag shows.
LEMMA NestedOpen ==
  ASSUME NEW f, NEW g, NEW s, NEW r, Len(f) \in Nat, Nested(f, s),
         Len(g) = Len(f) + 1, Extends(f, g), OpenBy(g, Len(g)),
         Len(s) \in Nat \ {0}, Len(r) = Len(s),
         \A i \in 1..(Len(s) - 1) : (Shown(r, i) <=> Shown(s, i)) /\ r[i].name = s[i].name,
         ~Shown(s, Len(s)), Shown(r, Len(s)), r[Len(s)].name = g[Len(g)].name
  PROVE  Nested(g, r)
<1> DEFINE n == Len(f)
<1> DEFINE t == Len(s)
<1>1. n \in Nat /\ t \in Nat \ {0} /\ t - 1 \in Nat
  OBVIOUS
<1>2. \A k \in 0..n : DepthOf(g, k) = DepthOf(f, k)
  BY SameDepth
<1>3. DepthOf(g, n + 1) = DepthOf(f, n) + 1
  BY <1>1, <1>2, DepthNext
<1>4. \A k \in 0..(t - 1) : CountOf(r, k) = CountOf(s, k)
  BY CountEqual
<1>5. CountOf(s, t) = CountOf(s, t - 1)
  <2>1. \A i \in ((t - 1) + 1)..t : ~Shown(s, i)
    BY <1>1
  <2> QED
    BY <1>1, <2>1, CountSame
<1>6. CountOf(r, t) = CountOf(s, t) + 1
  <2>1. CountOf(r, (t - 1) + 1) = CountOf(r, t - 1) + 1
    BY <1>1, CountNext
  <2> QED
    BY <1>1, <1>4, <1>5, <2>1
<1>7. DepthOf(g, n + 1) = CountOf(r, t)
  BY <1>3, <1>6 DEF Nested
<1>8. /\ \A i \in 1..n : g[i] = f[i]
      /\ \A k \in 0..n : DepthOf(f, k) \in Int /\ DepthOf(f, k) >= 0
  BY Finite DEF Extends, Nested, NeverNegative
<1>9. NeverNegative(g)
  <2> SUFFICES ASSUME NEW k \in 0..(n + 1) PROVE DepthOf(g, k) >= 0
    BY DEF NeverNegative
  <2>1. CASE k = n + 1
    <3>1. DepthOf(f, n) \in Int /\ DepthOf(f, n) >= 0
      BY <1>1, <1>8
    <3> QED
      BY <1>3, <2>1, <3>1
  <2>2. CASE k # n + 1
    <3>1. k \in 0..n
      BY <1>1, <2>2
    <3>2. DepthOf(g, k) = DepthOf(f, k) /\ DepthOf(f, k) >= 0
      BY <1>2, <1>8, <3>1
    <3> QED
      BY <3>2
  <2> QED
    BY <2>1, <2>2
<1>10. Pairs(g)
  <2> SUFFICES ASSUME NEW i \in 1..(n + 1), NEW j \in 1..(n + 1),
                      i < j, OpenBy(g, i), g[j].kind = "close",
                      DepthOf(g, j) = DepthOf(g, i) - 1,
                      \A k \in (i + 1)..(j - 1) : DepthOf(g, k) >= DepthOf(g, i)
               PROVE  g[i].name = g[j].name
    BY DEF Pairs
  <2>1. j # n + 1
    BY DEF OpenBy
  <2>2. i \in 1..n /\ j \in 1..n
    <3> HIDE DEF n
    <3> QED
      BY <1>1, <2>1, LastOrBefore
  <2>3. \A k \in i..j : DepthOf(g, k) = DepthOf(f, k)
    BY <1>2, <2>2
  <2>4. OpenBy(f, i) /\ f[j].kind = "close" /\ DepthOf(f, j) = DepthOf(f, i) - 1
    BY <1>8, <2>2, <2>3 DEF OpenBy
  <2>5. \A k \in (i + 1)..(j - 1) : DepthOf(f, k) >= DepthOf(f, i)
    BY <2>2, <2>3
  <2>6. f[i].name = f[j].name
    BY <2>2, <2>4, <2>5 DEF Nested, Pairs
  <2> QED
    BY <1>8, <2>2, <2>6
<1>11. OpenOnStack(g, r)
  <2> SUFFICES ASSUME NEW i \in 1..(n + 1), StillOpen(g, i)
               PROVE  \E k \in 1..t : Shown(r, k) /\ CountOf(r, k) = DepthOf(g, i) /\ r[k].name = g[i].name
    BY DEF OpenOnStack
  <2>1. CASE i = n + 1
    BY <1>1, <1>7, <2>1
  <2>2. CASE i # n + 1
    <3>1. i \in 1..n
      BY <1>1, <2>2
    <3>2. \A k \in i..n : DepthOf(g, k) = DepthOf(f, k)
      BY <1>2, <3>1
    <3>3. StillOpen(f, i)
      <4>1. OpenBy(g, i) /\ \A k \in i..Len(g) : DepthOf(g, k) >= DepthOf(g, i)
        BY DEF StillOpen
      <4>2. OpenBy(f, i)
        BY <1>8, <3>1, <4>1 DEF OpenBy
      <4>3. ASSUME NEW k \in i..n PROVE DepthOf(f, k) >= DepthOf(f, i)
        <5>1. k \in i..Len(g) /\ i \in i..n
          BY <1>1, <3>1
        <5> QED
          BY <3>2, <4>1, <5>1
      <4> QED
        BY <4>2, <4>3 DEF StillOpen
    <3>4. PICK k \in 1..t : Shown(s, k) /\ CountOf(s, k) = DepthOf(f, i) /\ s[k].name = f[i].name
      BY <3>1, <3>3 DEF Nested, OpenOnStack
    <3>5. k \in 1..(t - 1)
      BY <1>1, <3>4
    <3>6. (Shown(r, k) <=> Shown(s, k)) /\ r[k].name = s[k].name /\ CountOf(r, k) = CountOf(s, k)
      BY <1>1, <1>4, <3>5
    <3>7. Shown(r, k) /\ CountOf(r, k) = DepthOf(g, i) /\ r[k].name = g[i].name
      BY <1>8, <3>1, <3>2, <3>4, <3>6
    <3> QED
      BY <3>7
  <2> QED
    BY <2>1, <2>2
<1> QED
  BY <1>7, <1>9, <1>10, <1>11 DEF Nested

\* The innermost tag, which shows, is closed.
LEMMA NestedClose ==
  ASSUME NEW f, NEW g, NEW s, NEW r, Len(f) \in Nat, Nested(f, s),
         Len(g) = Len(f) + 1, Extends(f, g), g[Len(g)].kind = "close",
         Len(s) \in Nat \ {0}, Len(r) = Len(s) - 1,
         \A i \in 1..(Len(s) - 1) : (Shown(r, i) <=> Shown(s, i)) /\ r[i].name = s[i].name,
         Shown(s, Len(s)), s[Len(s)].name = g[Len(g)].name
  PROVE  Nested(g, r)
<1> DEFINE n == Len(f)
<1> DEFINE t == Len(s)
<1>1. n \in Nat /\ t \in Nat \ {0} /\ t - 1 \in Nat
  OBVIOUS
<1>2. \A k \in 0..n : DepthOf(g, k) = DepthOf(f, k)
  BY SameDepth
<1>3. DepthOf(g, n + 1) = DepthOf(f, n) - 1
  BY <1>1, <1>2, DepthNext
<1>4. \A k \in 0..(t - 1) : CountOf(r, k) = CountOf(s, k)
  BY CountEqual
<1>5. CountOf(s, t) = CountOf(s, t - 1) + 1 /\ CountOf(s, t - 1) \in Nat
  <2>1. CountOf(s, (t - 1) + 1) = CountOf(s, t - 1) + 1
    BY <1>1, CountNext
  <2>2. CountOf(s, t - 1) \in Nat
    BY <1>1, CountType
  <2>3. (t - 1) + 1 = t
    BY <1>1
  <2> QED
    BY <2>1, <2>2, <2>3
<1>6. DepthOf(f, n) = CountOf(s, t)
  BY DEF Nested
<1>7. DepthOf(g, n + 1) = CountOf(r, t - 1) /\ DepthOf(g, n + 1) \in Nat
  BY <1>1, <1>3, <1>4, <1>5, <1>6
<1>8. /\ \A i \in 1..n : g[i] = f[i]
      /\ \A k \in 0..n : DepthOf(f, k) \in Int /\ DepthOf(f, k) >= 0
  BY Finite DEF Extends, Nested, NeverNegative
<1>9. ~OpenBy(g, n + 1)
  BY DEF OpenBy
<1>10. NeverNegative(g)
  <2> SUFFICES ASSUME NEW k \in 0..(n + 1) PROVE DepthOf(g, k) >= 0
    BY DEF NeverNegative
  <2>1. CASE k = n + 1
    BY <1>7, <2>1
  <2>2. CASE k # n + 1
    BY <1>1, <1>2, <1>8, <2>2
  <2> QED
    BY <2>1, <2>2
\* An item of the file that nothing closed is on the stack, at its depth.
<1>11. ASSUME NEW i \in 1..n, OpenBy(f, i), \A k \in (i + 1)..n : DepthOf(f, k) >= DepthOf(f, i)
       PROVE  \E k \in 1..t : Shown(s, k) /\ CountOf(s, k) = DepthOf(f, i) /\ s[k].name = f[i].name
  <2>1. \A k \in i..n : DepthOf(f, k) >= DepthOf(f, i)
    <3>1. DepthOf(f, i) >= DepthOf(f, i)
      BY <1>1, <1>8
    <3> QED
      BY <1>1, <1>11, <3>1
  <2>2. StillOpen(f, i)
    BY <1>11, <2>1 DEF StillOpen
  <2> QED
    BY <2>2 DEF Nested, OpenOnStack
<1>12. Pairs(g)
  <2> SUFFICES ASSUME NEW i \in 1..(n + 1), NEW j \in 1..(n + 1),
                      i < j, OpenBy(g, i), g[j].kind = "close",
                      DepthOf(g, j) = DepthOf(g, i) - 1,
                      \A k \in (i + 1)..(j - 1) : DepthOf(g, k) >= DepthOf(g, i)
               PROVE  g[i].name = g[j].name
    BY DEF Pairs
  <2>1. i \in 1..n
    BY <1>1
  <2>2. \A k \in i..n : DepthOf(g, k) = DepthOf(f, k)
    BY <1>2, <2>1
  <2>3. OpenBy(f, i) /\ g[i] = f[i]
    BY <1>8, <2>1 DEF OpenBy
  <2>4. CASE j \in 1..n
    <3>1. f[j].kind = "close" /\ DepthOf(f, j) = DepthOf(f, i) - 1
      BY <1>8, <2>1, <2>2, <2>4
    <3>2. \A k \in (i + 1)..(j - 1) : DepthOf(f, k) >= DepthOf(f, i)
      BY <2>1, <2>2, <2>4
    <3>3. f[i].name = f[j].name
      BY <2>1, <2>3, <2>4, <3>1, <3>2 DEF Nested, Pairs
    <3> QED
      BY <1>8, <2>3, <2>4, <3>3
  <2>5. CASE j = n + 1
    <3>1. \A k \in (i + 1)..n : DepthOf(f, k) >= DepthOf(f, i)
      BY <1>1, <2>1, <2>2, <2>5
    <3>2. DepthOf(f, i) = CountOf(s, t)
      <4>1. DepthOf(f, i) \in Int /\ DepthOf(g, i) = DepthOf(f, i)
        BY <1>8, <2>1, <2>2
      <4> QED
        BY <1>1, <1>3, <1>5, <1>6, <2>5, <4>1
    <3>3. PICK k \in 1..t : Shown(s, k) /\ CountOf(s, k) = CountOf(s, t) /\ s[k].name = f[i].name
      BY <1>11, <2>1, <2>3, <3>1, <3>2
    <3>4. k = t
      <4>1. ASSUME k # t PROVE FALSE
        <5>1. k \in Nat /\ k <= t - 1
          BY <1>1, <4>1
        <5>2. CountOf(s, k) <= CountOf(s, t - 1)
          BY <1>1, <5>1, CountGrows
        <5> QED
          BY <1>5, <3>3, <5>2
      <4> QED
        BY <4>1
    <3> QED
      BY <2>3, <2>5, <3>3, <3>4
  <2>6. j \in 1..n \/ j = n + 1
    <3> HIDE DEF n
    <3> QED
      BY <1>1, LastOrBefore
  <2> QED
    BY <2>4, <2>5, <2>6
<1>13. OpenOnStack(g, r)
  <2> SUFFICES ASSUME NEW i \in 1..(n + 1), StillOpen(g, i)
               PROVE  \E k \in 1..(t - 1) : Shown(r, k) /\ CountOf(r, k) = DepthOf(g, i) /\ r[k].name = g[i].name
    BY DEF OpenOnStack
  <2>1. i \in 1..n
    BY <1>1, <1>9 DEF StillOpen
  <2>2. \A k \in i..n : DepthOf(g, k) = DepthOf(f, k)
    BY <1>2, <2>1
  <2>3. OpenBy(f, i) /\ g[i] = f[i]
    BY <1>8, <2>1 DEF OpenBy, StillOpen
  <2>4. \A k \in (i + 1)..n : DepthOf(f, k) >= DepthOf(f, i)
    BY <1>1, <2>1, <2>2 DEF StillOpen
  <2>5. PICK k \in 1..t : Shown(s, k) /\ CountOf(s, k) = DepthOf(f, i) /\ s[k].name = f[i].name
    BY <1>11, <2>1, <2>3, <2>4
  <2>6. DepthOf(g, n + 1) >= DepthOf(g, i)
    BY <1>1, <2>1 DEF StillOpen
  <2>7. k # t
    <3>1. DepthOf(g, i) = DepthOf(f, i) /\ DepthOf(f, i) \in Int
      BY <1>8, <2>1, <2>2
    <3> QED
      BY <1>3, <1>5, <1>6, <2>5, <2>6, <3>1
  <2>8. k \in 1..(t - 1) /\ k \in 0..(t - 1)
    BY <1>1, <2>5, <2>7
  <2>9. Shown(r, k) /\ CountOf(r, k) = DepthOf(g, i) /\ r[k].name = g[i].name
    BY <1>4, <2>1, <2>2, <2>3, <2>5, <2>8
  <2> QED
    BY <2>8, <2>9
<1> QED
  BY <1>7, <1>10, <1>12, <1>13 DEF Nested

-----------------------------------------------------------------------------
(***************************************************************************)
(* The calls                                                               *)
(***************************************************************************)
NestingInv == WriterInv /\ Nested(file, stack)

LEMMA Types ==
  ASSUME WriterInv
  PROVE  /\ file \in Seq(FileItems) /\ Len(file) \in Nat
         /\ stack \in Seq(Tags) /\ Len(stack) \in Nat
         /\ EnsuredFile \in Seq(FileItems) /\ Len(EnsuredFile) \in Nat
         /\ Len(EnsuredStack) = Len(stack)
         /\ \A i \in 1..Len(stack) : EnsuredStack[i].name = stack[i].name /\ EnsuredStack[i].open_tag_written
         /\ \A i \in 1..(Len(stack) - 1) : stack[i].open_tag_written
BY EnsuredPage, EnsuredWritten DEF WriterInv, TypeOK, OnlyTopPending

LEMMA EnsuredNested ==
  ASSUME NestingInv
  PROVE  Nested(EnsuredFile, EnsuredStack)
<1>1. WriterInv /\ Nested(file, stack)
  BY DEF NestingInv
<1>2. CASE ~Pending
  BY <1>1, <1>2 DEF EnsuredFile, EnsuredStack
<1>3. CASE Pending
  <2> DEFINE n == Len(file)
  <2> DEFINE t == Len(stack)
  <2>1. /\ n \in Nat /\ t \in Nat \ {0} /\ Top = stack[t] /\ ~Top.open_tag_written
        /\ file \in Seq(FileItems) /\ stack \in Seq(Tags)
        /\ Len(EnsuredStack) = t
    BY <1>1, <1>3, Types DEF Pending, Empty, Top
  <2>2. EnsuredFile = Append(file, OpenItem(Top.name, Top.attrs))
    BY <1>3 DEF EnsuredFile
  <2>3. /\ Len(EnsuredFile) = n + 1
        /\ \A i \in 1..n : EnsuredFile[i] = file[i]
        /\ EnsuredFile[n + 1] = OpenItem(Top.name, Top.attrs)
    BY <2>1, <2>2
  <2>4. EnsuredFile[n + 1].kind = "open" /\ EnsuredFile[n + 1].name = Top.name
    BY <2>3 DEF OpenItem
  <2>5. Extends(file, EnsuredFile)
    BY <2>1, <2>3 DEF Extends
  <2>6. \A i \in 1..t : EnsuredStack[i].name = stack[i].name /\ EnsuredStack[i].open_tag_written
    BY <1>1, Types
  <2>7. \A i \in 1..(t - 1) : (Shown(EnsuredStack, i) <=> Shown(stack, i)) /\ EnsuredStack[i].name = stack[i].name
    <3>1. \A i \in 1..(t - 1) : stack[i].open_tag_written /\ i \in 1..t
      BY <1>1, <2>1, Types
    <3> QED
      BY <2>6, <3>1 DEF Shown
  <2>8. t \in 1..t /\ ~Shown(stack, t)
    BY <2>1 DEF Shown
  <2>9. CASE Top.name \in VoidTags
    <3>1. \A i \in (n + 1)..(n + 1) : Flat(EnsuredFile, i)
      BY <2>1, <2>4, <2>9 DEF Flat, OpenBy
    <3>2. Nested(EnsuredFile, stack)
      BY <1>1, <2>1, <2>3, <2>5, <3>1, NestedFlat
    <3>3. \A i \in 1..t : (Shown(EnsuredStack, i) <=> Shown(stack, i)) /\ EnsuredStack[i].name = stack[i].name
      <4>1. ~Shown(EnsuredStack, t)
        BY <2>1, <2>6, <2>8, <2>9 DEF Shown
      <4> QED
        BY <2>1, <2>6, <2>7, <2>8, <4>1
    <3> QED
      BY <2>1, <3>2, <3>3, NestedStack
  <2>10. CASE Top.name \notin VoidTags
    <3>1. Shown(EnsuredStack, t) /\ EnsuredStack[t].name = Top.name
      BY <2>1, <2>6, <2>8, <2>10 DEF Shown
    <3>2. OpenBy(EnsuredFile, n + 1)
      BY <2>4, <2>10 DEF OpenBy
    <3> QED
      BY <1>1, <2>1, <2>3, <2>4, <2>5, <2>7, <2>8, <3>1, <3>2, NestedOpen
  <2> QED
    BY <2>9, <2>10
<1> QED
  BY <1>2, <1>3

\* Text and line breaks behind what the calls have ensured.
LEMMA FlatNested ==
  ASSUME NestingInv, NEW items \in Seq(FileItems), \A i \in 1..Len(items) : Flat(items, i)
  PROVE  Nested(EnsuredFile \o items, EnsuredStack)
<1> DEFINE g == EnsuredFile \o items
<1>1. EnsuredFile \in Seq(FileItems) /\ Len(EnsuredFile) \in Nat /\ Len(items) \in Nat
  BY Types DEF NestingInv
<1>2. /\ Len(g) = Len(EnsuredFile) + Len(items)
      /\ \A i \in 1..Len(EnsuredFile) : g[i] = EnsuredFile[i]
      /\ \A i \in (Len(EnsuredFile) + 1)..Len(g) :
           i - Len(EnsuredFile) \in 1..Len(items) /\ g[i] = items[i - Len(EnsuredFile)]
  BY <1>1
<1> HIDE DEF g
<1>3. Extends(EnsuredFile, g) /\ Len(g) \in Nat
  BY <1>1, <1>2 DEF Extends
<1>4. \A i \in (Len(EnsuredFile) + 1)..Len(g) : Flat(g, i)
  BY <1>2 DEF Flat, OpenBy
<1>5. Nested(g, EnsuredStack)
  BY <1>1, <1>3, <1>4, EnsuredNested, NestedFlat
<1> QED
  BY <1>5 DEF g

LEMMA FailNested ==
  ASSUME NestingInv, AssertFails
  PROVE  Nested(file', stack')
BY EnsuredNested DEF AssertFails

LEMMA OpenNested ==
  ASSUME NestingInv, NEW name \in Names, html_open_tag(name)
  PROVE  Nested(file', stack')
<1>1. CASE AssertFails
  BY <1>1, FailNested
<1>2. CASE file' = EnsuredFile /\ stack' = Push(EnsuredStack, name)
  <2> DEFINE t == Len(stack)
  <2>1. t \in Nat /\ EnsuredStack \in Seq(Tags) /\ Len(EnsuredStack) = t
    BY Types, EnsuredWritten DEF NestingInv
  <2>2. NewTag(name) \in Tags /\ ~NewTag(name).open_tag_written
    BY DEF NewTag, Tags
  <2>3. /\ Len(stack') = t + 1
        /\ \A i \in 1..t : stack'[i] = EnsuredStack[i]
        /\ stack'[t + 1] = NewTag(name)
    BY <1>2, <2>1, <2>2 DEF Push
  <2>4. \A i \in 1..t : (Shown(stack', i) <=> Shown(EnsuredStack, i)) /\ stack'[i].name = EnsuredStack[i].name
    BY <2>3 DEF Shown
  <2>5. \A i \in (t + 1)..(t + 1) : ~Shown(stack', i)
    BY <2>1, <2>2, <2>3 DEF Shown
  <2>6. Nested(EnsuredFile, stack')
    BY <2>1, <2>3, <2>4, <2>5, EnsuredNested, NestedStack
  <2> QED
    BY <1>2, <2>6
<1> QED
  BY <1>1, <1>2 DEF html_open_tag

LEMMA CloseNested ==
  ASSUME NestingInv, html_close_tag
  PROVE  Nested(file', stack')
<1>1. CASE AssertFails
  BY <1>1, FailNested
<1>2. CASE ~Empty
  <2> DEFINE t == Len(stack)
  <2>1. /\ t \in Nat \ {0} /\ t - 1 \in Nat /\ Top = stack[t] /\ stack \in Seq(Tags)
        /\ EnsuredFile \in Seq(FileItems) /\ Len(EnsuredFile) \in Nat
        /\ Len(EnsuredStack) = t /\ WriterInv
    BY <1>2, Types DEF NestingInv, Empty, Top
  <2>2. \A i \in 1..t : EnsuredStack[i].name = stack[i].name /\ EnsuredStack[i].open_tag_written
    BY <2>1, Types
  <2>3. /\ file' = EnsuredFile \o (IF Top.name \in VoidTags THEN <<>> ELSE <<CloseItem(Top.name)>>)
        /\ stack' = SubSeq(stack, 1, t - 1)
    BY <1>2 DEF html_close_tag, Pop
  <2>4. Len(stack') = t - 1 /\ \A i \in 1..(t - 1) : stack'[i] = stack[i]
    <3>1. \A i \in 1..(t - 1) : stack[i] \in Tags
      BY <2>1
    <3> HIDE DEF t
    <3>2. /\ Len(SubSeq(stack, 1, t - 1)) = IF 1 <= t - 1 THEN (t - 1) - 1 + 1 ELSE 0
          /\ \A i \in 1..((t - 1) - 1 + 1) : SubSeq(stack, 1, t - 1)[i] = stack[1 + i - 1]
      BY <2>1, <3>1, SubSeqProperties
    <3> QED
      BY <2>1, <2>3, <3>2
  <2>5. \A i \in 1..(t - 1) : (Shown(stack', i) <=> Shown(EnsuredStack, i)) /\ stack'[i].name = EnsuredStack[i].name
    <3>1. \A i \in 1..(t - 1) : stack[i].open_tag_written /\ i \in 1..t
      BY <2>1, Types
    <3> QED
      BY <2>2, <2>4, <3>1 DEF Shown
  <2>6. t \in 1..t /\ EnsuredStack[t].name = Top.name /\ EnsuredStack[t].open_tag_written
    BY <2>1, <2>2
  <2>7. CASE Top.name \in VoidTags
    <3>1. file' = EnsuredFile
      BY <2>1, <2>3, <2>7
    <3>2. \A i \in ((t - 1) + 1)..t : ~Shown(EnsuredStack, i)
      BY <2>1, <2>6, <2>7 DEF Shown
    <3>3. \A i \in ((t - 1) + 1)..(t - 1) : ~Shown(stack', i)
      BY <2>1
    <3>4. Nested(EnsuredFile, stack')
      BY <2>1, <2>4, <2>5, <3>2, <3>3, EnsuredNested, NestedStack
    <3> QED
      BY <3>1, <3>4
  <2>8. CASE Top.name \notin VoidTags
    <3>1. CloseItem(Top.name) \in FileItems
      <4>1. Top.name \in Names
        BY <2>1, TagNames
      <4> DEFINE none == <<>>
      <4>2. none \in Seq(Attrs)
        OBVIOUS
      <4>3. CloseItem(Top.name) = [kind |-> "close", name |-> Top.name, attrs |-> none]
        BY DEF CloseItem
      <4> HIDE DEF none
      <4> QED
        BY <4>1, <4>2, <4>3 DEF FileItems
    <3>2. file' = EnsuredFile \o <<CloseItem(Top.name)>>
      BY <2>3, <2>8
    <3>3. /\ Len(file') = Len(EnsuredFile) + 1
          /\ \A i \in 1..Len(EnsuredFile) : file'[i] = EnsuredFile[i]
          /\ file'[Len(EnsuredFile) + 1] = CloseItem(Top.name)
      BY <2>1, <3>1, <3>2
    <3>4. Extends(EnsuredFile, file')
      BY <2>1, <3>3 DEF Extends
    <3>5. file'[Len(file')].kind = "close" /\ file'[Len(file')].name = Top.name
      BY <3>3 DEF CloseItem
    <3>6. Shown(EnsuredStack, t) /\ EnsuredStack[t].name = file'[Len(file')].name
      BY <2>6, <2>8, <3>5 DEF Shown
    <3> QED
      BY <2>1, <2>4, <2>5, <3>3, <3>4, <3>5, <3>6, EnsuredNested, NestedClose
  <2> QED
    BY <2>7, <2>8
<1> QED
  BY <1>1, <1>2 DEF html_close_tag

LEMMA AttrNested ==
  ASSUME NestingInv, NEW attr \in Attrs, html_add_attr(attr)
  PROVE  Nested(file', stack')
<1>1. CASE AssertFails
  BY <1>1, FailNested
<1>2. CASE ~Empty
  <2> DEFINE t == Len(stack)
  <2>1. t \in Nat \ {0} /\ stack \in Seq(Tags) /\ stack[t] \in Tags
    BY <1>2, Types DEF NestingInv, Empty
  <2>2. PICK tag : stack' = [stack EXCEPT ![t] = tag] /\ tag.name = stack[t].name
                   /\ tag.open_tag_written = stack[t].open_tag_written
    <3> DEFINE longer == Append(stack[t].attrs, attr)
    <3>1. stack' = [stack EXCEPT ![t] = [stack[t] EXCEPT !.attrs = longer]]
      BY <1>2 DEF html_add_attr
    <3> HIDE DEF longer
    <3>2. /\ [stack[t] EXCEPT !.attrs = longer].name = stack[t].name
          /\ [stack[t] EXCEPT !.attrs = longer].open_tag_written = stack[t].open_tag_written
      BY <2>1 DEF Tags
    <3> QED
      BY <3>1, <3>2
  <2>3. Len(stack') = t /\ \A i \in 1..t : stack'[i] = IF i = t THEN tag ELSE stack[i]
    BY <2>1, <2>2
  <2>4. \A i \in 1..t : (Shown(stack', i) <=> Shown(stack, i)) /\ stack'[i].name = stack[i].name
    BY <2>2, <2>3 DEF Shown
  <2>5. Nested(file, stack')
    BY <2>1, <2>3, <2>4, NestedStack DEF NestingInv
  <2> QED
    BY <1>2, <2>5 DEF html_add_attr
<1> QED
  BY <1>1, <1>2 DEF html_add_attr

\* Line breaks are tags that are not closed.
LEMMA ItemsFlat ==
  ASSUME NEW token \in Tokens
  PROVE  \A i \in 1..Len(token) : Flat(Items(token), i)
<1> SUFFICES ASSUME NEW i \in 1..Len(token) PROVE Flat(Items(token), i)
  OBVIOUS
<1>1. i \in DOMAIN token
  BY WriterAssumption
<1>2. Items(token)[i] = TokenItem(token[i])
  BY <1>1 DEF Items
<1> QED
  BY <1>2, WriterAssumption DEF Flat, OpenBy, TokenItem, OpenItem, TextItem

LEMMA TokenNested ==
  ASSUME NestingInv, NEW token \in Tokens, html_write_token(token)
  PROVE  Nested(file', stack')
<1>1. stack' = EnsuredStack
  BY DEF html_write_token
<1>2. Items(token) \in Seq(FileItems) /\ Len(Items(token)) = Len(token) /\ Len(token) \in Nat
  BY ItemsType, WriterAssumption
<1>3. CASE Breaks(token) = {}
  <2>1. file' = EnsuredFile \o Items(token)
    BY <1>3 DEF html_write_token
  <2> QED
    BY <1>1, <1>2, <2>1, ItemsFlat, FlatNested
<1>4. CASE Breaks(token) # {}
  <2>1. PICK i \in Breaks(token) : file' = EnsuredFile \o SubSeq(Items(token), 1, i - 1)
    BY <1>4 DEF html_write_token
  <2>2. i \in 1..Len(token)
    BY WriterAssumption DEF Breaks
  <2> DEFINE m == i - 1
  <2>3. m \in Nat /\ m <= Len(token)
    BY <1>2, <2>2
  <2>4. \A j \in 1..m : Items(token)[j] \in FileItems
    BY <1>2, <2>3
  <2> HIDE DEF m
  <2>5. /\ SubSeq(Items(token), 1, m) \in Seq(FileItems)
        /\ Len(SubSeq(Items(token), 1, m)) = IF 1 <= m THEN m - 1 + 1 ELSE 0
        /\ \A j \in 1..(m - 1 + 1) : SubSeq(Items(token), 1, m)[j] = Items(token)[1 + j - 1]
    BY <2>3, <2>4, SubSeqProperties
  <2>6. /\ Len(SubSeq(Items(token), 1, m)) = m
        /\ \A j \in 1..m : SubSeq(Items(token), 1, m)[j] = Items(token)[j]
    BY <2>3, <2>5
  <2>7. \A j \in 1..m : Flat(SubSeq(Items(token), 1, m), j)
    <3>1. \A j \in 1..m : Flat(Items(token), j)
      BY <1>2, <2>3, ItemsFlat
    <3> QED
      BY <2>6, <3>1 DEF Flat, OpenBy
  <2>8. Nested(EnsuredFile \o SubSeq(Items(token), 1, m), EnsuredStack)
    BY <2>5, <2>6, <2>7, FlatNested
  <2> QED
    BY <1>1, <2>1, <2>8 DEF m
<1> QED
  BY <1>3, <1>4

LEMMA DoctypeNested ==
  ASSUME NestingInv, html_add_doctype
  PROVE  Nested(file', stack')
<1>1. file' = Append(file, Doctype) /\ stack' = stack
  BY DEF html_add_doctype
<1>2. file \in Seq(FileItems) /\ Len(file) \in Nat
  BY Types DEF NestingInv
<1>3. /\ Len(file') = Len(file) + 1
      /\ \A i \in 1..Len(file) : file'[i] = file[i]
      /\ file'[Len(file) + 1] = Doctype
  BY <1>1, <1>2
<1>4. \A i \in (Len(file) + 1)..Len(file') : Flat(file', i)
  BY <1>2, <1>3 DEF Flat, OpenBy, Doctype, TextItem
<1>5. Extends(file, file')
  BY <1>2, <1>3 DEF Extends
<1>6. Len(file') \in Nat /\ Nested(file, stack)
  BY <1>2, <1>3 DEF NestingInv
<1>7. Nested(file', stack)
  BY <1>2, <1>4, <1>5, <1>6, NestedFlat
<1> QED
  BY <1>1, <1>7

LEMMA InitNested ==
  ASSUME Init
  PROVE  Nested(file, stack)
<1>1. file = <<>> /\ stack = <<>> /\ Len(file) = 0 /\ Len(stack) = 0
  BY DEF Init
<1>2. Opens(file, 0) = {} /\ Closes(file, 0) = {} /\ {i \in 1..0 : Shown(stack, i)} = {}
  BY DEF Opens, Closes
<1>3. DepthOf(file, 0) = 0 /\ CountOf(stack, 0) = 0
  BY <1>2, FS_EmptySet DEF DepthOf, CountOf
<1> QED
  BY <1>1, <1>3 DEF Nested, NeverNegative, Pairs, OpenOnStack

LEMMA NestingNext ==
  ASSUME NestingInv, [Next]_vars
  PROVE  NestingInv'
<1>1. WriterInv'
  BY WriterNext DEF NestingInv
<1>2. Nested(file', stack')
  <2>1. CASE UNCHANGED vars
    BY <2>1 DEF vars, NestingInv
  <2> QED
    BY <2>1, OpenNested, CloseNested, AttrNested, TokenNested, DoctypeNested DEF Next
<1>3. Nested(file, stack)'
  BY <1>2 DEF Nested, NeverNegative, Pairs, OpenOnStack, StillOpen, DepthOf, CountOf, Opens, Closes, Shown, OpenBy
<1> QED
  BY <1>1, <1>3 DEF NestingInv

\* The tags on the page nest: whatever was opened, closed and written, every
\* closing tag has the name of the innermost one open, and what is open are
\* the written tags of the stack.
THEOREM WriterBalanced == Spec => []Balanced
<1>1. Init => NestingInv
  BY WriterInit, InitNested DEF NestingInv
<1>2. NestingInv /\ [Next]_vars => NestingInv'
  BY NestingNext
<1>3. ASSUME NestingInv
      PROVE  Balanced
  <2>1. file \in Seq(FileItems) /\ stack \in Seq(Tags) /\ Nested(file, stack)
    BY <1>3, Types DEF NestingInv
  <2>2. DOMAIN file = 1..Len(file) /\ DOMAIN stack = 1..Len(stack)
    BY <2>1
  <2>3. \A n : Depth(n) = DepthOf(file, n)
    BY DEF Depth, DepthOf, Opens, Closes
  <2>4. CountOf(stack, Len(stack)) =
          Cardinality({i \in DOMAIN stack : stack[i].open_tag_written /\ stack[i].name \notin VoidTags})
    BY <2>2 DEF CountOf, Shown
  <2> QED
    BY <2>1, <2>2, <2>3, <2>4 DEF Balanced, Nested, NeverNegative, Pairs
<1> QED
  BY <1>1, <1>2, <1>3, PTL DEF Spec
=============================================================================
