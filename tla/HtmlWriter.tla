----------------------------- MODULE HtmlWriter -----------------------------
(***************************************************************************)
(* lib/html_writer.c: opening tags are put on a stack and written only     *)
(* when something else is, so that attributes can still be added.          *)
(*                                                                         *)
(* file is what has been handed to stdio, as a sequence of tags and texts. *)
(* The circular list of attributes is the sequence write_open_tag walks.   *)
(***************************************************************************)
EXTENDS Integers, Sequences, FiniteSets

CONSTANTS
  Names,     \* the tags the renderer opens
  Attrs,     \* attributes, with their values, and flags
  Symbols,   \* what texts are made of
  Tokens,    \* the texts the renderer writes
  VoidTags,  \* no_close_tags
  MaxDepth   \* stack_size

VARIABLES
  file,    \* what has been written
  stack,   \* h->stack up to h->stack_top
  failed   \* whether an assertion has ended the program

vars == <<file, stack, failed>>

ASSUME WriterAssumption ==
  /\ MaxDepth \in Nat
  /\ Tokens \subseteq Seq(Symbols)
  /\ "br" \in VoidTags

OpenItem(name, attrs) == [kind |-> "open", name |-> name, attrs |-> attrs]
CloseItem(name) == [kind |-> "close", name |-> name, attrs |-> <<>>]
TextItem(text) == [kind |-> "text", name |-> text, attrs |-> <<>>]

\* html_new
Init ==
  /\ file = <<>>
  /\ stack = <<>>
  /\ failed = FALSE

NewTag(name) == [name |-> name, attrs |-> <<>>, open_tag_written |-> FALSE]

Empty == stack = <<>>
Top == stack[Len(stack)]
Pending == ~Empty /\ ~Top.open_tag_written

\* Slip: the tag is not marked as written.
EnsuredStackForgets == stack

\* ensure_open_tag_written: the file and the stack behind it.
EnsuredFile == IF Pending THEN Append(file, OpenItem(Top.name, Top.attrs)) ELSE file
EnsuredStack ==
  IF Pending THEN [stack EXCEPT ![Len(stack)].open_tag_written = TRUE] ELSE stack

Push(s, name) == Append(s, NewTag(name))
Pop(s) == SubSeq(s, 1, Len(s) - 1)

AssertFails ==
  /\ failed' = TRUE
  /\ file' = EnsuredFile
  /\ stack' = EnsuredStack

\* Slip: the tag around the new one is not written first.
OpenTagAtOnce(name) ==
  /\ ~failed
  /\ Len(stack) < MaxDepth
  /\ stack' = Push(stack, name)
  /\ UNCHANGED <<file, failed>>

\* Slip: the assertion of push admits one tag too many.
OpenTagOver(name) ==
  /\ ~failed
  /\ IF Len(stack) <= MaxDepth
       THEN /\ file' = EnsuredFile
            /\ stack' = Push(EnsuredStack, name)
            /\ UNCHANGED failed
       ELSE AssertFails

html_open_tag(name) ==
  /\ ~failed
  /\ IF Len(stack) < MaxDepth
       THEN /\ file' = EnsuredFile
            /\ stack' = Push(EnsuredStack, name)
            /\ UNCHANGED failed
       ELSE AssertFails

\* Slip: a tag nothing was written into is closed without having been opened.
CloseTagUnopened ==
  /\ ~failed
  /\ ~Empty
  /\ file' = file \o (IF Top.name \in VoidTags THEN <<>> ELSE <<CloseItem(Top.name)>>)
  /\ stack' = Pop(stack)
  /\ UNCHANGED failed

html_close_tag ==
  /\ ~failed
  /\ IF Empty
       THEN AssertFails
       ELSE /\ file' = EnsuredFile \o (IF Top.name \in VoidTags THEN <<>> ELSE <<CloseItem(Top.name)>>)
            /\ stack' = Pop(stack)
            /\ UNCHANGED failed

\* html_add_attr and html_add_flag: the tag keeps the attribute even when it is
\* too late for the file.
html_add_attr(attr) ==
  /\ ~failed
  /\ IF Empty
       THEN AssertFails
       ELSE /\ stack' = [stack EXCEPT ![Len(stack)].attrs = Append(@, attr)]
            /\ UNCHANGED <<file, failed>>

LF == "LF"

\* What html_write_token writes for a symbol: a newline is a tag opened and
\* closed, which needs room on the stack.
TokenItem(symbol) == IF symbol = LF THEN OpenItem("br", <<>>) ELSE TextItem(symbol)
Items(token) == [i \in DOMAIN token |-> TokenItem(token[i])]

\* The first symbol of the token that finds no room.
Breaks(token) ==
  {i \in DOMAIN token : /\ Len(stack) = MaxDepth
                        /\ token[i] = LF
                        /\ \A j \in 1..(i - 1) : token[j] # LF}

\* html_write_text_raw and html_write_textf write such a text too.
html_write_token(token) ==
  /\ ~failed
  /\ stack' = EnsuredStack
  /\ IF Breaks(token) = {}
       THEN /\ file' = EnsuredFile \o Items(token)
            /\ UNCHANGED failed
       ELSE /\ \E i \in Breaks(token) : file' = EnsuredFile \o SubSeq(Items(token), 1, i - 1)
            /\ failed' = TRUE

Doctype == TextItem("DOCTYPE")

\* gen_html calls it once, on a page that is still empty: it does not ask for
\* the opening tags.
html_add_doctype ==
  /\ ~failed
  /\ file = <<>> /\ Empty
  /\ file' = Append(file, Doctype)
  /\ UNCHANGED <<stack, failed>>

Next ==
  \/ html_add_doctype
  \/ \E name \in Names : html_open_tag(name)
  \/ html_close_tag
  \/ \E attr \in Attrs : html_add_attr(attr)
  \/ \E token \in Tokens : html_write_token(token)

Spec == Init /\ [][Next]_vars

-----------------------------------------------------------------------------
(***************************************************************************)
(* Properties                                                              *)
(***************************************************************************)

Tags == [name : Names, attrs : Seq(Attrs), open_tag_written : BOOLEAN]
FileItems == [kind : {"open", "close", "text"}, name : Names \cup Symbols \cup {"br", "DOCTYPE"},
              attrs : Seq(Attrs)]

\* The stack stays within the array html_new allocates.
TypeOK ==
  /\ file \in Seq(FileItems)
  /\ stack \in Seq(Tags)
  /\ Len(stack) <= MaxDepth
  /\ failed \in BOOLEAN

\* Only the innermost tag can be unwritten: when it is written, everything
\* around it is on the page already.
OnlyTopPending == \A i \in 1..(Len(stack) - 1) : stack[i].open_tag_written

\* The page as if every call had written at once.
Page == IF Pending THEN Append(file, OpenItem(Top.name, Top.attrs)) ELSE file

OpenNames == [i \in DOMAIN stack |-> stack[i].name]

Eager == INSTANCE Markup WITH
  page <- Page,
  open <- OpenNames,
  fresh <- Pending

\* html_writer.c shows its caller the page of a writer that does not wait.
IsEager == Eager!Spec

\* A tag is on the page before its text, and closed behind it: reading the file
\* from the left, no closing tag comes without its opening one, and what is
\* left open are the written tags of the stack.
OpenBy(items, i) == items[i].kind = "open" /\ items[i].name \notin VoidTags
Depth(n) ==
  Cardinality({i \in 1..n : OpenBy(file, i)}) - Cardinality({i \in 1..n : file[i].kind = "close"})

Balanced ==
  /\ \A n \in 0..Len(file) : Depth(n) >= 0
  /\ Depth(Len(file)) =
       Cardinality({i \in DOMAIN stack : stack[i].open_tag_written /\ stack[i].name \notin VoidTags})
  /\ \A i, j \in DOMAIN file :
       (/\ i < j /\ OpenBy(file, i) /\ file[j].kind = "close"
        /\ Depth(j) = Depth(i) - 1
        /\ \A k \in (i + 1)..(j - 1) : Depth(k) >= Depth(i))
         => file[i].name = file[j].name
=============================================================================
