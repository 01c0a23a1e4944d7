------------------------------- MODULE Markup -------------------------------
(***************************************************************************)
(* What lib/html_writer.c promises the renderer: a page on which every     *)
(* call shows at once.  An opening tag is on the page as soon as it is     *)
(* opened; attributes join it until anything else is written.              *)
(***************************************************************************)
EXTENDS Integers, Sequences

CONSTANTS
  Names,     \* the tags
  Attrs,     \* attributes, with their values, and flags
  Tokens,    \* texts of tokens: sequences of symbols
  VoidTags,  \* the tags that have no closing tag
  MaxDepth   \* how deep tags may be nested

VARIABLES
  page,    \* what the page shows
  open,    \* the tags that are open, the innermost last
  fresh,   \* whether attributes still join the innermost tag
  failed   \* whether a call has ended the program

markupVars == <<page, open, fresh, failed>>

OpenItem(name, attrs) == [kind |-> "open", name |-> name, attrs |-> attrs]
CloseItem(name) == [kind |-> "close", name |-> name, attrs |-> <<>>]
TextItem(text) == [kind |-> "text", name |-> text, attrs |-> <<>>]

Closing(name) == IF name \in VoidTags THEN <<>> ELSE <<CloseItem(name)>>

Init ==
  /\ page = <<>>
  /\ open = <<>>
  /\ fresh = FALSE
  /\ failed = FALSE

Open(name) ==
  /\ ~failed
  /\ Len(open) < MaxDepth
  /\ page' = Append(page, OpenItem(name, <<>>))
  /\ open' = Append(open, name)
  /\ fresh' = TRUE
  /\ UNCHANGED failed

Close ==
  /\ ~failed
  /\ open # <<>>
  /\ page' = page \o Closing(open[Len(open)])
  /\ open' = SubSeq(open, 1, Len(open) - 1)
  /\ fresh' = FALSE
  /\ UNCHANGED failed

\* An attribute that comes too late is lost.
Attribute(attr) ==
  /\ ~failed
  /\ open # <<>>
  /\ IF fresh
       THEN LET tag == page[Len(page)] IN
            page' = SubSeq(page, 1, Len(page) - 1)
                      \o <<OpenItem(tag.name, Append(tag.attrs, attr))>>
       ELSE UNCHANGED page
  /\ UNCHANGED <<open, fresh, failed>>

Write(items) ==
  /\ ~failed
  /\ page' = page \o items
  /\ fresh' = FALSE
  /\ UNCHANGED <<open, failed>>

\* A newline shows as a line break.
LF == "LF"
Items(token) ==
  [i \in DOMAIN token |-> IF token[i] = LF THEN OpenItem("br", <<>>) ELSE TextItem(token[i])]

\* What the page may begin with.
Doctype == TextItem("DOCTYPE")

\* The stack is full, or there is no tag to close or to give an attribute to:
\* the program ends, with what was complete before.
Fail ==
  /\ ~failed
  /\ failed' = TRUE
  /\ \/ UNCHANGED page
     \/ \E token \in Tokens : \E n \in DOMAIN token : page' = page \o SubSeq(Items(token), 1, n - 1)
  /\ fresh' = FALSE
  /\ UNCHANGED open

Next ==
  \/ page = <<>> /\ Write(<<Doctype>>)
  \/ \E name \in Names : Open(name)
  \/ Close
  \/ \E attr \in Attrs : Attribute(attr)
  \/ \E token \in Tokens : Write(Items(token))
  \/ Fail

Spec == Init /\ [][Next]_markupVars
=============================================================================
