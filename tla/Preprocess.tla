----------------------------- MODULE Preprocess -----------------------------
(***************************************************************************)
(* What prep_expand is for: a file is a list of pieces, the directives and *)
(* what its lines of text are made of, and each piece has an effect.       *)
(*                                                                         *)
(* A conditional is a piece that names the place of its #endif, which has  *)
(* no effect of its own.  The pieces between the two are no conditionals.  *)
(***************************************************************************)
EXTENDS Integers, Sequences

CONSTANT Main  \* the path of the file to expand

VARIABLES
  doc,    \* the pieces of the files, by their paths; <<>> when they are not known
  calls,  \* what is to be done: pieces of files, the ones to be done first last
  defs,   \* the names that are defined, and what they stand for
  text    \* the expansion

vars == <<doc, calls, defs, text>>

Call(path, next, last) == [path |-> path, next |-> next, last |-> last]
Whole(path) == Call(path, 1, Len(doc[path]))

Init ==
  /\ calls = IF doc = <<>> THEN <<>> ELSE <<Whole(Main)>>
  /\ defs = <<>>
  /\ text = <<>>

-----------------------------------------------------------------------------
Top == calls[Len(calls)]
Piece == doc[Top.path][Top.next]
Doing(kinds) == calls # <<>> /\ Top.next <= Top.last /\ Piece.kind \in kinds
GoOn(next) == [calls EXCEPT ![Len(calls)].next = next]

\* What a piece of text stands for.
Meaning(piece) ==
  IF piece.kind = "name" /\ piece.text \in DOMAIN defs THEN defs[piece.text] ELSE piece.text

Text ==
  /\ Doing({"name", "text"})
  /\ calls' = GoOn(Top.next + 1)
  /\ text' = text \o Meaning(Piece)
  /\ UNCHANGED <<doc, defs>>

Define ==
  /\ Doing({"define"})
  /\ calls' = GoOn(Top.next + 1)
  /\ defs' = [n \in DOMAIN defs \cup {Piece.id} |-> IF n = Piece.id THEN Piece.text ELSE defs[n]]
  /\ UNCHANGED <<doc, text>>

Undef ==
  /\ Doing({"undef"})
  /\ calls' = GoOn(Top.next + 1)
  /\ defs' = [n \in DOMAIN defs \ {Piece.id} |-> defs[n]]
  /\ UNCHANGED <<doc, text>>

Include ==
  /\ Doing({"include"})
  /\ calls' = Append(GoOn(Top.next + 1), Whole(Piece.target))
  /\ UNCHANGED <<doc, defs, text>>

Holds(piece) == (piece.ids \subseteq DOMAIN defs) = (piece.kind # "ifndef")

Conditional ==
  /\ Doing({"ifdef", "ifndef", "if"})
  /\ calls' = LET on == GoOn(Piece.close + 1)
              IN IF Holds(Piece) THEN Append(on, Call(Top.path, Top.next + 1, Piece.close - 1)) ELSE on
  /\ UNCHANGED <<doc, defs, text>>

Return ==
  /\ calls # <<>> /\ Top.next > Top.last
  /\ calls' = SubSeq(calls, 1, Len(calls) - 1)
  /\ UNCHANGED <<doc, defs, text>>

Next == Text \/ Define \/ Undef \/ Include \/ Conditional \/ Return

Spec == Init /\ [][Next]_vars
=============================================================================
