---------------------------- MODULE ExpandLines ----------------------------
(***************************************************************************)
(* Files that are made of lines, and what their expansion is to be.        *)
(*                                                                         *)
(* A file is cut into pieces: each one stands between two positions, where *)
(* it starts and where the next one does, and what stands there is written *)
(* as a piece of its kind is.  No meaning is given to conditionals inside  *)
(* of others, escapes in literals, comments behind directives, names that  *)
(* start with an underscore or a digit, and a replacement of one character *)
(* in the last line before an #endif.                                      *)
(***************************************************************************)
EXTENDS Expand

VARIABLE doc  \* the pieces of the files, by their paths; <<>> for other files

IdCharacters == IdSymbols \cup {"1"}
Conditions == {"ifdef", "ifndef", "if"}

\* text is what is copied, the name, or the replacement; ids are the names a
\* condition asks for, close is the place of the #endif.
Pieces == [kind : {"text", "name", "define", "undef", "include", "close"} \cup Conditions,
           from : Nat, to : Nat, text : Seq(Symbols), id : Seq(Symbols),
           ids : SUBSET Seq(Symbols), target : Seq(Symbols), close : Nat]

Only(s, from, to, set) == \A i \in from..(to - 1) : s[i] \in set
Without(s, from, to, set) == \A i \in from..(to - 1) : s[i] \notin set \cup {"\\"}

-----------------------------------------------------------------------------
(***************************************************************************)
(* Text, from a position up to another one.  It is last when the call ends *)
(* there.                                                                  *)
(***************************************************************************)
IsSymbol(s, p, last) ==
  /\ p.to = p.from + 1
  /\ s[p.from] \notin {"#", "QUOTE", "APOSTROPHE", "\\"} \cup Letters \cup Words
  /\ s[p.from] = "/" => last \/ s[p.to] \notin {"/", "*"}

IsLineComment(s, p, last) ==
  /\ p.from + 2 <= p.to /\ s[p.from] = "/" /\ s[p.from + 1] = "/"
  /\ \A i \in p.from..(p.to - 1) : s[i] # "LF"
  /\ last \/ s[p.to] = "LF"
  /\ s[p.to - 1] # "\\"

IsComment(s, p) ==
  /\ p.from + 4 <= p.to /\ s[p.from] = "/" /\ s[p.from + 1] = "*"
  /\ s[p.to - 2] = "*" /\ s[p.to - 1] = "/"
  /\ \A i \in (p.from + 1)..(p.to - 3) : ~(s[i] = "*" /\ s[i + 1] = "/")

IsLiteral(s, p) ==
  /\ p.from + 2 <= p.to /\ s[p.from] \in {"QUOTE", "APOSTROPHE"}
  /\ s[p.to - 1] = s[p.from]
  /\ Without(s, p.from + 1, p.to - 1, {s[p.from], "LF"})

IsText(s, p, last) ==
  /\ p.text = SubSeq(s, p.from, p.to - 1)
  /\ IsSymbol(s, p, last) \/ IsLineComment(s, p, last) \/ IsComment(s, p) \/ IsLiteral(s, p)

IsName(s, p, last) ==
  /\ p.text = SubSeq(s, p.from, p.to - 1)
  /\ s[p.from] \in Letters \cup Words /\ Only(s, p.from, p.to, IdCharacters)
  /\ last \/ s[p.to] \notin IdCharacters \cup {"\\"}
  /\ p.from > 1 => s[p.from - 1] \notin IdCharacters

-----------------------------------------------------------------------------
(***************************************************************************)
(* Directives.  The argument stands between arg and stop.                  *)
(***************************************************************************)
Starts(s, p, word, arg) ==
  /\ s[p.from] = "#" /\ s[p.from + 1] = word
  /\ p.from + 2 < arg /\ arg < p.to /\ Only(s, p.from + 2, arg, {"SP"})
  /\ s[arg] \notin Spaces \cup {"\\"}

\* Nothing but spaces stands behind the argument in its line.
EndsLine(s, stop, to) == stop < to /\ s[to - 1] = "LF" /\ Only(s, stop, to - 1, {"SP"})
EndsPiece(s, stop, to, last) == EndsLine(s, stop, to) \/ (last /\ stop <= to /\ Only(s, stop, to, {"SP"}))

HasName(s, id, arg, stop) == Without(s, arg, stop, Spaces) /\ id = SubSeq(s, arg, stop - 1)

\* A replacement goes on in the next line behind a backslash.
IsReplacement(s, from, to) ==
  /\ s[from] \notin Spaces \cup {"\\"}
  /\ \A i \in from..(to - 1) : /\ s[i] = "\\" => s[i + 1] = "LF"
                               /\ s[i] = "LF" => s[i - 1] = "\\"

IsDefine(s, p, last) ==
  \E arg, stop \in p.from..p.to :
    /\ Starts(s, p, "define", arg) /\ arg < stop /\ HasName(s, p.id, arg, stop)
    /\ \/ p.text = <<>> /\ EndsPiece(s, stop, p.to, last)
       \/ \E from, to \in (stop + 1)..p.to :
            /\ from < to /\ Only(s, stop, from, {"SP"}) /\ IsReplacement(s, from, to)
            /\ p.text = Unescaped(SubSeq(s, from, to - 1))
            /\ s[to - 1] \notin {"LF", "\\"}
            /\ \/ to + 1 = p.to /\ s[to] = "LF"
               \/ to = p.to /\ last /\ from + 1 < to

IsUndef(s, p, last) ==
  \E arg, stop \in p.from..p.to :
    /\ Starts(s, p, "undef", arg) /\ arg < stop /\ HasName(s, p.id, arg, stop)
    /\ EndsPiece(s, stop, p.to, last)

\* The file that is meant is there: the local one, or the one of the first path
\* that has it.
IsTarget(path, close, name, target) ==
  /\ target \in DOMAIN files
  /\ \/ close = "QUOTE" /\ target = path_join_ssp(DirOf(path), name)
     \/ close = ">" /\ \E i \in DOMAIN SearchPaths :
                         /\ target = path_join_ssp(SearchPaths[i], name)
                         /\ \A j \in 1..(i - 1) : path_join_ssp(SearchPaths[j], name) \notin DOMAIN files

IsInclude(path, p, last) ==
  LET s == files[path] IN
  \E arg, stop \in p.from..p.to, close \in {"QUOTE", ">"} :
    /\ Starts(s, p, "include", arg) /\ s[arg] = IF close = ">" THEN "<" ELSE close
    /\ arg < stop /\ stop < p.to /\ s[stop] = close /\ Without(s, arg + 1, stop, {close})
    /\ IsTarget(path, close, SubSeq(s, arg + 1, stop - 1), p.target)
    /\ EndsPiece(s, stop + 1, p.to, last)

IsCondition(s, p) ==
  \E arg, stop \in p.from..p.to :
    /\ Starts(s, p, p.kind, arg) /\ arg < stop
    /\ \/ /\ p.kind \in {"ifdef", "ifndef"}
          /\ EndsLine(s, stop, p.to)
          /\ \E id \in {SubSeq(s, arg, stop - 1)} : HasName(s, id, arg, stop) /\ p.ids = {id}
       \/ /\ p.kind = "if"
          /\ stop + 1 = p.to /\ s[stop] = "LF" /\ Without(s, arg, stop, {"LF"})
          /\ \E expr \in {SubSeq(s, arg, stop - 1)} :
               WellFormed(expr) /\ p.ids = {<<expr[i]>> : i \in {j \in DOMAIN expr : expr[j] \in Letters}}

\* The line that has the #endif ends the last line before it.
IsClose(s, p, empty) ==
  /\ s[p.to - 2] = "#" /\ s[p.to - 1] = "endif"
  /\ \/ p.from + 3 = p.to /\ s[p.from] = "LF"
     \/ p.from + 2 = p.to /\ (empty \/ s[p.from - 1] # "LF")

IsPiece(path, p, last, empty) ==
  LET s == files[path] IN
  \/ p.kind = "text" /\ IsText(s, p, last)
  \/ p.kind = "name" /\ IsName(s, p, last)
  \/ p.kind = "define" /\ IsDefine(s, p, last)
  \/ p.kind = "undef" /\ IsUndef(s, p, last)
  \/ p.kind = "include" /\ IsInclude(path, p, last)
  \/ p.kind \in Conditions /\ IsCondition(s, p)
  \/ p.kind = "close" /\ IsClose(s, p, empty)

-----------------------------------------------------------------------------
(***************************************************************************)
(* Files                                                                   *)
(***************************************************************************)
From(path, k) == IF k \in DOMAIN doc[path] THEN doc[path][k].from ELSE Len(files[path]) + 1
Kind(path, k) == IF k \in DOMAIN doc[path] THEN doc[path][k].kind ELSE "end"

\* The #endif of a conditional is the first one, and no conditional stands
\* between the two.
IsBlock(path, k) ==
  LET p == doc[path][k]
      close == doc[path][p.close]
  IN /\ p.close \in DOMAIN doc[path] /\ k < p.close /\ close.kind = "close"
     /\ \A j \in (k + 1)..(p.close - 1) : Kind(path, j) \notin Conditions \cup {"close"}
     /\ \A i \in p.to..(close.to - 3) : ~(files[path][i] = "#" /\ files[path][i + 1] = "endif")

IsLined(path) ==
  LET list == doc[path] IN
  /\ list \in Seq(Pieces) /\ From(path, 1) = 1
  /\ \A k \in DOMAIN list :
       /\ list[k].from < list[k].to /\ list[k].to = From(path, k + 1)
       /\ IsPiece(path, list[k], Kind(path, k + 1) \in {"close", "end"},
                  Kind(path, k - 1) \in Conditions)
       /\ list[k].kind \in Conditions => IsBlock(path, k)
       /\ list[k].kind = "close" =>
            \E j \in 1..(k - 1) : list[j].kind \in Conditions /\ list[j].close = k

AreLines == DOMAIN doc = DOMAIN files /\ \A path \in DOMAIN files : IsLined(path)

DocInit == Init /\ (doc = <<>> \/ AreLines)
DocNext == Next /\ UNCHANGED doc
DocSpec == DocInit /\ [][DocNext]_<<vars, doc>>

-----------------------------------------------------------------------------
(***************************************************************************)
(* Properties                                                              *)
(***************************************************************************)
\* The first piece that does not start before a position.
PieceAt(path, ptr) ==
  CHOOSE k \in 1..(Len(doc[path]) + 1) :
    From(path, k) >= ptr /\ \A j \in 1..(k - 1) : From(path, j) < ptr

Undone(frame) ==
  [path |-> frame.path, next |-> PieceAt(frame.path, frame.ptr), last |-> PieceAt(frame.path, frame.end) - 1]

\* What is left of the calls, what the names stand for, and the text so far.
Todo == IF doc = <<>> THEN <<>> ELSE [i \in DOMAIN frames |-> Undone(frames[i])]
Table ==
  IF doc = <<>> THEN <<>>
  ELSE [name \in {n \in DOMAIN defs : IsDefined(n)} |-> Unescaped(defs[name])]
Expansion == IF doc = <<>> THEN <<>> ELSE out

Meant == INSTANCE Preprocess WITH calls <- Todo, defs <- Table, text <- Expansion

\* The text prep_expand gives is the one the pieces mean: each directive has the
\* effect of its line and leaves nothing of it, the file included is the one
\* meant, and names are replaced in the code only.
ExpansionRight == Meant!Spec

\* A file without mistakes is expanded: the program ends early only because the
\* next piece does not fit into out, or the pool is full, or the static stack of
\* eval_expr.
FailsOnlyWhenFull ==
  phase \in {"abort", "outside"} /\ doc # <<>> =>
    \/ Len(out) + (IF Meant!Doing({"text", "name"}) THEN Len(Meant!Meaning(Meant!Piece)) ELSE 0) >= OutSize
    \/ Meant!Doing({"include"}) /\ loads = MaxLoads
    \/ Meant!Doing({"if"})
=============================================================================
