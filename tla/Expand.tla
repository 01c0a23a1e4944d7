------------------------------- MODULE Expand -------------------------------
(***************************************************************************)
(* prep_expand and expand of lib/prep.c: includes, conditionals and names  *)
(* that #define has given a replacement.                                   *)
(*                                                                         *)
(* A file is a sequence of symbols.  The words of directives are one       *)
(* symbol each; every other symbol is one character.  A step is one turn   *)
(* of the loop of expand.  The calls of expand that are not finished are   *)
(* the frames.                                                             *)
(***************************************************************************)
EXTENDS Integers, Sequences, FiniteSets

CONSTANTS
  Letters,      \* the characters of names, but "_"
  FileSystems,  \* the files there may be, by their paths
  Main,         \* the path of the file to expand
  SearchPaths,  \* search_paths
  OutSize,      \* the length of out
  MaxLoads,     \* how many files fit into the pool
  Lost          \* strlen("#endif") - 1

VARIABLES
  files,    \* the files, by their paths
  frames,   \* the calls of expand, the innermost last
  defs,     \* the define table
  out,      \* what is written to out
  loads,    \* how many files have been read
  phase,    \* "run", "done"; "abort" and "outside" end the program
  unknown   \* the directive expand does not know

vars == <<files, frames, defs, out, loads, phase, unknown>>

Words == {"include", "define", "ifdef", "ifndef", "undef", "if", "endif", "else", "defined"}
IdSymbols == Letters \cup Words \cup {"_"}
Spaces == {"SP", "LF"}
Signs == {"#", "QUOTE", "APOSTROPHE", "<", ">", "/", "*", "\\", "&", "1", "(", ")", ".", "NUL"}
Symbols == IdSymbols \cup Spaces \cup Signs

ASSUME LettersAssumption == Letters \cap (Words \cup Spaces \cup Signs \cup {"_", "NULL"}) = {}
ASSUME ExpandAssumption ==
  /\ OutSize \in Nat /\ MaxLoads \in Nat \ {0} /\ Lost \in Nat
  /\ SearchPaths \in Seq(Seq(Symbols))
  /\ \A fs \in FileSystems : Main \in DOMAIN fs /\ \A path \in DOMAIN fs : fs[path] \in Seq(Symbols)

\* The least of the positions, or the one given when there is none.
FirstOf(set, otherwise) == IF set = {} THEN otherwise ELSE CHOOSE i \in set : \A j \in set : i <= j

NULL == <<"NULL">>
SetDefine(key, content) ==
  [name \in DOMAIN defs \cup {key} |-> IF name = key THEN content ELSE defs[name]]
IsDefined(name) == name \in DOMAIN defs /\ defs[name] # NULL

\* A call on the symbols of a file from ptr up to, and without, end.
Frame(path, dir, ptr, end) == [path |-> path, dir |-> dir, ptr |-> ptr, end |-> end]

\* prep_expand: everything up to the last "/" of the path, or ".".
Slashes(path) == {i \in DOMAIN path : path[i] = "/"}
DirOf(path) ==
  IF Slashes(path) = {}
    THEN <<".">>
    ELSE SubSeq(path, 1, (CHOOSE i \in Slashes(path) : \A j \in Slashes(path) : j <= i) - 1)

path_join_ssp(dir, local) == dir \o <<"/">> \o local

FileFrame(path) == Frame(path, DirOf(path), 1, Len(files[path]) + 1)

Start ==
  /\ frames = <<FileFrame(Main)>>
  /\ defs = <<>>
  /\ out = <<>>
  /\ loads = 1
  /\ phase = "run"
  /\ unknown = <<>>

Init == files \in FileSystems /\ Start

-----------------------------------------------------------------------------
(***************************************************************************)
(* The reader of the innermost call.                                       *)
(***************************************************************************)
Top == frames[Len(frames)]
Text == files[Top.path]
End == Top.end
Span(ptr, end) == SubSeq(Text, ptr, end - 1)

Readers == [ptr : Nat \ {0}, cur : Symbols, more : BOOLEAN]

\* What a backslash stands before is read without it.
readnext(r) ==
  IF r.ptr >= End THEN [ptr |-> r.ptr, cur |-> r.cur, more |-> FALSE]
  ELSE IF r.ptr + 1 >= End \/ Text[r.ptr] # "\\"
    THEN [ptr |-> r.ptr + 1, cur |-> Text[r.ptr], more |-> TRUE]
    ELSE [ptr |-> r.ptr + 2, cur |-> IF Text[r.ptr + 1] = "LF" THEN "SP" ELSE Text[r.ptr + 1],
          more |-> TRUE]

\* Reads until one of the stops is read, or everything is.
ReadUpTo(start, stops) ==
  LET go[r \in Readers] ==
        LET next == readnext(r) IN IF next.more /\ next.cur \notin stops THEN go[next] ELSE next
  IN go[start]

Back(r) == [r EXCEPT !.ptr = @ - 1]

read_while(r, set) ==
  LET q == ReadUpTo(r, Symbols \ set) IN IF q.more THEN Back(q) ELSE q

\* When there is nothing to read at all, the reader goes back too.
read_until(r, stops) ==
  LET q == ReadUpTo(r, stops) IN IF q.more \/ r.ptr >= End THEN Back(q) ELSE q

read_spaces_until_lf(r) == ReadUpTo(r, Symbols \ {"SP"})

\* The symbol a turn of the loop starts with, the directive behind a "#", and
\* the name behind that.
Cur == readnext([ptr |-> Top.ptr, cur |-> "NUL", more |-> TRUE])
DirectiveAt == read_while(Cur, Spaces)
DirectiveEnd == read_until(DirectiveAt, Spaces)
Directive == Span(DirectiveAt.ptr, DirectiveEnd.ptr)
Arg == read_while(DirectiveEnd, Spaces)
IdEnd == read_until(Arg, Spaces)
Id == Span(Arg.ptr, IdEnd.ptr)

Reading == phase = "run" /\ Cur.more
At(word) == Reading /\ Cur.cur = "#" /\ Directive = <<word>>

-----------------------------------------------------------------------------
Abort ==
  /\ phase' = "abort"
  /\ UNCHANGED <<files, frames, defs, out, loads>>

FramesAt(ptr) == [frames EXCEPT ![Len(frames)].ptr = ptr]

\* Slip: one symbol more than there is room for.
EmitOver(symbols, ptr) ==
  /\ IF Len(out) + Len(symbols) <= OutSize + 1
       THEN /\ out' = out \o symbols
            /\ frames' = FramesAt(ptr)
            /\ UNCHANGED phase
       ELSE /\ phase' = "outside"
            /\ UNCHANGED <<frames, out>>
  /\ UNCHANGED <<files, defs, loads, unknown>>

\* The write behind the end of out is undefined.
Emit(symbols, ptr) ==
  /\ IF Len(out) + Len(symbols) <= OutSize
       THEN /\ out' = out \o symbols
            /\ frames' = FramesAt(ptr)
            /\ UNCHANGED phase
       ELSE /\ phase' = "outside"
            /\ UNCHANGED <<frames, out>>
  /\ UNCHANGED <<files, defs, loads, unknown>>

\* expand is entered with room left in out, or the program ends.
Enter(frame, resume) ==
  IF Len(out) < OutSize
    THEN /\ frames' = Append(FramesAt(resume), frame)
         /\ UNCHANGED <<files, defs, out, phase>>
    ELSE Abort /\ UNCHANGED loads

\* read_src ends the program when there is no such file, or no room for it.
prep_expand(path, resume) ==
  IF path \in DOMAIN files /\ loads < MaxLoads
    THEN /\ Enter(FileFrame(path), resume)
         /\ loads' = IF Len(out) < OutSize THEN loads + 1 ELSE loads
    ELSE Abort

\* The path between two delimiters, the first of which the argument is.
PathAt == readnext(Arg)
PathEnd(close) == read_until(PathAt, {close})
PathRest(close) == read_spaces_until_lf(readnext(PathEnd(close)))
Path(close) == Span(PathAt.ptr, PathEnd(close).ptr)

IncludeLocal ==
  /\ At("include") /\ Arg.cur = "QUOTE"
  /\ IF PathEnd("QUOTE").cur = "QUOTE"
       THEN prep_expand(path_join_ssp(Top.dir, Path("QUOTE")), PathRest("QUOTE").ptr)
       ELSE Abort
  /\ UNCHANGED unknown

\* Slip: the search goes on behind the first path that has the file.
SystemPathLast(name) ==
  LET Joined(i) == path_join_ssp(SearchPaths[i], name)
      found == {i \in DOMAIN SearchPaths : Joined(i) \in DOMAIN files}
  IN IF found = {} THEN Joined(Len(SearchPaths)) ELSE Joined(CHOOSE i \in found : \A j \in found : i >= j)

\* The first search path that has the file, or the last one.
SystemPath(name) ==
  LET Joined(i) == path_join_ssp(SearchPaths[i], name)
      found == {i \in DOMAIN SearchPaths : Joined(i) \in DOMAIN files}
  IN IF found = {} THEN Joined(Len(SearchPaths)) ELSE Joined(CHOOSE i \in found : \A j \in found : i <= j)

IncludeSystem ==
  /\ At("include") /\ Arg.cur = "<"
  /\ IF PathEnd(">").cur = ">" /\ SearchPaths # <<>>
       THEN prep_expand(SystemPath(Path(">")), PathRest(">").ptr)
       ELSE Abort
  /\ UNCHANGED unknown

\* Anything else behind #include is read on as text.
IncludeOther ==
  /\ At("include") /\ Arg.cur \notin {"QUOTE", "<"}
  /\ frames' = FramesAt(Arg.ptr)
  /\ UNCHANGED <<files, defs, out, loads, phase, unknown>>

SetAndGoOn(content, ptr) ==
  /\ defs' = SetDefine(Id, content)
  /\ frames' = FramesAt(ptr)
  /\ UNCHANGED <<files, out, loads, phase, unknown>>

\* The content is kept as it stands; readnext takes its backslashes away when
\* it replaces a name.
Define ==
  LET first == read_spaces_until_lf(IdEnd)
      last == read_until(first, {"LF"})
  IN
  /\ At("define")
  /\ \/ /\ first.cur = "LF"
        /\ SetAndGoOn(<<>>, first.ptr)
     \/ /\ first.cur # "LF"
        /\ SetAndGoOn(Span(first.ptr - 1, last.ptr), read_spaces_until_lf(last).ptr)

Undef == At("undef") /\ SetAndGoOn(NULL, read_spaces_until_lf(IdEnd).ptr)

\* Slip: the call goes on with the content.
BlockAgain(ptr) ==
  LET ends == {i \in ptr..(End - 2) : Text[i] = "#" /\ Text[i + 1] = "endif"} IN
  [end |-> FirstOf(ends, End), next |-> ptr]

(***************************************************************************)
(* The content of a conditional and what follows it: up to the first       *)
(* "#endif", without the newline before it.  Without an "#endif" the loop  *)
(* stops where none would fit any more.                                    *)
(***************************************************************************)
Block(ptr) ==
  LET ends == {i \in ptr..(End - 2) : Text[i] = "#" /\ Text[i + 1] = "endif"}
      term == FirstOf(ends, End)
  IN IF ends = {}
       THEN [end |-> IF End - Lost > ptr THEN End - Lost ELSE ptr, next |-> End + 1]
       ELSE [end |-> IF Text[term - 1] = "LF" THEN term - 1 ELSE term, next |-> term + 2]

Conditional(ptr, holds) ==
  LET block == Block(ptr) IN
  IF holds
    THEN /\ Enter(Frame(Top.path, Top.dir, ptr, block.end), block.next)
         /\ UNCHANGED <<loads, unknown>>
    ELSE /\ frames' = FramesAt(block.next)
         /\ UNCHANGED <<files, defs, out, loads, phase, unknown>>

IfDefined ==
  LET ptr == read_spaces_until_lf(IdEnd).ptr IN
  \/ At("ifdef") /\ Conditional(ptr, IsDefined(Id))
  \/ At("ifndef") /\ Conditional(ptr, ~IsDefined(Id))

(***************************************************************************)
(* eval_expr is the module Condition: the value of the text, or the end of *)
(* the program.  What is no condition has any value.                       *)
(***************************************************************************)
Bare(expr) == SelectSeq(expr, LAMBDA s : s # "SP")
WellFormed(expr) ==
  /\ Len(Bare(expr)) % 4 = 2
  /\ \A i \in DOMAIN Bare(expr) :
       CASE i % 4 = 1 -> Bare(expr)[i] = "defined"
         [] i % 4 = 2 -> Bare(expr)[i] \in Letters
         [] OTHER     -> Bare(expr)[i] = "&"
Value(expr) == \A i \in DOMAIN expr : expr[i] \in Letters => IsDefined(<<expr[i]>>)

If ==
  LET exprEnd == read_until(Arg, {"LF"})
      expr == Span(Arg.ptr, exprEnd.ptr)
      ptr == read_spaces_until_lf(exprEnd).ptr
  IN
  /\ At("if")
  /\ \/ \E holds \in IF WellFormed(expr) THEN {Value(expr)} ELSE BOOLEAN : Conditional(ptr, holds)
     \/ Abort /\ UNCHANGED unknown

Known == {"include", "define", "ifdef", "ifndef", "undef", "if"}

Unrecognized ==
  /\ Reading /\ Cur.cur = "#"
  /\ \A word \in Known : Directive # <<word>>
  /\ Abort
  /\ unknown' = Directive

-----------------------------------------------------------------------------
(***************************************************************************)
(* Text.  A comment and a literal are copied, and so is a name without a   *)
(* replacement.                                                            *)
(***************************************************************************)
CommentEnd ==
  LET ptr == Cur.ptr IN
  CASE ptr < End /\ Text[ptr] = "/" -> FirstOf({i \in ptr..(End - 1) : Text[i] = "LF"}, End)
    [] ptr < End /\ Text[ptr] = "*" ->
         FirstOf({i \in ptr..(End - 2) : Text[i] = "*" /\ Text[i + 1] = "/"}, End - 1) + 2
    [] OTHER -> ptr

Comment ==
  /\ Reading /\ Cur.cur = "/"
  /\ Emit(Span(Cur.ptr - 1, IF CommentEnd < End THEN CommentEnd ELSE End), CommentEnd)

\* readnext has taken the backslash before a quote away, so that the quote ends
\* the literal; a backslash it gives back was itself escaped.
LiteralEnd ==
  LET go[r \in Readers] ==
        LET next == readnext(r) IN
        IF ~next.more \/ next.cur = Cur.cur THEN next
        ELSE IF next.cur = "\\" THEN go[readnext(next)] ELSE go[next]
  IN go[Cur]

Literal ==
  /\ Reading /\ Cur.cur \in {"QUOTE", "APOSTROPHE"}
  /\ Emit(Span(Cur.ptr - 1, LiteralEnd.ptr), LiteralEnd.ptr)

\* What readnext gives for a content.
Unescaped(content) ==
  LET from[i \in 1..(Len(content) + 1)] ==
        IF i > Len(content) THEN <<>>
        ELSE IF i = Len(content) \/ content[i] # "\\" THEN <<content[i]>> \o from[i + 1]
        ELSE <<IF content[i + 1] = "LF" THEN "SP" ELSE content[i + 1]>> \o from[i + 2]
  IN from[1]

Name ==
  LET rest == read_while(Cur, IdSymbols \cup {"1"})
      id == Span(Cur.ptr - 1, rest.ptr)
  IN
  /\ Reading /\ Cur.cur \in Letters \cup Words
  /\ Emit(IF IsDefined(id) THEN Unescaped(defs[id]) ELSE id, rest.ptr)

Other ==
  /\ Reading
  /\ Cur.cur \notin {"#", "/", "QUOTE", "APOSTROPHE"} \cup Letters \cup Words
  /\ Emit(<<Cur.cur>>, Cur.ptr)

\* The caller of the outermost call writes the NUL behind the text.
Return ==
  /\ phase = "run" /\ ~Cur.more
  /\ frames' = SubSeq(frames, 1, Len(frames) - 1)
  /\ phase' = IF Len(frames) > 1 THEN "run" ELSE IF Len(out) < OutSize THEN "done" ELSE "outside"
  /\ UNCHANGED <<files, defs, out, loads, unknown>>

\* The program has the text, or an assertion has ended it.
Ended == phase # "run" /\ UNCHANGED vars

Next ==
  \/ IncludeLocal \/ IncludeSystem \/ IncludeOther
  \/ Define \/ Undef \/ IfDefined \/ If \/ Unrecognized
  \/ Comment \/ Literal \/ Name \/ Other \/ Return
  \/ Ended

Spec == Init /\ [][Next]_vars

-----------------------------------------------------------------------------
(***************************************************************************)
(* Properties                                                              *)
(***************************************************************************)

\* Every call has a file of its own name, and reads no further than its end:
\* the symbols of the file, but for a call that went past its last comment or
\* its missing #endif.
TypeOK ==
  /\ \A i \in DOMAIN frames :
       /\ frames[i].path \in DOMAIN files
       /\ frames[i].dir = DirOf(frames[i].path)
       /\ frames[i].end \in 1..(Len(files[frames[i].path]) + 1)
       /\ frames[i].ptr \in 1..(Len(files[frames[i].path]) + 2)
  /\ \A name \in DOMAIN defs : name \in Seq(Symbols) /\ defs[name] \in Seq(Symbols \cup {"NULL"})
  /\ out \in Seq(Symbols) /\ Len(out) <= OutSize
  /\ loads \in 1..MaxLoads
  /\ phase \in {"run", "done", "abort", "outside"}

\* Every turn of the loop moves its own call forward and no other one, and what
\* it gives to another call it does not read itself: no text is expanded twice.
\* So expand ends, whatever the files are: with no file loaded a turn takes text
\* away, and the pool bounds how many are.
NothingTwice ==
  [][phase' = "run" /\ Len(frames') >= Len(frames) =>
       LET n == Len(frames) IN
       /\ \A i \in 1..(n - 1) : frames'[i] = frames[i]
       /\ frames'[n].ptr > Top.ptr
       /\ Len(frames') > n =>
            LET new == frames'[n + 1] IN
            \/ new = FileFrame(new.path)
            \/ /\ new.path = Top.path
               /\ Top.ptr < new.ptr /\ new.end <= End
               /\ new.end <= frames'[n].ptr]_vars

\* prep.c:419 names a directive the function does not know; it knows #endif,
\* which it looks for itself.
EndifKnown == unknown # <<"endif">>
=============================================================================
