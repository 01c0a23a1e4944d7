------------------------------ MODULE MCExpand ------------------------------
(* A file of up to MaxLines of the Lines, beside a few headers; a small      *)
(* buffer and a small pool.                                                  *)
EXTENDS ExpandLines, SequencesExt

CONSTANTS
  Lines,     \* what the main file may be made of
  MaxLines,
  Raw        \* what it may be made of with an end of its own: no newline, no #endif

\* A line is a list of bits: pieces that have their source and no place yet.
Bit(kind, src) ==
  [kind |-> kind, src |-> src, text |-> <<>>, id |-> <<>>, ids |-> {}, target |-> <<>>]
Copied(kind, src) == [Bit(kind, src) EXCEPT !.text = src]
Newline == Copied("text", <<"LF">>)

\* raw is the replacement as it is written, text as it is meant.
DefineLine(id, raw, text) ==
  <<[Bit("define", <<"#", "define", "SP">> \o id \o (IF raw = <<>> THEN <<>> ELSE <<"SP">> \o raw))
       EXCEPT !.id = id, !.text = text]>>
UndefLine(id) == <<[Bit("undef", <<"#", "undef", "SP">> \o id \o <<"SP">>) EXCEPT !.id = id]>>
\* target is the file that is meant by the path.
LocalLine(path, target) ==
  <<[Bit("include", <<"#", "include", "SP", "QUOTE">> \o path \o <<"QUOTE">>) EXCEPT !.target = target]>>
SystemLine(path, target) ==
  <<[Bit("include", <<"#", "include", "SP", "<">> \o path \o <<">">>) EXCEPT !.target = target]>>
\* A line no meaning is given to.
RawLine(raw) == <<Bit("raw", raw)>>

\* A directive takes the newline behind it.
WithNewline(line) ==
  IF line # <<>> /\ Last(line).kind \in {"define", "undef", "include"}
    THEN [line EXCEPT ![Len(line)].src = @ \o <<"LF">>]
    ELSE Append(line, Newline)

Guarded(kind, ids, condition, body) ==
  <<[Bit(kind, <<"#", kind, "SP">> \o condition \o <<"LF">>) EXCEPT !.ids = ids]>>
    \o FlattenSeq([i \in DOMAIN body |-> IF i < Len(body) THEN WithNewline(body[i]) ELSE body[i]])
    \o <<Bit("close", (IF body = <<>> THEN <<>> ELSE <<"LF">>) \o <<"#", "endif">>)>>
IfdefBlock(id, body) == Guarded("ifdef", {id}, id, body)
IfndefBlock(id, body) == Guarded("ifndef", {id}, id, body)
\* The names of an #if are one symbol each; all of them are to be defined.
IfBlock(ids, body) ==
  Guarded("if", {<<ids[i]>> : i \in DOMAIN ids},
        FlattenSeq([i \in DOMAIN ids |->
          (IF i = 1 THEN <<>> ELSE <<"SP", "&", "&", "SP">>) \o <<"defined", "SP", ids[i]>>]),
        body)

MCLetters == {"A", "B", "h", "s", "d", "g", "r", "n", "t"}
MCMain == <<"n">>
MCSearchPaths == << <<"s">>, <<"t">> >>

A == <<"A">>
B == <<"B">>
Code(name) == Copied("name", name)
Kept(text) == Copied("text", text)
TextLine(parts) == parts
Sp == Kept(<<"SP">>)
LineOfA == TextLine(<<Code(A)>>)

TextLines == {
  TextLine(<<Code(A), Sp, Code(<<"A", "_">>), Sp, Code(B)>>),
  TextLine(<<Kept(<<"/", "*", "A", "LF", "#", "undef", "SP", "A", "*", "/">>), Code(A),
             Kept(<<"/", "/", "A">>)>>),
  TextLine(<<Kept(<<"QUOTE", "A", "QUOTE">>), Kept(<<"APOSTROPHE", "QUOTE", "APOSTROPHE">>), Code(A)>>)}

Directives == {
  DefineLine(A, <<"1", "B">>, <<"1", "B">>),
  DefineLine(A, <<>>, <<>>),
  DefineLine(A, <<"(", "\\", "LF", ")">>, <<"(", "SP", ")">>),
  UndefLine(A),
  LocalLine(<<"h">>, <<".", "/", "h">>),
  LocalLine(<<"d", "/", "g">>, <<".", "/", "d", "/", "g">>),
  SystemLine(<<"h">>, <<"s", "/", "h">>),
  SystemLine(<<"g">>, <<"t", "/", "g">>)}

BlocksOfLines == {
  IfdefBlock(A, <<LineOfA>>),
  IfdefBlock(A, <<>>),
  IfdefBlock(A, <<UndefLine(A), LineOfA>>),
  IfndefBlock(A, <<DefineLine(A, <<"1", "1">>, <<"1", "1">>)>>),
  IfBlock(<<"A">>, <<LocalLine(<<"h">>, <<".", "/", "h">>)>>),
  IfBlock(<<"A", "B">>, <<LineOfA>>)}

\* Every kind of directive and text.
FlatLines == TextLines \cup Directives \cup BlocksOfLines

\* Directives that lack something, unknown ones, and a file that includes itself.
RawLines == {
  RawLine(<<"#", "else">>), RawLine(<<"#", "include", "SP", "A">>), RawLine(<<"#", "if", "SP", "A">>),
  RawLine(<<"#">>), RawLine(<<"#", "undef">>), RawLine(<<"#", "define">>), RawLine(<<"#", "ifdef">>),
  RawLine(<<"#", "include", "SP", "QUOTE">>), RawLine(<<"#", "include", "SP", "<", "A">>),
  RawLine(<<"#", "include", "SP", "QUOTE", "r", "QUOTE">>),
  RawLine(<<"QUOTE", "A">>), RawLine(<<"/", "*", "A">>), RawLine(<<"/", "*", "/">>),
  DefineLine(A, <<"1", "B">>, <<"1", "B">>), LineOfA}

\* A conditional without an end: it takes the rest of the file, of which only the
\* last five characters matter.
OpenBlock == RawLine(<<"#", "ifndef", "SP", "A", "LF", "A", "A", "A", "A", "A", "A", "A">>)

Source(bits) == FlattenSeq([i \in DOMAIN bits |-> bits[i].src])

\* A conditional in a conditional.
NestedLines == {
  RawLine(<<"#", "ifdef", "SP", "A", "LF">> \o Source(IfdefBlock(B, <<LineOfA>>)) \o <<"LF", "#", "endif">>)}

Headers == [path \in {<<".", "/", "h">>, <<".", "/", "d", "/", "g">>, <<".", "/", "d", "/", "h">>,
                      <<"s", "/", "h">>, <<"t", "/", "h">>, <<"t", "/", "g">>, <<".", "/", "r">>} |->
  CASE path = <<".", "/", "h">> -> <<IfndefBlock(B, <<DefineLine(B, <<"1", "1">>, <<"1", "1">>), LineOfA>>)>>
    [] path = <<".", "/", "d", "/", "g">> -> <<LocalLine(<<"h">>, <<".", "/", "d", "/", "h">>)>>
    [] path = <<".", "/", "d", "/", "h">> -> <<DefineLine(A, <<"d", "d">>, <<"d", "d">>)>>
    [] path = <<"s", "/", "h">> -> <<DefineLine(A, <<"s", "s">>, <<"s", "s">>)>>
    [] path = <<"t", "/", "h">> -> <<UndefLine(B)>>
    [] path = <<"t", "/", "g">> -> <<LineOfA>>
    [] path = <<".", "/", "r">> -> <<LocalLine(<<"r">>, <<".", "/", "r">>)>>]

DocsOf(mains) == {[path \in DOMAIN Headers \cup {MCMain} |-> IF path = MCMain THEN main ELSE Headers[path]] :
                    main \in mains}
UpTo(max, lines) == UNION {[1..n -> lines] : n \in 0..max}

LineDocs == DocsOf(UpTo(MaxLines, Lines))
RawDocs == DocsOf(UpTo(2, Raw) \cup {<<line, OpenBlock>> : line \in Raw})

Bits(lines) == FlattenSeq([i \in DOMAIN lines |-> WithNewline(lines[i])])
Rendered(d) == [path \in DOMAIN d |-> Source(Bits(d[path]))]

\* The bits one behind the other.
Placed(bits) ==
  LET at[k \in 1..(Len(bits) + 1)] == IF k = 1 THEN 1 ELSE at[k - 1] + Len(bits[k - 1].src)
  IN [k \in DOMAIN bits |->
        [kind |-> bits[k].kind, from |-> at[k], to |-> at[k + 1], text |-> bits[k].text, id |-> bits[k].id,
         ids |-> bits[k].ids, target |-> bits[k].target,
         close |-> FirstOf({j \in DOMAIN bits : j > k /\ bits[j].kind = "close"}, 0)]]

\* The last line of a file may have no newline.
Unended(d) == [Rendered(d) EXCEPT ![MCMain] = SubSeq(@, 1, Len(@) - 1)]

MCFileSystems == {Rendered(d) : d \in LineDocs} \cup UNION {{Rendered(d), Unended(d)} : d \in RawDocs}

MCInit ==
  /\ \/ \E d \in LineDocs :
          /\ doc = [path \in DOMAIN d |-> Placed(Bits(d[path]))]
          /\ files = Rendered(d)
          /\ Assert(AreLines, "pieces that are not those of the files")
     \/ \E d \in RawDocs : doc = <<>> /\ files \in {Rendered(d), Unended(d)}
  /\ Start

MCSpec == MCInit /\ [][DocNext]_<<vars, doc>>
=============================================================================
