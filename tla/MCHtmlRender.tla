---------------------------- MODULE MCHtmlRender ----------------------------
(* Files of a few elements whose tokens are given with the class they are    *)
(* to have on the page, and function bodies of any few tokens.               *)
EXTENDS HtmlRender

CONSTANTS
  Bodies,    \* the statements of a function
  Elements,  \* what stands beside it
  Fragments,     \* what any file, and any body of a function, is put together from
  BodyFragments,
  MaxFragments

VARIABLE doc  \* the tokens and their classes

MCIdentifiers == {"a", "D"}

T(type) == <<Cell(type, "")>>
C(type, class) == <<Cell(type, class)>>
K(type) == C(type, "keyword")
S == T("WS")

\* D is a name that is defined, a is not.
D == C("D", "prepid")
NUM == C("num", "num")

Simple == {D, NUM, C("str", "str"), T("a")}
Compound(e) == {
  T("a") \o S \o T("(") \o e \o T(",") \o S \o T("a") \o T(")"),
  T("a") \o T("[") \o S \o e \o T("]"),
  T("(") \o K("int") \o S \o T("*") \o T("*") \o T(")") \o S \o e,
  T("(") \o K("struct") \o S \o C("a", "typename") \o T(")") \o e,
  T("a") \o S \o T("=") \o S \o e,
  C("{", "init") \o S \o e \o S \o C("}", "init")}
Operands == Simple \cup UNION {Compound(e) : e \in Simple}
               \cup {T("a") \o T("(") \o T(")"), C("{", "init") \o C("}", "init")}
Exprs == Operands
  \cup {T("&") \o e : e \in Operands}
  \cup {e \o S \o T("==") \o S \o NUM : e \in Operands}
  \cup {D \o T("==") \o e : e \in Operands}
  \cup {T("a") \o T("->") \o C("a", "member"), T("a") \o T("[") \o T("a") \o T("]") \o T("->") \o C("a", "member")}

\* A statement that starts with a brace is a block in a case.
ExprStatements == {e \o T(";") : e \in {f \in Exprs : f[1].token # "{"}}

Call == T("a") \o T("(") \o T(")") \o T(";")
IfHead == K("if") \o S \o T("(") \o D \o T(")") \o S \o T("{") \o S
Else == T("}") \o S \o K("else") \o S \o T("{") \o S
SwitchHead == K("switch") \o S \o T("(") \o T("a") \o T(")") \o S \o T("{") \o S

OtherStatements == {
  C("COMMENT", "comment"),
  K("int") \o S \o T("*") \o T("a") \o S \o T("=") \o S \o T("a") \o T("(") \o D \o T(")") \o T(";"),
  C("a", "typename") \o S \o T("a") \o T(";"),
  K("return") \o S \o D \o T(";"),
  K("goto") \o S \o T("a") \o T(";"),
  T("a") \o T(":"),
  IfHead \o Call \o S \o Call \o S \o T("}"),
  IfHead \o T("}"),
  IfHead \o C("COMMENT", "comment") \o S \o Else \o Call \o S \o T("}"),
  IfHead \o IfHead \o Call \o T("}") \o S \o Else \o T("}"),
  SwitchHead \o K("case") \o S \o NUM \o T(":") \o S \o K("case") \o S \o T("a") \o T(":") \o S
    \o K("default") \o T(":") \o S \o K("break") \o T(";") \o S \o T("}"),
  SwitchHead \o K("case") \o S \o NUM \o T(":") \o S \o T("{") \o S \o Call \o S \o Call \o S \o T("}") \o S
    \o K("break") \o T(";") \o S \o K("default") \o T(":") \o S \o IfHead \o Call \o S \o T("}") \o S \o T("}")}

AllStatements == ExprStatements \cup OtherStatements

\* A second statement behind each kind, and a statement inside each block.
FewStatements == {Call, K("return") \o S \o NUM \o T(";"), C("COMMENT", "comment")}
AllBodies ==
  {<<>>} \cup {s \o S : s \in AllStatements} \cup {s \o S \o t \o S : s \in OtherStatements, t \in FewStatements}
  \cup {t \o S \o s \o S : s \in OtherStatements, t \in FewStatements}
  \cup {IfHead \o s \o S \o Else \o t \o S \o T("}") \o S : s \in OtherStatements, t \in FewStatements}

\* An else block of two statements.
ElseBodies == {IfHead \o Call \o S \o Else \o Call \o S \o Call \o S \o T("}") \o S}

Sign(params) == K("int") \o S \o C("a", "func-name") \o T("(") \o params \o T(")")
Param == K("int") \o S \o T("*") \o T("*") \o T("a") \o T(",") \o S \o C("a", "typename") \o S \o T("a")
AllElements == {
  C("INCLUDE", "prep") \o S \o C("HEADER", "str"),
  C("DEFINE", "prep") \o S \o D \o S \o NUM,
  C("COMMENT", "comment"),
  Sign(Param \o T(",") \o S \o T("...")) \o T(";"),
  K("struct") \o S \o C("a", "typename") \o S \o T("{") \o S \o K("int") \o S \o C("a", "member") \o T(";") \o S
    \o K("struct") \o S \o C("a", "typename") \o S \o T("*") \o C("a", "member") \o T(";") \o S \o T("}") \o T(";")}

Define == C("DEFINE", "prep") \o S \o D \o S \o NUM \o S
Func(params, body) == Sign(params) \o S \o T("{") \o S \o body \o T("}")

\* Where the lexer drops a directive between two elements or two statements.
Dropped == S \o S
DroppedDocs ==
  {Define \o S \o e \o Dropped \o Func(<<>>, s \o Dropped \o t \o S) \o Dropped \o e \o S :
     e \in Elements, s \in OtherStatements, t \in FewStatements}

Docs ==
  DroppedDocs \cup
  {Define \o Func(<<>>, body) \o S : body \in Bodies}
  \cup {e \o S \o f \o S \o g \o S \o Func(Param, <<>>) \o S : e, f, g \in Elements}
  \cup {Func(<<>>, <<>>) \o S \o e \o S : e \in Elements}

Stubs == <<"STUB", "STUB", "STUB", "STUB">>
Types(cells) == [i \in DOMAIN cells |-> cells[i].token]
File(cells) == Types(cells) \o Stubs

UpTo(max, fragments) == {FlattenSeq(s) : s \in UNION {[1..n -> fragments] : n \in 0..max}}
AtMostTwo(s) == \A i \in 1..(Len(s) - 2) : \E j \in i..(i + 2) : s[j] # "WS"

AnyFiles ==
  {s \in UpTo(MaxFragments - 1, Fragments)
         \cup {Types(Sign(<<>>)) \o <<"{">> \o body \o <<"}", "WS">> : body \in UpTo(MaxFragments, BodyFragments)} :
     AtMostTwo(s)}

\* The files with one whitespace of theirs doubled.
DoubledFiles ==
  {s \in UNION {{InsertAt(Types(d), i, "WS") : i \in {j \in DOMAIN d : d[j].token = "WS"}} : d \in Docs} :
     AtMostTwo(s)}
AnySources == {s \o Stubs : s \in AnyFiles \cup DoubledFiles}

MCSources == {File(d) : d \in Docs} \cup AnySources

SomeBodyFragments == {
  <<"a">>, <<"num">>, <<"WS">>, <<";">>, <<"{">>, <<"}">>, <<"int", "a">>, <<"=">>, <<"a", "(">>, <<")">>,
  <<"if", "(", "a", ")", "{">>, <<"else">>, <<"switch", "(", "a", ")", "{">>, <<"case", "a", ":">>}
SomeFragments == {
  <<"a">>, <<"num">>, <<"WS">>, <<";">>, <<"{", "}">>, <<"int">>, <<"int", "a", "(">>, <<")">>, <<"COMMENT">>,
  <<"INCLUDE">>, <<"HEADER">>, <<"DEFINE">>, <<"D">>, <<"struct", "a">>, <<"!">>}

MCInit ==
  /\ \/ doc \in Docs /\ tokens = File(doc)
     \/ doc = <<>> /\ tokens \in AnySources
  /\ token = 1 /\ nodes = <<>> /\ defines = {} /\ phase = "parse"
  /\ page = <<>> /\ written = 0

MCSpec == MCInit /\ [][Next /\ UNCHANGED doc]_<<vars, doc>>

\* The last whitespace of a file may be missing on the page.
Trimmed(cells) ==
  IF cells # <<>> /\ Type(Last(cells).token) = "WS" THEN Front(cells) ELSE cells
Marked == [i \in DOMAIN doc |-> Cell(i, doc[i].class)]

\* The page has the tokens of the file, each one once and in their order, and
\* marks what they are.
PageRight == phase = "done" /\ doc # <<>> => Trimmed(page) = Trimmed(Marked)

\* A file without mistakes is shown.
WellFormedIsShown == doc # <<>> => phase # "abort"

\* test/cases/ifelse.html: an else block is shown once.
ElseOnce ==
  phase = "done" => \A i, j \in DOMAIN page : i # j => page[i].token # page[j].token
=============================================================================
