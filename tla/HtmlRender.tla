----------------------------- MODULE HtmlRender -----------------------------
(***************************************************************************)
(* lib/html_render.c: the panel of source code on the page, written from   *)
(* the nodes of the parser.                                                *)
(*                                                                         *)
(* The panel is a sequence of tokens with the class of the span each one   *)
(* stands in, "" for none; how tags are written is HtmlWriter.  A step     *)
(* writes one top-level node and the tokens between it and the next.       *)
(*                                                                         *)
(* write_statement calls itself: what it writes is given as tokens and, in *)
(* their place, the calls, which are carried out level by level.           *)
(***************************************************************************)
EXTENDS Parser, SequencesExt

VARIABLES
  page,    \* what is written
  written  \* how many nodes are

vars == <<parserVars, page, written>>

Cell(p, class) == [token |-> p, class |-> class]

\* A walk along the tokens that ends at none of them, a list that is none, and
\* a node write_statement does not know end the program.
Crash == <<Cell(0, "crash")>>

\* write_token_span and write_token_spanc
Span(from, to, class) ==
  IF from > to THEN Crash ELSE [i \in 1..(to - from) |-> Cell(from + i - 1, class)]
Plain(from, to) == Span(from, to, "")
One(p, class) == Span(p, p + 1, class)

\* Every whitespace token from p on.
write_ws(p) == Plain(p, Min({q \in p..(Len(tokens) + 1) : Type(q) # "WS"}))

First(list) == IF list.items = <<>> THEN list.stub ELSE Head(list.items).start
LastStart(list) == IF list.items = <<>> THEN list.stub ELSE Last(list.items).start
LastEnd(list) == IF list.items = <<>> THEN list.stub_end ELSE Last(list.items).end
IsList(branch) == "items" \in DOMAIN branch

IsCall(part) == "node" \in DOMAIN part
Nested(st) == <<[node |-> st]>>

write_data_type(type) ==
  FlattenSeq([i \in 1..(type.end - type.start) |->
    LET p == type.start + i - 1 IN
    One(p, IF Type(p) \in Keywords THEN "keyword"
           ELSE IF p = type.id THEN "typename" ELSE "")])

write_decl(decl, class) ==
  IF decl.var_arg THEN Plain(decl.start, decl.end)
  ELSE write_data_type(decl.data_type) \o write_ws(decl.data_type.end)
         \o One(decl.id, class) \o write_ws(decl.id + 1)
         \o (IF decl.assign = <<>> THEN <<>>
             ELSE LET assign == decl.assign[1] IN
                  One(assign.equal_sign, "") \o write_ws(assign.equal_sign + 1) \o Nested(assign.expr))

\* Slip: only the nodes.
JoinedBare(items, cells) == FlattenSeq(cells)

\* The nodes of a list, as they are written, and the tokens between them.
Joined(items, cells) ==
  FlattenSeq([i \in DOMAIN items |->
    cells[i] \o (IF i < Len(items) THEN Plain(items[i].end, items[i + 1].start) ELSE <<>>)])

Decls(items, class) == [i \in DOMAIN items |-> write_decl(items[i], class)]

write_serial(list) == Joined(list.items, [i \in DOMAIN list.items |-> Nested(list.items[i])])
write_params(list) == Joined(list.items, Decls(list.items, ""))
write_member_decls(list) == Joined(list.items, Decls(list.items, "member"))

write_func_invoke(st) ==
  Plain(st.start, st.args.stub) \o write_serial(st.args) \o Plain(LastEnd(st.args), st.end)

\* What stands before an else block starts at the last statement of it.
write_else(st) ==
  IF ~IsList(st.else) THEN Crash
  ELSE One(st.else_token, "keyword") \o Plain(st.else_token + 1, LastStart(st.else))
         \o write_serial(st.else) \o Plain(LastEnd(st.else), st.end)

write_if(st) ==
  LET behind == IF st.else_token # 0 THEN st.else_token ELSE st.end IN
  IF ~IsList(st.then) THEN Crash
  ELSE One(st.start, "keyword") \o Plain(st.start + 1, st.cond.start) \o Nested(st.cond)
         \o Plain(st.cond.end, st.then.stub) \o write_serial(st.then) \o Plain(LastEnd(st.then), behind)
         \o (IF st.else_token # 0 THEN write_else(st) ELSE <<>>)

write_struct_init(st) ==
  LET Braces(from, to, brace) ==
        IF from > to THEN Crash
        ELSE FlattenSeq([i \in 1..(to - from) |->
               One(from + i - 1, IF Type(from + i - 1) = brace THEN "init" ELSE "")])
  IN Braces(st.start, st.exprs.stub, "{") \o write_serial(st.exprs) \o Braces(LastEnd(st.exprs), st.end, "}")

\* Slip: what is behind a label is written from the label on.
write_caseAgain(block, end) ==
  LET before(i) == IF i > 1 THEN block.items[i - 1].end
                   ELSE IF block.label # 0 THEN block.label ELSE block.colon
      label == IF block.label = 0 THEN <<>> ELSE Plain(block.start + 1, block.label + 1)
  IN One(block.start, "keyword") \o label
       \o FlattenSeq([i \in DOMAIN block.items |->
            Plain(before(i), block.items[i].start) \o Nested(block.items[i])])
       \o Plain(before(Len(block.items) + 1), end)

write_case(block, end) ==
  LET before(i) == IF i = 1 THEN block.colon ELSE block.items[i - 1].end
      label == IF block.label = 0 THEN <<>>
               ELSE Plain(block.start + 1, block.label)
                      \o One(block.label, IF Type(block.label) = "num" THEN "num" ELSE "")
  IN One(block.start, "keyword") \o label
       \o FlattenSeq([i \in DOMAIN block.items |->
            Plain(before(i), block.items[i].start) \o Nested(block.items[i])])
       \o Plain(before(Len(block.items) + 1), end)

write_switch(st) ==
  LET blocks == st.blocks.items IN
  One(st.start, "keyword") \o Plain(st.start + 1, st.expr.start) \o Nested(st.expr)
    \o Plain(st.expr.end, st.blocks.stub)
    \o FlattenSeq([i \in DOMAIN blocks |->
         write_case(blocks[i], IF i < Len(blocks) THEN blocks[i + 1].start ELSE st.end)])

write_statement(st) ==
  CASE st.type = "FUNC_INVOKE" -> write_func_invoke(st)
    [] st.type = "RETURN_STATEMENT" ->
         One(st.start, "keyword") \o write_ws(st.start + 1) \o Nested(st.expr)
    [] st.type = "STRING_LITERAL" -> One(st.start, "str")
    [] st.type = "INT_LITERAL" -> One(st.start, "num")
    [] st.type = "DECLARATION" -> write_decl(st, "")
    [] st.type = "IF_STATEMENT" -> write_if(st)
    [] st.type \in {"UNARY_OP", "ASSIGNMENT"} -> Plain(st.start, st.expr.start) \o Nested(st.expr)
    [] st.type = "BINARY_OP" ->
         Nested(st.lhs) \o Plain(st.lhs.end, st.rhs.start) \o Nested(st.rhs)
    [] st.type \in {"VAR_REFERENCE", "LABEL_DECL"} -> Plain(st.start, st.end)
    [] st.type = "DEFINE_REFERENCE" -> Span(st.start, st.end, "prepid")
    [] st.type = "ARRAY_ACCESS" ->
         Plain(st.start, st.index.start) \o Nested(st.index) \o Plain(st.index.end, st.end)
    [] st.type = "GOTO_STATEMENT" -> One(st.start, "keyword") \o Plain(st.start + 1, st.end)
    [] st.type = "STRUCT_INIT" -> write_struct_init(st)
    [] st.type = "MEMBER_ACCESS" -> Plain(st.lhs.start, st.member) \o One(st.member, "member")
    [] st.type = "COMMENT" -> Span(st.start, st.end, "comment")
    [] st.type = "BREAK_STATEMENT" -> Span(st.start, st.end, "keyword")
    [] st.type = "SWITCH_STATEMENT" -> write_switch(st)
    [] st.type = "TYPE_CAST" ->
         Plain(st.start, st.data_type.start) \o write_data_type(st.data_type)
           \o Plain(st.data_type.end, st.expr.start) \o Nested(st.expr)
    [] OTHER -> Crash

\* The calls in what is written, and those they make in turn: they are nested no
\* deeper than the file has tokens.
Carried(parts) ==
  FlattenSeq([i \in DOMAIN parts |->
    IF IsCall(parts[i]) THEN write_statement(parts[i].node) ELSE <<parts[i]>>])
WrittenOut(parts) ==
  LET level[n \in 0..Len(tokens)] == IF n = 0 THEN parts ELSE Carried(level[n - 1])
  IN level[Len(tokens)]

write_func_sign(sign) ==
  Span(sign.data_type.start, sign.data_type.end, "keyword") \o write_ws(sign.data_type.end)
    \o One(sign.name, "func-name") \o Plain(sign.name + 1, First(sign.params))
    \o write_params(sign.params) \o Plain(LastEnd(sign.params), sign.end)

-----------------------------------------------------------------------------
(***************************************************************************)
(* The loop of write_code                                                  *)
(***************************************************************************)
RenderInit == Init /\ page = <<>> /\ written = 0

Node == nodes[written + 1]
ToWrite(type) == phase = "write" /\ written < Len(nodes) /\ Node.type = type

\* What is between a node and the next one, or the one token behind the last.
Behind ==
  IF written + 1 < Len(nodes) THEN Plain(Node.end, nodes[written + 2].start)
  ELSE IF Node.end \in DOMAIN tokens THEN One(Node.end, "") ELSE Crash

Write(parts) ==
  LET cells == WrittenOut(parts) \o Behind IN
  /\ IF Crash[1] \in ToSet(cells)
       THEN phase' = "abort" /\ UNCHANGED <<page, written>>
       ELSE /\ page' = page \o cells
            /\ written' = written + 1
            /\ UNCHANGED phase
  /\ Render

WriteInclude ==
  /\ ToWrite("INCLUDE_DIRECTIVE")
  /\ Write(One(Node.start, "prep") \o write_ws(Node.start + 1) \o One(Node.path, "str"))

WriteDefine ==
  /\ ToWrite("DEFINE_DIRECTIVE")
  /\ Write(One(Node.start, "prep") \o write_ws(Node.start + 1)
             \o One(Node.id, "prepid") \o write_ws(Node.id + 1) \o Nested(Node.expr))

WriteFuncDecl == ToWrite("FUNC_DECL") /\ Write(write_func_sign(Node.signature))

WriteFuncDef ==
  /\ ToWrite("FUNC_DEF")
  /\ Write(write_func_sign(Node.signature)
             \o Plain(Node.signature.end, Node.body.stub) \o write_serial(Node.body)
             \o Plain(LastEnd(Node.body), Node.end))

WriteStruct ==
  /\ ToWrite("STRUCT_DECL")
  /\ Write(One(Node.start, "keyword") \o write_ws(Node.start + 1)
             \o One(Node.id, "typename") \o Plain(Node.id + 1, Node.members.stub)
             \o write_member_decls(Node.members) \o Plain(LastEnd(Node.members), Node.end))

WriteComment == ToWrite("COMMENT") /\ Write(Span(Node.start, Node.end, "comment"))

\* A file without a node has no last one either.
WriteEnd ==
  /\ phase = "write" /\ written = Len(nodes)
  /\ phase' = IF nodes = <<>> THEN "abort" ELSE "done"
  /\ Render /\ UNCHANGED <<page, written>>

\* The page is written, or the program has ended.
Ended == phase \in {"done", "abort"} /\ UNCHANGED vars

Next ==
  \/ Parse /\ UNCHANGED <<page, written>>
  \/ WriteInclude \/ WriteDefine \/ WriteFuncDecl \/ WriteFuncDef \/ WriteStruct \/ WriteComment
  \/ WriteEnd
  \/ Ended

Spec == RenderInit /\ [][Next]_vars

-----------------------------------------------------------------------------
\* Whatever the file is, a page that is finished has no token twice, but for
\* whitespace, as that behind the name of a declaration, and the else blocks: no
\* write_ function writes again what the one that called it has.
NothingTwice ==
  phase = "done" /\ (\A i \in DOMAIN tokens : tokens[i] # "else") =>
    \A i \in 1..(Len(page) - 1) :
      \/ page[i].token < page[i + 1].token
      \/ Type(page[i].token) = "WS" /\ Type(page[i + 1].token) = "WS"
=============================================================================
