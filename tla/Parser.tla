------------------------------- MODULE Parser -------------------------------
(***************************************************************************)
(* lib/parser.c: from the tokens of a file to the nodes the page is        *)
(* written from.                                                           *)
(*                                                                         *)
(* A token is what the parser can tell of it: its type, and its text for   *)
(* keywords and names.  Pointers to tokens are positions; 0 is where an    *)
(* assertion or a NULL token has ended the program.  A step is one turn of *)
(* the loop of parse.                                                      *)
(***************************************************************************)
EXTENDS Naturals, Sequences

CONSTANTS
  Identifiers,  \* the names of the sources
  Sources       \* the token lists tokenize may return

VARIABLES
  tokens,   \* the tokens of the file
  token,    \* the one to be read next
  nodes,    \* the elements from first_element on
  defines,  \* the names define_table has
  phase     \* "parse", "write", "done"; "abort" ends the program

parserVars == <<tokens, token, nodes, defines, phase>>

JumpWords == {"goto", "if", "return", "switch", "break"}
Keywords == JumpWords \cup {"int", "struct", "else", "case", "default"}
Signs == {"WS", "INCLUDE", "HEADER", "DEFINE", "STUB", "COMMENT", "str", "num", ",", ":", ";",
          "(", ")", "{", "}", "[", "]", "=", "==", "&", "*", "->", "...", "!"}
TokenTypes == Identifiers \cup Keywords \cup Signs

\* tokenize puts four tokens without a text behind those of the file. It gives
\* two whitespace tokens in a row around a directive it drops, and more of them
\* around directives on successive lines, which are out of scope here.
ASSUME ParserAssumption ==
  /\ Identifiers \cap (Keywords \cup Signs \cup {"NULL"}) = {}
  /\ \A s \in Sources :
       /\ s \in Seq(TokenTypes)
       /\ Len(s) >= 4 /\ \A i \in DOMAIN s : s[i] = "STUB" <=> i > Len(s) - 4
       /\ \A i \in 1..(Len(s) - 2) : \E j \in i..(i + 2) : s[j] # "WS"

-----------------------------------------------------------------------------
Type(p) == IF p \in DOMAIN tokens THEN tokens[p] ELSE "NULL"

\* A look at the next token passes one whitespace token for good: what two looks
\* in a row see depends on how many there are.
nonws_token(p) == IF Type(p) = "WS" THEN p + 1 ELSE p
Twice(p) == nonws_token(nonws_token(p))

next_token(p) == IF p \in DOMAIN tokens THEN p + 1 ELSE 0

skip_token(types, p) == IF Type(nonws_token(p)) \in types THEN nonws_token(p) + 1 ELSE 0

\* Slip: the next token, whitespace or not.
is_next(type, p) == p \in DOMAIN tokens /\ Type(p + 1) = type

is_next_skipws(type, p) == p \in DOMAIN tokens /\ Type(nonws_token(p + 1)) = type

Failed == [type |-> "FAILED", start |-> 0, end |-> 0]

\* The loops over a list of nodes: what they read, up to what, and what may
\* stand between two of them.
Lists == [
  arguments  |-> [item |-> "expr", closing |-> {")"}, separator |-> ","],
  values     |-> [item |-> "expr", closing |-> {"}"}, separator |-> ","],
  params     |-> [item |-> "decl", closing |-> {")"}, separator |-> ","],
  members    |-> [item |-> "decl", closing |-> {"}"}, separator |-> ";"],
  statements |-> [item |-> "statement", closing |-> {"}"}, separator |-> ";"],
  parts      |-> [item |-> "part", closing |-> {"}", "case", "default"}, separator |-> ";"],
  cases      |-> [item |-> "case", closing |-> {"}"}, separator |-> "NONE"]]

(***************************************************************************)
(* Expressions, statements and lists are read recursively: read gives what *)
(* each of them is from a position on.  The operators say what it is given *)
(* what stands behind that position; parsed, below, is the solution.       *)
(***************************************************************************)
Readings == ({"expr", "statement"} \cup DOMAIN Lists) \X (0..(Len(tokens) + 1))

\* A list between two delimiters. Its stub stands where the first node may: it
\* starts behind one look at the next token and ends behind another.
Closed(inside, list, close) ==
  [stub |-> nonws_token(inside), stub_end |-> Twice(inside),
   items |-> list.items, end |-> skip_token({close}, list.end)]

Enclosed(read, open, list, close, p) ==
  LET inside == skip_token({open}, p)
  IN Closed(inside, read[<<list, Twice(inside)>>], close)

parse_block(read, p) == Enclosed(read, "{", "statements", "}", p)

\* id is the name to mark, if there is one.
parse_data_type(p) ==
  LET start == nonws_token(p)
      id == CASE Type(start) = "struct" -> nonws_token(start + 1)
              [] Type(start) \in Identifiers -> start
              [] OTHER -> 0
      base == CASE Type(start) = "struct" -> skip_token(Identifiers, id)
                [] Type(start) \in Identifiers \cup (Keywords \ {"struct"}) -> start + 1
                [] OTHER -> start
      star == nonws_token(base)
      pointer == IF Type(star) = "*" THEN star + 1 ELSE base
      second == Twice(IF Type(star) = "*" THEN star + 1 ELSE star)
  IN [start |-> start, id |-> id, end |-> IF Type(second) = "*" THEN second + 1 ELSE pointer]

\* The nodes that end with an expression.
EndsWith(type, start, expr) == [type |-> type, start |-> start, end |-> expr.end, expr |-> expr]

Assignment(start, sign, expr) ==
  [type |-> "ASSIGNMENT", start |-> start, end |-> expr.end, equal_sign |-> sign, expr |-> expr]

parse_assign(read, p) ==
  LET start == nonws_token(p)
      sign == nonws_token(skip_token(Identifiers, start))
  IN Assignment(start, sign, read[<<"expr", nonws_token(skip_token({"="}, sign))>>])

Declaration(start, type, id, end, assign) ==
  [type |-> "DECLARATION", start |-> start, end |-> end, var_arg |-> FALSE,
   data_type |-> type, id |-> id, assign |-> assign]
Initialised(start, type, id, assign) == Declaration(start, type, id, assign.end, <<assign>>)

parse_decl(read, p) ==
  LET start == nonws_token(p)
      at == nonws_token(start)
      type == parse_data_type(at)
      id == nonws_token(type.end)
  IN IF Type(at) = "..."
       THEN [type |-> "DECLARATION", start |-> start, end |-> at + 1, var_arg |-> TRUE]
     ELSE IF is_next_skipws("=", id) THEN Initialised(start, type, id, parse_assign(read, id))
     ELSE Declaration(start, type, id, skip_token(Identifiers, id), <<>>)

-----------------------------------------------------------------------------
(***************************************************************************)
(* Expressions                                                             *)
(***************************************************************************)
Leaf(type, at) == [type |-> type, start |-> at, end |-> at + 1]

FuncInvoke(at, args) == [type |-> "FUNC_INVOKE", start |-> at, end |-> args.end, args |-> args]
parse_func_invoke(read, at) == FuncInvoke(at, Enclosed(read, "(", "arguments", ")", at + 1))

ArrayAccess(at, index) ==
  [type |-> "ARRAY_ACCESS", start |-> at, end |-> skip_token({"]"}, nonws_token(index.end)),
   index |-> index]
parse_arr_access(read, at) == ArrayAccess(at, read[<<"expr", nonws_token(skip_token({"["}, at + 1))>>])

TypeCast(at, type, expr) ==
  [type |-> "TYPE_CAST", start |-> at, end |-> expr.end, data_type |-> type, expr |-> expr]
parse_cast(read, at) ==
  LET type == parse_data_type(at + 1)
  IN TypeCast(at, type, read[<<"expr", nonws_token(skip_token({")"}, nonws_token(type.end)))>>])

StructInit(at, exprs) == [type |-> "STRUCT_INIT", start |-> at, end |-> exprs.end, exprs |-> exprs]
parse_struct_init(read, at) == StructInit(at, Enclosed(read, "{", "values", "}", at))

\* The type of a string is looked at once, that of the rest again.
parse_expr_lazy(read, p) ==
  LET at == Twice(p) IN
  CASE Type(at) = "str" /\ at = nonws_token(p) -> Leaf("STRING_LITERAL", at)
    [] Type(at) = "num" -> Leaf("INT_LITERAL", at)
    [] Type(at) = "{" -> parse_struct_init(read, at)
    [] Type(at) = "(" -> parse_cast(read, at)
    [] Type(at) \in Identifiers ->
         IF Type(at) \in defines THEN Leaf("DEFINE_REFERENCE", at)
         ELSE IF is_next_skipws("[", at) THEN parse_arr_access(read, at)
         ELSE IF is_next_skipws("(", at) THEN parse_func_invoke(read, at)
         ELSE IF is_next_skipws("=", at) THEN parse_assign(read, at)
         ELSE Leaf("VAR_REFERENCE", at)
    [] OTHER -> Failed

MemberAccess(start, lhs, member) ==
  [type |-> "MEMBER_ACCESS", start |-> start, end |-> next_token(member), lhs |-> lhs, member |-> member]
BinaryOp(start, lhs, rhs) ==
  [type |-> "BINARY_OP", start |-> start, end |-> rhs.end, lhs |-> lhs, rhs |-> rhs]

\* An operand and what the operator behind it makes of it. There is one
\* operator, and what is right of it is read lazily.
Operated(read, start, lhs) ==
  LET first == nonws_token(lhs.end)
      at == nonws_token(first)
  IN CASE Type(first) = "->" -> MemberAccess(start, lhs, nonws_token(first + 1))
       [] Type(at) = "==" -> BinaryOp(start, lhs, parse_expr_lazy(read, at + 1))
       [] Type(at) = "NULL" -> Failed
       [] OTHER -> lhs

parse_expr(read, p) ==
  LET at == Twice(p) IN
  IF Type(at) \in {"&", "*"} THEN EndsWith("UNARY_OP", at, read[<<"expr", nonws_token(at + 1)>>])
  ELSE Operated(read, nonws_token(p), parse_expr_lazy(read, at))

-----------------------------------------------------------------------------
(***************************************************************************)
(* Statements                                                              *)
(***************************************************************************)
parse_comment(at) == Leaf("COMMENT", at)
parse_break(at) == Leaf("BREAK_STATEMENT", at)

parse_label(at) == [type |-> "LABEL_DECL", start |-> at, end |-> skip_token({":"}, nonws_token(at + 1))]
parse_goto(at) ==
  [type |-> "GOTO_STATEMENT", start |-> at, end |-> skip_token(Identifiers, nonws_token(at + 1))]
parse_return(read, at) == EndsWith("RETURN_STATEMENT", at, read[<<"expr", at + 1>>])

\* What follows a condition or an else: a block, or a statement with no list.
parse_branch(read, p) ==
  LET at == nonws_token(p) IN IF Type(at) = "{" THEN parse_block(read, at) ELSE read[<<"statement", at>>]

\* Looking for an else, an if without one passes whitespace behind its end.
TokenBehind(node) == IF "next" \in DOMAIN node THEN node.next ELSE node.end

IfElse(at, cond, then, else_token, else) ==
  [type |-> "IF_STATEMENT", start |-> at, end |-> TokenBehind(else),
   cond |-> cond, then |-> then, else_token |-> else_token, else |-> else]

IfThen(read, at, cond, then) ==
  LET end == TokenBehind(then)
      behind == nonws_token(end)
  IN CASE Type(behind) = "NULL" -> Failed
       [] Type(behind) = "else" -> IfElse(at, cond, then, behind, parse_branch(read, behind + 1))
       [] OTHER -> [type |-> "IF_STATEMENT", start |-> at, end |-> end, next |-> Twice(end),
                    cond |-> cond, then |-> then, else_token |-> 0]

If(read, at, cond) == IfThen(read, at, cond, parse_branch(read, skip_token({")"}, cond.end)))
parse_if(read, at) == If(read, at, read[<<"expr", skip_token({"("}, at + 1)>>])

SwitchBlock(at, label, colon, body) ==
  [type |-> "SWITCH_BLOCK", start |-> at, end |-> body.end, items |-> body.items,
   label |-> label, colon |-> colon]

\* label is 0 for the default.
parse_case(read, at) ==
  LET label == nonws_token(at + 1)
      labelled == IF Type(label) \in {"num"} \cup Identifiers THEN label + 1 ELSE 0
      colon == nonws_token(IF Type(at) = "case" THEN labelled ELSE at + 1)
  IN IF Type(at) \in {"case", "default"}
       THEN SwitchBlock(at, IF Type(at) = "case" THEN label ELSE 0, colon,
                        read[<<"parts", Twice(skip_token({":"}, colon))>>])
       ELSE Failed

SwitchStatement(at, expr, blocks) ==
  [type |-> "SWITCH_STATEMENT", start |-> at, end |-> blocks.end, expr |-> expr, blocks |-> blocks]
Switch(read, at, expr) ==
  SwitchStatement(at, expr,
    Enclosed(read, "{", "cases", "}", nonws_token(skip_token({")"}, nonws_token(expr.end)))))
parse_switch(read, at) ==
  Switch(read, at, read[<<"expr", nonws_token(skip_token({"("}, nonws_token(at + 1)))>>])

parse_statement(read, p) ==
  LET at == nonws_token(p) IN
  CASE Type(at) = "COMMENT" -> parse_comment(at)
    [] Type(at) \in Identifiers ->
         IF is_next_skipws(":", at) THEN parse_label(at)
         ELSE IF \E id \in Identifiers : is_next_skipws(id, at) THEN parse_decl(read, at)
         ELSE read[<<"expr", at>>]
    [] Type(at) = "goto" -> parse_goto(at)
    [] Type(at) = "if" -> parse_if(read, at)
    [] Type(at) = "return" -> parse_return(read, at)
    [] Type(at) = "switch" -> parse_switch(read, at)
    [] Type(at) = "break" -> parse_break(at)
    [] Type(at) \in Keywords \ JumpWords -> parse_decl(read, at)
    [] OTHER -> read[<<"expr", at>>]

\* What a turn of a loop over a list reads: a node, or a block in a case, which
\* is opened: its statements stand in the list of the case, or the stub of the
\* block when it has none.
Single(node) == [nodes |-> <<node>>, end |-> TokenBehind(node)]
Opened(block) ==
  [nodes |-> IF block.items # <<>> THEN block.items
             ELSE <<[type |-> "STUB", start |-> block.stub, end |-> block.stub_end]>>,
   end |-> block.end]

parse_part(read, at, item) ==
  CASE item = "expr" -> Single(read[<<"expr", at>>])
    [] item = "decl" -> Single(parse_decl(read, at))
    [] item = "case" -> Single(parse_case(read, at))
    [] item = "part" /\ Type(at) = "{" -> Opened(parse_block(read, at))
    [] OTHER -> Single(read[<<"statement", at>>])

Linked(part, rest) == [items |-> part.nodes \o rest.items, end |-> rest.end]

\* A separator behind a node is passed.
ListFrom(read, part, list) ==
  LET next == nonws_token(part.end) IN
  IF part.end = 0 THEN [items |-> <<>>, end |-> 0]
  ELSE Linked(part, read[<<list, IF Type(next) = Lists[list].separator THEN next + 1 ELSE next>>])

parse_list(read, p, list) ==
  LET at == nonws_token(p) IN
  IF Type(at) \in Lists[list].closing THEN [items |-> <<>>, end |-> at]
  ELSE ListFrom(read, parse_part(read, at, Lists[list].item), list)

parsed[r \in Readings] ==
  CASE r[1] = "expr" -> parse_expr(parsed, r[2])
    [] r[1] = "statement" -> parse_statement(parsed, r[2])
    [] OTHER -> parse_list(parsed, r[2], r[1])

-----------------------------------------------------------------------------
(***************************************************************************)
(* The loop of parse                                                       *)
(***************************************************************************)
Init ==
  /\ tokens \in Sources
  /\ token = 1
  /\ nodes = <<>>
  /\ defines = {}
  /\ phase = "parse"

At == Twice(token)
Turn(types) == phase = "parse" /\ Type(At) \in types

Abort == phase' = "abort" /\ UNCHANGED <<tokens, token, nodes, defines>>

\* Slip: a node that is not complete is kept.
insertAnyway(node, next) ==
  /\ nodes' = Append(nodes, node)
  /\ token' = next
  /\ UNCHANGED <<tokens, defines, phase>>

insert(node, next) ==
  IF next = 0 THEN Abort
  ELSE /\ nodes' = Append(nodes, node)
       /\ token' = next
       /\ UNCHANGED <<tokens, defines, phase>>

ParseInclude ==
  LET path == nonws_token(At + 1) IN
  /\ Turn({"INCLUDE"})
  /\ insert([type |-> "INCLUDE_DIRECTIVE", start |-> At, end |-> path + 1, path |-> path],
            IF Type(path) = "HEADER" THEN path + 1 ELSE 0)

\* The name is known from the next turn on.
Defined(id, expr) ==
  IF expr.end = 0 THEN Abort
  ELSE /\ nodes' = Append(nodes, [type |-> "DEFINE_DIRECTIVE", start |-> At, end |-> expr.end,
                                  id |-> id, expr |-> expr])
       /\ token' = expr.end
       /\ defines' = defines \cup {Type(id)}
       /\ UNCHANGED <<tokens, phase>>

ParseDefine ==
  LET id == nonws_token(At + 1)
  IN Turn({"DEFINE"}) /\ Defined(id, parsed[<<"expr", next_token(id)>>])

ParseStub ==
  /\ Turn({"STUB"})
  /\ token' = At + 1
  /\ UNCHANGED <<tokens, nodes, defines, phase>>

\* Slip: the comment is not passed.
ParseCommentAgain == Turn({"COMMENT"}) /\ insert(parse_comment(At), At)

ParseComment == Turn({"COMMENT"}) /\ insert(parse_comment(At), At + 1)

StructDecl(id, members) ==
  [type |-> "STRUCT_DECL", start |-> At, end |-> members.end, id |-> id, members |-> members]
Struct(id, members) == insert(StructDecl(id, members), skip_token({";"}, nonws_token(members.end)))

ParseStruct ==
  LET id == nonws_token(At + 1)
  IN Turn({"struct"})
       /\ Struct(id, Enclosed(parsed, "{", "members", "}", nonws_token(skip_token(Identifiers, id))))

Signature(type, name, params) ==
  [data_type |-> type, name |-> name, params |-> params, end |-> params.end]

parse_func_signature ==
  LET type == parse_data_type(At)
      name == nonws_token(type.end)
  IN Signature(type, name, Enclosed(parsed, "(", "params", ")", skip_token(Identifiers, name)))

\* The node of a declaration ends before its semicolon, whitespace included.
FuncDecl(sign, behind) ==
  /\ Type(behind) = ";"
  /\ insert([type |-> "FUNC_DECL", start |-> At, end |-> behind, signature |-> sign], behind + 1)

Function(sign, body) ==
  insert([type |-> "FUNC_DEF", start |-> At, end |-> body.end, signature |-> sign, body |-> body], body.end)
FuncDef(sign, behind) == Type(behind) = "{" /\ Function(sign, parse_block(parsed, behind))

\* A signature with neither is dropped, one that is none ends the program.
NoFunc(behind) ==
  IF Type(behind) = "NULL" THEN Abort
  ELSE token' = behind /\ UNCHANGED <<tokens, nodes, defines, phase>>

\* The semicolon is looked for first, the brace behind another look.
FuncFrom(sign) ==
  LET first == nonws_token(sign.end)
      behind == nonws_token(first)
  IN \/ FuncDecl(sign, first)
     \/ Type(first) # ";" /\ FuncDef(sign, behind)
     \/ Type(first) # ";" /\ Type(behind) # "{" /\ NoFunc(behind)

ParseFunc == Turn(Keywords \ {"struct"}) /\ FuncFrom(parse_func_signature)

ParseOther ==
  /\ phase = "parse" /\ At \in DOMAIN tokens
  /\ Type(At) \notin Keywords \cup {"INCLUDE", "DEFINE", "STUB", "COMMENT"}
  /\ Abort

ParseEnd ==
  /\ phase = "parse" /\ At \notin DOMAIN tokens
  /\ phase' = "write"
  /\ UNCHANGED <<tokens, token, nodes, defines>>

Parse ==
  \/ ParseInclude \/ ParseDefine \/ ParseStub \/ ParseComment \/ ParseStruct
  \/ ParseFunc \/ ParseOther \/ ParseEnd

\* Whoever shows the nodes goes through them and changes none.
Render ==
  /\ phase = "write" /\ phase' \in {"write", "done", "abort"}
  /\ UNCHANGED <<tokens, token, nodes, defines>>

ParserSpec == Init /\ [][Parse \/ Render]_parserVars

-----------------------------------------------------------------------------
(***************************************************************************)
(* Properties                                                              *)
(***************************************************************************)
\* Every node lies in the file and the table has names only.
ParserTypeOK ==
  /\ token \in 1..(Len(tokens) + 1)
  /\ defines \subseteq TokenTypes
  /\ phase \in {"parse", "write", "done", "abort"}
  /\ \A i \in DOMAIN nodes : nodes[i].start \in DOMAIN tokens /\ nodes[i].end \in 1..(Len(tokens) + 1)

\* Every turn of the loop of parse moves forward and makes at most one node, of
\* tokens no other node has.
ParseForward ==
  [][phase = "parse" /\ phase' = "parse" =>
       /\ token' > token
       /\ \/ nodes' = nodes
          \/ \E node \in {nodes'[Len(nodes')]} :
               nodes' = Append(nodes, node) /\ token <= node.start /\ node.start < node.end /\ node.end <= token']_parserVars
=============================================================================
