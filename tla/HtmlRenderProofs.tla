-------------------------- MODULE HtmlRenderProofs --------------------------
(***************************************************************************)
(* The parser and the renderer, for every list of tokens, C or not.        *)
(*                                                                         *)
(* The loop of parse: every turn moves forward, every element lies in the  *)
(* file behind the one before it.  What stands behind a token is the       *)
(* solution of a recursion, parsed.  The operators of Parser are given a   *)
(* reader for it: each gives the same for two readers that agree behind    *)
(* its token, and ends behind that token if they do.  From this follow, by *)
(* induction over what is left of the file, that there is a solution and   *)
(* that all it reads lies ahead.                                           *)
(*                                                                         *)
(* The page: no token is written twice.  What is written is laid between   *)
(* two positions, each part before the next one, where a part is a token   *)
(* or a call on a node.  Every write_ function lays what it writes between *)
(* the start and the end of its node, given that the node is sound: that   *)
(* it says of its tokens and its children what its kind of node should.    *)
(* All nodes of the parser are, and a call carried out is laid in place of *)
(* the call.                                                               *)
(***************************************************************************)
EXTENDS HtmlRender, Integers, WellFoundedInduction, TLAPS

\* A set of naturals has a least element.
LEMMA LeastNat ==
  ASSUME NEW T, T \subseteq Nat, T # {}
  PROVE  \E x \in T : \A y \in T : x <= y
<1>1. PICK x \in T : \A y \in T : <<y, x>> \notin OpToRel(<, Nat)
  BY NatLessThanWellFounded, WFMin
<1>2. ASSUME NEW y \in T PROVE x <= y
  <2>1. ~(y < x)
    BY <1>1 DEF OpToRel
  <2> QED
    BY <2>1
<1> QED
  BY <1>2

\* A set that holds 0, and with every number below a bound the next one, holds
\* all of them.
LEMMA InductionUpTo ==
  ASSUME NEW n \in Nat, NEW T, 0 \in T, \A i \in 0..(n - 1) : i \in T => i + 1 \in T
  PROVE  0..n \subseteq T
<1> DEFINE B == {i \in 0..n : i \notin T}
<1> SUFFICES ASSUME B # {} PROVE FALSE
  OBVIOUS
<1>1. B \subseteq Nat
  OBVIOUS
<1> HIDE DEF B
<1>2. PICK x \in B : \A y \in B : x <= y
  BY <1>1, LeastNat
<1>3. x \in 1..n /\ x \notin T
  BY <1>2 DEF B
<1>4. x - 1 \in 0..(n - 1) /\ (x - 1) + 1 = x /\ ~(x <= x - 1)
  BY <1>3
<1>5. x - 1 \in T
  BY <1>2, <1>4 DEF B
<1> QED
  BY <1>3, <1>4, <1>5

-----------------------------------------------------------------------------
(***************************************************************************)
(* Positions: 0 is where an assertion has failed                           *)
(***************************************************************************)

Typed == tokens \in Seq(TokenTypes)
Positions == 0..(Len(tokens) + 1)

\* q is p or behind it, or where an assertion has failed.
From(p, q) == q \in Positions /\ (q # 0 => p # 0 /\ p <= q)
Ends(p, q) == q \in Positions /\ (q # 0 => p # 0 /\ p < q)

\* The list of tokens has a length, and its positions are those up to it.
LEMMA Lengths ==
  ASSUME Typed
  PROVE  Len(tokens) \in Nat /\ DOMAIN tokens = 1..Len(tokens)
BY DEF Typed

\* What is said of two positions is said of those around them.
LEMMA OnFrom ==
  ASSUME Typed, NEW p \in Positions, NEW q, NEW r
  PROVE  /\ From(p, p)
         /\ From(p, q) /\ From(q, r) => From(p, r)
         /\ From(p, q) /\ Ends(q, r) => Ends(p, r)
         /\ Ends(p, q) /\ From(q, r) => Ends(p, r)
         /\ Ends(p, q) /\ Ends(q, r) => Ends(p, r)
         /\ Ends(p, q) => From(p, q)
         /\ From(p, q) \/ Ends(p, q) => q \in Positions
         /\ From(p, 0) /\ Ends(p, 0)
BY Lengths DEF From, Ends, Positions

\* Behind a token is a position.
LEMMA NextAt ==
  ASSUME Typed, NEW p \in DOMAIN tokens
  PROVE  p \in Positions /\ p # 0 /\ Ends(p, p + 1)
BY Lengths DEF Ends, Positions

\* No token has the type of what is no token.
LEMMA NullIs ==
  /\ "NULL" \notin Identifiers /\ "NULL" \notin Keywords /\ "NULL" \notin Signs
  /\ "NULL" \notin TokenTypes
BY ParserAssumption DEF Keywords, JumpWords, Signs, TokenTypes

\* A type is that of a token.
LEMMA TypeIs ==
  ASSUME NEW p, Type(p) # "NULL"
  PROVE  p \in DOMAIN tokens
BY DEF Type

\* A look at the next token moves over one position at most.
LEMMA NonWs ==
  ASSUME Typed, NEW p \in Positions
  PROVE  From(p, nonws_token(p)) /\ nonws_token(p) \in Positions
<1>1. CASE Type(p) = "WS"
  <2>1. p \in DOMAIN tokens
    BY <1>1, TypeIs
  <2> QED
    BY <1>1, <2>1, NextAt, OnFrom DEF nonws_token
<1>2. CASE Type(p) # "WS"
  BY <1>2, OnFrom DEF nonws_token
<1> QED
  BY <1>1, <1>2

\* So do two looks.
LEMMA TwiceIs ==
  ASSUME Typed, NEW p \in Positions
  PROVE  From(p, Twice(p)) /\ Twice(p) \in Positions
BY NonWs, OnFrom DEF Twice

\* A token that is asserted is passed, or the assertion fails.
LEMMA SkipIs ==
  ASSUME Typed, NEW p \in Positions, NEW types, "NULL" \notin types
  PROVE  Ends(p, skip_token(types, p)) /\ skip_token(types, p) \in Positions
<1> DEFINE at == nonws_token(p)
<1>1. From(p, at)
  BY NonWs
<1>2. CASE Type(at) \in types
  <2>1. at \in DOMAIN tokens
    BY <1>2, TypeIs
  <2>2. skip_token(types, p) = at + 1
    BY <1>2 DEF skip_token
  <2> QED
    BY <1>1, <2>1, <2>2, NextAt, OnFrom
<1>3. CASE Type(at) \notin types
  <2>1. skip_token(types, p) = 0
    BY <1>3 DEF skip_token
  <2> QED
    BY <2>1, OnFrom
<1> QED
  BY <1>2, <1>3

\* The next token is behind a token, or there is none.
LEMMA NextIs ==
  ASSUME Typed, NEW p \in Positions
  PROVE  Ends(p, next_token(p)) /\ next_token(p) \in Positions
BY NextAt, OnFrom DEF next_token

\* A data type ends where it starts, or behind it.
LEMMA DataType ==
  ASSUME Typed, NEW p \in Positions
  PROVE  /\ From(p, parse_data_type(p).end) /\ parse_data_type(p).end \in Positions
         /\ From(p, parse_data_type(p).start) /\ From(parse_data_type(p).start, parse_data_type(p).end)
<1> DEFINE start == nonws_token(p)
           id == CASE Type(start) = "struct" -> nonws_token(start + 1)
                   [] Type(start) \in Identifiers -> start
                   [] OTHER -> 0
           base == CASE Type(start) = "struct" -> skip_token(Identifiers, id)
                     [] Type(start) \in Identifiers \cup (Keywords \ {"struct"}) -> start + 1
                     [] OTHER -> start
           star == nonws_token(base)
           pointer == IF Type(star) = "*" THEN star + 1 ELSE base
           second == Twice(IF Type(star) = "*" THEN star + 1 ELSE star)
<1>1. From(p, start) /\ start \in Positions /\ From(start, start)
  BY NonWs, OnFrom
<1>2. From(start, base) /\ base \in Positions
  <2>1. CASE Type(start) = "struct"
    <3>1. start \in DOMAIN tokens
      BY <2>1, TypeIs
    <3>2. Ends(start, start + 1) /\ start + 1 \in Positions
      BY <3>1, NextAt DEF Ends
    <3>0. "struct" \notin Identifiers
      BY ParserAssumption DEF Keywords
    <3>3. id = nonws_token(start + 1)
      BY <2>1, <3>0
    <3>4. Ends(start, id) /\ id \in Positions
      BY <1>1, <3>2, <3>3, NonWs, OnFrom
    <3>5. base = skip_token(Identifiers, id)
      BY <2>1, <3>0
    <3> HIDE DEF base, id, start
    <3>6. Ends(id, base)
      BY <3>4, <3>5, SkipIs, NullIs
    <3>7. Ends(start, base)
      BY <1>1, <3>4, <3>6, OnFrom
    <3> QED
      BY <1>1, <3>7, OnFrom
  <2>2. CASE Type(start) # "struct" /\ Type(start) \in Identifiers \cup (Keywords \ {"struct"})
    <3>1. base = start + 1
      BY <2>2
    <3>2. start \in DOMAIN tokens
      BY <2>2, TypeIs, NullIs
    <3> HIDE DEF base, id, start
    <3> QED
      BY <1>1, <3>1, <3>2, NextAt, OnFrom
  <2>3. CASE Type(start) # "struct" /\ Type(start) \notin Identifiers \cup (Keywords \ {"struct"})
    <3>1. base = start
      BY <2>3
    <3> HIDE DEF base, id, start
    <3> QED
      BY <1>1, <3>1
  <2> HIDE DEF base, id, start
  <2> QED
    BY <2>1, <2>2, <2>3
<1> HIDE DEF base, id, start
<1>3. From(base, star) /\ star \in Positions
  BY <1>2, NonWs
<1>4. Type(star) = "*" => Ends(star, star + 1) /\ star + 1 \in Positions
  <2> SUFFICES ASSUME Type(star) = "*" PROVE Ends(star, star + 1) /\ star + 1 \in Positions
    OBVIOUS
  <2>1. star \in DOMAIN tokens
    BY TypeIs
  <2> QED
    BY <2>1, NextAt DEF Ends
<1>5. From(start, pointer) /\ pointer \in Positions
  BY <1>1, <1>2, <1>3, <1>4, OnFrom
<1>6. From(start, second) /\ second \in Positions
  <2>1. CASE Type(star) = "*"
    <3>1. second = Twice(star + 1)
      BY <2>1
    <3>2. From(star + 1, second) /\ From(star, star + 1)
      BY <1>3, <1>4, <2>1, <3>1, TwiceIs, OnFrom
    <3>3. From(start, star)
      BY <1>1, <1>2, <1>3, OnFrom
    <3> QED
      BY <1>1, <3>2, <3>3, OnFrom
  <2>2. CASE Type(star) # "*"
    <3>1. second = Twice(star)
      BY <2>2
    <3>2. From(star, second)
      BY <1>3, <3>1, TwiceIs
    <3>3. From(start, star)
      BY <1>1, <1>2, <1>3, OnFrom
    <3> QED
      BY <1>1, <3>2, <3>3, OnFrom
  <2> QED
    BY <2>1, <2>2
<1>7. /\ parse_data_type(p).end = IF Type(second) = "*" THEN second + 1 ELSE pointer
      /\ parse_data_type(p).start = start
  BY DEF parse_data_type, start, id, base
<1>0. From(start, parse_data_type(p).end) => From(p, parse_data_type(p).end)
  BY <1>1, OnFrom
<1> HIDE DEF star, pointer, second
<1>8. CASE Type(second) = "*"
  <2>1. second \in DOMAIN tokens
    BY <1>8, TypeIs
  <2>2. Ends(second, second + 1)
    BY <2>1, NextAt
  <2> QED
    BY <1>0, <1>1, <1>6, <1>7, <1>8, <2>2, OnFrom
<1>9. CASE Type(second) # "*"
  BY <1>0, <1>1, <1>5, <1>7, <1>9
<1> QED
  BY <1>8, <1>9

-----------------------------------------------------------------------------
Kinds == {"expr", "statement"} \cup DOMAIN Lists

\* What is read from p ends behind it, an if without an else at the token behind
\* the whitespace it passed.
Reads(p, x) == Ends(p, x.end) /\ Ends(p, TokenBehind(x))
Lies(r, x) == IF r[1] \in DOMAIN Lists THEN From(r[2], x.end) ELSE Reads(r[2], x)

\* Two readers agree on a reading, which lies where it should.
Alike(g, h, r) == g[r] = h[r] /\ Lies(r, g[r])

\* They agree on all that stands behind a token.
Context(g, h, a) ==
  /\ Typed /\ a \in Positions
  /\ a \in DOMAIN tokens => \A k \in Kinds, p \in Positions : Ends(a, p) => Alike(g, h, <<k, p>>)

\* The lists, and what is no list.
LEMMA ListKinds ==
  /\ DOMAIN Lists = {"arguments", "values", "params", "members", "statements", "parts", "cases"}
  /\ "expr" \notin DOMAIN Lists /\ "statement" \notin DOMAIN Lists
BY DEF Lists

\* A node behind a position is behind those before it.
LEMMA NodeFrom ==
  ASSUME Typed, NEW p \in Positions, NEW q, NEW x, Reads(q, x), From(p, q)
  PROVE  Reads(p, x)
BY OnFrom DEF Reads

\* Readers that agree behind a position agree behind each one after it.
LEMMA Narrow ==
  ASSUME NEW g, NEW h, NEW a, Context(g, h, a), NEW b, From(a, b)
  PROVE  Context(g, h, b) /\ (b \in DOMAIN tokens => a \in DOMAIN tokens)
<1>1. Typed /\ a \in Positions /\ b \in Positions
  BY DEF Context, From
<1>2. b \in DOMAIN tokens => a \in DOMAIN tokens
  BY <1>1, Lengths DEF From, Positions
<1>3. \A p \in Positions : Ends(b, p) => Ends(a, p)
  BY <1>1, OnFrom
<1> QED
  BY <1>1, <1>2, <1>3 DEF Context

\* What the readers give behind a token: a node,
LEMMA ReadNode ==
  ASSUME NEW g, NEW h, NEW a \in DOMAIN tokens, Context(g, h, a), NEW p, Ends(a, p),
         NEW k \in {"expr", "statement"}
  PROVE  g[<<k, p>>] = h[<<k, p>>] /\ Reads(a, g[<<k, p>>])
<1>1. Typed /\ a \in Positions /\ p \in Positions /\ From(a, p)
  BY OnFrom DEF Context, Ends, From
<1>2. k \in Kinds /\ k \notin DOMAIN Lists
  BY ListKinds DEF Kinds
<1>3. Alike(g, h, <<k, p>>)
  BY <1>1, <1>2 DEF Context
<1>4. g[<<k, p>>] = h[<<k, p>>] /\ Reads(p, g[<<k, p>>])
  BY <1>2, <1>3 DEF Alike, Lies
<1> QED
  BY <1>1, <1>4, NodeFrom

\* an expression,
LEMMA ReadExpr ==
  ASSUME NEW g, NEW h, NEW a \in DOMAIN tokens, Context(g, h, a), NEW p, Ends(a, p)
  PROVE  g[<<"expr", p>>] = h[<<"expr", p>>] /\ Reads(a, g[<<"expr", p>>])
BY ReadNode

\* a statement,
LEMMA ReadStatement ==
  ASSUME NEW g, NEW h, NEW a \in DOMAIN tokens, Context(g, h, a), NEW p, Ends(a, p)
  PROVE  g[<<"statement", p>>] = h[<<"statement", p>>] /\ Reads(a, g[<<"statement", p>>])
BY ReadNode

\* or a list.
LEMMA ReadList ==
  ASSUME NEW g, NEW h, NEW a \in DOMAIN tokens, Context(g, h, a), NEW p, Ends(a, p), NEW k \in DOMAIN Lists
  PROVE  g[<<k, p>>] = h[<<k, p>>] /\ Ends(a, g[<<k, p>>].end)
<1>1. Typed /\ a \in Positions /\ p \in Positions
  BY DEF Context, Ends
<1>2. Alike(g, h, <<k, p>>)
  BY <1>1 DEF Context, Kinds
<1>3. g[<<k, p>>] = h[<<k, p>>] /\ From(p, g[<<k, p>>].end)
  BY <1>2 DEF Alike, Lies
<1> QED
  BY <1>1, <1>3, OnFrom

-----------------------------------------------------------------------------
\* Looked a: the readers of a token and whitespace.
LEMMA Looked ==
  ASSUME NEW g, NEW h, NEW a, Context(g, h, a), NEW p, Ends(a, p) \/ From(a, p)
  PROVE  /\ Ends(a, p) => Ends(a, nonws_token(p)) /\ Ends(a, Twice(p))
         /\ From(a, p) => From(a, nonws_token(p)) /\ From(a, Twice(p))
         /\ \A types : "NULL" \notin types => Ends(a, skip_token(types, p))
         /\ Ends(a, next_token(p))
         /\ p \in Positions
<1>1. Typed /\ a \in Positions /\ p \in Positions
  BY DEF Context, Ends, From
<1>2. From(p, nonws_token(p)) /\ From(p, Twice(p)) /\ Ends(p, next_token(p))
  BY <1>1, NonWs, TwiceIs, NextIs
<1>3. ASSUME NEW types, "NULL" \notin types PROVE Ends(a, skip_token(types, p))
  <2>1. Ends(p, skip_token(types, p))
    BY <1>1, <1>3, SkipIs
  <2> QED
    BY <1>1, <2>1, OnFrom
<1> QED
  BY <1>1, <1>2, <1>3, OnFrom

\* A list in delimiters ends behind the token its opening delimiter is behind.
LEMMA EnclosedIs ==
  ASSUME NEW g, NEW h, NEW a \in DOMAIN tokens, Context(g, h, a), NEW p, Ends(a, p) \/ From(a, p),
         NEW open, open # "NULL", NEW close, close # "NULL", NEW list \in DOMAIN Lists
  PROVE  /\ Enclosed(g, open, list, close, p) = Enclosed(h, open, list, close, p)
         /\ Ends(a, Enclosed(g, open, list, close, p).end)
<1> DEFINE inside == skip_token({open}, p)
<1>1. Ends(a, inside)
  BY Looked
<1> HIDE DEF inside
<1>2. Ends(a, Twice(inside))
  BY <1>1, Looked
<1> DEFINE at == Twice(inside)
<1> HIDE DEF at
<1>3. g[<<list, at>>] = h[<<list, at>>] /\ Ends(a, g[<<list, at>>].end)
  BY <1>2, ReadList DEF at
<1>4. /\ Enclosed(g, open, list, close, p) = Closed(inside, g[<<list, at>>], close)
      /\ Enclosed(h, open, list, close, p) = Closed(inside, h[<<list, at>>], close)
  BY DEF Enclosed, inside, at
<1>5. Ends(a, skip_token({close}, g[<<list, at>>].end))
  BY <1>3, Looked
<1> QED
  BY <1>3, <1>4, <1>5 DEF Closed

-----------------------------------------------------------------------------
\* An assignment ends with its expression.
LEMMA AssignIs ==
  ASSUME NEW g, NEW h, NEW a \in DOMAIN tokens, Context(g, h, a), NEW p, Ends(a, p) \/ From(a, p)
  PROVE  parse_assign(g, p) = parse_assign(h, p) /\ Reads(a, parse_assign(g, p))
<1> DEFINE start == nonws_token(p)
           id == skip_token(Identifiers, start)
           sign == nonws_token(id)
           equal == skip_token({"="}, sign)
           at == nonws_token(equal)
<1>1. Ends(a, start) \/ From(a, start)
  BY Looked
<1> HIDE DEF start
<1>2. Ends(a, id)
  BY <1>1, Looked, NullIs
<1> HIDE DEF id
<1>3. Ends(a, sign)
  BY <1>2, Looked
<1> HIDE DEF sign
<1>4. Ends(a, equal)
  BY <1>3, Looked
<1> HIDE DEF equal
<1>5. Ends(a, at)
  BY <1>4, Looked
<1> HIDE DEF at
<1>6. g[<<"expr", at>>] = h[<<"expr", at>>] /\ Reads(a, g[<<"expr", at>>])
  BY <1>5, ReadExpr
<1>7. /\ parse_assign(g, p) = Assignment(start, sign, g[<<"expr", at>>])
      /\ parse_assign(h, p) = Assignment(start, sign, h[<<"expr", at>>])
  BY DEF parse_assign, start, id, sign, equal, at
<1> QED
  BY <1>6, <1>7 DEF Reads, Assignment, TokenBehind

\* No token, no declaration: nothing is read there.
LEMMA DeclIs ==
  ASSUME NEW g, NEW h, NEW a, Context(g, h, a), NEW p, Ends(a, p) \/ From(a, p)
  PROVE  parse_decl(g, p) = parse_decl(h, p) /\ Reads(a, parse_decl(g, p))
<1> DEFINE start == nonws_token(p)
           at == nonws_token(start)
           type == parse_data_type(at)
           id == nonws_token(type.end)
<1>0. Typed /\ a \in Positions
  BY DEF Context
<1>1. From(a, start) /\ start \in Positions
  BY <1>0, Looked, OnFrom DEF Ends, From
<1> HIDE DEF start
<1>2. From(a, at) /\ at \in Positions
  BY <1>0, <1>1, Looked, OnFrom DEF Ends, From
<1> HIDE DEF at
<1>3. From(a, type.end)
  BY <1>0, <1>2, DataType, OnFrom
<1> HIDE DEF type
<1>4. From(a, id) /\ id \in Positions
  BY <1>0, <1>3, Looked DEF From
<1> HIDE DEF id
<1>5. CASE Type(at) = "..."
  <2>1. at \in DOMAIN tokens
    BY <1>5, TypeIs
  <2>2. Ends(a, at + 1)
    BY <1>0, <1>2, <2>1, NextAt, OnFrom
  <2>3. /\ parse_decl(g, p) = [type |-> "DECLARATION", start |-> start, end |-> at + 1, var_arg |-> TRUE]
        /\ parse_decl(h, p) = [type |-> "DECLARATION", start |-> start, end |-> at + 1, var_arg |-> TRUE]
    BY <1>5 DEF parse_decl, start, at
  <2> QED
    BY <2>2, <2>3 DEF Reads, TokenBehind
<1>6. CASE Type(at) # "..." /\ is_next_skipws("=", id)
  <2>1. id \in DOMAIN tokens
    BY <1>6 DEF is_next_skipws
  <2>2. Context(g, h, a) /\ a \in DOMAIN tokens
    BY <1>4, <2>1, Narrow
  <2>3. parse_assign(g, id) = parse_assign(h, id) /\ Reads(a, parse_assign(g, id))
    BY <1>4, <2>2, AssignIs
  <2>4. /\ parse_decl(g, p) = Declaration(start, type, id, parse_assign(g, id).end, <<parse_assign(g, id)>>)
        /\ parse_decl(h, p) = Declaration(start, type, id, parse_assign(h, id).end, <<parse_assign(h, id)>>)
    BY <1>6 DEF parse_decl, Initialised, start, at, type, id
  <2> QED
    BY <2>3, <2>4 DEF Reads, Declaration, TokenBehind
<1>7. CASE Type(at) # "..." /\ ~is_next_skipws("=", id)
  <2>1. /\ parse_decl(g, p) = Declaration(start, type, id, skip_token(Identifiers, id), <<>>)
        /\ parse_decl(h, p) = Declaration(start, type, id, skip_token(Identifiers, id), <<>>)
    BY <1>7 DEF parse_decl, start, at, type, id
  <2>2. Ends(a, skip_token(Identifiers, id))
    BY <1>4, Looked, NullIs
  <2> QED
    BY <2>1, <2>2 DEF Reads, Declaration, TokenBehind
<1> QED
  BY <1>5, <1>6, <1>7

-----------------------------------------------------------------------------
\* The operators for what is read from a token: its list of arguments,
LEMMA InvokeIs ==
  ASSUME NEW g, NEW h, NEW at \in DOMAIN tokens, Context(g, h, at)
  PROVE  parse_func_invoke(g, at) = parse_func_invoke(h, at) /\ Reads(at, parse_func_invoke(g, at))
<1> DEFINE args(f) == Enclosed(f, "(", "arguments", ")", at + 1)
<1>1. Ends(at, at + 1)
  BY NextAt DEF Context
<1>2. args(g) = args(h) /\ Ends(at, args(g).end)
  BY <1>1, EnclosedIs, ListKinds
<1>3. /\ parse_func_invoke(g, at) = FuncInvoke(at, args(g))
      /\ parse_func_invoke(h, at) = FuncInvoke(at, args(h))
  BY DEF parse_func_invoke
<1> HIDE DEF args
<1> QED
  BY <1>2, <1>3 DEF Reads, FuncInvoke, TokenBehind

\* The operators for what is read from a brace,
LEMMA StructInitIs ==
  ASSUME NEW g, NEW h, NEW at \in DOMAIN tokens, Context(g, h, at)
  PROVE  parse_struct_init(g, at) = parse_struct_init(h, at) /\ Reads(at, parse_struct_init(g, at))
<1> DEFINE exprs(f) == Enclosed(f, "{", "values", "}", at)
<1>1. From(at, at)
  BY NextAt, OnFrom DEF Context
<1>2. exprs(g) = exprs(h) /\ Ends(at, exprs(g).end)
  BY <1>1, EnclosedIs, ListKinds
<1>3. /\ parse_struct_init(g, at) = StructInit(at, exprs(g))
      /\ parse_struct_init(h, at) = StructInit(at, exprs(h))
  BY DEF parse_struct_init
<1> HIDE DEF exprs
<1> QED
  BY <1>2, <1>3 DEF Reads, StructInit, TokenBehind

\* a bracket behind a name,
LEMMA AccessIs ==
  ASSUME NEW g, NEW h, NEW at \in DOMAIN tokens, Context(g, h, at)
  PROVE  parse_arr_access(g, at) = parse_arr_access(h, at) /\ Reads(at, parse_arr_access(g, at))
<1> DEFINE open == skip_token({"["}, at + 1)
           in == nonws_token(open)
           behind == nonws_token(g[<<"expr", in>>].end)
           close == skip_token({"]"}, behind)
<1>1. Ends(at, at + 1)
  BY NextAt DEF Context
<1>2. Ends(at, open)
  BY <1>1, Looked
<1> HIDE DEF open
<1>3. Ends(at, in)
  BY <1>2, Looked
<1> HIDE DEF in
<1>4. g[<<"expr", in>>] = h[<<"expr", in>>] /\ Ends(at, g[<<"expr", in>>].end)
  BY <1>3, ReadExpr DEF Reads
<1>5. Ends(at, behind)
  BY <1>4, Looked
<1> HIDE DEF behind
<1>6. Ends(at, close)
  BY <1>5, Looked
<1>7. /\ parse_arr_access(g, at) = ArrayAccess(at, g[<<"expr", in>>])
      /\ parse_arr_access(h, at) = ArrayAccess(at, h[<<"expr", in>>])
  BY DEF parse_arr_access, in, open
<1>8. parse_arr_access(g, at) = [type |-> "ARRAY_ACCESS", start |-> at, end |-> close, index |-> g[<<"expr", in>>]]
  BY <1>7 DEF ArrayAccess, behind, close
<1> HIDE DEF close
<1> QED
  BY <1>4, <1>6, <1>7, <1>8 DEF Reads, TokenBehind

\* and a parenthesis.
LEMMA CastIs ==
  ASSUME NEW g, NEW h, NEW at \in DOMAIN tokens, Context(g, h, at)
  PROVE  parse_cast(g, at) = parse_cast(h, at) /\ Reads(at, parse_cast(g, at))
<1> DEFINE type == parse_data_type(at + 1)
           behind == nonws_token(type.end)
           close == skip_token({")"}, behind)
           in == nonws_token(close)
<1>1. Typed /\ at \in Positions /\ at + 1 \in Positions /\ Ends(at, at + 1)
  BY NextAt DEF Context, Ends
<1>2. Ends(at, type.end)
  BY <1>1, DataType, OnFrom
<1> HIDE DEF type
<1>3. Ends(at, behind)
  BY <1>2, Looked
<1> HIDE DEF behind
<1>4. Ends(at, close)
  BY <1>3, Looked
<1> HIDE DEF close
<1>5. Ends(at, in)
  BY <1>4, Looked
<1> HIDE DEF in
<1>6. g[<<"expr", in>>] = h[<<"expr", in>>] /\ Reads(at, g[<<"expr", in>>])
  BY <1>5, ReadExpr
<1>7. /\ parse_cast(g, at) = TypeCast(at, type, g[<<"expr", in>>])
      /\ parse_cast(h, at) = TypeCast(at, type, h[<<"expr", in>>])
  BY DEF parse_cast, type, behind, close, in
<1> QED
  BY <1>6, <1>7 DEF Reads, TypeCast, TokenBehind

\* A node of one token.
LEMMA LeafIs ==
  ASSUME Typed, NEW at \in DOMAIN tokens, NEW type
  PROVE  Reads(at, Leaf(type, at))
BY NextAt DEF Reads, Leaf, TokenBehind

\* A failed assertion ends nowhere.
LEMMA FailedIs ==
  ASSUME Typed, NEW p \in Positions
  PROVE  Reads(p, Failed)
BY OnFrom DEF Reads, Failed, TokenBehind

\* A name is neither a keyword nor a sign.
LEMMA Apart ==
  ASSUME NEW id \in Identifiers
  PROVE  id \notin Keywords /\ id \notin Signs
BY ParserAssumption

\* What stands at a token at or behind a.
LEMMA Lifted ==
  ASSUME NEW g, NEW h, NEW a, Context(g, h, a), NEW at \in DOMAIN tokens, From(a, at)
  PROVE  /\ Context(g, h, at) /\ a \in DOMAIN tokens /\ Typed /\ at \in Positions
         /\ \A x : Reads(at, x) => Reads(a, x)
<1>1. Typed /\ a \in Positions /\ Context(g, h, at) /\ a \in DOMAIN tokens /\ at \in Positions
  BY Narrow DEF Context, From
<1> QED
  BY <1>1, NodeFrom

\* An operand is what its first token begins; a failed one reads nothing.
LEMMA LazyIs ==
  ASSUME NEW g, NEW h, NEW a, Context(g, h, a), NEW p, Ends(a, p) \/ From(a, p)
  PROVE  parse_expr_lazy(g, p) = parse_expr_lazy(h, p) /\ Reads(a, parse_expr_lazy(g, p))
<1> DEFINE at == Twice(p)
           first == at = nonws_token(p)
           lazy(f) == CASE Type(at) = "str" /\ first -> Leaf("STRING_LITERAL", at)
                        [] Type(at) = "num" -> Leaf("INT_LITERAL", at)
                        [] Type(at) = "{" -> parse_struct_init(f, at)
                        [] Type(at) = "(" -> parse_cast(f, at)
                        [] Type(at) \in Identifiers ->
                             IF Type(at) \in defines THEN Leaf("DEFINE_REFERENCE", at)
                             ELSE IF is_next_skipws("[", at) THEN parse_arr_access(f, at)
                             ELSE IF is_next_skipws("(", at) THEN parse_func_invoke(f, at)
                             ELSE IF is_next_skipws("=", at) THEN parse_assign(f, at)
                             ELSE Leaf("VAR_REFERENCE", at)
                        [] OTHER -> Failed
<1>0. Typed /\ a \in Positions
  BY DEF Context
<1>1. From(a, at)
  BY <1>0, Looked, OnFrom
<1>2. parse_expr_lazy(g, p) = lazy(g) /\ parse_expr_lazy(h, p) = lazy(h)
  BY DEF parse_expr_lazy
<1> HIDE DEF at, first
<1> SUFFICES lazy(g) = lazy(h) /\ Reads(a, lazy(g))
  BY <1>2
<1>3. Type(at) \in Identifiers => Type(at) \notin {"str", "num", "{", "("}
  BY Apart DEF Signs
<1>4. CASE Type(at) \in {"str", "num", "{", "("} \cup Identifiers
  <2>1. at \in DOMAIN tokens
    BY <1>4, TypeIs, NullIs
  <2>2. /\ Context(g, h, at) /\ Typed /\ at \in Positions
        /\ \A x : Reads(at, x) => Reads(a, x)
    BY <1>1, <2>1, Lifted
  <2>3. From(at, at)
    BY <2>2, OnFrom
  <2>4. parse_assign(g, at) = parse_assign(h, at) /\ Reads(at, parse_assign(g, at))
    BY <2>1, <2>2, <2>3, AssignIs
  <2>5. parse_arr_access(g, at) = parse_arr_access(h, at) /\ Reads(at, parse_arr_access(g, at))
    BY <2>1, <2>2, AccessIs
  <2>6. parse_func_invoke(g, at) = parse_func_invoke(h, at) /\ Reads(at, parse_func_invoke(g, at))
    BY <2>1, <2>2, InvokeIs
  <2>7. parse_cast(g, at) = parse_cast(h, at) /\ Reads(at, parse_cast(g, at))
    BY <2>1, <2>2, CastIs
  <2>8. parse_struct_init(g, at) = parse_struct_init(h, at) /\ Reads(at, parse_struct_init(g, at))
    BY <2>1, <2>2, StructInitIs
  <2>9. \A type : Reads(at, Leaf(type, at))
    BY <2>1, <2>2, LeafIs
  <2>10. Reads(at, Failed)
    BY <2>2, FailedIs
  <2>11. lazy(g) = lazy(h) /\ Reads(at, lazy(g))
    <3>1. CASE Type(at) \in Identifiers
      BY <1>3, <2>4, <2>5, <2>6, <2>9, <3>1
    <3>2. CASE Type(at) = "str"
      BY <1>3, <2>9, <2>10, <3>2
    <3>3. CASE Type(at) = "num"
      BY <1>3, <2>9, <3>3
    <3>4. CASE Type(at) = "{"
      BY <1>3, <2>8, <3>4
    <3>5. CASE Type(at) = "("
      BY <1>3, <2>7, <3>5
    <3> HIDE DEF lazy
    <3> QED
      BY <1>4, <3>1, <3>2, <3>3, <3>4, <3>5
  <2> HIDE DEF lazy
  <2> QED
    BY <2>2, <2>11
<1>5. CASE Type(at) \notin {"str", "num", "{", "("} \cup Identifiers
  <2>1. lazy(g) = Failed /\ lazy(h) = Failed
    BY <1>5
  <2> HIDE DEF lazy
  <2> QED
    BY <1>0, <2>1, FailedIs
<1> HIDE DEF lazy
<1> QED
  BY <1>4, <1>5

\* The operator behind an operand, if there is one.
LEMMA OperatedIs ==
  ASSUME NEW g, NEW h, NEW a, Context(g, h, a), NEW start, NEW lhs, Reads(a, lhs)
  PROVE  /\ Operated(g, start, lhs) = Operated(h, start, lhs)
         /\ Reads(a, Operated(g, start, lhs))
<1> DEFINE first == nonws_token(lhs.end)
           at == nonws_token(first)
           member == nonws_token(first + 1)
<1>0. Typed /\ a \in Positions
  BY DEF Context
<1>1. Ends(a, first) /\ first \in Positions
  <2>1. Ends(a, lhs.end)
    BY DEF Reads
  <2> HIDE DEF first
  <2>2. Ends(a, first)
    BY <2>1, Looked DEF first
  <2> QED
    BY <2>2 DEF Ends
<1> HIDE DEF first
<1>2. Ends(a, at) /\ at \in Positions
  BY <1>1, Looked DEF Ends
<1>3. Type(first) = "->" => Type(at) # "=="
  BY DEF nonws_token
<1> HIDE DEF at
<1>4. CASE Type(first) = "->"
  <2>1. first \in DOMAIN tokens
    BY <1>4, TypeIs
  <2>2. Ends(a, first + 1)
    BY <1>0, <1>1, <2>1, NextAt, OnFrom
  <2>3. Ends(a, member)
    BY <2>2, Looked
  <2> HIDE DEF member
  <2>4. Ends(a, next_token(member))
    BY <2>3, Looked
  <2>5. Operated(g, start, lhs) = MemberAccess(start, lhs, member) /\ Operated(h, start, lhs) = MemberAccess(start, lhs, member)
    BY <1>3, <1>4, NullIs DEF Operated, first, at, member, nonws_token
  <2> QED
    BY <2>4, <2>5 DEF Reads, MemberAccess, TokenBehind
<1>5. CASE Type(first) # "->" /\ Type(at) = "=="
  <2>1. at \in DOMAIN tokens
    BY <1>5, TypeIs
  <2>2. Ends(a, at + 1)
    BY <1>0, <1>2, <2>1, NextAt, OnFrom
  <2>3. /\ parse_expr_lazy(g, at + 1) = parse_expr_lazy(h, at + 1)
        /\ Reads(a, parse_expr_lazy(g, at + 1))
    BY <2>2, LazyIs
  <2>4. /\ Operated(g, start, lhs) = BinaryOp(start, lhs, parse_expr_lazy(g, at + 1))
        /\ Operated(h, start, lhs) = BinaryOp(start, lhs, parse_expr_lazy(h, at + 1))
    BY <1>5 DEF Operated, first, at
  <2> QED
    BY <2>3, <2>4 DEF Reads, BinaryOp, TokenBehind
<1>6. CASE Type(first) # "->" /\ Type(at) = "NULL"
  <2>1. Operated(g, start, lhs) = Failed /\ Operated(h, start, lhs) = Failed
    BY <1>6 DEF Operated, first, at
  <2> QED
    BY <1>0, <2>1, FailedIs
<1>7. CASE Type(first) # "->" /\ Type(at) \notin {"==", "NULL"}
  <2>1. Operated(g, start, lhs) = lhs /\ Operated(h, start, lhs) = lhs
    BY <1>7 DEF Operated, first, at
  <2> QED
    BY <2>1
<1> QED
  BY <1>4, <1>5, <1>6, <1>7

\* An expression is what stands behind its first token makes of it.
LEMMA ExprIs ==
  ASSUME NEW g, NEW h, NEW p, Context(g, h, p)
  PROVE  parse_expr(g, p) = parse_expr(h, p) /\ Reads(p, parse_expr(g, p))
<1> DEFINE at == Twice(p)
           start == nonws_token(p)
           in == nonws_token(at + 1)
<1>0. Typed /\ p \in Positions /\ From(p, p)
  BY OnFrom DEF Context
<1>1. From(p, at)
  BY <1>0, Looked
<1> HIDE DEF at
<1>2. CASE Type(at) \in {"&", "*"}
  <2>1. at \in DOMAIN tokens
    BY <1>2, TypeIs
  <2>2. Context(g, h, at) /\ \A x : Reads(at, x) => Reads(p, x)
    BY <1>1, <2>1, Lifted
  <2>3. Ends(at, at + 1)
    BY <1>0, <2>1, NextAt
  <2>4. Ends(at, in)
    BY <2>2, <2>3, Looked
  <2> HIDE DEF in
  <2>5. g[<<"expr", in>>] = h[<<"expr", in>>] /\ Reads(at, g[<<"expr", in>>])
    BY <2>1, <2>2, <2>4, ReadExpr
  <2>6. /\ parse_expr(g, p) = EndsWith("UNARY_OP", at, g[<<"expr", in>>])
        /\ parse_expr(h, p) = EndsWith("UNARY_OP", at, h[<<"expr", in>>])
    BY <1>2 DEF parse_expr, at, in
  <2>7. Reads(p, g[<<"expr", in>>])
    BY <2>2, <2>5
  <2> QED
    BY <2>5, <2>6, <2>7 DEF Reads, EndsWith, TokenBehind
<1>3. CASE Type(at) \notin {"&", "*"}
  <2>1. parse_expr_lazy(g, at) = parse_expr_lazy(h, at) /\ Reads(p, parse_expr_lazy(g, at))
    BY <1>1, LazyIs
  <2>2. /\ parse_expr(g, p) = Operated(g, start, parse_expr_lazy(g, at))
        /\ parse_expr(h, p) = Operated(h, start, parse_expr_lazy(h, at))
    BY <1>3 DEF parse_expr, at
  <2> HIDE DEF start
  <2> QED
    BY <2>1, <2>2, OperatedIs
<1> QED
  BY <1>2, <1>3

-----------------------------------------------------------------------------
\* Statements that end with a name, a colon or an expression.
LEMMA LabelIs ==
  ASSUME Typed, NEW at \in DOMAIN tokens
  PROVE  Reads(at, parse_label(at)) /\ Reads(at, parse_goto(at))
<1> DEFINE next == nonws_token(at + 1)
<1>1. Ends(at, at + 1) /\ at \in Positions /\ at + 1 \in Positions
  BY NextAt DEF Ends
<1>2. Ends(at, next) /\ next \in Positions
  BY <1>1, NonWs, OnFrom
<1> HIDE DEF next
<1>3. Ends(at, skip_token({":"}, next)) /\ Ends(at, skip_token(Identifiers, next))
  BY <1>1, <1>2, SkipIs, NullIs, OnFrom
<1>4. /\ parse_label(at) = [type |-> "LABEL_DECL", start |-> at, end |-> skip_token({":"}, next)]
      /\ parse_goto(at) = [type |-> "GOTO_STATEMENT", start |-> at, end |-> skip_token(Identifiers, next)]
  BY DEF parse_label, parse_goto, next
<1> QED
  BY <1>3, <1>4 DEF Reads, TokenBehind

\* A return ends with its expression.
LEMMA ReturnIs ==
  ASSUME NEW g, NEW h, NEW at \in DOMAIN tokens, Context(g, h, at)
  PROVE  parse_return(g, at) = parse_return(h, at) /\ Reads(at, parse_return(g, at))
<1> DEFINE in == at + 1
<1>1. Ends(at, in)
  BY NextAt DEF Context
<1> HIDE DEF in
<1>2. g[<<"expr", in>>] = h[<<"expr", in>>] /\ Reads(at, g[<<"expr", in>>])
  BY <1>1, ReadExpr
<1>3. /\ parse_return(g, at) = EndsWith("RETURN_STATEMENT", at, g[<<"expr", in>>])
      /\ parse_return(h, at) = EndsWith("RETURN_STATEMENT", at, h[<<"expr", in>>])
  BY DEF parse_return, in
<1> QED
  BY <1>2, <1>3 DEF Reads, EndsWith, TokenBehind

\* A block is a list in braces.
LEMMA BlockIs ==
  ASSUME NEW g, NEW h, NEW a \in DOMAIN tokens, Context(g, h, a), NEW p, Ends(a, p) \/ From(a, p)
  PROVE  /\ parse_block(g, p) = parse_block(h, p)
         /\ Ends(a, parse_block(g, p).end)
         /\ TokenBehind(parse_block(g, p)) = parse_block(g, p).end
<1>1. parse_block(g, p) = parse_block(h, p) /\ Ends(a, parse_block(g, p).end)
  BY EnclosedIs, ListKinds DEF parse_block
<1>2. TokenBehind(parse_block(g, p)) = parse_block(g, p).end
  BY DEF parse_block, Enclosed, Closed, TokenBehind
<1> QED
  BY <1>1, <1>2

\* A branch of an if is a block or a statement.
LEMMA BranchIs ==
  ASSUME NEW g, NEW h, NEW a \in DOMAIN tokens, Context(g, h, a), NEW p, Ends(a, p)
  PROVE  parse_branch(g, p) = parse_branch(h, p) /\ Reads(a, parse_branch(g, p))
<1> DEFINE at == nonws_token(p)
<1>1. Ends(a, at)
  BY Looked
<1> HIDE DEF at
<1>2. CASE Type(at) = "{"
  <2>1. parse_branch(g, p) = parse_block(g, at) /\ parse_branch(h, p) = parse_block(h, at)
    BY <1>2 DEF parse_branch, at
  <2> QED
    BY <1>1, <2>1, BlockIs DEF Reads
<1>3. CASE Type(at) # "{"
  <2>1. parse_branch(g, p) = g[<<"statement", at>>] /\ parse_branch(h, p) = h[<<"statement", at>>]
    BY <1>3 DEF parse_branch, at
  <2>2. g[<<"statement", at>>] = h[<<"statement", at>>] /\ Reads(a, g[<<"statement", at>>])
    BY <1>1, ReadStatement
  <2> QED
    BY <2>1, <2>2
<1> QED
  BY <1>2, <1>3

\* An if ends with its last branch; the next token may be behind whitespace.
LEMMA IfThenIs ==
  ASSUME NEW g, NEW h, NEW at \in DOMAIN tokens, Context(g, h, at), NEW cond, NEW then, Reads(at, then)
  PROVE  IfThen(g, at, cond, then) = IfThen(h, at, cond, then) /\ Reads(at, IfThen(g, at, cond, then))
<1> DEFINE end == TokenBehind(then)
           behind == nonws_token(end)
<1>0. Typed /\ at \in Positions
  BY DEF Context
<1>1. Ends(at, end)
  BY DEF Reads
<1> HIDE DEF end
<1>2. Ends(at, behind) /\ Ends(at, Twice(end)) /\ behind \in Positions
  <2>1. Ends(at, behind) /\ Ends(at, Twice(end))
    BY <1>1, Looked
  <2> QED
    BY <2>1 DEF Ends
<1> HIDE DEF behind
<1>3. CASE Type(behind) = "NULL"
  <2>1. IfThen(g, at, cond, then) = Failed /\ IfThen(h, at, cond, then) = Failed
    BY <1>3 DEF IfThen, behind, end
  <2> QED
    BY <1>0, <2>1, FailedIs
<1>4. CASE Type(behind) = "else"
  <2> DEFINE else(f) == parse_branch(f, behind + 1)
  <2>1. behind \in DOMAIN tokens
    BY <1>4, TypeIs
  <2>2. Ends(at, behind + 1)
    BY <1>0, <1>2, <2>1, NextAt, OnFrom
  <2>3. else(g) = else(h) /\ Reads(at, else(g))
    BY <2>2, BranchIs
  <2>4. /\ IfThen(g, at, cond, then) = IfElse(at, cond, then, behind, else(g))
        /\ IfThen(h, at, cond, then) = IfElse(at, cond, then, behind, else(h))
    BY <1>4 DEF IfThen, behind, end
  <2> HIDE DEF else
  <2>5. Ends(at, TokenBehind(else(g)))
    BY <2>3 DEF Reads
  <2>6. /\ IfElse(at, cond, then, behind, else(g)).end = TokenBehind(else(g))
        /\ TokenBehind(IfElse(at, cond, then, behind, else(g))) = TokenBehind(else(g))
    <3> DEFINE last == TokenBehind(else(g))
    <3>1. IfElse(at, cond, then, behind, else(g)) =
            [type |-> "IF_STATEMENT", start |-> at, end |-> last,
             cond |-> cond, then |-> then, else_token |-> behind, else |-> else(g)]
      BY DEF IfElse
    <3> HIDE DEF last
    <3>2. /\ IfElse(at, cond, then, behind, else(g)).end = last
          /\ TokenBehind(IfElse(at, cond, then, behind, else(g))) = last
      BY <3>1 DEF TokenBehind
    <3> QED
      BY <3>2 DEF last
  <2> QED
    BY <2>3, <2>4, <2>5, <2>6 DEF Reads
<1>5. CASE Type(behind) \notin {"NULL", "else"}
  <2> DEFINE next == Twice(end)
  <2>1. /\ IfThen(g, at, cond, then) = [type |-> "IF_STATEMENT", start |-> at, end |-> end, next |-> next,
                                        cond |-> cond, then |-> then, else_token |-> 0]
        /\ IfThen(h, at, cond, then) = [type |-> "IF_STATEMENT", start |-> at, end |-> end, next |-> next,
                                        cond |-> cond, then |-> then, else_token |-> 0]
    BY <1>5 DEF IfThen, behind, end
  <2>2. Ends(at, next)
    BY <1>2
  <2> HIDE DEF next
  <2> QED
    BY <1>1, <2>1, <2>2 DEF Reads, TokenBehind
<1> QED
  BY <1>3, <1>4, <1>5

\* An if with its condition.
LEMMA IfIs ==
  ASSUME NEW g, NEW h, NEW at \in DOMAIN tokens, Context(g, h, at)
  PROVE  parse_if(g, at) = parse_if(h, at) /\ Reads(at, parse_if(g, at))
<1> DEFINE open == skip_token({"("}, at + 1)
           cond == g[<<"expr", open>>]
           close == skip_token({")"}, cond.end)
           then(f) == parse_branch(f, close)
<1>1. Ends(at, at + 1)
  BY NextAt DEF Context
<1>2. Ends(at, open)
  BY <1>1, Looked
<1> HIDE DEF open
<1>3. cond = h[<<"expr", open>>] /\ Ends(at, cond.end)
  BY <1>2, ReadExpr DEF Reads
<1>4. /\ parse_if(g, at) = If(g, at, cond)
      /\ parse_if(h, at) = If(h, at, cond)
  BY <1>3 DEF parse_if, open
<1> HIDE DEF cond
<1>5. Ends(at, close)
  BY <1>3, Looked
<1>6. /\ If(g, at, cond) = IfThen(g, at, cond, then(g))
      /\ If(h, at, cond) = IfThen(h, at, cond, then(h))
  BY DEF If, close
<1> HIDE DEF close
<1>7. then(g) = then(h) /\ Reads(at, then(g))
  BY <1>5, BranchIs
<1> HIDE DEF then
<1>8. IfThen(g, at, cond, then(g)) = IfThen(h, at, cond, then(g)) /\ Reads(at, IfThen(g, at, cond, then(g)))
  BY <1>7, IfThenIs
<1> QED
  BY <1>4, <1>6, <1>7, <1>8

\* A case with its label, and the lack of one.
LEMMA CaseIs ==
  ASSUME NEW g, NEW h, NEW a, Context(g, h, a), NEW at, From(a, at)
  PROVE  parse_case(g, at) = parse_case(h, at) /\ Reads(a, parse_case(g, at))
<1>0. Typed /\ a \in Positions
  BY DEF Context
<1>1. CASE Type(at) \notin {"case", "default"}
  <2>1. parse_case(g, at) = Failed /\ parse_case(h, at) = Failed
    BY <1>1 DEF parse_case
  <2> QED
    BY <1>0, <2>1, FailedIs
<1>2. CASE Type(at) \in {"case", "default"}
  <2> DEFINE label == nonws_token(at + 1)
             labelled == IF Type(label) \in {"num"} \cup Identifiers THEN label + 1 ELSE 0
             colon == nonws_token(IF Type(at) = "case" THEN labelled ELSE at + 1)
             behind == skip_token({":"}, colon)
             in == Twice(behind)
             id == IF Type(at) = "case" THEN label ELSE 0
  <2>1. at \in DOMAIN tokens
    BY <1>2, TypeIs
  <2>2. Context(g, h, at) /\ at \in Positions /\ \A x : Reads(at, x) => Reads(a, x)
    BY <2>1, Lifted
  <2>3. Ends(at, at + 1)
    BY <1>0, <2>1, NextAt
  <2>4. Ends(at, label) /\ label \in Positions
    <3>1. Ends(at, label)
      BY <2>2, <2>3, Looked
    <3> QED
      BY <3>1 DEF Ends
  <2> HIDE DEF label
  <2>5. Ends(at, labelled)
    <3>1. CASE Type(label) \in {"num"} \cup Identifiers
      <4>1. label \in DOMAIN tokens
        BY <3>1, TypeIs, NullIs
      <4>2. Ends(label, label + 1)
        BY <1>0, <4>1, NextAt
      <4> QED
        BY <1>0, <2>2, <2>4, <3>1, <4>2, OnFrom
    <3>2. CASE Type(label) \notin {"num"} \cup Identifiers
      BY <1>0, <2>2, <3>2, OnFrom
    <3> QED
      BY <3>1, <3>2
  <2> HIDE DEF labelled
  <2>6. Ends(at, colon)
    <3>1. CASE Type(at) = "case"
      BY <2>2, <2>5, <3>1, Looked
    <3>2. CASE Type(at) # "case"
      BY <2>2, <2>3, <3>2, Looked
    <3> QED
      BY <3>1, <3>2
  <2> HIDE DEF colon
  <2>7. Ends(at, behind)
    BY <2>2, <2>6, Looked
  <2> HIDE DEF behind
  <2>8. Ends(at, in)
    BY <2>2, <2>7, Looked
  <2> HIDE DEF in
  <2>9. g[<<"parts", in>>] = h[<<"parts", in>>] /\ Ends(at, g[<<"parts", in>>].end)
    BY <2>1, <2>2, <2>8, ReadList, ListKinds
  <2>10. /\ parse_case(g, at) = SwitchBlock(at, id, colon, g[<<"parts", in>>])
         /\ parse_case(h, at) = SwitchBlock(at, id, colon, h[<<"parts", in>>])
    BY <1>2 DEF parse_case, label, labelled, colon, behind, in
  <2> HIDE DEF id
  <2>11. Reads(at, SwitchBlock(at, id, colon, g[<<"parts", in>>]))
    BY <2>9 DEF Reads, SwitchBlock, TokenBehind
  <2> QED
    BY <2>2, <2>9, <2>10, <2>11
<1> QED
  BY <1>1, <1>2

\* A switch with its blocks.
LEMMA SwitchIs ==
  ASSUME NEW g, NEW h, NEW at \in DOMAIN tokens, Context(g, h, at)
  PROVE  parse_switch(g, at) = parse_switch(h, at) /\ Reads(at, parse_switch(g, at))
<1> DEFINE open == skip_token({"("}, nonws_token(at + 1))
           in == nonws_token(open)
           expr == g[<<"expr", in>>]
           behind == nonws_token(expr.end)
           close == skip_token({")"}, behind)
           start == nonws_token(close)
           blocks(f) == Enclosed(f, "{", "cases", "}", start)
<1>1. Ends(at, nonws_token(at + 1))
  <2>1. Ends(at, at + 1)
    BY NextAt DEF Context
  <2> QED
    BY <2>1, Looked
<1>2. Ends(at, open)
  BY <1>1, Looked
<1> HIDE DEF open
<1>3. Ends(at, in)
  BY <1>2, Looked
<1> HIDE DEF in
<1>4. expr = h[<<"expr", in>>] /\ Ends(at, expr.end)
  BY <1>3, ReadExpr DEF Reads
<1>5. /\ parse_switch(g, at) = Switch(g, at, expr)
      /\ parse_switch(h, at) = Switch(h, at, expr)
  BY <1>4 DEF parse_switch, in, open
<1> HIDE DEF expr
<1>6. Ends(at, behind)
  BY <1>4, Looked
<1> HIDE DEF behind
<1>7. Ends(at, close)
  BY <1>6, Looked
<1> HIDE DEF close
<1>8. Ends(at, start)
  BY <1>7, Looked
<1> HIDE DEF start
<1>9. blocks(g) = blocks(h) /\ Ends(at, blocks(g).end)
  BY <1>8, EnclosedIs, ListKinds
<1>10. /\ Switch(g, at, expr) = SwitchStatement(at, expr, blocks(g))
       /\ Switch(h, at, expr) = SwitchStatement(at, expr, blocks(h))
  BY DEF Switch, start, close, behind
<1> HIDE DEF blocks
<1>11. Reads(at, SwitchStatement(at, expr, blocks(g)))
  BY <1>9 DEF Reads, SwitchStatement, TokenBehind
<1> QED
  BY <1>5, <1>9, <1>10, <1>11

-----------------------------------------------------------------------------
\* The readers agree on the expressions, or on the statements, from p on.
AlikeFrom(g, h, k, p) == \A q : From(p, q) => Alike(g, h, <<k, q>>)

\* What the readers give at the place itself.
LEMMA ReadFrom ==
  ASSUME NEW g, NEW h, NEW a, Context(g, h, a), NEW k \in {"expr", "statement"}, AlikeFrom(g, h, k, a),
         NEW p, From(a, p)
  PROVE  g[<<k, p>>] = h[<<k, p>>] /\ Reads(a, g[<<k, p>>])
<1>1. Typed /\ a \in Positions
  BY DEF Context
<1>2. Alike(g, h, <<k, p>>)
  BY DEF AlikeFrom
<1>3. g[<<k, p>>] = h[<<k, p>>] /\ Reads(p, g[<<k, p>>])
  BY <1>2, ListKinds DEF Alike, Lies
<1> QED
  BY <1>1, <1>3, NodeFrom

\* A statement is what its first token begins, or an expression at that token.
LEMMA StatementIs ==
  ASSUME NEW g, NEW h, NEW p, Context(g, h, p), AlikeFrom(g, h, "expr", p)
  PROVE  parse_statement(g, p) = parse_statement(h, p) /\ Reads(p, parse_statement(g, p))
<1> DEFINE at == nonws_token(p)
           named == \E id \in Identifiers : is_next_skipws(id, at)
           stat(f) == CASE Type(at) = "COMMENT" -> parse_comment(at)
                        [] Type(at) \in Identifiers ->
                             IF is_next_skipws(":", at) THEN parse_label(at)
                             ELSE IF named THEN parse_decl(f, at)
                             ELSE f[<<"expr", at>>]
                        [] Type(at) = "goto" -> parse_goto(at)
                        [] Type(at) = "if" -> parse_if(f, at)
                        [] Type(at) = "return" -> parse_return(f, at)
                        [] Type(at) = "switch" -> parse_switch(f, at)
                        [] Type(at) = "break" -> parse_break(at)
                        [] Type(at) \in Keywords \ JumpWords -> parse_decl(f, at)
                        [] OTHER -> f[<<"expr", at>>]
<1>0. Typed /\ p \in Positions /\ From(p, p)
  BY OnFrom DEF Context
<1>1. From(p, at)
  BY <1>0, Looked
<1>2. parse_statement(g, p) = stat(g) /\ parse_statement(h, p) = stat(h)
  BY DEF parse_statement
<1> HIDE DEF at, named
<1>3. g[<<"expr", at>>] = h[<<"expr", at>>] /\ Reads(p, g[<<"expr", at>>])
  BY <1>1, ReadFrom
<1>4. parse_decl(g, at) = parse_decl(h, at) /\ Reads(p, parse_decl(g, at))
  BY <1>1, DeclIs
<1>5. ASSUME at \in DOMAIN tokens
      PROVE  /\ Reads(p, parse_comment(at)) /\ Reads(p, parse_break(at))
             /\ Reads(p, parse_label(at)) /\ Reads(p, parse_goto(at))
             /\ parse_if(g, at) = parse_if(h, at) /\ Reads(p, parse_if(g, at))
             /\ parse_return(g, at) = parse_return(h, at) /\ Reads(p, parse_return(g, at))
             /\ parse_switch(g, at) = parse_switch(h, at) /\ Reads(p, parse_switch(g, at))
  <2>1. Context(g, h, at) /\ \A x : Reads(at, x) => Reads(p, x)
    BY <1>1, <1>5, Lifted
  <2>2. Reads(at, parse_comment(at)) /\ Reads(at, parse_break(at))
    BY <1>0, <1>5, LeafIs DEF parse_comment, parse_break
  <2>3. Reads(at, parse_label(at)) /\ Reads(at, parse_goto(at))
    BY <1>0, <1>5, LabelIs
  <2>4. parse_if(g, at) = parse_if(h, at) /\ Reads(at, parse_if(g, at))
    BY <1>5, <2>1, IfIs
  <2>5. parse_return(g, at) = parse_return(h, at) /\ Reads(at, parse_return(g, at))
    BY <1>5, <2>1, ReturnIs
  <2>6. parse_switch(g, at) = parse_switch(h, at) /\ Reads(at, parse_switch(g, at))
    BY <1>5, <2>1, SwitchIs
  <2> QED
    BY <2>1, <2>2, <2>3, <2>4, <2>5, <2>6
<1>6. /\ Type(at) \in Identifiers => Type(at) \notin Keywords \cup {"COMMENT"}
      /\ JumpWords \subseteq Keywords /\ "COMMENT" \notin Keywords
      /\ JumpWords = {"goto", "if", "return", "switch", "break"}
  BY Apart DEF Signs, Keywords, JumpWords
<1>7. Type(at) \in {"COMMENT"} \cup JumpWords \cup Identifiers => at \in DOMAIN tokens
  BY TypeIs, NullIs, <1>6
<1>8. stat(g) = stat(h) /\ Reads(p, stat(g))
  <2>1. CASE Type(at) \in Identifiers
    BY <1>3, <1>4, <1>5, <1>6, <1>7, <2>1
  <2>2. CASE Type(at) = "COMMENT"
    BY <1>5, <1>6, <1>7, <2>2
  <2>3. CASE Type(at) = "goto"
    BY <1>5, <1>6, <1>7, <2>3
  <2>4. CASE Type(at) = "if"
    BY <1>5, <1>6, <1>7, <2>4
  <2>5. CASE Type(at) = "return"
    BY <1>5, <1>6, <1>7, <2>5
  <2>6. CASE Type(at) = "switch"
    BY <1>5, <1>6, <1>7, <2>6
  <2>7. CASE Type(at) = "break"
    BY <1>5, <1>6, <1>7, <2>7
  <2>8. CASE Type(at) \in Keywords \ JumpWords
    BY <1>4, <1>6, <2>8
  <2>9. CASE Type(at) \notin Identifiers \cup Keywords \cup {"COMMENT"}
    BY <1>3, <1>6, <2>9
  <2> HIDE DEF stat
  <2> QED
    BY <1>6, <2>1, <2>2, <2>3, <2>4, <2>5, <2>6, <2>7, <2>8, <2>9
<1> HIDE DEF stat
<1> QED
  BY <1>2, <1>8

-----------------------------------------------------------------------------
\* What a turn of a loop over a list reads: it moves on, or an assertion fails.
LEMMA PartIs ==
  ASSUME NEW g, NEW h, NEW a, Context(g, h, a),
         AlikeFrom(g, h, "expr", a), AlikeFrom(g, h, "statement", a), NEW at, From(a, at), NEW item
  PROVE  parse_part(g, at, item) = parse_part(h, at, item) /\ Ends(a, parse_part(g, at, item).end)
<1> DEFINE part(f) == CASE item = "expr" -> Single(f[<<"expr", at>>])
                        [] item = "decl" -> Single(parse_decl(f, at))
                        [] item = "case" -> Single(parse_case(f, at))
                        [] item = "part" /\ Type(at) = "{" -> Opened(parse_block(f, at))
                        [] OTHER -> Single(f[<<"statement", at>>])
<1>1. parse_part(g, at, item) = part(g) /\ parse_part(h, at, item) = part(h)
  BY DEF parse_part
<1>2. \A x : Reads(a, x) => Ends(a, Single(x).end)
  BY DEF Reads, Single
<1>3. g[<<"expr", at>>] = h[<<"expr", at>>] /\ Reads(a, g[<<"expr", at>>])
  BY ReadFrom
<1>4. g[<<"statement", at>>] = h[<<"statement", at>>] /\ Reads(a, g[<<"statement", at>>])
  BY ReadFrom
<1>5. parse_decl(g, at) = parse_decl(h, at) /\ Reads(a, parse_decl(g, at))
  BY DeclIs
<1>6. parse_case(g, at) = parse_case(h, at) /\ Reads(a, parse_case(g, at))
  BY CaseIs
<1>7. Type(at) = "{" => parse_block(g, at) = parse_block(h, at) /\ Ends(a, Opened(parse_block(g, at)).end)
  <2> SUFFICES ASSUME Type(at) = "{"
               PROVE  parse_block(g, at) = parse_block(h, at) /\ Ends(a, Opened(parse_block(g, at)).end)
    OBVIOUS
  <2>1. at \in DOMAIN tokens
    BY TypeIs
  <2>2. a \in DOMAIN tokens
    BY <2>1, Narrow
  <2>3. Ends(a, at) \/ From(a, at)
    OBVIOUS
  <2>4. parse_block(g, at) = parse_block(h, at) /\ Ends(a, parse_block(g, at).end)
    BY ONLY <2>2, <2>3, Context(g, h, a), BlockIs
  <2> QED
    BY <2>4 DEF Opened
<1>8. part(g) = part(h) /\ Ends(a, part(g).end)
  <2>1. CASE item = "expr"
    BY <1>2, <1>3, <2>1
  <2>2. CASE item = "decl"
    BY <1>2, <1>5, <2>2
  <2>3. CASE item = "case"
    BY <1>2, <1>6, <2>3
  <2>4. CASE item = "part" /\ Type(at) = "{"
    BY <1>7, <2>4
  <2>5. CASE item \notin {"expr", "decl", "case"} /\ ~(item = "part" /\ Type(at) = "{")
    BY <1>2, <1>4, <2>5
  <2> HIDE DEF part
  <2> QED
    BY <2>1, <2>2, <2>3, <2>4, <2>5
<1> HIDE DEF part
<1> QED
  BY <1>1, <1>8

\* The rest of a list is read behind what has been read of it.
LEMMA RestIs ==
  ASSUME NEW g, NEW h, NEW a, Context(g, h, a), NEW part, Ends(a, part.end), NEW list \in DOMAIN Lists
  PROVE  ListFrom(g, part, list) = ListFrom(h, part, list) /\ From(a, ListFrom(g, part, list).end)
<1>0. Typed /\ a \in Positions
  BY DEF Context
<1>1. CASE part.end = 0
  BY <1>0, <1>1, OnFrom DEF ListFrom
<1>2. CASE part.end # 0
  <2> DEFINE next == nonws_token(part.end)
             in == IF Type(next) = Lists[list].separator THEN next + 1 ELSE next
  <2>1. a \in DOMAIN tokens
    BY <1>0, <1>2, Lengths DEF Ends, Positions
  <2>2. Ends(a, next) /\ next \in Positions
    <3>1. Ends(a, next)
      BY Looked
    <3> QED
      BY <3>1 DEF Ends
  <2> HIDE DEF next
  <2>3. Lists[list].separator # "NULL"
    <3>1. /\ Lists["arguments"].separator = "," /\ Lists["values"].separator = ","
          /\ Lists["params"].separator = "," /\ Lists["members"].separator = ";"
          /\ Lists["statements"].separator = ";" /\ Lists["parts"].separator = ";"
          /\ Lists["cases"].separator = "NONE"
      BY DEF Lists
    <3> QED
      BY <3>1, ListKinds
  <2>4. Ends(a, in)
    <3>1. CASE Type(next) = Lists[list].separator
      <4>1. next \in DOMAIN tokens
        BY <2>3, <3>1, TypeIs
      <4>2. Ends(next, next + 1)
        BY <1>0, <4>1, NextAt
      <4> QED
        BY <1>0, <2>2, <3>1, <4>2, OnFrom
    <3>2. CASE Type(next) # Lists[list].separator
      BY <2>2, <3>2
    <3> QED
      BY <3>1, <3>2
  <2> HIDE DEF in
  <2>5. g[<<list, in>>] = h[<<list, in>>] /\ Ends(a, g[<<list, in>>].end)
    BY <2>1, <2>4, ReadList
  <2>6. /\ ListFrom(g, part, list) = Linked(part, g[<<list, in>>])
        /\ ListFrom(h, part, list) = Linked(part, h[<<list, in>>])
    BY <1>2 DEF ListFrom, in, next
  <2>7. Linked(part, g[<<list, in>>]).end = g[<<list, in>>].end
    BY DEF Linked
  <2> QED
    BY <1>0, <2>5, <2>6, <2>7, OnFrom
<1> QED
  BY <1>1, <1>2

\* A list is empty at its closing token, or a node and the rest.
LEMMA ListIs ==
  ASSUME NEW g, NEW h, NEW p, Context(g, h, p), NEW list \in DOMAIN Lists,
         AlikeFrom(g, h, "expr", p), AlikeFrom(g, h, "statement", p)
  PROVE  parse_list(g, p, list) = parse_list(h, p, list) /\ From(p, parse_list(g, p, list).end)
<1> DEFINE at == nonws_token(p)
           part(f) == parse_part(f, at, Lists[list].item)
<1>1. From(p, at)
  <2>1. From(p, p)
    BY OnFrom DEF Context
  <2> QED
    BY <2>1, Looked
<1> HIDE DEF at
<1>2. CASE Type(at) \in Lists[list].closing
  <2>1. /\ parse_list(g, p, list) = [items |-> <<>>, end |-> at]
        /\ parse_list(h, p, list) = [items |-> <<>>, end |-> at]
    BY <1>2 DEF parse_list, at
  <2> QED
    BY <1>1, <2>1
<1>3. CASE Type(at) \notin Lists[list].closing
  <2>1. part(g) = part(h) /\ Ends(p, part(g).end)
    BY <1>1, PartIs
  <2>2. /\ parse_list(g, p, list) = ListFrom(g, part(g), list)
        /\ parse_list(h, p, list) = ListFrom(h, part(h), list)
    BY <1>3 DEF parse_list, at
  <2> HIDE DEF part
  <2>3. ListFrom(g, part(g), list) = ListFrom(h, part(g), list) /\ From(p, ListFrom(g, part(g), list).end)
    BY <2>1, RestIs
  <2> QED
    BY <2>1, <2>2, <2>3
<1> QED
  BY <1>2, <1>3

-----------------------------------------------------------------------------
\* What parsed is the solution of.
Body(f, r) ==
  CASE r[1] = "expr" -> parse_expr(f, r[2])
    [] r[1] = "statement" -> parse_statement(f, r[2])
    [] OTHER -> parse_list(f, r[2], r[1])

\* A list reads statements at its own place, and a statement an expression.
Left(p) == IF p = 0 THEN 0 ELSE Len(tokens) + 2 - p
Level(k) == IF k = "expr" THEN 0 ELSE IF k = "statement" THEN 1 ELSE 2
Rank(r) == 3 * Left(r[2]) + Level(r[1])
Highest == 3 * (Len(tokens) + 1) + 2

Lower(g, h, r) == \A q \in Readings : Rank(q) < Rank(r) => Alike(g, h, q)

\* The rank of a reading is bounded.
LEMMA ReadingIs ==
  ASSUME Typed, NEW r \in Readings
  PROVE  /\ r[1] \in Kinds /\ r[2] \in Positions /\ r = <<r[1], r[2]>>
         /\ Left(r[2]) \in 0..(Len(tokens) + 1) /\ Level(r[1]) \in 0..2 /\ Rank(r) \in 0..Highest
<1>1. r[1] \in Kinds /\ r[2] \in Positions /\ r = <<r[1], r[2]>>
  BY DEF Readings, Kinds, Positions
<1>2. Left(r[2]) \in 0..(Len(tokens) + 1)
  BY <1>1, Lengths DEF Left, Positions
<1>3. Level(r[1]) \in 0..2
  BY DEF Level
<1> QED
  BY <1>1, <1>2, <1>3, Lengths DEF Rank, Highest

\* What stands behind has a lower rank, and so has what is read first at a place.
LEMMA RankBelow ==
  ASSUME Typed, NEW p \in Positions, NEW q \in Positions, NEW k \in Kinds, NEW l \in Kinds,
         \/ p \in DOMAIN tokens /\ Ends(p, q)
         \/ From(p, q) /\ Level(l) < Level(k)
  PROVE  <<l, q>> \in Readings /\ Rank(<<l, q>>) < Rank(<<k, p>>)
<1>1. <<l, q>> \in Readings
  BY DEF Readings, Kinds, Positions
<1>2. Level(l) \in 0..2 /\ Level(k) \in 0..2
  BY DEF Level
<1>3. Rank(<<l, q>>) = 3 * Left(q) + Level(l) /\ Rank(<<k, p>>) = 3 * Left(p) + Level(k)
  BY DEF Rank
<1>4. Left(p) \in Nat /\ Left(q) \in Nat
  BY Lengths DEF Left, Positions
<1>5. CASE p \in DOMAIN tokens /\ Ends(p, q)
  <2>1. Left(q) < Left(p)
    BY <1>5, Lengths DEF Left, Positions, Ends
  <2> QED
    BY <1>1, <1>2, <1>3, <1>4, <2>1
<1>6. CASE From(p, q) /\ Level(l) < Level(k)
  <2>1. Left(q) <= Left(p)
    BY <1>6, Lengths DEF Left, Positions, From
  <2> QED
    BY <1>1, <1>2, <1>3, <1>4, <1>6, <2>1
<1> QED
  BY <1>5, <1>6

\* What is read at a place depends on readings of a lower rank only.
LEMMA BodyIs ==
  ASSUME Typed, NEW g, NEW h, NEW r \in Readings, Lower(g, h, r)
  PROVE  Body(g, r) = Body(h, r) /\ Lies(r, Body(g, r))
<1> DEFINE k == r[1]
           p == r[2]
<1>1. k \in Kinds /\ p \in Positions /\ r = <<k, p>>
  BY ReadingIs
<1> HIDE DEF k, p
<1>2. ASSUME NEW l \in Kinds, NEW q \in Positions,
             \/ p \in DOMAIN tokens /\ Ends(p, q)
             \/ From(p, q) /\ Level(l) < Level(k)
      PROVE  Alike(g, h, <<l, q>>)
  <2>1. <<l, q>> \in Readings /\ Rank(<<l, q>>) < Rank(r)
    BY <1>1, <1>2, RankBelow
  <2> QED
    BY <2>1 DEF Lower
<1>3. Context(g, h, p)
  BY <1>1, <1>2 DEF Context
<1>4. k # "expr" => AlikeFrom(g, h, "expr", p)
  <2> SUFFICES ASSUME k # "expr", NEW q, From(p, q) PROVE Alike(g, h, <<"expr", q>>)
    BY DEF AlikeFrom
  <2>1. "expr" \in Kinds /\ q \in Positions /\ Level("expr") < Level(k)
    BY DEF Kinds, From, Level
  <2> QED
    BY <1>2, <2>1
<1>5. k \in DOMAIN Lists => AlikeFrom(g, h, "statement", p)
  <2> SUFFICES ASSUME k \in DOMAIN Lists, NEW q, From(p, q) PROVE Alike(g, h, <<"statement", q>>)
    BY DEF AlikeFrom
  <2>1. "statement" \in Kinds /\ q \in Positions /\ Level("statement") < Level(k)
    BY ListKinds DEF Kinds, From, Level
  <2> QED
    BY <1>2, <2>1
<1>6. CASE k = "expr"
  <2>1. Body(g, r) = parse_expr(g, p) /\ Body(h, r) = parse_expr(h, p)
    BY <1>6 DEF Body, k, p
  <2>2. parse_expr(g, p) = parse_expr(h, p) /\ Reads(p, parse_expr(g, p))
    BY <1>3, ExprIs
  <2> QED
    BY <1>1, <1>6, <2>1, <2>2, ListKinds DEF Lies
<1>7. CASE k = "statement"
  <2>1. Body(g, r) = parse_statement(g, p) /\ Body(h, r) = parse_statement(h, p)
    BY <1>7 DEF Body, k, p
  <2>2. parse_statement(g, p) = parse_statement(h, p) /\ Reads(p, parse_statement(g, p))
    BY <1>3, <1>4, <1>7, StatementIs
  <2> QED
    BY <1>1, <1>7, <2>1, <2>2, ListKinds DEF Lies
<1>8. CASE k \in DOMAIN Lists
  <2>1. Body(g, r) = parse_list(g, p, k) /\ Body(h, r) = parse_list(h, p, k)
    BY <1>8, ListKinds DEF Body, k, p
  <2>2. parse_list(g, p, k) = parse_list(h, p, k) /\ From(p, parse_list(g, p, k).end)
    BY <1>3, <1>4, <1>5, <1>8, ListKinds, ListIs
  <2> QED
    BY <1>1, <1>8, <2>1, <2>2 DEF Lies
<1> QED
  BY <1>1, <1>6, <1>7, <1>8 DEF Kinds

\* So there is a function as parsed is written.
Fix(g) == g = [r \in Readings |-> Body(g, r)]

\* A function that is right up to a rank can be made right one rank further.
LEMMA FixExists ==
  ASSUME Typed
  PROVE  \E g : Fix(g)
<1> DEFINE Upto(g, m) == \A r \in Readings : Rank(r) < m => g[r] = Body(g, r) /\ Lies(r, g[r])
           T == {m \in 0..(Highest + 1) : \E g : Upto(g, m)}
<1>0. Highest \in Nat /\ Highest + 1 \in Nat /\ \A r \in Readings : Rank(r) \in 0..Highest
  BY Lengths, ReadingIs DEF Highest
<1>1. 0 \in T
  <2>1. \A r \in Readings : ~(Rank(r) < 0)
    BY <1>0
  <2>2. Upto(<<>>, 0)
    BY <2>1
  <2>3. \E g : Upto(g, 0)
    BY <2>2
  <2> QED
    BY <1>0, <2>3
<1>2. ASSUME NEW m \in 0..Highest, m \in T PROVE m + 1 \in T
  <2>1. PICK g : Upto(g, m)
    BY <1>2
  <2> DEFINE h == [r \in Readings |-> Body(g, r)]
  <2>2. \A r \in Readings : h[r] = Body(g, r)
    OBVIOUS
  <2> HIDE DEF h
  <2>3. ASSUME NEW r \in Readings, Rank(r) < m + 1 PROVE h[r] = Body(h, r) /\ Lies(r, h[r])
    <3>1. Lower(g, h, r)
      <4> SUFFICES ASSUME NEW q \in Readings, Rank(q) < Rank(r) PROVE Alike(g, h, q)
        BY DEF Lower
      <4>1. Rank(q) < m
        BY <1>0, <2>3
      <4>2. g[q] = Body(g, q) /\ Lies(q, g[q])
        BY <2>1, <4>1
      <4> QED
        BY <2>2, <4>2 DEF Alike
    <3>2. Body(g, r) = Body(h, r) /\ Lies(r, Body(g, r))
      BY <3>1, BodyIs
    <3> QED
      BY <2>2, <3>2
  <2>4. Upto(h, m + 1)
    BY <2>3
  <2> HIDE DEF Upto
  <2>5. \E f : Upto(f, m + 1)
    BY <2>4
  <2> QED
    BY <1>0, <2>5
<1>3. Highest + 1 \in T
  <2> HIDE DEF T
  <2>1. \A m \in 0..((Highest + 1) - 1) : m \in T => m + 1 \in T
    BY <1>0, <1>2
  <2>2. 0..(Highest + 1) \subseteq T
    BY <1>0, <1>1, <2>1, InductionUpTo
  <2> QED
    BY <1>0, <2>2
<1>4. PICK g : Upto(g, Highest + 1)
  BY <1>3
<1>5. \A r \in Readings : Rank(r) < Highest + 1
  BY <1>0
<1>6. \A r \in Readings : g[r] = Body(g, r) /\ Lies(r, g[r])
  BY <1>4, <1>5
<1> DEFINE f == [r \in Readings |-> g[r]]
<1>7. ASSUME NEW r \in Readings PROVE f[r] = Body(f, r)
  <2>1. \A q \in Readings : f[q] = g[q]
    OBVIOUS
  <2> HIDE DEF f
  <2>2. Lower(g, f, r)
    BY <1>6, <2>1 DEF Lower, Alike
  <2>3. Body(g, r) = Body(f, r)
    BY <2>2, BodyIs
  <2> QED
    BY <1>6, <2>1, <2>3
<1>8. f = [r \in Readings |-> Body(f, r)]
  <2>1. f = [r \in Readings |-> f[r]]
    OBVIOUS
  <2> HIDE DEF f
  <2> QED
    BY <1>7, <2>1
<1> HIDE DEF f
<1>9. Fix(f)
  BY <1>8 DEF Fix
<1> QED
  BY <1>9

\* The recursion of the parse_ functions ends for every list of tokens: at every
\* position there is what they give, and it ends behind that position, or an
\* assertion fails.
THEOREM ParsedIs ==
  ASSUME Typed
  PROVE  \A r \in Readings : parsed[r] = Body(parsed, r) /\ Lies(r, parsed[r])
<1>1. parsed = CHOOSE g : Fix(g)
  BY DEF parsed, Fix, Body
<1>2. Fix(parsed)
  BY <1>1, FixExists
<1>3. ASSUME NEW r \in Readings PROVE parsed[r] = Body(parsed, r)
  BY <1>2 DEF Fix
<1> DEFINE T == {m \in 0..(Highest + 1) : \A r \in Readings : Rank(r) < m => Lies(r, parsed[r])}
<1>4. Highest \in Nat /\ Highest + 1 \in Nat /\ \A r \in Readings : Rank(r) \in 0..Highest
  BY Lengths, ReadingIs DEF Highest
<1>5. 0 \in T
  <2>1. \A r \in Readings : ~(Rank(r) < 0)
    BY <1>4
  <2> QED
    BY <1>4, <2>1
<1>6. ASSUME NEW m \in 0..((Highest + 1) - 1), m \in T PROVE m + 1 \in T
  <2>1. m \in Nat /\ m + 1 \in 0..(Highest + 1)
    BY <1>4
  <2>2. ASSUME NEW r \in Readings, Rank(r) < m + 1 PROVE Lies(r, parsed[r])
    <3>1. \A q \in Readings : Rank(q) < Rank(r) => Rank(q) < m
      BY <1>4, <2>1, <2>2
    <3>2. Lower(parsed, parsed, r)
      BY <1>6, <3>1 DEF Lower, Alike
    <3>3. Lies(r, Body(parsed, r))
      BY <3>2, BodyIs
    <3> QED
      BY <1>3, <3>3
  <2> QED
    BY <2>1, <2>2
<1>7. Highest + 1 \in T
  <2> HIDE DEF T
  <2> QED
    BY <1>4, <1>5, <1>6, InductionUpTo
<1>8. \A r \in Readings : Rank(r) < Highest + 1
  BY <1>4
<1> QED
  BY <1>3, <1>7, <1>8

-----------------------------------------------------------------------------
(***************************************************************************)
(* The loop of parse                                                       *)
(***************************************************************************)

\* The elements stand one behind the other, before the token to be read.
InOrder ==
  /\ \A i \in DOMAIN nodes : nodes[i].start < nodes[i].end /\ nodes[i].end <= token
  /\ \A i, j \in DOMAIN nodes : i < j => nodes[i].end <= nodes[j].start

ParserInv ==
  /\ tokens \in Sources
  /\ \E S : nodes \in Seq(S)
  /\ ParserTypeOK
  /\ InOrder

\* What a turn does, as ParseForward states it.
Forward ==
  phase = "parse" /\ phase' = "parse" =>
    /\ token' > token
    /\ \/ nodes' = nodes
       \/ \E node \in {nodes'[Len(nodes')]} :
            nodes' = Append(nodes, node) /\ token <= node.start /\ node.start < node.end /\ node.end <= token'

\* The token to be read is in the file, and the turn is about it or one behind it.
LEMMA InvTyped ==
  ASSUME ParserInv
  PROVE  Typed /\ token \in Positions /\ token # 0 /\ From(token, At) /\ At # 0
<1>1. Typed
  BY ParserAssumption DEF ParserInv, Typed
<1>2. token \in Positions /\ token # 0
  BY <1>1, Lengths DEF ParserInv, ParserTypeOK, Positions
<1>3. From(token, At)
  BY <1>1, <1>2, TwiceIs DEF At
<1>4. At # 0
  BY <1>1, <1>2, Lengths DEF At, Twice, nonws_token, Positions
<1> QED
  BY <1>1, <1>2, <1>3, <1>4

\* What is read behind the token of a turn lies there.
LEMMA ParsedBehind ==
  ASSUME Typed, NEW a \in Positions
  PROVE  Context(parsed, parsed, a)
<1>1. \A r \in Readings : Lies(r, parsed[r])
  BY ParsedIs
<1>2. ASSUME NEW k \in Kinds, NEW p \in Positions PROVE Alike(parsed, parsed, <<k, p>>)
  <2>1. <<k, p>> \in Readings
    BY DEF Readings, Kinds, Positions
  <2> QED
    BY <1>1, <2>1 DEF Alike
<1> QED
  BY <1>2 DEF Context

\* The elements stay what they are when the loop moves forward without a new one.
LEMMA StaysInv ==
  ASSUME ParserInv, UNCHANGED <<tokens, nodes>>, token' \in Nat, token <= token', token' <= Len(tokens) + 1,
         defines' \subseteq TokenTypes, phase' \in {"parse", "write", "done", "abort"}
  PROVE  ParserInv'
<1>1. Typed
  BY InvTyped
<1>2. Len(tokens) \in Nat /\ token \in Nat
  BY <1>1, Lengths, InvTyped DEF Positions
<1>3. token' \in 1..(Len(tokens) + 1)
  BY <1>2 DEF ParserInv, ParserTypeOK
<1>4. ASSUME NEW i \in DOMAIN nodes PROVE nodes[i].end <= token'
  <2>1. nodes[i].end \in Nat /\ nodes[i].end <= token
    BY <1>2 DEF ParserInv, ParserTypeOK, InOrder
  <2> QED
    BY <1>2, <2>1
<1>5. ParserTypeOK'
  BY <1>3 DEF ParserInv, ParserTypeOK
<1>6. InOrder'
  BY <1>4 DEF ParserInv, InOrder
<1> QED
  BY <1>5, <1>6 DEF ParserInv

\* A node behind the others.
LEMMA AppendInv ==
  ASSUME ParserInv, NEW node, nodes' = Append(nodes, node), UNCHANGED <<tokens, phase>>,
         defines' \subseteq TokenTypes, At \in DOMAIN tokens, node.start = At, node.end \in Nat,
         At < node.end, token' \in Nat, node.end <= token', token' <= Len(tokens) + 1
  PROVE  ParserInv' /\ Forward
<1> DEFINE n == Len(nodes)
<1>1. Typed /\ token \in Positions /\ From(token, At)
  BY InvTyped
<1>2. Len(tokens) \in Nat /\ token \in Nat /\ At \in Nat /\ DOMAIN tokens = 1..Len(tokens) /\ token <= At
  BY <1>1, Lengths DEF Positions, From
<1>3. PICK S : nodes \in Seq(S)
  BY DEF ParserInv
<1>4. /\ n \in Nat /\ DOMAIN nodes = 1..n /\ nodes' \in Seq(S \cup {node})
      /\ DOMAIN nodes' = 1..(n + 1) /\ Len(nodes') = n + 1
      /\ \A i \in 1..n : nodes'[i] = nodes[i]
      /\ nodes'[n + 1] = node
  BY <1>3
<1> HIDE DEF n
<1>5. token' \in 1..(Len(tokens) + 1) /\ token < token'
  BY <1>2
<1>6. \A i \in 1..n : /\ nodes[i].start \in DOMAIN tokens /\ nodes[i].end \in 1..(Len(tokens) + 1)
                      /\ nodes[i].start < nodes[i].end /\ nodes[i].end <= token
  BY <1>4 DEF ParserInv, ParserTypeOK, InOrder
<1>7. ParserTypeOK'
  <2>1. ASSUME NEW i \in DOMAIN nodes'
        PROVE  nodes'[i].start \in DOMAIN tokens /\ nodes'[i].end \in 1..(Len(tokens) + 1)
    <3>1. CASE i \in 1..n
      BY <1>4, <1>6, <3>1
    <3>2. CASE i = n + 1
      <4>1. nodes'[i] = node
        BY <1>4, <3>2
      <4>2. node.end \in 1..(Len(tokens) + 1)
        BY <1>2
      <4> QED
        BY <4>1, <4>2
    <3> QED
      BY <1>4, <3>1, <3>2
  <2> QED
    BY <1>5, <2>1 DEF ParserInv, ParserTypeOK
<1>8. InOrder'
  <2>1. ASSUME NEW i \in DOMAIN nodes' PROVE nodes'[i].start < nodes'[i].end /\ nodes'[i].end <= token'
    <3>1. CASE i \in 1..n
      <4>1. nodes'[i] = nodes[i] /\ nodes[i].end \in Nat
        BY <1>2, <1>4, <1>6, <3>1
      <4> QED
        BY <1>2, <1>5, <1>6, <3>1, <4>1
    <3>2. CASE i = n + 1
      BY <1>4, <3>2
    <3> QED
      BY <1>4, <3>1, <3>2
  <2>2. ASSUME NEW i \in DOMAIN nodes', NEW j \in DOMAIN nodes', i < j PROVE nodes'[i].end <= nodes'[j].start
    <3>1. CASE j \in 1..n
      <4>1. i \in 1..n
        BY <1>4, <2>2, <3>1
      <4> QED
        BY <1>4, <2>2, <3>1, <4>1 DEF ParserInv, InOrder
    <3>2. CASE j = n + 1
      <4>1. i \in 1..n
        BY <1>4, <2>2, <3>2
      <4>2. nodes'[i].end = nodes[i].end /\ nodes[i].end \in Nat /\ nodes[i].end <= token
        BY <1>2, <1>4, <1>6, <4>1
      <4>3. nodes'[j].start = At
        BY <1>4, <3>2
      <4> QED
        BY <1>2, <4>2, <4>3
    <3> QED
      BY <1>4, <3>1, <3>2
  <2> QED
    BY <2>1, <2>2 DEF InOrder
<1>9. ParserInv'
  BY <1>4, <1>7, <1>8 DEF ParserInv
<1>10. Forward
  <2>1. nodes'[Len(nodes')] = node
    BY <1>4
  <2>2. nodes' = Append(nodes, node) /\ token <= node.start /\ node.start < node.end /\ node.end <= token'
    BY <1>2
  <2> QED
    BY <1>5, <2>1, <2>2 DEF Forward
<1> QED
  BY <1>9, <1>10

\* A failed assertion changes no element.
LEMMA AbortInv ==
  ASSUME ParserInv, Abort
  PROVE  ParserInv' /\ Forward
<1>1. token \in Nat /\ token <= Len(tokens) + 1 /\ token <= token
  BY Lengths, InvTyped DEF ParserInv, ParserTypeOK
<1>2. ParserInv'
  BY <1>1, StaysInv DEF Abort, ParserInv, ParserTypeOK
<1> QED
  BY <1>2 DEF Abort, Forward

\* insert appends a node or fails.
LEMMA InsertInv ==
  ASSUME ParserInv, NEW node, NEW next, insert(node, next), At \in DOMAIN tokens, node.start = At,
         next \in Positions, next # 0 => node.end \in Nat /\ At < node.end /\ node.end <= next
  PROVE  ParserInv' /\ Forward
<1>1. CASE next = 0
  BY <1>1, AbortInv DEF insert
<1>2. CASE next # 0
  <2>1. /\ nodes' = Append(nodes, node) /\ token' = next
        /\ UNCHANGED <<tokens, phase>> /\ UNCHANGED defines
    BY <1>2 DEF insert
  <2>2. next \in Nat /\ next <= Len(tokens) + 1
    BY InvTyped, Lengths DEF Positions
  <2>3. defines' \subseteq TokenTypes
    BY <2>1 DEF ParserInv, ParserTypeOK
  <2> QED
    BY <1>2, <2>1, <2>2, <2>3, AppendInv
<1> QED
  BY <1>1, <1>2

\* A turn that goes on without a node.
LEMMA SkipInv ==
  ASSUME ParserInv, NEW next, token' = next, UNCHANGED <<tokens, nodes, defines, phase>>,
         At \in DOMAIN tokens, next \in Positions, At < next
  PROVE  ParserInv' /\ Forward
<1>1. token \in Nat /\ At \in Nat /\ token <= At /\ next \in Nat /\ next <= Len(tokens) + 1
  BY InvTyped, Lengths DEF From, Positions
<1>2. ParserInv'
  BY <1>1, StaysInv DEF ParserInv, ParserTypeOK
<1>3. token' > token
  BY <1>1
<1> QED
  BY <1>2, <1>3 DEF Forward

\* The token of a turn.
LEMMA TurnIs ==
  ASSUME ParserInv, NEW types, Turn(types), "NULL" \notin types
  PROVE  /\ At \in DOMAIN tokens /\ At \in Positions /\ At \in Nat /\ Typed /\ phase = "parse"
         /\ Context(parsed, parsed, At) /\ Ends(At, At + 1)
<1>1. At \in DOMAIN tokens /\ phase = "parse"
  BY TypeIs DEF Turn
<1>2. Typed /\ At \in Positions
  BY InvTyped DEF From
<1>3. At \in Nat
  BY <1>2, Lengths DEF Positions
<1> QED
  BY <1>1, <1>2, <1>3, ParsedBehind, NextAt

\* Looked the token of a turn are positions of the file.
LEMMA EndsAt ==
  ASSUME Typed, NEW a \in Positions, NEW q, Ends(a, q)
  PROVE  q \in Positions /\ q \in Nat /\ (q # 0 => a < q)
BY Lengths DEF Ends, Positions

\* An include ends behind its path.
LEMMA IncludeInv ==
  ASSUME ParserInv, ParseInclude
  PROVE  ParserInv' /\ Forward
<1> DEFINE path == nonws_token(At + 1)
           node == [type |-> "INCLUDE_DIRECTIVE", start |-> At, end |-> path + 1, path |-> path]
           next == IF Type(path) = "HEADER" THEN path + 1 ELSE 0
<1>1. Turn({"INCLUDE"}) /\ insert(node, next)
  BY DEF ParseInclude
<1>2. /\ At \in DOMAIN tokens /\ At \in Positions /\ At \in Nat /\ Typed
      /\ Context(parsed, parsed, At) /\ Ends(At, At + 1)
  BY <1>1, TurnIs
<1>3. Ends(At, path)
  BY <1>2, Looked
<1>4. node.start = At /\ node.end = path + 1
  OBVIOUS
<1> HIDE DEF path, node
<1>5. next \in Positions /\ (next # 0 => next = path + 1 /\ path + 1 \in Nat /\ At < path + 1)
  <2>1. CASE Type(path) = "HEADER"
    <3>1. path \in DOMAIN tokens
      BY <2>1, TypeIs
    <3>2. Ends(path, path + 1) /\ path \in Positions /\ path # 0
      BY <1>2, <3>1, NextAt
    <3>3. Ends(At, path + 1)
      BY <1>2, <1>3, <3>2, OnFrom
    <3>4. path + 1 \in Positions /\ path + 1 \in Nat /\ path + 1 # 0
      BY <1>2, <3>2, <3>3, EndsAt, Lengths DEF Positions
    <3> QED
      BY <1>2, <2>1, <3>3, <3>4, EndsAt
  <2>2. CASE Type(path) # "HEADER"
    BY <1>2, <2>2, Lengths DEF Positions
  <2> QED
    BY <2>1, <2>2
<1> HIDE DEF next
<1>6. next # 0 => node.end \in Nat /\ At < node.end /\ node.end <= next
  BY <1>4, <1>5
<1> QED
  BY <1>1, <1>2, <1>4, <1>5, <1>6, InsertInv

\* A define ends with its expression, and its name is a token.
LEMMA DefineInv ==
  ASSUME ParserInv, ParseDefine
  PROVE  ParserInv' /\ Forward
<1> DEFINE id == nonws_token(At + 1)
           in == next_token(id)
           expr == parsed[<<"expr", in>>]
           node == [type |-> "DEFINE_DIRECTIVE", start |-> At, end |-> expr.end, id |-> id, expr |-> expr]
<1>1. Turn({"DEFINE"}) /\ Defined(id, expr)
  BY DEF ParseDefine
<1>2. /\ At \in DOMAIN tokens /\ At \in Positions /\ At \in Nat /\ Typed
      /\ Context(parsed, parsed, At) /\ Ends(At, At + 1)
  BY <1>1, TurnIs
<1>3. Ends(At, id)
  BY <1>2, Looked
<1>4. Ends(At, in)
  <2> HIDE DEF id
  <2> QED
    BY <1>2, <1>3, Looked
<1>5. Ends(At, expr.end) /\ Reads(in, expr)
  <2>1. in \in Positions
    BY <1>2, <1>4, EndsAt
  <2> HIDE DEF in
  <2>2. Ends(At, expr.end)
    BY <1>2, <1>4, ReadExpr DEF Reads
  <2>3. <<"expr", in>> \in Readings
    BY <2>1 DEF Readings, Positions
  <2>4. Lies(<<"expr", in>>, expr)
    BY <1>2, <2>3, ParsedIs
  <2>5. Reads(in, expr)
    BY <2>4, ListKinds DEF Lies
  <2> QED
    BY <2>2, <2>5
<1>6. node.start = At /\ node.end = expr.end
  OBVIOUS
<1>7. expr.end # 0 => Type(id) \in TokenTypes
  <2> SUFFICES ASSUME expr.end # 0 PROVE Type(id) \in TokenTypes
    OBVIOUS
  <2>1. in # 0
    BY <1>5 DEF Reads, Ends
  <2>2. id \in DOMAIN tokens
    <3> HIDE DEF id
    <3> QED
      BY <2>1 DEF next_token
  <2> HIDE DEF id
  <2> QED
    BY <1>2, <2>2 DEF Type, Typed
<1>8. CASE expr.end = 0
  BY <1>1, <1>8, AbortInv DEF Defined
<1>9. CASE expr.end # 0
  <2>1. /\ nodes' = Append(nodes, node) /\ token' = expr.end
        /\ defines' = defines \cup {Type(id)} /\ UNCHANGED <<tokens, phase>>
    BY <1>1, <1>9 DEF Defined
  <2>2. defines' \subseteq TokenTypes
    BY <1>7, <1>9, <2>1 DEF ParserInv, ParserTypeOK
  <2> HIDE DEF node, expr
  <2>3. expr.end \in Nat /\ At < expr.end /\ expr.end <= Len(tokens) + 1 /\ expr.end <= expr.end
    BY <1>2, <1>5, <1>9, EndsAt, Lengths DEF Positions
  <2> QED
    BY <1>2, <1>6, <2>1, <2>2, <2>3, AppendInv
<1> QED
  BY <1>8, <1>9

\* A stub is passed without a node.
LEMMA StubInv ==
  ASSUME ParserInv, ParseStub
  PROVE  ParserInv' /\ Forward
<1>1. Turn({"STUB"}) /\ token' = At + 1 /\ UNCHANGED <<tokens, nodes, defines, phase>>
  BY DEF ParseStub
<1>2. /\ At \in DOMAIN tokens /\ At \in Positions /\ At \in Nat /\ Typed /\ Ends(At, At + 1)
  BY <1>1, TurnIs
<1>3. At + 1 \in Positions /\ At < At + 1
  BY <1>2, EndsAt
<1> QED
  BY <1>1, <1>2, <1>3, SkipInv

\* A comment is one token.
LEMMA CommentInv ==
  ASSUME ParserInv, ParseComment
  PROVE  ParserInv' /\ Forward
<1>1. Turn({"COMMENT"}) /\ insert(parse_comment(At), At + 1)
  BY DEF ParseComment
<1>2. /\ At \in DOMAIN tokens /\ At \in Positions /\ At \in Nat /\ Typed /\ Ends(At, At + 1)
  BY <1>1, TurnIs
<1>3. At + 1 \in Positions /\ At + 1 \in Nat /\ At < At + 1 /\ At + 1 <= At + 1
  BY <1>2, EndsAt
<1>4. parse_comment(At).start = At /\ parse_comment(At).end = At + 1
  BY DEF parse_comment, Leaf
<1> QED
  BY <1>1, <1>2, <1>3, <1>4, InsertInv

\* The node of a struct ends before its semicolon, and the turn behind it.
LEMMA StructInv ==
  ASSUME ParserInv, ParseStruct
  PROVE  ParserInv' /\ Forward
<1> DEFINE id == nonws_token(At + 1)
           start == nonws_token(skip_token(Identifiers, id))
           members == Enclosed(parsed, "{", "members", "}", start)
           behind == nonws_token(members.end)
           next == skip_token({";"}, behind)
           node == StructDecl(id, members)
<1>1. Turn({"struct"}) /\ insert(node, next)
  BY DEF ParseStruct, Struct
<1>2. /\ At \in DOMAIN tokens /\ At \in Positions /\ At \in Nat /\ Typed
      /\ Context(parsed, parsed, At) /\ Ends(At, At + 1)
  BY <1>1, TurnIs
<1>3. Ends(At, id)
  BY <1>2, Looked
<1> HIDE DEF id
<1>4. Ends(At, skip_token(Identifiers, id))
  BY <1>2, <1>3, Looked, NullIs
<1>5. Ends(At, start)
  BY <1>2, <1>4, Looked
<1> HIDE DEF start
<1>6. Ends(At, members.end)
  BY <1>2, <1>5, EnclosedIs, ListKinds
<1>7. node.start = At /\ node.end = members.end
  BY DEF StructDecl
<1> HIDE DEF members, node
<1>8. members.end \in Positions /\ members.end \in Nat /\ (members.end # 0 => At < members.end)
  BY <1>2, <1>6, EndsAt
<1>9. From(members.end, behind)
  BY <1>2, <1>8, NonWs
<1>10. behind \in Positions
  BY <1>9 DEF From
<1> HIDE DEF behind
<1>11. Ends(members.end, next)
  <2>1. Ends(behind, next)
    BY <1>2, <1>10, SkipIs
  <2> HIDE DEF next
  <2> QED
    BY <1>2, <1>8, <1>9, <2>1, OnFrom
<1> HIDE DEF next
<1>12. next \in Positions /\ (next # 0 => members.end # 0 /\ members.end < next /\ next \in Nat)
  BY <1>2, <1>8, <1>11, EndsAt DEF Ends
<1>13. next # 0 => node.end \in Nat /\ At < node.end /\ node.end <= next
  BY <1>7, <1>8, <1>12
<1> QED
  BY <1>1, <1>2, <1>7, <1>12, <1>13, InsertInv

\* A function ends with its signature or its body; a signature with neither is passed.
LEMMA FuncInv ==
  ASSUME ParserInv, ParseFunc
  PROVE  ParserInv' /\ Forward
<1> DEFINE type == parse_data_type(At)
           name == nonws_token(type.end)
           open == skip_token(Identifiers, name)
           params == Enclosed(parsed, "(", "params", ")", open)
           sign == parse_func_signature
           first == nonws_token(sign.end)
           behind == nonws_token(first)
<1>1. Turn(Keywords \ {"struct"}) /\ FuncFrom(sign)
  BY DEF ParseFunc
<1>2. /\ At \in DOMAIN tokens /\ At \in Positions /\ At \in Nat /\ Typed
      /\ Context(parsed, parsed, At) /\ From(At, At)
  BY <1>1, TurnIs, NullIs, OnFrom
<1>3. From(At, type.end)
  BY <1>2, DataType
<1>4. sign.end = params.end
  BY DEF parse_func_signature, Signature
<1> HIDE DEF type
<1>5. From(At, name)
  BY <1>2, <1>3, Looked
<1> HIDE DEF name
<1>6. Ends(At, open)
  BY <1>2, <1>5, Looked, NullIs
<1> HIDE DEF open
<1>7. Ends(At, params.end)
  BY <1>2, <1>6, EnclosedIs, ListKinds
<1> HIDE DEF params, sign
<1>8. Ends(At, first)
  BY <1>2, <1>4, <1>7, Looked
<1> HIDE DEF first
<1>9. Ends(At, behind)
  BY <1>2, <1>8, Looked
<1> HIDE DEF behind
<1>10. \/ FuncDecl(sign, first)
       \/ Type(first) # ";" /\ FuncDef(sign, behind)
       \/ Type(first) # ";" /\ Type(behind) # "{" /\ NoFunc(behind)
  BY <1>1 DEF FuncFrom, first, behind
<1>11. CASE FuncDecl(sign, first)
  <2> DEFINE node == [type |-> "FUNC_DECL", start |-> At, end |-> first, signature |-> sign]
  <2>1. Type(first) = ";" /\ insert(node, first + 1)
    BY <1>11 DEF FuncDecl
  <2>2. node.start = At /\ node.end = first
    OBVIOUS
  <2> HIDE DEF node
  <2>3. first \in DOMAIN tokens
    BY <2>1, TypeIs
  <2>4. Ends(first, first + 1) /\ first \in Positions /\ first # 0
    BY <1>2, <2>3, NextAt
  <2>5. first \in Nat /\ At < first /\ first + 1 \in Positions /\ first <= first + 1
    BY <1>2, <1>8, <2>4, EndsAt
  <2> QED
    BY <1>2, <2>1, <2>2, <2>5, InsertInv
<1>12. CASE FuncDef(sign, behind)
  <2> DEFINE body == parse_block(parsed, behind)
             node == [type |-> "FUNC_DEF", start |-> At, end |-> body.end, signature |-> sign, body |-> body]
  <2>1. insert(node, body.end)
    BY <1>12 DEF FuncDef, Function
  <2>2. node.start = At /\ node.end = body.end
    OBVIOUS
  <2>3. Ends(At, body.end)
    BY <1>2, <1>9, BlockIs
  <2> HIDE DEF node, body
  <2>4. body.end \in Positions /\ body.end \in Nat /\ (body.end # 0 => At < body.end) /\ body.end <= body.end
    BY <1>2, <2>3, EndsAt
  <2> QED
    BY <1>2, <2>1, <2>2, <2>4, InsertInv
<1>13. CASE NoFunc(behind)
  <2>1. CASE Type(behind) = "NULL"
    BY <1>13, <2>1, AbortInv DEF NoFunc
  <2>2. CASE Type(behind) # "NULL"
    <3>1. token' = behind /\ UNCHANGED <<tokens, nodes, defines, phase>>
      BY <1>13, <2>2 DEF NoFunc
    <3>2. behind \in DOMAIN tokens
      BY <2>2, TypeIs
    <3>3. behind \in Positions /\ At < behind
      BY <1>2, <1>9, <3>2, NextAt, EndsAt
    <3> QED
      BY <1>2, <3>1, <3>3, SkipInv
  <2> QED
    BY <2>1, <2>2
<1> QED
  BY <1>10, <1>11, <1>12, <1>13

\* The end of the file, and what the renderer does then.
LEMMA EndInv ==
  ASSUME ParserInv, ParseEnd \/ Render
  PROVE  ParserInv' /\ Forward
<1>1. /\ UNCHANGED <<tokens, token, nodes, defines>> /\ phase' \in {"write", "done", "abort"}
      /\ ParseEnd => phase' = "write"
      /\ ~(phase = "parse" /\ phase' = "parse")
  BY DEF ParseEnd, Render
<1>2. token' \in Nat /\ token <= token' /\ token' <= Len(tokens) + 1
  BY <1>1, InvTyped, Lengths DEF Positions
<1>3. ParserInv'
  BY <1>1, <1>2, StaysInv DEF ParserInv, ParserTypeOK
<1> QED
  BY <1>1, <1>3 DEF Forward

\* A step of the parser keeps the invariant and moves forward.
LEMMA ParserStep ==
  ASSUME ParserInv, [Parse \/ Render]_parserVars
  PROVE  ParserInv' /\ [Forward]_parserVars
<1>1. CASE ParseInclude
  BY <1>1, IncludeInv
<1>2. CASE ParseDefine
  BY <1>2, DefineInv
<1>3. CASE ParseStub
  BY <1>3, StubInv
<1>4. CASE ParseComment
  BY <1>4, CommentInv
<1>5. CASE ParseStruct
  BY <1>5, StructInv
<1>6. CASE ParseFunc
  BY <1>6, FuncInv
<1>7. CASE ParseOther
  BY <1>7, AbortInv DEF ParseOther
<1>8. CASE ParseEnd \/ Render
  BY <1>8, EndInv
<1>9. CASE UNCHANGED parserVars
  BY <1>9 DEF parserVars, ParserInv, ParserTypeOK, InOrder
<1> QED
  BY <1>1, <1>2, <1>3, <1>4, <1>5, <1>6, <1>7, <1>8, <1>9 DEF Parse

\* The parser starts before the first element.
LEMMA ParserStart ==
  ASSUME Init
  PROVE  ParserInv
<1>1. Typed
  BY ParserAssumption DEF Init, Typed
<1>2. nodes \in Seq({}) /\ DOMAIN nodes = {}
  BY DEF Init
<1>3. token \in 1..(Len(tokens) + 1)
  BY <1>1, Lengths DEF Init
<1> QED
  BY <1>2, <1>3 DEF Init, ParserInv, ParserTypeOK, InOrder

\* The invariant holds throughout.
LEMMA ParserInvariant == ParserSpec => []ParserInv
<1>1. Init => ParserInv
  BY ParserStart
<1>2. ParserInv /\ [Parse \/ Render]_parserVars => ParserInv'
  BY ParserStep
<1> QED
  BY <1>1, <1>2, PTL DEF ParserSpec

\* Every node parse makes lies in the file, for every list of tokens, and the
\* names defined are tokens of it.
THEOREM ParserTypeCorrect == ParserSpec => []ParserTypeOK
<1>1. ParserInv => ParserTypeOK
  BY DEF ParserInv
<1> QED
  BY <1>1, ParserInvariant, PTL

\* Elements follow each other: no token of a file belongs to two of them.
THEOREM ParserElementsApart == ParserSpec => []InOrder
<1>1. ParserInv => InOrder
  BY DEF ParserInv
<1> QED
  BY <1>1, ParserInvariant, PTL

\* Every turn of the loop of parse moves forward, however malformed the file is,
\* and makes at most one node, of tokens it has passed.
THEOREM ParserMovesForward == ParserSpec => ParseForward
<1>1. ParserInv /\ [Parse \/ Render]_parserVars => [Forward]_parserVars
  BY ParserStep
<1> QED
  BY <1>1, ParserInvariant, PTL DEF ParseForward, Forward, ParserSpec

-----------------------------------------------------------------------------
(***************************************************************************)
(* The parts of the page, and their order                                  *)
(***************************************************************************)

\* An else block is shown twice, so nothing is said of the order then.
Elses == \E i \in DOMAIN tokens : tokens[i] = "else"
Ordered(a, b) == Elses \/ a <= b

Size(node) == node.end - node.start

\* A part starts where its token or its node does, and is before a position when
\* it ends there, or all it has behind that is whitespace.
Lo(part) == IF IsCall(part) THEN part.node.start ELSE part.token
Before(part, b) ==
  Elses \/ IF IsCall(part) THEN part.node.end <= b ELSE \A q \in b..part.token : Type(q) = "WS"

\* A call on a node of some nodes, which is less than w long, or a token.
Known(S, w, part) ==
  IF IsCall(part)
    THEN /\ part.node \in S /\ Size(part.node) < w
         /\ part.node.start \in Nat /\ part.node.end \in 0..(Len(tokens) + 1)
    ELSE part.token \in Nat

IsSeq(s) == \E T : s \in Seq(T)

\* What is written from a position up to another one, each part before the next.
Laid(S, w, s, a, b) ==
  /\ IsSeq(s) /\ a \in Nat /\ b \in Nat /\ Ordered(a, b)
  /\ \A i \in DOMAIN s : Known(S, w, s[i]) /\ Ordered(a, Lo(s[i])) /\ Before(s[i], b)
  /\ \A i, j \in DOMAIN s : i < j => Before(s[i], Lo(s[j]))

\* The program goes on when it writes this.
Whole(s) == \A i \in DOMAIN s : s[i] # Crash[1]

\* Only nodes of S are called on.
CallsOn(S, s) == IsSeq(s) /\ \A i \in DOMAIN s : IsCall(s[i]) => s[i].node \in S

\* What is written is laid so, or the program ends.
Writes(S, w, s, a, b) == CallsOn(S, s) /\ a \in Nat /\ b \in Nat /\ (Whole(s) => Laid(S, w, s, a, b))

\* A sequence has a length.
LEMMA SeqIs ==
  ASSUME NEW s, IsSeq(s)
  PROVE  Len(s) \in Nat /\ DOMAIN s = 1..Len(s)
BY DEF IsSeq

\* Where a known part starts is a position.
LEMMA LoIs ==
  ASSUME NEW S, NEW w, NEW part, Known(S, w, part)
  PROVE  Lo(part) \in Nat
<1>1. CASE IsCall(part)
  BY <1>1 DEF Known, Lo
<1>2. CASE ~IsCall(part)
  BY <1>2 DEF Known, Lo
<1> QED
  BY <1>1, <1>2

\* A part that is before a position is before those behind it.
LEMMA BeforeMore ==
  ASSUME NEW S, NEW w, NEW part, Known(S, w, part), NEW b \in Nat, NEW c \in Nat, Ordered(b, c), Before(part, b)
  PROVE  Before(part, c)
<1>1. CASE IsCall(part)
  <2>1. part.node.end \in Nat
    BY <1>1 DEF Known
  <2> QED
    BY <1>1, <2>1 DEF Before, Ordered
<1>2. CASE ~IsCall(part)
  BY <1>2 DEF Before, Ordered, Known
<1> QED
  BY <1>1, <1>2

\* Two sequences, one behind the other.
LEMMA Parts ==
  ASSUME NEW s, NEW t, IsSeq(s), IsSeq(t)
  PROVE  /\ IsSeq(s \o t) /\ Len(s \o t) = Len(s) + Len(t)
         /\ \A i \in DOMAIN s : i \in DOMAIN (s \o t) /\ (s \o t)[i] = s[i]
         /\ \A i \in DOMAIN t : Len(s) + i \in DOMAIN (s \o t) /\ (s \o t)[Len(s) + i] = t[i]
<1>1. PICK S : s \in Seq(S)
  BY DEF IsSeq
<1>2. PICK T : t \in Seq(T)
  BY DEF IsSeq
<1>3. s \in Seq(S \cup T) /\ t \in Seq(S \cup T)
  BY <1>1, <1>2
<1> DEFINE U == S \cup T
<1>4. s \in Seq(U) /\ t \in Seq(U)
  BY <1>3
<1> HIDE DEF U
<1>5. s \o t \in Seq(U)
  BY <1>4
<1>6. Len(s) \in Nat /\ Len(t) \in Nat /\ DOMAIN s = 1..Len(s) /\ DOMAIN t = 1..Len(t)
      /\ Len(s \o t) = Len(s) + Len(t) /\ DOMAIN (s \o t) = 1..(Len(s) + Len(t))
  BY <1>4
<1>7. \A i \in 1..(Len(s) + Len(t)) : (s \o t)[i] = IF i <= Len(s) THEN s[i] ELSE t[i - Len(s)]
  BY <1>4
<1>8. IsSeq(s \o t)
  BY <1>5 DEF IsSeq
<1> QED
  BY <1>6, <1>7, <1>8

\* The second one stands behind the first.
LEMMA PartsBehind ==
  ASSUME NEW s, NEW t, IsSeq(s), IsSeq(t), NEW i \in DOMAIN t
  PROVE  Len(s) + i \in DOMAIN (s \o t) /\ (s \o t)[Len(s) + i] = t[i]
BY Parts

\* There is nothing else in them.
LEMMA PartsOnly ==
  ASSUME NEW s, NEW t, IsSeq(s), IsSeq(t), NEW i \in DOMAIN (s \o t)
  PROVE  i \in DOMAIN s \/ (i - Len(s) \in DOMAIN t /\ (s \o t)[i] = t[i - Len(s)])
<1>1. /\ \A x \in DOMAIN t : (s \o t)[Len(s) + x] = t[x]
      /\ Len(s \o t) = Len(s) + Len(t) /\ IsSeq(s \o t)
  <2>1. \A x \in DOMAIN t : (s \o t)[Len(s) + x] = t[x]
    BY PartsBehind
  <2>2. Len(s \o t) = Len(s) + Len(t) /\ IsSeq(s \o t)
    BY Parts
  <2> QED
    BY <2>1, <2>2
<1>2. /\ Len(s) \in Nat /\ DOMAIN s = 1..Len(s) /\ Len(t) \in Nat /\ DOMAIN t = 1..Len(t)
      /\ DOMAIN (s \o t) = 1..Len(s \o t)
  BY <1>1, SeqIs
<1>3. i \in 1..(Len(s) + Len(t))
  BY <1>1, <1>2
<1>4. CASE i > Len(s)
  <2>1. i - Len(s) \in DOMAIN t /\ Len(s) + (i - Len(s)) = i
    BY <1>2, <1>3, <1>4
  <2> QED
    BY <1>1, <2>1
<1>5. CASE ~(i > Len(s))
  BY <1>2, <1>3, <1>5
<1> QED
  BY <1>4, <1>5

\* What is laid between two positions is laid between those around them.
LEMMA Widened ==
  ASSUME NEW S, NEW w, NEW s, NEW a, NEW b, Laid(S, w, s, a, b), NEW c \in Nat, NEW d \in Nat,
         Ordered(c, a), Ordered(b, d)
  PROVE  Laid(S, w, s, c, d)
<1>1. IsSeq(s) /\ a \in Nat /\ b \in Nat /\ Ordered(a, b) /\ Ordered(c, d)
  BY DEF Laid, Ordered
<1>2. ASSUME NEW i \in DOMAIN s
      PROVE  Known(S, w, s[i]) /\ Ordered(c, Lo(s[i])) /\ Before(s[i], d)
  <2>1. Known(S, w, s[i]) /\ Ordered(a, Lo(s[i])) /\ Before(s[i], b)
    BY DEF Laid
  <2>2. Lo(s[i]) \in Nat
    BY <2>1, LoIs
  <2>3. Ordered(c, Lo(s[i]))
    BY <1>1, <2>1, <2>2 DEF Ordered
  <2> QED
    BY <1>1, <2>1, <2>3, BeforeMore
<1> QED
  BY <1>1, <1>2 DEF Laid

\* What is laid from a position on goes on where the next is laid.
LEMMA Behinds ==
  ASSUME NEW S, NEW w, NEW s, NEW t, NEW a, NEW b, NEW c, Laid(S, w, s, a, b), Laid(S, w, t, b, c)
  PROVE  Laid(S, w, s \o t, a, c)
<1> DEFINE u == s \o t
           n == Len(s)
<1>1. IsSeq(s) /\ IsSeq(t) /\ a \in Nat /\ b \in Nat /\ c \in Nat
  BY DEF Laid
<1>0. Ordered(a, a) /\ Ordered(a, b) /\ Ordered(b, c) /\ Ordered(c, c)
  BY <1>1 DEF Laid, Ordered
<1>2. Laid(S, w, s, a, c) /\ Laid(S, w, t, a, c)
  BY <1>0, <1>1, Widened
<1>3. /\ IsSeq(u)
      /\ \A i \in DOMAIN u : i \in DOMAIN s \/ (i - n \in DOMAIN t /\ u[i] = t[i - n])
      /\ \A i \in DOMAIN s : u[i] = s[i]
      /\ n \in Nat /\ DOMAIN s = 1..n /\ Len(t) \in Nat /\ DOMAIN t = 1..Len(t)
      /\ Len(u) \in Nat /\ DOMAIN u = 1..Len(u)
  <2>1. \A i \in DOMAIN u : i \in DOMAIN s \/ (i - n \in DOMAIN t /\ u[i] = t[i - n])
    BY <1>1, PartsOnly
  <2>2. IsSeq(u) /\ \A i \in DOMAIN s : u[i] = s[i]
    BY <1>1, Parts
  <2> HIDE DEF u
  <2> QED
    BY <1>1, <2>1, <2>2, SeqIs
<1> HIDE DEF u, n
<1>4. ASSUME NEW i \in DOMAIN u
      PROVE  Known(S, w, u[i]) /\ Ordered(a, Lo(u[i])) /\ Before(u[i], c)
  <2>1. CASE i \in DOMAIN s
    BY <1>2, <1>3, <2>1 DEF Laid
  <2>2. CASE i - n \in DOMAIN t /\ u[i] = t[i - n]
    BY <1>2, <2>2 DEF Laid
  <2> QED
    BY <1>3, <2>1, <2>2
<1>5. ASSUME NEW i \in DOMAIN u, NEW j \in DOMAIN u, i < j
      PROVE  Before(u[i], Lo(u[j]))
  <2>1. CASE i \in DOMAIN s /\ j \in DOMAIN s
    BY <1>3, <1>5, <2>1 DEF Laid
  <2>2. CASE i \notin DOMAIN s /\ j \notin DOMAIN s
    <3>1. i - n \in DOMAIN t /\ u[i] = t[i - n] /\ j - n \in DOMAIN t /\ u[j] = t[j - n] /\ i - n < j - n
      BY <1>3, <1>5, <2>2
    <3> QED
      BY <3>1 DEF Laid
  <2>3. CASE i \in DOMAIN s /\ j \notin DOMAIN s
    <3>1. u[i] = s[i] /\ j - n \in DOMAIN t /\ u[j] = t[j - n]
      BY <1>3, <2>3
    <3>2. Known(S, w, s[i]) /\ Before(s[i], b)
      BY <2>3 DEF Laid
    <3>3. Known(S, w, t[j - n]) /\ Ordered(b, Lo(t[j - n]))
      BY <3>1 DEF Laid
    <3>4. Lo(t[j - n]) \in Nat
      BY <3>3, LoIs
    <3> QED
      BY <1>1, <3>1, <3>2, <3>3, <3>4, BeforeMore
  <2>4. CASE i \notin DOMAIN s /\ j \in DOMAIN s
    BY <1>3, <1>5, <2>4
  <2> QED
    BY <2>1, <2>2, <2>3, <2>4
<1>6. Laid(S, w, u, a, c)
  BY <1>1, <1>2, <1>3, <1>4, <1>5 DEF Laid
<1> QED
  BY <1>6 DEF u

\* Both of two sequences are whole, when they are together.
LEMMA WholeParts ==
  ASSUME NEW s, NEW t, IsSeq(s), IsSeq(t)
  PROVE  Whole(s \o t) <=> Whole(s) /\ Whole(t)
<1> DEFINE u == s \o t
           n == Len(s)
<1>1. /\ \A i \in DOMAIN s : i \in DOMAIN u /\ u[i] = s[i]
      /\ \A i \in DOMAIN t : n + i \in DOMAIN u /\ u[n + i] = t[i]
      /\ \A i \in DOMAIN u : i \in DOMAIN s \/ (i - n \in DOMAIN t /\ u[i] = t[i - n])
  <2>1. /\ \A i \in DOMAIN s : i \in DOMAIN u /\ u[i] = s[i]
        /\ \A i \in DOMAIN t : n + i \in DOMAIN u /\ u[n + i] = t[i]
    BY Parts
  <2>2. \A i \in DOMAIN u : i \in DOMAIN s \/ (i - n \in DOMAIN t /\ u[i] = t[i - n])
    BY PartsOnly
  <2> QED
    BY <2>1, <2>2
<1> HIDE DEF u, n
<1>2. Whole(u) => Whole(s) /\ Whole(t)
  BY <1>1 DEF Whole
<1>3. Whole(s) /\ Whole(t) => Whole(u)
  BY <1>1 DEF Whole
<1> QED
  BY <1>2, <1>3 DEF u

\* The calls of both sequences are those of the two together.
LEMMA CallsParts ==
  ASSUME NEW S, NEW s, NEW t, CallsOn(S, s), CallsOn(S, t)
  PROVE  CallsOn(S, s \o t)
<1>1. IsSeq(s) /\ IsSeq(t)
  BY DEF CallsOn
<1>2. IsSeq(s \o t) /\ \A i \in DOMAIN s : (s \o t)[i] = s[i]
  BY <1>1, Parts
<1>3. \A i \in DOMAIN (s \o t) : i \in DOMAIN s \/ (i - Len(s) \in DOMAIN t /\ (s \o t)[i] = t[i - Len(s)])
  BY <1>1, PartsOnly
<1> QED
  BY <1>2, <1>3 DEF CallsOn

\* What writes up to a position is followed by what writes from it.
LEMMA Then ==
  ASSUME NEW S, NEW w, NEW s, NEW t, NEW a, NEW b, NEW c, Writes(S, w, s, a, b), Writes(S, w, t, b, c)
  PROVE  Writes(S, w, s \o t, a, c)
<1>1. IsSeq(s) /\ IsSeq(t) /\ a \in Nat /\ c \in Nat
  BY DEF Writes, CallsOn
<1>2. CallsOn(S, s \o t)
  <2>1. CallsOn(S, s) /\ CallsOn(S, t)
    BY DEF Writes
  <2> QED
    BY <2>1, CallsParts
<1>3. Whole(s \o t) => Laid(S, w, s \o t, a, c)
  BY <1>1, WholeParts, Behinds DEF Writes
<1> QED
  BY <1>1, <1>2, <1>3 DEF Writes

\* It writes between the positions around it, too.
LEMMA Within ==
  ASSUME NEW S, NEW w, NEW s, NEW a, NEW b, Writes(S, w, s, a, b), NEW c \in Nat, NEW d \in Nat,
         Ordered(c, a), Ordered(b, d)
  PROVE  Writes(S, w, s, c, d)
BY Widened DEF Writes

\* A cell is no call.
LEMMA CellIs ==
  ASSUME NEW p, NEW class
  PROVE  ~IsCall(Cell(p, class)) /\ Cell(p, class).token = p
BY DEF IsCall, Cell

\* Nothing is written.
LEMMA Nothing ==
  ASSUME NEW S, NEW w, NEW a \in Nat
  PROVE  Writes(S, w, <<>>, a, a)
<1>1. IsSeq(<<>>)
  <2>1. <<>> \in Seq({})
    OBVIOUS
  <2> QED
    BY <2>1 DEF IsSeq
<1>2. DOMAIN <<>> = {}
  OBVIOUS
<1> QED
  BY <1>1, <1>2 DEF Writes, Laid, Ordered, CallsOn

\* A walk that misses its end ends the program.
LEMMA CrashIs ==
  /\ IsSeq(Crash) /\ ~Whole(Crash)
  /\ \A S, w : \A a, b \in Nat : Writes(S, w, Crash, a, b)
<1>1. Crash \in Seq({Crash[1]}) /\ 1 \in DOMAIN Crash
  BY DEF Crash
<1>2. IsSeq(Crash) /\ ~Whole(Crash)
  BY <1>1 DEF IsSeq, Whole
<1>3. \A S : CallsOn(S, Crash)
  <2>1. DOMAIN Crash = {1} /\ Crash[1] = Cell(0, "crash")
    BY DEF Crash
  <2> QED
    BY <1>2, <2>1, CellIs DEF CallsOn
<1> QED
  BY <1>2, <1>3 DEF Writes

\* Tokens, each with a class of its own, from a position up to another one.
LEMMA TokensAre ==
  ASSUME NEW S, NEW w, NEW from \in Nat, NEW to \in Nat, from <= to, NEW class
  PROVE  Writes(S, w, [i \in 1..(to - from) |-> Cell(from + i - 1, class[i])], from, to)
<1> DEFINE n == to - from
           s == [i \in 1..n |-> Cell(from + i - 1, class[i])]
<1>1. n \in Nat /\ from + n = to
  OBVIOUS
<1>2. s \in Seq({Cell(from + i - 1, class[i]) : i \in 1..n}) /\ DOMAIN s = 1..n
  <2> HIDE DEF n
  <2> QED
    BY <1>1
<1>3. \A i \in 1..n : s[i] = Cell(from + i - 1, class[i])
  OBVIOUS
<1> HIDE DEF n, s
<1>4. ASSUME NEW i \in 1..n PROVE ~IsCall(s[i]) /\ s[i].token = from + i - 1
  BY <1>3, CellIs
<1>5. ASSUME NEW i \in 1..n
      PROVE  Known(S, w, s[i]) /\ Ordered(from, Lo(s[i])) /\ Before(s[i], to)
  <2>1. ~IsCall(s[i]) /\ s[i].token = from + i - 1 /\ s[i].token \in Nat /\ from <= s[i].token /\ s[i].token < to
    BY <1>1, <1>4
  <2> QED
    BY <2>1 DEF Known, Lo, Ordered, Before
<1>6. ASSUME NEW i \in 1..n, NEW j \in 1..n, i < j PROVE Before(s[i], Lo(s[j]))
  <2>1. ~IsCall(s[i]) /\ ~IsCall(s[j]) /\ s[i].token \in Nat /\ s[j].token \in Nat /\ s[i].token < s[j].token
    BY <1>1, <1>4, <1>6
  <2> QED
    BY <2>1 DEF Lo, Before
<1>7. Laid(S, w, s, from, to)
  BY <1>1, <1>2, <1>5, <1>6 DEF Laid, IsSeq, Ordered
<1>8. CallsOn(S, s)
  BY <1>2, <1>4 DEF CallsOn, IsSeq
<1> QED
  BY <1>7, <1>8 DEF Writes, s, n

\* A walk from a token to another one.
LEMMA SpanIs ==
  ASSUME NEW S, NEW w, NEW from \in Nat, NEW to \in Nat, NEW class
  PROVE  Writes(S, w, Span(from, to, class), from, to)
<1>1. CASE from > to
  BY <1>1, CrashIs DEF Span
<1>2. CASE ~(from > to)
  <2> DEFINE n == to - from
             classes == [i \in 1..n |-> class]
  <2>1. Writes(S, w, [i \in 1..n |-> Cell(from + i - 1, classes[i])], from, to)
    <3>1. from <= to
      BY <1>2
    <3> HIDE DEF classes
    <3> QED
      BY <3>1, TokensAre
  <2>2. [i \in 1..n |-> Cell(from + i - 1, classes[i])] = [i \in 1..n |-> Cell(from + i - 1, class)]
    OBVIOUS
  <2>3. Span(from, to, class) = [i \in 1..n |-> Cell(from + i - 1, class)]
    BY <1>2 DEF Span
  <2> QED
    BY <2>1, <2>2, <2>3
<1> QED
  BY <1>1, <1>2

\* One without classes,
LEMMA PlainIs ==
  ASSUME NEW S, NEW w, NEW from \in Nat, NEW to \in Nat
  PROVE  Writes(S, w, Plain(from, to), from, to)
BY SpanIs DEF Plain

\* and one token.
LEMMA OneIs ==
  ASSUME NEW S, NEW w, NEW p \in Nat, NEW class
  PROVE  Writes(S, w, One(p, class), p, p + 1)
<1>1. p + 1 \in Nat
  OBVIOUS
<1> QED
  BY <1>1, SpanIs DEF One

\* A call on one of the nodes.
LEMMA NestedIs ==
  ASSUME NEW S, NEW w, NEW node \in S, node.start \in Nat, node.end \in 0..(Len(tokens) + 1),
         Ordered(node.start, node.end), Size(node) < w
  PROVE  Writes(S, w, Nested(node), node.start, node.end)
<1> DEFINE s == <<[node |-> node]>>
<1>1. s \in Seq({[node |-> node]}) /\ DOMAIN s = 1..1 /\ s[1] = [node |-> node]
  OBVIOUS
<1>2. IsCall(s[1]) /\ s[1].node = node
  BY DEF IsCall
<1> HIDE DEF s
<1>3. Known(S, w, s[1]) /\ Ordered(node.start, Lo(s[1])) /\ Before(s[1], node.end)
  BY <1>2 DEF Known, Lo, Ordered, Before
<1>4. node.end \in Nat
  OBVIOUS
<1>5. Laid(S, w, s, node.start, node.end)
  BY <1>1, <1>3, <1>4 DEF Laid, IsSeq
<1>6. CallsOn(S, s)
  BY <1>1, <1>2 DEF CallsOn, IsSeq
<1> QED
  BY <1>4, <1>5, <1>6 DEF Writes, Nested, s

\* Every whitespace token from a position on: all that is written lies at it.
LEMMA WsIs ==
  ASSUME NEW S, NEW w, Typed, NEW p \in 0..(Len(tokens) + 1)
  PROVE  Writes(S, w, write_ws(p), p, p)
<1> DEFINE T == {q \in p..(Len(tokens) + 1) : Type(q) # "WS"}
           m == Min(T)
<1>1. Len(tokens) \in Nat
  BY Lengths
<1>2. T \subseteq Nat /\ T # {}
  <2>1. Type(Len(tokens) + 1) = "NULL"
    BY <1>1, Lengths DEF Type
  <2>2. Len(tokens) + 1 \in T
    BY <1>1, <2>1
  <2> QED
    BY <1>1, <2>2
<1>3. \E x \in T : \A y \in T : x <= y
  <2> HIDE DEF T
  <2> QED
    BY <1>2, LeastNat
<1>4. m \in T /\ \A y \in T : m <= y
  BY <1>3 DEF Min
<1>5. m \in Nat /\ p <= m
  BY <1>1, <1>4
<1>6. \A q \in p..(m - 1) : Type(q) = "WS"
  BY <1>1, <1>4
<1>7. write_ws(p) = Plain(p, m)
  BY DEF write_ws
<1> HIDE DEF m, T
<1>8. write_ws(p) = [i \in 1..(m - p) |-> Cell(p + i - 1, "")]
  <2>1. p \in Nat /\ ~(p > m)
    BY <1>5
  <2> QED
    BY <1>7, <2>1 DEF Plain, Span
<1>9. Writes(S, w, write_ws(p), p, m)
  BY <1>5, <1>7, PlainIs
<1>10. ASSUME Laid(S, w, write_ws(p), p, m) PROVE Laid(S, w, write_ws(p), p, p)
  <2>1. ASSUME NEW i \in DOMAIN write_ws(p) PROVE Before(write_ws(p)[i], p)
    <3>1. i \in 1..(m - p) /\ write_ws(p)[i] = Cell(p + i - 1, "")
      BY <1>8
    <3>2. ~IsCall(write_ws(p)[i]) /\ write_ws(p)[i].token = p + i - 1
      BY <3>1, CellIs
    <3>3. \A q \in p..(p + i - 1) : Type(q) = "WS"
      <4>0. p \in Nat
        OBVIOUS
      <4>9. i \in 1..(m - p)
        BY <3>1
      <4>1. i \in Nat /\ i <= m - p
        BY <1>5, <4>0, <4>9
      <4>2. p..(p + i - 1) \subseteq p..(m - 1)
        BY <1>5, <4>0, <4>1
      <4> QED
        BY <1>6, <4>2
    <3> QED
      BY <3>2, <3>3 DEF Before
  <2> QED
    BY <1>10, <2>1 DEF Laid, Ordered
<1> QED
  BY <1>5, <1>9, <1>10 DEF Writes

-----------------------------------------------------------------------------
(***************************************************************************)
(* Sequences put together                                                  *)
(***************************************************************************)

\* u is made of the first k sequences of ss: nothing is lost, and what stands
\* before something in it does so in one of them, or stands in an earlier one.
Spread(ss, k, u) ==
  /\ IsSeq(u)
  /\ \A x \in DOMAIN u : \E i \in 1..k : \E p \in DOMAIN ss[i] : u[x] = ss[i][p]
  /\ \A i \in 1..k : \A p \in DOMAIN ss[i] : \E x \in DOMAIN u : u[x] = ss[i][p]
  /\ \A x, y \in DOMAIN u : x < y =>
       \/ \E i \in 1..k : \E p, q \in DOMAIN ss[i] : p < q /\ u[x] = ss[i][p] /\ u[y] = ss[i][q]
       \/ \E i, j \in 1..k : i < j /\ \E p \in DOMAIN ss[i], q \in DOMAIN ss[j] :
                                         u[x] = ss[i][p] /\ u[y] = ss[j][q]

\* The first sequence is made of itself.
LEMMA SpreadOne ==
  ASSUME NEW ss, IsSeq(ss[1])
  PROVE  Spread(ss, 1, ss[1])
<1>1. 1..1 = {1}
  OBVIOUS
<1> QED
  BY <1>1 DEF Spread

\* One more sequence is put behind the others.
LEMMA SpreadNext ==
  ASSUME NEW ss, NEW k \in Nat \ {0}, NEW u, Spread(ss, k, u), IsSeq(ss[k + 1])
  PROVE  Spread(ss, k + 1, u \o ss[k + 1])
<1> DEFINE t == ss[k + 1]
           v == u \o t
           n == Len(u)
<1>1. IsSeq(u) /\ IsSeq(t)
  BY DEF Spread
<1>2. /\ IsSeq(v)
      /\ \A i \in DOMAIN u : i \in DOMAIN v /\ v[i] = u[i]
      /\ \A i \in DOMAIN t : n + i \in DOMAIN v /\ v[n + i] = t[i]
  <2>1. IsSeq(v)
    BY <1>1, Parts
  <2>2. \A i \in DOMAIN u : i \in DOMAIN v /\ v[i] = u[i]
    BY <1>1, Parts
  <2>3. \A i \in DOMAIN t : n + i \in DOMAIN v /\ v[n + i] = t[i]
    BY <1>1, PartsBehind
  <2> QED
    BY <2>1, <2>2, <2>3
<1>3. \A i \in DOMAIN v : i \in DOMAIN u \/ (i - n \in DOMAIN t /\ v[i] = t[i - n])
  BY <1>1, PartsOnly
<1>4. /\ n \in Nat /\ DOMAIN u = 1..n /\ Len(t) \in Nat /\ DOMAIN t = 1..Len(t)
      /\ Len(v) \in Nat /\ DOMAIN v = 1..Len(v)
  BY <1>1, <1>2, SeqIs
<1> HIDE DEF v, n
<1>5. t = ss[k + 1]
  OBVIOUS
<1> HIDE DEF t
<1>6. 1..k \subseteq 1..(k + 1) /\ k + 1 \in 1..(k + 1) /\ \A i \in 1..k : i < k + 1
  OBVIOUS
<1>7. ASSUME NEW x \in DOMAIN v
      PROVE  \E i \in 1..(k + 1) : \E p \in DOMAIN ss[i] : v[x] = ss[i][p]
  <2>1. CASE x \in DOMAIN u
    <3>1. PICK i \in 1..k : \E p \in DOMAIN ss[i] : u[x] = ss[i][p]
      BY <2>1 DEF Spread
    <3> QED
      BY <1>2, <1>6, <2>1, <3>1
  <2>2. CASE x - n \in DOMAIN t /\ v[x] = t[x - n]
    BY <1>5, <1>6, <2>2
  <2> QED
    BY <1>3, <2>1, <2>2
<1>8. ASSUME NEW i \in 1..(k + 1), NEW p \in DOMAIN ss[i]
      PROVE  \E x \in DOMAIN v : v[x] = ss[i][p]
  <2>1. CASE i \in 1..k
    <3>1. PICK x \in DOMAIN u : u[x] = ss[i][p]
      BY <2>1 DEF Spread
    <3> QED
      BY <1>2, <3>1
  <2>2. CASE i = k + 1
    BY <1>2, <1>5, <2>2
  <2> QED
    BY <2>1, <2>2
<1>9. ASSUME NEW x \in DOMAIN v, NEW y \in DOMAIN v, x < y
      PROVE  \/ \E i \in 1..(k + 1) : \E p, q \in DOMAIN ss[i] : p < q /\ v[x] = ss[i][p] /\ v[y] = ss[i][q]
             \/ \E i, j \in 1..(k + 1) : i < j /\ \E p \in DOMAIN ss[i], q \in DOMAIN ss[j] :
                                                   v[x] = ss[i][p] /\ v[y] = ss[j][q]
  <2>1. CASE y \in DOMAIN u
    <3>1. x \in DOMAIN u /\ v[x] = u[x] /\ v[y] = u[y]
      BY <1>2, <1>4, <1>9, <2>1
    <3>2. \/ \E i \in 1..k : \E p, q \in DOMAIN ss[i] : p < q /\ u[x] = ss[i][p] /\ u[y] = ss[i][q]
          \/ \E i, j \in 1..k : i < j /\ \E p \in DOMAIN ss[i], q \in DOMAIN ss[j] :
                                            u[x] = ss[i][p] /\ u[y] = ss[j][q]
      BY <1>9, <2>1, <3>1 DEF Spread
    <3> QED
      BY <1>6, <3>1, <3>2
  <2>2. CASE x \in DOMAIN u /\ y - n \in DOMAIN t /\ v[y] = t[y - n]
    <3>1. PICK i \in 1..k : \E p \in DOMAIN ss[i] : u[x] = ss[i][p]
      BY <2>2 DEF Spread
    <3>2. PICK p \in DOMAIN ss[i] : v[x] = ss[i][p]
      BY <1>2, <2>2, <3>1
    <3>3. v[y] = ss[k + 1][y - n] /\ y - n \in DOMAIN ss[k + 1]
      BY <1>5, <2>2
    <3> QED
      BY <1>6, <3>2, <3>3
  <2>3. CASE x \notin DOMAIN u /\ y - n \in DOMAIN t /\ v[y] = t[y - n]
    <3>1. x - n \in DOMAIN t /\ v[x] = t[x - n]
      BY <1>3, <2>3
    <3>2. x - n < y - n
      BY <1>4, <1>9
    <3> QED
      BY <1>5, <1>6, <2>3, <3>1, <3>2
  <2> QED
    BY <1>3, <2>1, <2>2, <2>3
<1>10. Spread(ss, k + 1, v)
  BY <1>2, <1>7, <1>8, <1>9 DEF Spread
<1> QED
  BY <1>10 DEF v, t

\* There is a function as FlattenSeq is written.
LEMMA FlattenExists ==
  ASSUME NEW ss, NEW n \in Nat
  PROVE  \E g : g = [i \in 1..n |-> IF i = 1 THEN ss[i] ELSE g[i - 1] \o ss[i]]
<1> DEFINE Upto(g, m) == \A i \in 1..m : g[i] = IF i = 1 THEN ss[i] ELSE g[i - 1] \o ss[i]
           T == {m \in 0..n : \E g : Upto(g, m)}
<1>1. 0 \in T
  <2>1. Upto(<<>>, 0)
    OBVIOUS
  <2> QED
    BY <2>1
<1>2. ASSUME NEW m \in 0..(n - 1), m \in T PROVE m + 1 \in T
  <2>1. PICK g : Upto(g, m)
    BY <1>2
  <2> DEFINE h == [i \in 1..(m + 1) |-> IF i = 1 THEN ss[i] ELSE g[i - 1] \o ss[i]]
  <2>2. \A i \in 1..(m + 1) : h[i] = IF i = 1 THEN ss[i] ELSE g[i - 1] \o ss[i]
    OBVIOUS
  <2> HIDE DEF h
  <2>3. \A i \in 1..m : h[i] = g[i]
    BY <2>1, <2>2
  <2>4. ASSUME NEW i \in 1..(m + 1) PROVE h[i] = IF i = 1 THEN ss[i] ELSE h[i - 1] \o ss[i]
    <3>1. CASE i = 1
      BY <2>2, <3>1
    <3>2. CASE i # 1
      <4>1. i - 1 \in 1..m
        BY <3>2
      <4> QED
        BY <2>2, <2>3, <3>2, <4>1
    <3> QED
      BY <3>1, <3>2
  <2>5. Upto(h, m + 1)
    BY <2>4
  <2> HIDE DEF Upto
  <2>6. m + 1 \in 0..n
    OBVIOUS
  <2> QED
    BY <2>5, <2>6
<1>3. n \in T
  <2> HIDE DEF T
  <2>1. 0..n \subseteq T
    BY <1>1, <1>2, InductionUpTo
  <2> QED
    BY <2>1
<1>4. PICK g : Upto(g, n)
  BY <1>3
<1> DEFINE f == [i \in 1..n |-> g[i]]
<1>5. f = [i \in 1..n |-> IF i = 1 THEN ss[i] ELSE f[i - 1] \o ss[i]]
  <2>1. \A i \in 1..n : f[i] = g[i]
    OBVIOUS
  <2>2. f = [i \in 1..n |-> f[i]]
    OBVIOUS
  <2> HIDE DEF f
  <2>3. ASSUME NEW i \in 1..n PROVE f[i] = IF i = 1 THEN ss[i] ELSE f[i - 1] \o ss[i]
    <3>1. CASE i = 1
      BY <1>4, <2>1, <3>1
    <3>2. CASE i # 1
      <4>1. i - 1 \in 1..n
        BY <3>2
      <4> QED
        BY <1>4, <2>1, <3>2, <4>1
    <3> QED
      BY <3>1, <3>2
  <2> QED
    BY <2>2, <2>3
<1> QED
  BY <1>5

\* FlattenSeq puts one sequence after the other behind the first.
Steps(f, ss) == \A i \in 1..Len(ss) : f[i] = IF i = 1 THEN ss[i] ELSE f[i - 1] \o ss[i]

\* It ends with the last of these steps.
LEMMA FlattenSteps ==
  ASSUME NEW ss, IsSeq(ss), Len(ss) # 0
  PROVE  \E f : Steps(f, ss) /\ FlattenSeq(ss) = f[Len(ss)]
<1> DEFINE n == Len(ss)
           Solves(g) == g = [i \in 1..n |-> IF i = 1 THEN ss[i] ELSE g[i - 1] \o ss[i]]
           f == CHOOSE g : Solves(g)
<1>1. n \in Nat
  BY SeqIs
<1>2. \E g : Solves(g)
  BY <1>1, FlattenExists
<1>3. Solves(f)
  BY <1>2
<1>4. FlattenSeq(ss) = f[n]
  BY DEF FlattenSeq
<1> HIDE DEF f
<1>5. Steps(f, ss)
  BY <1>3 DEF Steps
<1> QED
  BY <1>4, <1>5

\* Nothing is put together to nothing.
LEMMA FlattenNone ==
  ASSUME NEW ss, IsSeq(ss), Len(ss) = 0
  PROVE  FlattenSeq(ss) = <<>> /\ DOMAIN ss = {}
<1>1. DOMAIN ss = {}
  BY SeqIs
<1>2. ss = <<>>
  BY DEF IsSeq
<1> QED
  BY <1>1, <1>2 DEF FlattenSeq

\* What sequences are put together to is made of all of them.
LEMMA FlattenIs ==
  ASSUME NEW ss, IsSeq(ss), \A i \in DOMAIN ss : IsSeq(ss[i])
  PROVE  Spread(ss, Len(ss), FlattenSeq(ss))
<1> DEFINE n == Len(ss)
<1>1. n \in Nat /\ DOMAIN ss = 1..n
  BY SeqIs
<1>2. CASE n = 0
  <2>1. FlattenSeq(ss) = <<>> /\ 1..n = {} /\ DOMAIN <<>> = {} /\ <<>> \in Seq({})
    BY <1>2, FlattenNone
  <2> QED
    BY <2>1 DEF Spread, IsSeq
<1>3. CASE n # 0
  <2>1. PICK f : Steps(f, ss) /\ FlattenSeq(ss) = f[n]
    BY <1>3, FlattenSteps
  <2>4. \A i \in 1..n : f[i] = IF i = 1 THEN ss[i] ELSE f[i - 1] \o ss[i]
    BY <2>1 DEF Steps
  <2> HIDE DEF n
  <2> DEFINE T == {m \in 0..(n - 1) : Spread(ss, m + 1, f[m + 1])}
  <2>5. n - 1 \in Nat
    BY <1>1, <1>3
  <2>6. 0 \in T
    <3>1. f[1] = ss[1] /\ 1 \in DOMAIN ss
      BY <1>1, <2>4, <2>5
    <3>2. Spread(ss, 0 + 1, f[0 + 1])
      BY <3>1, SpreadOne
    <3> QED
      BY <2>5, <3>2
  <2>7. ASSUME NEW m \in 0..((n - 1) - 1), m \in T PROVE m + 1 \in T
    <3>1. m + 2 \in 1..n /\ m + 2 # 1 /\ (m + 2) - 1 = m + 1 /\ m + 1 \in Nat \ {0} /\ m + 1 \in 0..(n - 1)
          /\ (m + 1) + 1 = m + 2
      BY <1>1, <2>5
    <3>2. f[m + 2] = f[m + 1] \o ss[m + 2]
      BY <2>4, <3>1
    <3>3. Spread(ss, m + 1, f[m + 1]) /\ IsSeq(ss[m + 2])
      BY <1>1, <2>7, <3>1
    <3>4. Spread(ss, (m + 1) + 1, f[m + 1] \o ss[(m + 1) + 1])
      BY <3>1, <3>3, SpreadNext
    <3>5. Spread(ss, (m + 1) + 1, f[(m + 1) + 1])
      BY <3>1, <3>2, <3>4
    <3> QED
      BY <3>1, <3>5
  <2>8. n - 1 \in T
    <3> HIDE DEF T
    <3>1. 0..(n - 1) \subseteq T
      BY <2>5, <2>6, <2>7, InductionUpTo
    <3> QED
      BY <2>5, <3>1
  <2>9. Spread(ss, (n - 1) + 1, f[(n - 1) + 1])
    BY <2>8
  <2>10. (n - 1) + 1 = n
    BY <1>1
  <2>11. Spread(ss, n, f[n])
    BY <2>9, <2>10
  <2> QED
    BY <2>1, <2>11 DEF n
<1> QED
  BY <1>2, <1>3

\* Sequences that are written between positions one after the other.
LEMMA FlattenWrites ==
  ASSUME NEW S, NEW w, NEW ss, IsSeq(ss), NEW at, at[1] \in Nat,
         \A i \in DOMAIN ss : Writes(S, w, ss[i], at[i], at[i + 1])
  PROVE  Writes(S, w, FlattenSeq(ss), at[1], at[Len(ss) + 1])
<1> DEFINE n == Len(ss)
<1>1. n \in Nat /\ DOMAIN ss = 1..n
  BY SeqIs
<1>2. CASE n = 0
  <2>1. FlattenSeq(ss) = <<>> /\ n + 1 = 1
    BY <1>2, FlattenNone
  <2> QED
    BY <2>1, Nothing
<1>3. CASE n # 0
  <2>1. PICK f : Steps(f, ss) /\ FlattenSeq(ss) = f[n]
    BY <1>3, FlattenSteps
  <2>4. \A i \in 1..n : f[i] = IF i = 1 THEN ss[i] ELSE f[i - 1] \o ss[i]
    BY <2>1 DEF Steps
  <2> HIDE DEF n
  <2> DEFINE T == {m \in 0..(n - 1) : Writes(S, w, f[m + 1], at[1], at[m + 2])}
  <2>5. n - 1 \in Nat
    BY <1>1, <1>3
  <2>6. 0 \in T
    <3>1. f[1] = ss[1] /\ 1 \in DOMAIN ss
      BY <1>1, <2>4, <2>5
    <3>2. Writes(S, w, f[0 + 1], at[1], at[0 + 2])
      BY <3>1
    <3> QED
      BY <2>5, <3>2
  <2>7. ASSUME NEW m \in 0..((n - 1) - 1), m \in T PROVE m + 1 \in T
    <3>1. m + 2 \in 1..n /\ m + 2 # 1 /\ (m + 2) - 1 = m + 1 /\ m + 1 \in 0..(n - 1)
          /\ (m + 1) + 1 = m + 2 /\ (m + 2) + 1 = (m + 1) + 2
      BY <1>1, <2>5
    <3>2. f[m + 2] = f[m + 1] \o ss[m + 2]
      BY <2>4, <3>1
    <3>3. Writes(S, w, f[m + 1], at[1], at[m + 2])
      BY <2>7
    <3>4. Writes(S, w, ss[m + 2], at[m + 2], at[(m + 2) + 1])
      BY <1>1, <3>1
    <3>5. Writes(S, w, f[m + 2], at[1], at[(m + 2) + 1])
      BY <3>2, <3>3, <3>4, Then
    <3>6. Writes(S, w, f[(m + 1) + 1], at[1], at[(m + 1) + 2])
      BY <3>1, <3>5
    <3> QED
      BY <3>1, <3>6
  <2>8. n - 1 \in T
    <3> HIDE DEF T
    <3>1. 0..(n - 1) \subseteq T
      BY <2>5, <2>6, <2>7, InductionUpTo
    <3> QED
      BY <2>5, <3>1
  <2>9. Writes(S, w, f[(n - 1) + 1], at[1], at[(n - 1) + 2])
    BY <2>8
  <2>10. (n - 1) + 1 = n /\ (n - 1) + 2 = n + 1
    BY <1>1
  <2>11. Writes(S, w, f[n], at[1], at[n + 1])
    BY <2>9, <2>10
  <2> QED
    BY <2>1, <2>11 DEF n
<1> QED
  BY <1>2, <1>3

-----------------------------------------------------------------------------
(***************************************************************************)
(* The calls, carried out                                                  *)
(***************************************************************************)

\* Each node of S is written where it stands, with calls on nodes inside it.
Shown(S) ==
  \A x \in S : /\ x.start \in Nat /\ x.end \in 0..(Len(tokens) + 1) /\ x.start <= x.end
               /\ Writes(S, Size(x), write_statement(x), x.start, x.end)

\* What stands for a part when its call is carried out.
InPlace(part) == IF IsCall(part) THEN write_statement(part.node) ELSE <<part>>

\* Carried puts together what stands for each part.
LEMMA CarriedIs ==
  ASSUME NEW s, IsSeq(s)
  PROVE  /\ Carried(s) = FlattenSeq([i \in DOMAIN s |-> InPlace(s[i])])
         /\ IsSeq([i \in DOMAIN s |-> InPlace(s[i])])
         /\ Len([i \in DOMAIN s |-> InPlace(s[i])]) = Len(s)
<1> DEFINE n == Len(s)
           ss == [i \in 1..n |-> InPlace(s[i])]
<1>1. n \in Nat /\ DOMAIN s = 1..n
  BY SeqIs
<1> HIDE DEF n
<1>2. ss \in Seq({InPlace(s[i]) : i \in 1..n}) /\ Len(ss) = n
  BY <1>1
<1>3. Carried(s) = FlattenSeq(ss)
  BY <1>1 DEF Carried, InPlace
<1> QED
  BY <1>1, <1>2, <1>3 DEF IsSeq, n

\* A call in S is carried out in S.
LEMMA InPlaceSeq ==
  ASSUME NEW S, Shown(S), NEW s, CallsOn(S, s), NEW i \in DOMAIN s
  PROVE  CallsOn(S, InPlace(s[i]))
<1>1. CASE IsCall(s[i])
  <2>1. s[i].node \in S
    BY <1>1 DEF CallsOn
  <2> QED
    BY <1>1, <2>1 DEF Shown, Writes, InPlace
<1>2. CASE ~IsCall(s[i])
  <2> DEFINE part == s[i]
             t == <<part>>
  <2>1. t \in Seq({part}) /\ DOMAIN t = {1} /\ t[1] = part
    OBVIOUS
  <2> HIDE DEF part, t
  <2>2. ~IsCall(part)
    BY <1>2 DEF part
  <2>3. CallsOn(S, t)
    BY <2>1, <2>2 DEF CallsOn, IsSeq
  <2> QED
    BY <1>2, <2>3 DEF InPlace, part, t
<1> QED
  BY <1>1, <1>2

\* So are all of them.
LEMMA CarriedSeq ==
  ASSUME NEW S, Shown(S), NEW s, CallsOn(S, s)
  PROVE  CallsOn(S, Carried(s)) /\ Spread([i \in DOMAIN s |-> InPlace(s[i])], Len(s), Carried(s))
<1> DEFINE ss == [i \in DOMAIN s |-> InPlace(s[i])]
<1>1. IsSeq(s) /\ Len(s) \in Nat /\ DOMAIN s = 1..Len(s)
  BY SeqIs DEF CallsOn
<1>2. \A i \in DOMAIN s : ss[i] = InPlace(s[i])
  OBVIOUS
<1>3. DOMAIN ss = DOMAIN s
  OBVIOUS
<1>4. Carried(s) = FlattenSeq(ss) /\ IsSeq(ss) /\ Len(ss) = Len(s)
  BY <1>1, CarriedIs
<1> HIDE DEF ss
<1>5. \A i \in DOMAIN ss : CallsOn(S, ss[i])
  BY <1>2, <1>3, InPlaceSeq
<1>6. Spread(ss, Len(s), Carried(s))
  BY <1>4, <1>5, FlattenIs DEF CallsOn
<1>7. ASSUME NEW x \in DOMAIN Carried(s), IsCall(Carried(s)[x]) PROVE Carried(s)[x].node \in S
  <2>1. PICK i \in 1..Len(s) : \E p \in DOMAIN ss[i] : Carried(s)[x] = ss[i][p]
    BY <1>6 DEF Spread
  <2>2. PICK p \in DOMAIN ss[i] : Carried(s)[x] = ss[i][p]
    BY <2>1
  <2>3. CallsOn(S, ss[i])
    BY <1>1, <1>3, <1>5
  <2> QED
    BY <1>7, <2>2, <2>3 DEF CallsOn
<1>8. CallsOn(S, Carried(s))
  BY <1>6, <1>7 DEF CallsOn, Spread
<1> QED
  BY <1>6, <1>8 DEF ss

\* What stands for a part lies where the part does, and its calls are shorter.
LEMMA InPlaceIs ==
  ASSUME NEW S, Shown(S), NEW w \in Int, NEW part, Known(S, w, part), Whole(InPlace(part)),
         NEW p \in DOMAIN InPlace(part)
  PROVE  /\ Known(S, w - 1, InPlace(part)[p])
         /\ Ordered(Lo(part), Lo(InPlace(part)[p]))
         /\ \A c \in Nat : Before(part, c) => Before(InPlace(part)[p], c)
         /\ \A q \in DOMAIN InPlace(part) : p < q => Before(InPlace(part)[p], Lo(InPlace(part)[q]))
<1> DEFINE t == InPlace(part)
<1>1. CASE IsCall(part)
  <2> DEFINE x == part.node
  <2>1. x \in S /\ Size(x) < w
    BY <1>1 DEF Known
  <2>2. x.start \in Nat /\ x.end \in Nat /\ Writes(S, Size(x), write_statement(x), x.start, x.end)
    BY <2>1 DEF Shown
  <2>3. t = write_statement(x) /\ Lo(part) = x.start
    BY <1>1 DEF InPlace, Lo
  <2>4. \A c : Before(part, c) => Ordered(x.end, c)
    BY <1>1 DEF Before, Ordered
  <2>5. Size(x) \in Int
    BY <2>2 DEF Size
  <2> HIDE DEF x
  <2>6. Laid(S, Size(x), t, x.start, x.end)
    BY <2>2, <2>3 DEF Writes
  <2> HIDE DEF t
  <2>7. Known(S, Size(x), t[p]) /\ Ordered(x.start, Lo(t[p])) /\ Before(t[p], x.end)
    BY <2>6 DEF Laid, t
  <2>8. Known(S, w - 1, t[p])
    <3>1. CASE IsCall(t[p])
      <4>1. t[p].node.start \in Nat /\ t[p].node.end \in Nat /\ Size(t[p].node) < Size(x)
        BY <2>7, <3>1 DEF Known
      <4>2. Size(t[p].node) \in Int
        BY <4>1 DEF Size
      <4>3. Size(t[p].node) < w - 1
        BY <2>1, <2>5, <4>1, <4>2
      <4> QED
        BY <2>7, <3>1, <4>3 DEF Known
    <3>2. CASE ~IsCall(t[p])
      BY <2>7, <3>2 DEF Known
    <3> QED
      BY <3>1, <3>2
  <2>9. ASSUME NEW c \in Nat, Before(part, c) PROVE Before(t[p], c)
    BY <2>2, <2>4, <2>7, <2>9, BeforeMore
  <2>10. \A q \in DOMAIN t : p < q => Before(t[p], Lo(t[q]))
    BY <2>6 DEF Laid, t
  <2> QED
    BY <2>3, <2>7, <2>8, <2>9, <2>10 DEF t
<1>2. CASE ~IsCall(part)
  <2>1. t = <<part>>
    BY <1>2 DEF InPlace
  <2>2. t[p] = part /\ \A q \in DOMAIN t : ~(p < q)
    BY <2>1
  <2>3. Known(S, w - 1, part)
    BY <1>2 DEF Known
  <2>4. Ordered(Lo(part), Lo(part))
    BY LoIs DEF Ordered
  <2> HIDE DEF t
  <2> QED
    BY <2>2, <2>3, <2>4 DEF t
<1> QED
  BY <1>1, <1>2

\* What is laid is laid the same way when its calls are carried out.
LEMMA CarriedLaid ==
  ASSUME NEW S, Shown(S), NEW w \in Int, NEW s, CallsOn(S, s), NEW a, NEW b, Laid(S, w, s, a, b),
         Whole(Carried(s))
  PROVE  Laid(S, w - 1, Carried(s), a, b)
<1> DEFINE ss == [i \in DOMAIN s |-> InPlace(s[i])]
           u == Carried(s)
<1>1. Spread(ss, Len(s), u) /\ CallsOn(S, u)
  BY CarriedSeq
<1>2. \A i \in DOMAIN s : ss[i] = InPlace(s[i])
  OBVIOUS
<1>3. IsSeq(s) /\ DOMAIN s = 1..Len(s) /\ a \in Nat /\ b \in Nat /\ Ordered(a, b)
  BY SeqIs DEF Laid
<1> HIDE DEF ss
<1>4. Whole(u)
  OBVIOUS
<1> HIDE DEF u
<1>5. ASSUME NEW i \in DOMAIN s PROVE Whole(InPlace(s[i]))
  <2>1. \A p \in DOMAIN InPlace(s[i]) : \E x \in DOMAIN u : u[x] = InPlace(s[i])[p]
    BY <1>1, <1>2, <1>3 DEF Spread
  <2> QED
    BY <1>4, <2>1 DEF Whole
<1>6. ASSUME NEW i \in DOMAIN s, NEW p \in DOMAIN InPlace(s[i])
      PROVE  /\ Known(S, w - 1, InPlace(s[i])[p])
             /\ Ordered(a, Lo(InPlace(s[i])[p]))
             /\ Ordered(Lo(s[i]), Lo(InPlace(s[i])[p]))
             /\ \A c \in Nat : Before(s[i], c) => Before(InPlace(s[i])[p], c)
             /\ \A q \in DOMAIN InPlace(s[i]) : p < q => Before(InPlace(s[i])[p], Lo(InPlace(s[i])[q]))
  <2> DEFINE part == s[i]
             x == InPlace(part)[p]
  <2>1. Known(S, w, part) /\ Ordered(a, Lo(part))
    BY DEF Laid
  <2>2. Whole(InPlace(part))
    BY <1>5
  <2> HIDE DEF part
  <2>3. /\ Known(S, w - 1, x)
        /\ Ordered(Lo(part), Lo(x))
        /\ \A c \in Nat : Before(part, c) => Before(x, c)
        /\ \A q \in DOMAIN InPlace(part) : p < q => Before(x, Lo(InPlace(part)[q]))
    BY <2>1, <2>2, InPlaceIs DEF part
  <2>4. Lo(part) \in Nat
    BY <2>1, LoIs
  <2>5. Lo(x) \in Nat
    BY <2>3, LoIs
  <2> HIDE DEF x
  <2>6. Ordered(a, Lo(x))
    BY <1>3, <2>1, <2>3, <2>4, <2>5 DEF Ordered
  <2> QED
    BY <2>3, <2>6 DEF x, part
<1>7. ASSUME NEW k \in DOMAIN u
      PROVE  Known(S, w - 1, u[k]) /\ Ordered(a, Lo(u[k])) /\ Before(u[k], b)
  <2>1. PICK i \in 1..Len(s) : \E p \in DOMAIN ss[i] : u[k] = ss[i][p]
    BY <1>1 DEF Spread
  <2>2. PICK p \in DOMAIN InPlace(s[i]) : u[k] = InPlace(s[i])[p]
    BY <1>2, <1>3, <2>1
  <2>3. i \in DOMAIN s /\ Before(s[i], b)
    BY <1>3 DEF Laid
  <2> QED
    BY <1>3, <1>6, <2>2, <2>3
<1>8. ASSUME NEW k \in DOMAIN u, NEW l \in DOMAIN u, k < l PROVE Before(u[k], Lo(u[l]))
  <2>1. \/ \E i \in 1..Len(s) : \E p, q \in DOMAIN ss[i] : p < q /\ u[k] = ss[i][p] /\ u[l] = ss[i][q]
        \/ \E i, j \in 1..Len(s) : i < j /\ \E p \in DOMAIN ss[i], q \in DOMAIN ss[j] :
                                              u[k] = ss[i][p] /\ u[l] = ss[j][q]
    BY <1>1, <1>8 DEF Spread
  <2>2. CASE \E i \in 1..Len(s) : \E p, q \in DOMAIN ss[i] : p < q /\ u[k] = ss[i][p] /\ u[l] = ss[i][q]
    <3>1. PICK i \in DOMAIN s : \E p, q \in DOMAIN InPlace(s[i]) :
                                  p < q /\ u[k] = InPlace(s[i])[p] /\ u[l] = InPlace(s[i])[q]
      BY <1>2, <1>3, <2>2
    <3>2. PICK p \in DOMAIN InPlace(s[i]), q \in DOMAIN InPlace(s[i]) :
                 p < q /\ u[k] = InPlace(s[i])[p] /\ u[l] = InPlace(s[i])[q]
      BY <3>1
    <3> QED
      BY <1>6, <3>2
  <2>3. CASE \E i, j \in 1..Len(s) : i < j /\ \E p \in DOMAIN ss[i], q \in DOMAIN ss[j] :
                                               u[k] = ss[i][p] /\ u[l] = ss[j][q]
    <3>0. PICK i \in 1..Len(s), j \in 1..Len(s) :
                 i < j /\ \E p \in DOMAIN ss[i], q \in DOMAIN ss[j] : u[k] = ss[i][p] /\ u[l] = ss[j][q]
      BY <2>3
    <3>9. i \in DOMAIN s /\ j \in DOMAIN s /\ ss[i] = InPlace(s[i]) /\ ss[j] = InPlace(s[j])
      BY <1>2, <1>3
    <3>1. i \in DOMAIN s /\ j \in DOMAIN s /\ i < j
          /\ \E p \in DOMAIN InPlace(s[i]), q \in DOMAIN InPlace(s[j]) :
                u[k] = InPlace(s[i])[p] /\ u[l] = InPlace(s[j])[q]
      BY <3>0, <3>9
    <3>2. PICK p \in DOMAIN InPlace(s[i]), q \in DOMAIN InPlace(s[j]) :
                 u[k] = InPlace(s[i])[p] /\ u[l] = InPlace(s[j])[q]
      BY <3>1
    <3>3. Known(S, w, s[i]) /\ Known(S, w, s[j]) /\ Before(s[i], Lo(s[j]))
      BY <3>1 DEF Laid
    <3>4. Known(S, w - 1, u[l]) /\ Ordered(Lo(s[j]), Lo(u[l]))
      BY <1>6, <3>2
    <3>5. Lo(s[j]) \in Nat /\ Lo(u[l]) \in Nat
      BY <3>3, <3>4, LoIs
    <3>6. Before(s[i], Lo(u[l]))
      BY <3>3, <3>4, <3>5, BeforeMore
    <3>7. \A c \in Nat : Before(s[i], c) => Before(u[k], c)
      BY <1>6, <3>2
    <3> QED
      BY <3>5, <3>6, <3>7
  <2> QED
    BY <2>1, <2>2, <2>3
<1>9. Laid(S, w - 1, u, a, b)
  BY <1>1, <1>3, <1>7, <1>8 DEF Laid, CallsOn
<1> QED
  BY <1>9 DEF u

\* What ends the program still does when the calls are carried out.
LEMMA CarriedWhole ==
  ASSUME NEW S, Shown(S), NEW s, CallsOn(S, s), Whole(Carried(s))
  PROVE  Whole(s)
<1> DEFINE ss == [i \in DOMAIN s |-> InPlace(s[i])]
           u == Carried(s)
<1>1. Spread(ss, Len(s), u)
  BY CarriedSeq
<1>2. DOMAIN s = 1..Len(s)
  BY SeqIs DEF CallsOn
<1> SUFFICES ASSUME NEW i \in DOMAIN s, s[i] = Crash[1] PROVE FALSE
  BY DEF Whole
<1>3. ~IsCall(s[i])
  BY CellIs DEF Crash
<1>4. ss[i] = <<s[i]>>
  BY <1>3 DEF InPlace
<1>5. 1 \in DOMAIN ss[i] /\ ss[i][1] = s[i]
  BY <1>4
<1>6. \E x \in DOMAIN u : u[x] = s[i]
  <2> HIDE DEF ss, u
  <2> QED
    BY <1>1, <1>2, <1>5 DEF Spread
<1> QED
  BY <1>6 DEF Whole

\* The calls of the calls.
Levels(f, s) == \A n \in 0..Len(tokens) : f[n] = IF n = 0 THEN s ELSE Carried(f[n - 1])

\* The definition of a level in WrittenOut.
Solves(g, L, s) == g = [n \in 0..L |-> IF n = 0 THEN s ELSE Carried(g[n - 1])]

\* There is a function as WrittenOut is written.
LEMMA LevelExists ==
  ASSUME NEW L \in Nat, NEW s
  PROVE  \E g : Solves(g, L, s)
<1> DEFINE Upto(g, m) == \A n \in 0..m : g[n] = IF n = 0 THEN s ELSE Carried(g[n - 1])
           T == {m \in 0..L : \E g : Upto(g, m)}
<1>1. 0 \in T
  <2> DEFINE g == [n \in {0} |-> s]
  <2>1. Upto(g, 0)
    OBVIOUS
  <2>2. 0 \in 0..L
    OBVIOUS
  <2> HIDE DEF Upto
  <2> QED
    BY <2>1, <2>2
<1>2. ASSUME NEW m \in 0..(L - 1), m \in T PROVE m + 1 \in T
  <2>1. PICK g : Upto(g, m)
    BY <1>2
  <2> DEFINE h == [n \in 0..(m + 1) |-> IF n = 0 THEN s ELSE Carried(g[n - 1])]
  <2>2. \A n \in 0..(m + 1) : h[n] = IF n = 0 THEN s ELSE Carried(g[n - 1])
    OBVIOUS
  <2> HIDE DEF h
  <2>3. \A n \in 0..m : h[n] = g[n]
    BY <2>1, <2>2
  <2>4. ASSUME NEW n \in 0..(m + 1) PROVE h[n] = IF n = 0 THEN s ELSE Carried(h[n - 1])
    <3>1. CASE n = 0
      BY <2>2, <3>1
    <3>2. CASE n # 0
      <4>1. n - 1 \in 0..m
        BY <3>2
      <4> QED
        BY <2>2, <2>3, <3>2, <4>1
    <3> QED
      BY <3>1, <3>2
  <2>5. Upto(h, m + 1)
    BY <2>4
  <2> HIDE DEF Upto
  <2>6. m + 1 \in 0..L
    OBVIOUS
  <2> QED
    BY <2>5, <2>6
<1>3. L \in T
  <2> HIDE DEF T
  <2>1. 0..L \subseteq T
    BY <1>1, <1>2, InductionUpTo
  <2> QED
    BY <2>1
<1>4. PICK g : Upto(g, L)
  BY <1>3
<1> DEFINE f == [n \in 0..L |-> g[n]]
<1>5. f = [n \in 0..L |-> IF n = 0 THEN s ELSE Carried(f[n - 1])]
  <2>1. \A n \in 0..L : f[n] = g[n]
    OBVIOUS
  <2>2. f = [n \in 0..L |-> f[n]]
    OBVIOUS
  <2> HIDE DEF f
  <2>3. ASSUME NEW n \in 0..L PROVE f[n] = IF n = 0 THEN s ELSE Carried(f[n - 1])
    <3>1. CASE n = 0
      BY <1>4, <2>1, <3>1
    <3>2. CASE n # 0
      <4>1. n - 1 \in 0..L
        BY <3>2
      <4> QED
        BY <1>4, <2>1, <3>2, <4>1
    <3> QED
      BY <3>1, <3>2
  <2> QED
    BY <2>2, <2>3
<1>6. Solves(f, L, s)
  BY <1>5 DEF Solves
<1> QED
  BY <1>6

\* What is written out is the last level.
LEMMA LevelsAre ==
  ASSUME Typed, NEW s
  PROVE  \E f : Levels(f, s) /\ WrittenOut(s) = f[Len(tokens)]
<1> DEFINE L == Len(tokens)
           f == CHOOSE g : Solves(g, L, s)
<1>1. L \in Nat
  BY Lengths
<1>2. \E g : Solves(g, L, s)
  <2> HIDE DEF L
  <2> QED
    BY <1>1, LevelExists
<1>3. Solves(f, L, s)
  BY <1>2
<1>4. WrittenOut(s) = f[L]
  BY DEF WrittenOut, Solves
<1> HIDE DEF f
<1>5. Levels(f, s)
  BY <1>3 DEF Levels, Solves
<1> QED
  BY <1>4, <1>5

\* On every level, only nodes of S are called on.
LEMMA LevelsCalls ==
  ASSUME Typed, NEW S, Shown(S), NEW s, CallsOn(S, s), NEW f, Levels(f, s)
  PROVE  \A n \in 0..Len(tokens) : CallsOn(S, f[n])
<1> DEFINE L == Len(tokens)
           T == {n \in 0..L : CallsOn(S, f[n])}
<1>1. L \in Nat
  BY Lengths
<1>2. f[0] = s /\ \A n \in 0..(L - 1) : f[n + 1] = Carried(f[n])
  <2>1. f[0] = s
    BY <1>1 DEF Levels
  <2>2. ASSUME NEW n \in 0..(L - 1) PROVE f[n + 1] = Carried(f[n])
    <3>1. n + 1 \in 0..L /\ n + 1 # 0 /\ (n + 1) - 1 = n
      BY <1>1
    <3> QED
      BY <3>1 DEF Levels
  <2> QED
    BY <2>1, <2>2
<1> HIDE DEF L
<1>3. 0 \in T
  BY <1>1, <1>2
<1>4. ASSUME NEW n \in 0..(L - 1), n \in T PROVE n + 1 \in T
  <2>1. n + 1 \in 0..L
    BY <1>1
  <2> QED
    BY <1>2, <1>4, <2>1, CarriedSeq
<1> HIDE DEF T
<1>5. 0..L \subseteq T
  BY <1>1, <1>3, <1>4, InductionUpTo
<1> QED
  BY <1>5 DEF T, L

\* What is written out is a sequence, whether it is whole or not.
LEMMA WrittenSeq ==
  ASSUME Typed, NEW S, Shown(S), NEW s, CallsOn(S, s)
  PROVE  IsSeq(WrittenOut(s))
<1>1. PICK f : Levels(f, s) /\ WrittenOut(s) = f[Len(tokens)]
  BY LevelsAre
<1>2. Len(tokens) \in 0..Len(tokens)
  BY Lengths
<1>3. CallsOn(S, f[Len(tokens)])
  BY <1>1, <1>2, LevelsCalls
<1> QED
  BY <1>1, <1>3 DEF CallsOn

\* Nothing is left to be called, and what is written lies where the calls do.
LEMMA WrittenIs ==
  ASSUME Typed, NEW S, Shown(S), NEW s, NEW a, NEW b, Writes(S, Len(tokens), s, a, b), Whole(WrittenOut(s))
  PROVE  Laid(S, 0, WrittenOut(s), a, b) /\ \A i \in DOMAIN WrittenOut(s) : ~IsCall(WrittenOut(s)[i])
<1> DEFINE L == Len(tokens)
<1>1. L \in Nat
  BY Lengths
<1>2. PICK f : Levels(f, s) /\ WrittenOut(s) = f[L]
  BY LevelsAre
<1> HIDE DEF L
<1>3. f[0] = s /\ \A n \in 0..(L - 1) : f[n + 1] = Carried(f[n])
  <2>1. f[0] = s
    BY <1>1, <1>2 DEF Levels, L
  <2>2. ASSUME NEW n \in 0..(L - 1) PROVE f[n + 1] = Carried(f[n])
    <3>1. n + 1 \in 0..L /\ n + 1 # 0 /\ (n + 1) - 1 = n
      BY <1>1
    <3> QED
      BY <1>2, <3>1 DEF Levels, L
  <2> QED
    BY <2>1, <2>2
<1>4. \A n \in 0..L : CallsOn(S, f[n])
  BY <1>2, LevelsCalls DEF Writes, L
<1>5. \A n \in 0..L : Whole(f[L - n])
  <2> DEFINE T == {n \in 0..L : Whole(f[L - n])}
  <2>1. 0 \in T
    BY <1>1, <1>2
  <2>2. ASSUME NEW n \in 0..(L - 1), n \in T PROVE n + 1 \in T
    <3>1. n + 1 \in 0..L /\ L - (n + 1) \in 0..(L - 1) /\ (L - (n + 1)) + 1 = L - n /\ L - (n + 1) \in 0..L
      BY <1>1
    <3>2. Whole(Carried(f[L - (n + 1)]))
      BY <1>3, <2>2, <3>1
    <3>3. Whole(f[L - (n + 1)])
      BY <1>4, <3>1, <3>2, CarriedWhole
    <3> QED
      BY <3>1, <3>3
  <2> HIDE DEF T
  <2>3. 0..L \subseteq T
    BY <1>1, <2>1, <2>2, InductionUpTo
  <2> QED
    BY <2>3 DEF T
<1>6. \A n \in 0..L : Whole(f[n])
  <2> SUFFICES ASSUME NEW n \in 0..L PROVE Whole(f[n])
    OBVIOUS
  <2>1. L - n \in 0..L /\ L - (L - n) = n
    BY <1>1
  <2> QED
    BY <1>5, <2>1
<1>7. \A n \in 0..L : Laid(S, L - n, f[n], a, b)
  <2> DEFINE T == {n \in 0..L : Laid(S, L - n, f[n], a, b)}
  <2>1. 0 \in T
    <3>1. Whole(f[0]) /\ 0 \in 0..L /\ L - 0 = L
      BY <1>1, <1>6
    <3>2. Laid(S, L, f[0], a, b)
      BY <1>3, <3>1 DEF Writes, L
    <3> QED
      BY <3>1, <3>2
  <2>2. ASSUME NEW n \in 0..(L - 1), n \in T PROVE n + 1 \in T
    <3>1. n + 1 \in 0..L /\ n \in 0..L /\ L - n \in Int /\ (L - n) - 1 = L - (n + 1)
      BY <1>1
    <3>2. Laid(S, L - n, f[n], a, b) /\ CallsOn(S, f[n]) /\ Whole(Carried(f[n]))
      BY <1>3, <1>4, <1>6, <2>2, <3>1
    <3>3. Laid(S, (L - n) - 1, Carried(f[n]), a, b)
      BY <3>1, <3>2, CarriedLaid
    <3> QED
      BY <1>3, <3>1, <3>3
  <2> HIDE DEF T
  <2>3. 0..L \subseteq T
    BY <1>1, <2>1, <2>2, InductionUpTo
  <2> QED
    BY <2>3 DEF T
<1>8. Laid(S, 0, WrittenOut(s), a, b)
  <2>1. L \in 0..L /\ L - L = 0
    BY <1>1
  <2> QED
    BY <1>2, <1>7, <2>1
<1>9. ASSUME NEW i \in DOMAIN WrittenOut(s), IsCall(WrittenOut(s)[i]) PROVE FALSE
  <2> DEFINE x == WrittenOut(s)[i].node
  <2>1. x \in S /\ Size(x) < 0
    BY <1>8, <1>9 DEF Laid, Known
  <2>2. x.start \in Nat /\ x.end \in Nat /\ x.start <= x.end
    BY <2>1 DEF Shown
  <2> QED
    BY <2>1, <2>2 DEF Size
<1> QED
  BY <1>8, <1>9

-----------------------------------------------------------------------------
(***************************************************************************)
(* What the writers are given                                              *)
(***************************************************************************)

\* Nodes of S less than w long: a node, one inside another, a list of them.
Less(S, w, c) == c \in S /\ Size(c) < w
Inside(S, x, c) == Less(S, Size(x), c) /\ x.start <= c.start /\ c.end <= x.end
ListOf(S, w, list) ==
  /\ list.stub \in Nat /\ list.stub_end \in Nat /\ list.stub <= list.stub_end
  /\ IsSeq(list.items)
  /\ \A i \in DOMAIN list.items : Less(S, w, list.items[i]) /\ list.stub <= list.items[i].start

TypeFacts(type) == type.start \in Nat /\ type.end \in Nat /\ type.start <= type.end

AssignFacts(S, x, assign) ==
  /\ assign.equal_sign \in Nat /\ x.id + 1 <= assign.equal_sign
  /\ Inside(S, x, assign.expr) /\ assign.equal_sign + 1 <= assign.expr.start

DeclFacts(S, x) ==
  \/ x.var_arg
  \/ /\ ~x.var_arg
     /\ TypeFacts(x.data_type) /\ x.start <= x.data_type.start
     /\ x.id \in Nat /\ x.data_type.end <= x.id /\ x.id + 1 <= x.end
     /\ x.assign # <<>> => AssignFacts(S, x, x.assign[1])

IfFacts(S, elses, x) ==
  /\ Inside(S, x, x.cond)
  /\ IsList(x.then) => ListOf(S, Size(x), x.then)
  /\ x.else_token \in Nat
  /\ x.else_token # 0 => elses /\ (IsList(x.else) => ListOf(S, Size(x), x.else))

BlockFacts(S, w, block) ==
  /\ block.start \in Nat /\ block.label \in Nat /\ block.colon \in Nat
  /\ (IF block.label = 0 THEN block.start ELSE block.label) + 1 <= block.colon
  /\ IsSeq(block.items)
  /\ \A i \in DOMAIN block.items : Less(S, w, block.items[i])

SwitchFacts(S, x) ==
  /\ Inside(S, x, x.expr)
  /\ x.blocks.stub \in Nat /\ x.blocks.stub <= x.end
  /\ IsSeq(x.blocks.items)
  /\ \A i \in DOMAIN x.blocks.items :
       BlockFacts(S, Size(x), x.blocks.items[i]) /\ x.blocks.stub <= x.blocks.items[i].start

\* A node among those of a file of m - 1 tokens: what it points to is in S.
Spans(m, x) == x.start \in 1..m /\ x.end \in 1..m /\ x.start <= x.end
Facts(S, m, elses, x) ==
  /\ Spans(m, x)
  /\ x.type = "FUNC_INVOKE" => ListOf(S, Size(x), x.args)
  /\ x.type = "RETURN_STATEMENT" => Inside(S, x, x.expr) /\ x.start + 1 <= x.expr.start
  /\ x.type \in {"STRING_LITERAL", "INT_LITERAL", "GOTO_STATEMENT"} => x.start + 1 <= x.end
  /\ x.type = "DECLARATION" => DeclFacts(S, x)
  /\ x.type = "IF_STATEMENT" => IfFacts(S, elses, x)
  /\ x.type \in {"UNARY_OP", "ASSIGNMENT"} => Inside(S, x, x.expr)
  /\ x.type = "BINARY_OP" => Inside(S, x, x.lhs) /\ Inside(S, x, x.rhs)
  /\ x.type = "ARRAY_ACCESS" => Inside(S, x, x.index)
  /\ x.type = "STRUCT_INIT" => ListOf(S, Size(x), x.exprs)
  /\ x.type = "MEMBER_ACCESS" =>
       x.lhs.start \in Nat /\ x.start <= x.lhs.start /\ x.member \in Nat /\ x.member + 1 <= x.end
  /\ x.type = "SWITCH_STATEMENT" => SwitchFacts(S, x)
  /\ x.type = "TYPE_CAST" => TypeFacts(x.data_type) /\ Inside(S, x, x.expr)

Sound(S, m, elses) == \A x \in S : Facts(S, m, elses, x)

\* Where its nodes are.
Placed(S) == \A x \in S : Spans(Len(tokens) + 1, x)

-----------------------------------------------------------------------------
\* A function on the numbers up to n is a sequence.
LEMMA MadeSeq ==
  ASSUME NEW n \in Nat, NEW f, f = [i \in 1..n |-> f[i]]
  PROVE  IsSeq(f) /\ Len(f) = n /\ DOMAIN f = 1..n
<1> DEFINE T == {f[i] : i \in 1..n}
<1>1. \A i \in 1..n : f[i] \in T
  OBVIOUS
<1> HIDE DEF T
<1>2. f \in [1..n -> T]
  BY <1>1
<1>3. f \in Seq(T) /\ Len(f) = n /\ DOMAIN f = 1..n
  BY <1>2
<1> QED
  BY <1>3 DEF IsSeq

\* The order of positions.
LEMMA OrderedIs ==
  ASSUME NEW a, NEW b, a <= b
  PROVE  Ordered(a, b)
BY DEF Ordered

\* What is written from a position is written from those before it,
LEMMA Sooner ==
  ASSUME NEW S, NEW w, NEW s, NEW a, NEW b, Writes(S, w, s, a, b), NEW c \in Nat, c <= a
  PROVE  Writes(S, w, s, c, b)
<1>1. a \in Nat /\ b \in Nat
  BY DEF Writes
<1>2. Ordered(c, a) /\ Ordered(b, b)
  BY <1>1 DEF Ordered
<1> QED
  BY <1>1, <1>2, Within

\* and up to those behind its end.
LEMMA Later ==
  ASSUME NEW S, NEW w, NEW s, NEW a, NEW b, Writes(S, w, s, a, b), NEW d \in Nat, b <= d
  PROVE  Writes(S, w, s, a, d)
<1>1. a \in Nat /\ b \in Nat
  BY DEF Writes
<1>2. Ordered(a, a) /\ Ordered(b, d)
  BY <1>1 DEF Ordered
<1> QED
  BY <1>1, <1>2, Within

\* A shorter node is called on.
LEMMA ChildIs ==
  ASSUME Typed, NEW S, Placed(S), NEW w, NEW c, Less(S, w, c)
  PROVE  /\ Writes(S, w, Nested(c), c.start, c.end)
         /\ c.start \in Nat /\ c.end \in Nat /\ c.start <= c.end /\ c.end <= Len(tokens) + 1
<1>1. c \in S /\ Size(c) < w /\ Spans(Len(tokens) + 1, c) /\ Len(tokens) \in Nat
  BY Lengths DEF Less, Placed
<1>2. c.start \in Nat /\ c.end \in 0..(Len(tokens) + 1) /\ c.start <= c.end
  BY <1>1 DEF Spans
<1> QED
  BY <1>1, <1>2, NestedIs DEF Ordered

\* Nodes and the tokens between them.
LEMMA JoinedIs ==
  ASSUME Typed, NEW S, NEW w, NEW items, NEW cells, IsSeq(items), Len(items) # 0,
         \A i \in DOMAIN items : /\ items[i].start \in Nat /\ items[i].end \in Nat
                                 /\ Writes(S, w, cells[i], items[i].start, items[i].end)
  PROVE  Writes(S, w, Joined(items, cells), Head(items).start, Last(items).end)
<1> DEFINE n == Len(items)
           ss == [i \in 1..n |-> cells[i] \o (IF i < n THEN Plain(items[i].end, items[i + 1].start) ELSE <<>>)]
           at == [i \in 1..(n + 1) |-> IF i <= n THEN items[i].start ELSE items[n].end]
<1>1. n \in Nat \ {0} /\ DOMAIN items = 1..n
  BY SeqIs
<1>2. Head(items) = items[1] /\ Last(items) = items[n]
  BY DEF IsSeq, Last
<1> HIDE DEF n
<1>3. IsSeq(ss) /\ Len(ss) = n /\ DOMAIN ss = 1..n
  <2>1. ss = [i \in 1..n |-> ss[i]]
    OBVIOUS
  <2> HIDE DEF ss
  <2> QED
    BY <1>1, <2>1, MadeSeq
<1>4. Joined(items, cells) = FlattenSeq(ss)
  BY <1>1 DEF Joined, n
<1>5. \A i \in 1..n : ss[i] = cells[i] \o (IF i < n THEN Plain(items[i].end, items[i + 1].start) ELSE <<>>)
  OBVIOUS
<1>6. at[1] = items[1].start /\ at[n + 1] = items[n].end /\ \A i \in 1..n : at[i] = items[i].start
  <2>1. \A i \in 1..(n + 1) : at[i] = IF i <= n THEN items[i].start ELSE items[n].end
    OBVIOUS
  <2>2. 1 \in 1..(n + 1) /\ n + 1 \in 1..(n + 1) /\ 1 <= n /\ ~(n + 1 <= n)
    BY <1>1
  <2>3. \A i \in 1..n : i \in 1..(n + 1) /\ i <= n
    BY <1>1
  <2> HIDE DEF at
  <2> QED
    BY <2>1, <2>2, <2>3
<1> HIDE DEF ss, at
<1>7. ASSUME NEW i \in 1..n PROVE Writes(S, w, ss[i], at[i], at[i + 1])
  <2>1. Writes(S, w, cells[i], items[i].start, items[i].end) /\ items[i].end \in Nat
    BY <1>1
  <2>2. CASE i < n
    <3>1. i + 1 \in 1..n
      BY <1>1, <2>2
    <3>2. at[i] = items[i].start /\ at[i + 1] = items[i + 1].start
      BY <1>6, <3>1
    <3>3. Writes(S, w, Plain(items[i].end, items[i + 1].start), items[i].end, items[i + 1].start)
      BY <1>1, <2>1, <3>1, PlainIs
    <3>4. ss[i] = cells[i] \o Plain(items[i].end, items[i + 1].start)
      BY <1>5, <2>2
    <3> QED
      BY <2>1, <3>2, <3>3, <3>4, Then
  <2>3. CASE ~(i < n)
    <3>1. i = n
      BY <1>1, <2>3
    <3>2. at[i] = items[i].start /\ at[i + 1] = items[i].end
      BY <1>6, <3>1
    <3>3. Writes(S, w, <<>>, items[i].end, items[i].end)
      BY <2>1, Nothing
    <3>4. ss[i] = cells[i] \o <<>>
      BY <1>5, <2>3
    <3> QED
      BY <2>1, <3>2, <3>3, <3>4, Then
  <2> QED
    BY <2>2, <2>3
<1>8. Writes(S, w, FlattenSeq(ss), at[1], at[Len(ss) + 1])
  <2>1. at[1] \in Nat
    BY <1>1, <1>6
  <2> QED
    BY <1>3, <1>7, <2>1, FlattenWrites
<1> QED
  BY <1>2, <1>3, <1>4, <1>6, <1>8

\* The list of a node, whichever way its nodes are written.
LEMMA ListedIs ==
  ASSUME Typed, NEW S, Placed(S), NEW w, NEW list, ListOf(S, w, list), NEW cells,
         \A i \in DOMAIN list.items :
           Writes(S, w, cells[i], list.items[i].start, list.items[i].end)
  PROVE  /\ Writes(S, w, Joined(list.items, cells), list.stub, LastEnd(list))
         /\ LastEnd(list) \in Nat /\ list.stub \in Nat
         /\ Writes(S, w, Joined(list.items, cells), First(list), LastEnd(list)) /\ First(list) \in Nat
<1> DEFINE items == list.items
<1>1. IsSeq(items) /\ list.stub \in Nat /\ list.stub_end \in Nat /\ list.stub <= list.stub_end
  BY DEF ListOf
<1>2. \A i \in DOMAIN items : Less(S, w, items[i]) /\ list.stub <= items[i].start
  BY DEF ListOf
<1>3. \A i \in DOMAIN items : items[i].start \in Nat /\ items[i].end \in Nat
  BY <1>2, ChildIs
<1>4. Len(items) \in Nat /\ DOMAIN items = 1..Len(items)
  BY <1>1, SeqIs
<1>5. CASE items = <<>>
  <2>1. Joined(items, cells) = <<>>
    <3>1. DOMAIN items = {}
      BY <1>5
    <3>2. [i \in DOMAIN items |-> cells[i] \o (IF i < Len(items) THEN Plain(items[i].end, items[i + 1].start) ELSE <<>>)] = <<>>
      BY <3>1
    <3>3. IsSeq(<<>>) /\ Len(<<>>) = 0
      BY DEF IsSeq
    <3> QED
      BY <3>2, <3>3, FlattenNone DEF Joined
  <2>2. First(list) = list.stub /\ LastEnd(list) = list.stub_end
    BY <1>5 DEF First, LastEnd
  <2>3. Writes(S, w, <<>>, list.stub, list.stub)
    BY <1>1, Nothing
  <2>4. Ordered(list.stub, list.stub_end) /\ Ordered(list.stub, list.stub)
    BY <1>1 DEF Ordered
  <2>5. Writes(S, w, <<>>, list.stub, list.stub_end)
    BY <1>1, <2>3, <2>4, Within
  <2> QED
    BY <1>1, <2>1, <2>2, <2>5
<1>6. CASE items # <<>>
  <2>1. Len(items) # 0 /\ 1 \in DOMAIN items /\ Len(items) \in DOMAIN items
    <3>1. Len(items) # 0
      BY <1>1, <1>6 DEF IsSeq
    <3> QED
      BY <1>4, <3>1
  <2>2. First(list) = Head(items).start /\ LastEnd(list) = Last(items).end
    BY <1>6 DEF First, LastEnd
  <2>3. Head(items) = items[1] /\ Last(items) = items[Len(items)]
    BY <1>1, <2>1 DEF IsSeq, Last
  <2>4. Writes(S, w, Joined(items, cells), First(list), LastEnd(list))
    BY <1>1, <1>3, <2>1, <2>2, JoinedIs
  <2>5. First(list) \in Nat /\ LastEnd(list) \in Nat /\ list.stub <= First(list)
    BY <1>2, <1>3, <2>1, <2>2, <2>3
  <2>6. Ordered(list.stub, First(list)) /\ Ordered(LastEnd(list), LastEnd(list))
    BY <2>5 DEF Ordered
  <2>7. Writes(S, w, Joined(items, cells), list.stub, LastEnd(list))
    BY <1>1, <2>4, <2>5, <2>6, Within
  <2> QED
    BY <1>1, <2>4, <2>5, <2>7
<1> QED
  BY <1>5, <1>6

\* A list whose nodes are called on.
LEMMA SerialIs ==
  ASSUME Typed, NEW S, Placed(S), NEW w, NEW list, ListOf(S, w, list)
  PROVE  /\ Writes(S, w, write_serial(list), list.stub, LastEnd(list))
         /\ LastEnd(list) \in Nat /\ list.stub \in Nat
<1> DEFINE cells == [i \in DOMAIN list.items |-> Nested(list.items[i])]
<1>1. ASSUME NEW i \in DOMAIN list.items PROVE Writes(S, w, cells[i], list.items[i].start, list.items[i].end)
  <2>1. cells[i] = Nested(list.items[i])
    OBVIOUS
  <2>2. Less(S, w, list.items[i])
    BY DEF ListOf
  <2> QED
    BY <2>1, <2>2, ChildIs
<1>2. write_serial(list) = Joined(list.items, cells)
  BY DEF write_serial
<1> HIDE DEF cells
<1> QED
  BY <1>1, <1>2, ListedIs

\* Each token of a range in a class of its own.
LEMMA OnesAre ==
  ASSUME NEW S, NEW w, NEW from \in Nat, NEW to \in Nat, from <= to, NEW ones,
         ones = [i \in 1..(to - from) |-> ones[i]],
         \A i \in 1..(to - from) : \E class : ones[i] = One(from + i - 1, class)
  PROVE  Writes(S, w, FlattenSeq(ones), from, to)
<1> DEFINE n == to - from
           at == [i \in 1..(n + 1) |-> from + i - 1]
<1>1. n \in Nat
  OBVIOUS
<1>2. IsSeq(ones) /\ Len(ones) = n /\ DOMAIN ones = 1..n
  BY <1>1, MadeSeq
<1>3. \A i \in 1..(n + 1) : at[i] = from + i - 1
  OBVIOUS
<1>4. from + (n + 1) - 1 = to /\ from + 1 - 1 = from
  OBVIOUS
<1> HIDE DEF n, at
<1>5. at[1] = from /\ at[n + 1] = to
  <2>1. 1 \in 1..(n + 1) /\ n + 1 \in 1..(n + 1)
    BY <1>1
  <2> QED
    BY <1>3, <1>4, <2>1
<1>6. ASSUME NEW i \in 1..n PROVE Writes(S, w, ones[i], at[i], at[i + 1])
  <2>1. i \in 1..(n + 1) /\ i + 1 \in 1..(n + 1) /\ from + i - 1 \in Nat /\ from + (i + 1) - 1 = (from + i - 1) + 1
    BY <1>1
  <2>2. PICK class : ones[i] = One(from + i - 1, class)
    BY DEF n
  <2>3. Writes(S, w, One(from + i - 1, class), from + i - 1, (from + i - 1) + 1)
    BY <2>1, OneIs
  <2> QED
    BY <1>3, <2>1, <2>2, <2>3
<1> QED
  BY <1>2, <1>5, <1>6, FlattenWrites

\* A data type is written from its start to its end.
LEMMA TypeWrites ==
  ASSUME NEW S, NEW w, NEW type, TypeFacts(type)
  PROVE  Writes(S, w, write_data_type(type), type.start, type.end)
<1> DEFINE class(p) == IF Type(p) \in Keywords THEN "keyword" ELSE IF p = type.id THEN "typename" ELSE ""
           ones == [i \in 1..(type.end - type.start) |-> One(type.start + i - 1, class(type.start + i - 1))]
<1>1. type.start \in Nat /\ type.end \in Nat /\ type.start <= type.end
  BY DEF TypeFacts
<1>2. write_data_type(type) = FlattenSeq(ones)
  BY DEF write_data_type
<1> HIDE DEF class
<1>3. ones = [i \in 1..(type.end - type.start) |-> ones[i]]
  OBVIOUS
<1>4. \A i \in 1..(type.end - type.start) : \E c : ones[i] = One(type.start + i - 1, c)
  OBVIOUS
<1> HIDE DEF ones
<1> QED
  BY <1>1, <1>2, <1>3, <1>4, OnesAre

\* A declaration is written from its start to its end, whatever its class.
LEMMA DeclWrites ==
  ASSUME Typed, NEW S, Placed(S), NEW w \in Int, NEW x, Spans(Len(tokens) + 1, x), DeclFacts(S, x), Size(x) <= w,
         NEW class
  PROVE  Writes(S, w, write_decl(x, class), x.start, x.end)
<1> DEFINE m == Len(tokens) + 1
<1>1. Len(tokens) \in Nat /\ x.start \in 1..m /\ x.end \in 1..m /\ x.start <= x.end
  BY Lengths DEF Spans
<1>2. CASE x.var_arg
  BY <1>1, <1>2, PlainIs DEF write_decl
<1>3. CASE ~x.var_arg
  <2> DEFINE type == x.data_type
  <2>1. /\ TypeFacts(type) /\ x.start <= type.start
        /\ x.id \in Nat /\ type.end <= x.id /\ x.id + 1 <= x.end
        /\ x.assign # <<>> => AssignFacts(S, x, x.assign[1])
    BY <1>3 DEF DeclFacts
  <2>2. type.start \in Nat /\ type.end \in Nat /\ type.start <= type.end
    BY <2>1 DEF TypeFacts
  <2>3. write_decl(x, class) = write_data_type(type) \o write_ws(type.end)
          \o One(x.id, class) \o write_ws(x.id + 1)
          \o (IF x.assign = <<>> THEN <<>>
              ELSE One(x.assign[1].equal_sign, "") \o write_ws(x.assign[1].equal_sign + 1)
                     \o Nested(x.assign[1].expr))
    BY <1>3 DEF write_decl
  <2> HIDE DEF type
  <2>4. x.id + 1 \in Nat /\ type.end \in 0..m /\ x.id + 1 \in 0..m
    BY <1>1, <2>1, <2>2
  <2>5. Writes(S, w, write_data_type(type) \o write_ws(type.end), type.start, type.end)
    BY <2>1, <2>4, TypeWrites, WsIs, Then
  <2>6. Writes(S, w, One(x.id, class) \o write_ws(x.id + 1), x.id, x.id + 1)
    BY <2>1, <2>4, OneIs, WsIs, Then
  <2>7. Writes(S, w, One(x.id, class), x.id, x.id + 1) /\ Writes(S, w, write_ws(x.id + 1), x.id + 1, x.id + 1)
    BY <2>1, <2>4, OneIs, WsIs
  <2>8. Writes(S, w, write_data_type(type) \o write_ws(type.end), x.start, x.id)
    BY <1>1, <2>1, <2>2, <2>5, Within, OrderedIs
  <2>9. Writes(S, w, write_data_type(type) \o write_ws(type.end) \o One(x.id, class), x.start, x.id + 1)
    BY <2>7, <2>8, Then
  <2>10. Writes(S, w, write_data_type(type) \o write_ws(type.end) \o One(x.id, class) \o write_ws(x.id + 1),
                x.start, x.id + 1)
    BY <2>7, <2>9, Then
  <2>11. CASE x.assign = <<>>
    <3>1. Writes(S, w, <<>>, x.id + 1, x.id + 1)
      BY <2>4, Nothing
    <3>2. Writes(S, w, <<>>, x.id + 1, x.end)
      BY <1>1, <2>1, <2>4, <3>1, Within, OrderedIs
    <3> QED
      BY <2>3, <2>10, <2>11, <3>2, Then
  <2>12. CASE x.assign # <<>>
    <3> DEFINE assign == x.assign[1]
               sign == assign.equal_sign
               c == assign.expr
    <3>1. sign \in Nat /\ x.id + 1 <= sign /\ Inside(S, x, c) /\ sign + 1 <= c.start
      BY <2>1, <2>12 DEF AssignFacts
    <3> HIDE DEF assign, sign, c
    <3>2. Less(S, Size(x), c) /\ c.end <= x.end
      BY <3>1 DEF Inside
    <3>3. c.start \in Nat /\ c.end \in Nat /\ c.end <= m /\ c.start <= c.end
      BY <3>2, ChildIs
    <3>4. Less(S, w, c)
      BY <1>1, <3>2, <3>3 DEF Less, Size
    <3>5. Writes(S, w, Nested(c), c.start, c.end)
      BY <3>4, ChildIs
    <3>6. Writes(S, w, Nested(c), sign + 1, x.end)
      BY <1>1, <3>1, <3>2, <3>3, <3>5, Within, OrderedIs
    <3>7. sign + 1 \in 0..(Len(tokens) + 1) /\ sign \in Nat
      BY <1>1, <3>1, <3>3
    <3>8. Writes(S, w, One(sign, ""), sign, sign + 1) /\ Writes(S, w, write_ws(sign + 1), sign + 1, sign + 1)
      BY <3>7, OneIs, WsIs
    <3>9. Writes(S, w, One(sign, ""), x.id + 1, sign + 1)
      BY <2>4, <3>1, <3>8, Sooner
    <3>10. Writes(S, w, One(sign, "") \o write_ws(sign + 1), x.id + 1, sign + 1)
      BY <3>8, <3>9, Then
    <3>11. Writes(S, w, One(sign, "") \o write_ws(sign + 1) \o Nested(c), x.id + 1, x.end)
      BY <3>6, <3>10, Then
    <3>12. write_decl(x, class) = (write_data_type(type) \o write_ws(type.end)
             \o One(x.id, class) \o write_ws(x.id + 1)) \o (One(sign, "") \o write_ws(sign + 1) \o Nested(c))
      BY <2>3, <2>12 DEF sign, c, assign
    <3> QED
      BY <2>10, <3>11, <3>12, Then
  <2> QED
    BY <2>11, <2>12
<1> QED
  BY <1>2, <1>3

\* A node lies at positions.
LEMMA SpansIs ==
  ASSUME Typed, NEW x, Spans(Len(tokens) + 1, x)
  PROVE  /\ x.start \in Nat /\ x.end \in Nat /\ x.start <= x.end /\ x.start # 0 /\ x.end <= Len(tokens) + 1
         /\ Size(x) \in Int /\ x.start + 1 \in Nat
<1>1. x.start \in Nat /\ x.end \in Nat /\ x.start <= x.end /\ x.start # 0 /\ x.end <= Len(tokens) + 1
  BY Lengths DEF Spans
<1> QED
  BY <1>1 DEF Size

\* A node inside another is called on in its place.
LEMMA InsideIs ==
  ASSUME Typed, NEW S, Placed(S), NEW x, NEW c, Inside(S, x, c)
  PROVE  /\ Writes(S, Size(x), Nested(c), c.start, c.end)
         /\ c.start \in Nat /\ c.end \in Nat /\ x.start <= c.start /\ c.end <= x.end
         /\ c.end <= Len(tokens) + 1 /\ c.start <= c.end
BY ChildIs DEF Inside

\* An else block, of which nothing is said but that it is written.
LEMMA ElseWrites ==
  ASSUME Typed, NEW S, Placed(S), NEW x, Spans(Len(tokens) + 1, x), IfFacts(S, Elses, x), x.else_token # 0
  PROVE  Writes(S, Size(x), write_else(x), x.else_token, x.end)
<1> DEFINE w == Size(x)
           sign == x.else_token
           else == x.else
<1>1. sign \in Nat /\ Elses /\ (IsList(else) => ListOf(S, w, else))
  BY DEF IfFacts
<1>2. x.end \in Nat
  BY SpansIs
<1>3. \A a, b \in Nat : Ordered(a, b)
  BY <1>1 DEF Ordered
<1>4. CASE ~IsList(else)
  BY <1>1, <1>2, <1>4, CrashIs DEF write_else
<1>5. CASE IsList(else)
  <2>1. write_else(x) = One(sign, "keyword") \o Plain(sign + 1, LastStart(else))
                          \o write_serial(else) \o Plain(LastEnd(else), x.end)
    BY <1>5 DEF write_else
  <2>2. LastStart(else) \in Nat
    <3>1. IsSeq(else.items) /\ else.stub \in Nat /\ \A i \in DOMAIN else.items : Less(S, w, else.items[i])
      BY <1>1, <1>5 DEF ListOf
    <3>2. CASE else.items = <<>>
      BY <3>1, <3>2 DEF LastStart
    <3>3. CASE else.items # <<>>
      <4>1. Len(else.items) \in DOMAIN else.items
        BY <3>1, <3>3 DEF IsSeq
      <4>2. else.items[Len(else.items)].start \in Nat
        BY <3>1, <4>1, ChildIs
      <4> QED
        BY <3>3, <4>2 DEF LastStart, Last
    <3> QED
      BY <3>2, <3>3
  <2>3. /\ Writes(S, w, write_serial(else), else.stub, LastEnd(else))
        /\ LastEnd(else) \in Nat /\ else.stub \in Nat
    BY <1>1, <1>5, SerialIs
  <2> HIDE DEF w, sign, else
  <2>4. Writes(S, w, One(sign, "keyword"), sign, sign + 1) /\ sign + 1 \in Nat
    BY <1>1, OneIs
  <2>5. Writes(S, w, Plain(sign + 1, LastStart(else)), sign + 1, LastStart(else))
    BY <2>2, <2>4, PlainIs
  <2>6. Ordered(LastStart(else), else.stub) /\ Ordered(LastEnd(else), LastEnd(else))
    BY <1>3, <2>2, <2>3
  <2>7. Writes(S, w, write_serial(else), LastStart(else), LastEnd(else))
    BY <2>2, <2>3, <2>6, Within
  <2>8. Writes(S, w, Plain(LastEnd(else), x.end), LastEnd(else), x.end)
    BY <1>2, <2>3, PlainIs
  <2>9. Writes(S, w, One(sign, "keyword") \o Plain(sign + 1, LastStart(else)), sign, LastStart(else))
    BY <2>4, <2>5, Then
  <2>10. Writes(S, w, One(sign, "keyword") \o Plain(sign + 1, LastStart(else)) \o write_serial(else), sign, LastEnd(else))
    BY <2>7, <2>9, Then
  <2> QED
    BY <2>1, <2>8, <2>10, Then DEF w, sign
<1> QED
  BY <1>4, <1>5

\* A list, the tokens before it and those behind it.
LEMMA AroundIs ==
  ASSUME Typed, NEW S, Placed(S), NEW w, NEW list, ListOf(S, w, list), NEW s, NEW a, NEW b \in Nat,
         NEW before, NEW behind,
         Writes(S, w, s, a, before),
         NEW from, from = Plain(before, list.stub), NEW to, to = Plain(LastEnd(list), behind), behind \in Nat
  PROVE  Writes(S, w, s \o from \o write_serial(list) \o to, a, behind)
<1>1. before \in Nat
  BY DEF Writes
<1>2. Writes(S, w, write_serial(list), list.stub, LastEnd(list)) /\ LastEnd(list) \in Nat /\ list.stub \in Nat
  BY SerialIs
<1>3. Writes(S, w, from, before, list.stub) /\ Writes(S, w, to, LastEnd(list), behind)
  BY <1>1, <1>2, PlainIs
<1>4. Writes(S, w, s \o from, a, list.stub)
  BY <1>3, Then
<1>5. Writes(S, w, s \o from \o write_serial(list), a, LastEnd(list))
  BY <1>2, <1>4, Then
<1> QED
  BY <1>3, <1>5, Then

\* An if, with its else block if it has one.
LEMMA IfWrites ==
  ASSUME Typed, NEW S, Placed(S), NEW x, Spans(Len(tokens) + 1, x), IfFacts(S, Elses, x)
  PROVE  Writes(S, Size(x), write_if(x), x.start, x.end)
<1> DEFINE w == Size(x)
           behind == IF x.else_token # 0 THEN x.else_token ELSE x.end
           c == x.cond
           head == One(x.start, "keyword") \o Plain(x.start + 1, c.start) \o Nested(c)
           else == IF x.else_token # 0 THEN write_else(x) ELSE <<>>
<1>1. x.start \in Nat /\ x.end \in Nat /\ x.start + 1 \in Nat
  BY SpansIs
<1>2. Inside(S, x, c) /\ (IsList(x.then) => ListOf(S, w, x.then)) /\ x.else_token \in Nat
  BY DEF IfFacts
<1>3. CASE ~IsList(x.then)
  BY <1>1, <1>3, CrashIs DEF write_if
<1>4. CASE IsList(x.then)
  <2>1. write_if(x) = head \o Plain(c.end, x.then.stub) \o write_serial(x.then) \o Plain(LastEnd(x.then), behind)
                        \o else
    BY <1>4 DEF write_if
  <2>2. behind \in Nat
    BY <1>1, <1>2
  <2>3. Writes(S, w, else, behind, x.end)
    <3>1. CASE x.else_token # 0
      BY <3>1, ElseWrites
    <3>2. CASE x.else_token = 0
      BY <1>1, <3>2, Nothing
    <3> QED
      BY <3>1, <3>2
  <2>4. Writes(S, w, Nested(c), c.start, c.end) /\ c.start \in Nat /\ c.end \in Nat
    BY <1>2, InsideIs
  <2>5. ListOf(S, w, x.then)
    BY <1>2, <1>4
  <2> HIDE DEF w, c, behind, else
  <2>6. Writes(S, w, One(x.start, "keyword"), x.start, x.start + 1)
    BY <1>1, OneIs
  <2>7. Writes(S, w, Plain(x.start + 1, c.start), x.start + 1, c.start)
    BY <1>1, <2>4, PlainIs
  <2>8. Writes(S, w, head, x.start, c.end)
    BY <2>4, <2>6, <2>7, Then
  <2> HIDE DEF head
  <2>9. Writes(S, w, head \o Plain(c.end, x.then.stub) \o write_serial(x.then) \o Plain(LastEnd(x.then), behind),
               x.start, behind)
    BY <2>2, <2>5, <2>8, AroundIs
  <2> QED
    BY <2>1, <2>3, <2>9, Then DEF w
<1> QED
  BY <1>3, <1>4

\* A call, from its name to its closing parenthesis.
LEMMA InvokeWrites ==
  ASSUME Typed, NEW S, Placed(S), NEW x, Spans(Len(tokens) + 1, x), ListOf(S, Size(x), x.args)
  PROVE  Writes(S, Size(x), write_func_invoke(x), x.start, x.end)
<1> DEFINE w == Size(x)
           args == x.args
<1>1. x.start \in Nat /\ x.end \in Nat
  BY SpansIs
<1>2. ListOf(S, w, args)
  OBVIOUS
<1>3. write_func_invoke(x) = Plain(x.start, args.stub) \o write_serial(args) \o Plain(LastEnd(args), x.end)
  BY DEF write_func_invoke
<1> HIDE DEF w, args
<1>4. Writes(S, w, write_serial(args), args.stub, LastEnd(args)) /\ LastEnd(args) \in Nat /\ args.stub \in Nat
  BY <1>2, SerialIs
<1>5. Writes(S, w, Plain(x.start, args.stub), x.start, args.stub)
  BY <1>1, <1>4, PlainIs
<1>6. Writes(S, w, Plain(LastEnd(args), x.end), LastEnd(args), x.end)
  BY <1>1, <1>4, PlainIs
<1>7. Writes(S, w, Plain(x.start, args.stub) \o write_serial(args), x.start, LastEnd(args))
  BY <1>4, <1>5, Then
<1> QED
  BY <1>3, <1>6, <1>7, Then DEF w

\* The braces of a struct value, among what is written plainly.
LEMMA InitWrites ==
  ASSUME Typed, NEW S, Placed(S), NEW x, Spans(Len(tokens) + 1, x), ListOf(S, Size(x), x.exprs)
  PROVE  Writes(S, Size(x), write_struct_init(x), x.start, x.end)
<1> DEFINE w == Size(x)
           exprs == x.exprs
           Ones(from, to, brace) == [i \in 1..(to - from) |->
             One(from + i - 1, IF Type(from + i - 1) = brace THEN "init" ELSE "")]
           Braces(from, to, brace) == IF from > to THEN Crash ELSE FlattenSeq(Ones(from, to, brace))
<1>1. x.start \in Nat /\ x.end \in Nat
  BY SpansIs
<1>2. ListOf(S, w, exprs)
  OBVIOUS
<1>3. write_struct_init(x) = Braces(x.start, exprs.stub, "{") \o write_serial(exprs) \o Braces(LastEnd(exprs), x.end, "}")
  BY DEF write_struct_init
<1> HIDE DEF w, exprs
<1>4. Writes(S, w, write_serial(exprs), exprs.stub, LastEnd(exprs)) /\ LastEnd(exprs) \in Nat /\ exprs.stub \in Nat
  BY <1>2, SerialIs
<1>5. ASSUME NEW from \in Nat, NEW to \in Nat, NEW brace PROVE Writes(S, w, Braces(from, to, brace), from, to)
  <2>1. CASE from > to
    BY <2>1, CrashIs
  <2>2. CASE ~(from > to)
    <3> DEFINE ones == Ones(from, to, brace)
    <3>1. ones = [i \in 1..(to - from) |-> ones[i]]
      OBVIOUS
    <3>2. \A i \in 1..(to - from) : \E class : ones[i] = One(from + i - 1, class)
      OBVIOUS
    <3>3. Braces(from, to, brace) = FlattenSeq(ones) /\ from <= to
      BY <2>2
    <3> HIDE DEF ones, Braces
    <3> QED
      BY <3>1, <3>2, <3>3, OnesAre
  <2> QED
    BY <2>1, <2>2
<1> HIDE DEF Braces
<1>6. Writes(S, w, Braces(x.start, exprs.stub, "{"), x.start, exprs.stub)
  BY <1>1, <1>4, <1>5
<1>7. Writes(S, w, Braces(LastEnd(exprs), x.end, "}"), LastEnd(exprs), x.end)
  BY <1>1, <1>4, <1>5
<1>8. Writes(S, w, Braces(x.start, exprs.stub, "{") \o write_serial(exprs), x.start, LastEnd(exprs))
  BY <1>4, <1>6, Then
<1> QED
  BY <1>3, <1>7, <1>8, Then DEF w

\* A case, up to the next one or the end of the switch.
LEMMA CaseWrites ==
  ASSUME Typed, NEW S, Placed(S), NEW w, NEW block, BlockFacts(S, w, block), NEW end \in Nat
  PROVE  Writes(S, w, write_case(block, end), block.start, end)
<1> DEFINE items == block.items
           n == Len(items)
           before(i) == IF i = 1 THEN block.colon ELSE items[i - 1].end
           label == IF block.label = 0 THEN <<>>
                    ELSE Plain(block.start + 1, block.label)
                           \o One(block.label, IF Type(block.label) = "num" THEN "num" ELSE "")
           ss == [i \in DOMAIN items |-> Plain(before(i), items[i].start) \o Nested(items[i])]
           at == [i \in 1..(n + 1) |-> before(i)]
<1>1. /\ block.start \in Nat /\ block.label \in Nat /\ block.colon \in Nat
      /\ (IF block.label = 0 THEN block.start ELSE block.label) + 1 <= block.colon
      /\ IsSeq(items)
      /\ \A i \in DOMAIN items : Less(S, w, items[i])
  BY DEF BlockFacts
<1>2. n \in Nat /\ DOMAIN items = 1..n
  BY <1>1, SeqIs
<1>3. \A i \in 1..n : /\ items[i].start \in Nat /\ items[i].end \in Nat
                      /\ Writes(S, w, Nested(items[i]), items[i].start, items[i].end)
  BY <1>1, <1>2, ChildIs
<1>4. write_case(block, end) = One(block.start, "keyword") \o label \o FlattenSeq(ss) \o Plain(before(n + 1), end)
  BY DEF write_case
<1>5. /\ \A i \in 1..(n + 1) : at[i] = before(i)
      /\ \A i \in 1..n : ss[i] = Plain(before(i), items[i].start) \o Nested(items[i])
      /\ ss = [i \in 1..n |-> ss[i]]
  BY <1>2
<1> HIDE DEF n, ss, at
<1>6. \A i \in 1..(n + 1) : before(i) \in Nat
  <2> SUFFICES ASSUME NEW i \in 1..(n + 1) PROVE before(i) \in Nat
    OBVIOUS
  <2>1. CASE i = 1
    BY <1>1, <2>1
  <2>2. CASE i # 1
    <3>1. i - 1 \in 1..n
      BY <1>2, <2>2
    <3> QED
      BY <1>3, <2>2, <3>1
  <2> QED
    BY <2>1, <2>2
<1>7. \A i \in 1..n : before(i + 1) = items[i].end
  BY <1>2
<1>8. before(1) = block.colon
  OBVIOUS
<1> HIDE DEF before
<1>9. ASSUME NEW i \in 1..n PROVE Writes(S, w, ss[i], at[i], at[i + 1])
  <2>1. i \in 1..(n + 1) /\ i + 1 \in 1..(n + 1)
    BY <1>2
  <2>2. at[i] = before(i) /\ at[i + 1] = items[i].end /\ before(i) \in Nat
    BY <1>5, <1>6, <1>7, <2>1
  <2>3. Writes(S, w, Plain(before(i), items[i].start), before(i), items[i].start)
    BY <1>3, <2>2, PlainIs
  <2>4. Writes(S, w, Nested(items[i]), items[i].start, items[i].end)
    BY <1>3
  <2>5. Writes(S, w, Plain(before(i), items[i].start) \o Nested(items[i]), before(i), items[i].end)
    BY <2>3, <2>4, Then
  <2>6. ss[i] = Plain(before(i), items[i].start) \o Nested(items[i])
    BY <1>5
  <2> QED
    BY <2>2, <2>5, <2>6
<1>10. Writes(S, w, FlattenSeq(ss), block.colon, before(n + 1)) /\ before(n + 1) \in Nat
  <2>1. IsSeq(ss) /\ Len(ss) = n /\ DOMAIN ss = 1..n
    BY <1>2, <1>5, MadeSeq
  <2>2. 1 \in 1..(n + 1) /\ n + 1 \in 1..(n + 1)
    BY <1>2
  <2>3. at[1] = block.colon /\ at[n + 1] = before(n + 1) /\ before(n + 1) \in Nat
    BY <1>5, <1>6, <1>8, <2>2
  <2>4. Writes(S, w, FlattenSeq(ss), at[1], at[Len(ss) + 1])
    BY <1>1, <1>9, <2>1, <2>3, FlattenWrites
  <2> QED
    BY <2>1, <2>3, <2>4
<1>11. Writes(S, w, Plain(before(n + 1), end), before(n + 1), end)
  BY <1>10, PlainIs
<1>12. Writes(S, w, One(block.start, "keyword") \o label, block.start, block.colon)
  <2>1. block.start + 1 \in Nat /\ Writes(S, w, One(block.start, "keyword"), block.start, block.start + 1)
    BY <1>1, OneIs
  <2>2. CASE block.label = 0
    <3>1. Writes(S, w, <<>>, block.start + 1, block.start + 1)
      BY <2>1, Nothing
    <3>2. Writes(S, w, <<>>, block.start + 1, block.colon)
      BY <1>1, <2>2, <3>1, Later
    <3> QED
      BY <2>1, <2>2, <3>2, Then
  <2>3. CASE block.label # 0
    <3> DEFINE class == IF Type(block.label) = "num" THEN "num" ELSE ""
    <3>1. Writes(S, w, Plain(block.start + 1, block.label), block.start + 1, block.label)
      BY <1>1, <2>1, PlainIs
    <3>2. Writes(S, w, One(block.label, class), block.label, block.label + 1)
      BY <1>1, OneIs
    <3>3. Writes(S, w, One(block.label, class), block.label, block.colon)
      BY <1>1, <2>3, <3>2, Later
    <3>4. label = Plain(block.start + 1, block.label) \o One(block.label, class)
      BY <2>3
    <3> HIDE DEF class, label
    <3>5. Writes(S, w, label, block.start + 1, block.colon)
      BY <3>1, <3>3, <3>4, Then
    <3> QED
      BY <2>1, <3>5, Then
  <2> QED
    BY <2>2, <2>3
<1> HIDE DEF label
<1>13. Writes(S, w, One(block.start, "keyword") \o label \o FlattenSeq(ss), block.start, before(n + 1))
  BY <1>10, <1>12, Then
<1> QED
  BY <1>4, <1>11, <1>13, Then

\* A switch: its cases one after the other.
LEMMA SwitchWrites ==
  ASSUME Typed, NEW S, Placed(S), NEW x, Spans(Len(tokens) + 1, x), SwitchFacts(S, x)
  PROVE  Writes(S, Size(x), write_switch(x), x.start, x.end)
<1> DEFINE w == Size(x)
           c == x.expr
           stub == x.blocks.stub
           blocks == x.blocks.items
           n == Len(blocks)
           next(i) == IF i < n THEN blocks[i + 1].start ELSE x.end
           ss == [i \in DOMAIN blocks |-> write_case(blocks[i], next(i))]
           at == [i \in 1..(n + 1) |-> IF i <= n THEN blocks[i].start ELSE x.end]
           head == One(x.start, "keyword") \o Plain(x.start + 1, c.start) \o Nested(c) \o Plain(c.end, stub)
<1>1. x.start \in Nat /\ x.end \in Nat /\ x.start + 1 \in Nat
  BY SpansIs
<1>2. /\ Inside(S, x, c) /\ stub \in Nat /\ stub <= x.end /\ IsSeq(blocks)
      /\ \A i \in DOMAIN blocks : BlockFacts(S, w, blocks[i]) /\ stub <= blocks[i].start
  BY DEF SwitchFacts
<1>3. write_switch(x) = head \o FlattenSeq(ss)
  BY DEF write_switch
<1>4. Writes(S, w, Nested(c), c.start, c.end) /\ c.start \in Nat /\ c.end \in Nat
  BY <1>2, InsideIs
<1>5. n \in Nat /\ DOMAIN blocks = 1..n
  BY <1>2, SeqIs
<1>6. /\ \A i \in 1..(n + 1) : at[i] = IF i <= n THEN blocks[i].start ELSE x.end
      /\ \A i \in 1..n : ss[i] = write_case(blocks[i], next(i))
      /\ ss = [i \in 1..n |-> ss[i]]
  BY <1>5
<1> HIDE DEF w, c, stub, blocks, n, ss, at
<1>7. Writes(S, w, head, x.start, stub)
  <2>1. Writes(S, w, One(x.start, "keyword"), x.start, x.start + 1)
    BY <1>1, OneIs
  <2>2. Writes(S, w, Plain(x.start + 1, c.start), x.start + 1, c.start)
    BY <1>1, <1>4, PlainIs
  <2>3. Writes(S, w, Plain(c.end, stub), c.end, stub)
    BY <1>2, <1>4, PlainIs
  <2>4. Writes(S, w, One(x.start, "keyword") \o Plain(x.start + 1, c.start), x.start, c.start)
    BY <2>1, <2>2, Then
  <2>5. Writes(S, w, One(x.start, "keyword") \o Plain(x.start + 1, c.start) \o Nested(c), x.start, c.end)
    BY <1>4, <2>4, Then
  <2> QED
    BY <2>3, <2>5, Then
<1> HIDE DEF head
<1>8. \A i \in 1..n : blocks[i].start \in Nat
  BY <1>2, <1>5 DEF BlockFacts
<1>9. ASSUME NEW i \in 1..n PROVE Writes(S, w, ss[i], at[i], at[i + 1])
  <2>1. i \in 1..(n + 1) /\ i + 1 \in 1..(n + 1) /\ i <= n /\ (i + 1 <= n <=> i < n) /\ (i < n => i + 1 \in 1..n)
    BY <1>5
  <2>2. next(i) \in Nat
    BY <1>1, <1>8, <2>1
  <2>3. Writes(S, w, write_case(blocks[i], next(i)), blocks[i].start, next(i))
    BY <1>2, <1>5, <2>2, CaseWrites
  <2>4. at[i] = blocks[i].start /\ at[i + 1] = next(i)
    BY <1>6, <2>1
  <2> QED
    BY <1>6, <2>3, <2>4
<1> HIDE DEF next
<1>10. at[1] \in Nat /\ stub <= at[1] /\ at[n + 1] = x.end
  <2>1. 1 \in 1..(n + 1) /\ n + 1 \in 1..(n + 1) /\ ~(n + 1 <= n) /\ (1 <= n => 1 \in 1..n)
    BY <1>5
  <2>2. at[n + 1] = x.end
    BY <1>6, <2>1
  <2>3. at[1] = IF 1 <= n THEN blocks[1].start ELSE x.end
    BY <1>6, <2>1
  <2>4. 1 <= n => stub <= blocks[1].start /\ blocks[1].start \in Nat
    BY <1>2, <1>5, <1>8, <2>1
  <2> QED
    BY <1>1, <1>2, <2>2, <2>3, <2>4
<1>11. Writes(S, w, FlattenSeq(ss), stub, x.end)
  <2>1. IsSeq(ss) /\ Len(ss) = n /\ DOMAIN ss = 1..n
    BY <1>5, <1>6, MadeSeq
  <2>2. Writes(S, w, FlattenSeq(ss), at[1], at[Len(ss) + 1])
    BY <1>9, <1>10, <2>1, FlattenWrites
  <2>3. Writes(S, w, FlattenSeq(ss), at[1], x.end)
    BY <1>10, <2>1, <2>2
  <2> QED
    BY <1>2, <1>10, <2>3, Sooner
<1> QED
  BY <1>3, <1>7, <1>11, Then DEF w

-----------------------------------------------------------------------------
\* The nodes that are written by their ends.
LEMMA LeafWrites ==
  ASSUME Typed, NEW S, NEW x, Spans(Len(tokens) + 1, x), Facts(S, Len(tokens) + 1, Elses, x),
         x.type \in {"STRING_LITERAL", "INT_LITERAL", "GOTO_STATEMENT", "VAR_REFERENCE", "LABEL_DECL",
                     "DEFINE_REFERENCE", "COMMENT", "BREAK_STATEMENT", "MEMBER_ACCESS"}
  PROVE  Writes(S, Size(x), write_statement(x), x.start, x.end)
<1> DEFINE w == Size(x)
<1>1. x.start \in Nat /\ x.end \in Nat /\ x.start + 1 \in Nat
  BY SpansIs
<1>2. \A class : Writes(S, w, Span(x.start, x.end, class), x.start, x.end)
  BY <1>1, SpanIs
<1>3. Writes(S, w, Plain(x.start, x.end), x.start, x.end)
  BY <1>1, PlainIs
<1>4. \A class : Writes(S, w, One(x.start, class), x.start, x.start + 1)
  BY <1>1, OneIs
<1> HIDE DEF w
<1>5. CASE x.type \in {"STRING_LITERAL", "INT_LITERAL"}
  <2>1. x.start + 1 <= x.end
    BY <1>5 DEF Facts
  <2>2. \A class : Writes(S, w, One(x.start, class), x.start, x.end)
    BY <1>1, <1>4, <2>1, Later
  <2>3. \E class : write_statement(x) = One(x.start, class)
    <3>1. CASE x.type = "STRING_LITERAL"
      BY <3>1 DEF write_statement
    <3>2. CASE x.type = "INT_LITERAL"
      BY <3>2 DEF write_statement
    <3> QED
      BY <1>5, <3>1, <3>2
  <2> QED
    BY <2>2, <2>3 DEF w
<1>6. CASE x.type = "GOTO_STATEMENT"
  <2>1. Writes(S, w, Plain(x.start + 1, x.end), x.start + 1, x.end)
    BY <1>1, PlainIs
  <2>2. write_statement(x) = One(x.start, "keyword") \o Plain(x.start + 1, x.end)
    BY <1>6 DEF write_statement
  <2> QED
    BY <1>4, <2>1, <2>2, Then DEF w
<1>7. CASE x.type \in {"VAR_REFERENCE", "LABEL_DECL"}
  <2>1. write_statement(x) = Plain(x.start, x.end)
    BY <1>7 DEF write_statement
  <2> QED
    BY <1>3, <2>1 DEF w
<1>8. CASE x.type \in {"DEFINE_REFERENCE", "COMMENT", "BREAK_STATEMENT"}
  <2>1. \E class : write_statement(x) = Span(x.start, x.end, class)
    <3>1. CASE x.type = "DEFINE_REFERENCE"
      BY <3>1 DEF write_statement
    <3>2. CASE x.type = "COMMENT"
      BY <3>2 DEF write_statement
    <3>3. CASE x.type = "BREAK_STATEMENT"
      BY <3>3 DEF write_statement
    <3> QED
      BY <1>8, <3>1, <3>2, <3>3
  <2> QED
    BY <1>2, <2>1 DEF w
<1>9. CASE x.type = "MEMBER_ACCESS"
  <2>1. x.lhs.start \in Nat /\ x.start <= x.lhs.start /\ x.member \in Nat /\ x.member + 1 <= x.end
    BY <1>9 DEF Facts
  <2>2. write_statement(x) = Plain(x.lhs.start, x.member) \o One(x.member, "member")
    BY <1>9 DEF write_statement
  <2>3. Writes(S, w, Plain(x.lhs.start, x.member), x.lhs.start, x.member)
    BY <2>1, PlainIs
  <2>4. Writes(S, w, One(x.member, "member"), x.member, x.member + 1)
    BY <2>1, OneIs
  <2>5. Writes(S, w, Plain(x.lhs.start, x.member), x.start, x.member)
    BY <1>1, <2>1, <2>3, Sooner
  <2>6. Writes(S, w, One(x.member, "member"), x.member, x.end)
    BY <1>1, <2>1, <2>4, Later
  <2> QED
    BY <2>2, <2>5, <2>6, Then DEF w
<1> QED
  BY <1>5, <1>6, <1>7, <1>8, <1>9

\* The nodes that are written by the nodes they point to.
LEMMA NodeWrites ==
  ASSUME Typed, NEW S, Placed(S), NEW x, Spans(Len(tokens) + 1, x), Facts(S, Len(tokens) + 1, Elses, x),
         x.type \in {"RETURN_STATEMENT", "UNARY_OP", "ASSIGNMENT", "BINARY_OP", "ARRAY_ACCESS", "TYPE_CAST"}
  PROVE  Writes(S, Size(x), write_statement(x), x.start, x.end)
<1> DEFINE w == Size(x)
<1>1. x.start \in Nat /\ x.end \in Nat /\ x.start + 1 \in Nat
  BY SpansIs
<1>2. CASE x.type = "RETURN_STATEMENT"
  <2> DEFINE c == x.expr
  <2>1. Inside(S, x, c) /\ x.start + 1 <= c.start
    BY <1>2 DEF Facts
  <2>2. /\ Writes(S, w, Nested(c), c.start, c.end) /\ c.start \in Nat /\ c.end \in Nat /\ c.end <= x.end
        /\ c.end <= Len(tokens) + 1 /\ c.start <= c.end
    BY <2>1, InsideIs
  <2>3. write_statement(x) = One(x.start, "keyword") \o write_ws(x.start + 1) \o Nested(c)
    BY <1>2 DEF write_statement
  <2> HIDE DEF w, c
  <2>4. x.start + 1 \in 0..(Len(tokens) + 1)
    BY <1>1, <2>1, <2>2, Lengths
  <2>5. Writes(S, w, One(x.start, "keyword"), x.start, x.start + 1)
    BY <1>1, OneIs
  <2>6. Writes(S, w, write_ws(x.start + 1), x.start + 1, x.start + 1)
    BY <2>4, WsIs
  <2>7. Writes(S, w, Nested(c), x.start + 1, c.end)
    BY <1>1, <2>1, <2>2, Sooner
  <2>8. Writes(S, w, Nested(c), x.start + 1, x.end)
    BY <1>1, <2>2, <2>7, Later
  <2>9. Writes(S, w, One(x.start, "keyword") \o write_ws(x.start + 1), x.start, x.start + 1)
    BY <2>5, <2>6, Then
  <2> QED
    BY <2>3, <2>8, <2>9, Then DEF w
<1>3. CASE x.type \in {"UNARY_OP", "ASSIGNMENT"}
  <2> DEFINE c == x.expr
  <2>1. Inside(S, x, c)
    BY <1>3 DEF Facts
  <2>2. Writes(S, w, Nested(c), c.start, c.end) /\ c.start \in Nat /\ c.end \in Nat /\ c.end <= x.end
    BY <2>1, InsideIs
  <2>3. write_statement(x) = Plain(x.start, c.start) \o Nested(c)
    <3>1. CASE x.type = "UNARY_OP"
      BY <3>1 DEF write_statement
    <3>2. CASE x.type = "ASSIGNMENT"
      BY <3>2 DEF write_statement
    <3> QED
      BY <1>3, <3>1, <3>2
  <2> HIDE DEF w, c
  <2>4. Writes(S, w, Plain(x.start, c.start), x.start, c.start)
    BY <1>1, <2>2, PlainIs
  <2>5. Writes(S, w, Nested(c), c.start, x.end)
    BY <1>1, <2>2, Later
  <2> QED
    BY <2>3, <2>4, <2>5, Then DEF w
<1>4. CASE x.type = "BINARY_OP"
  <2> DEFINE l == x.lhs
             r == x.rhs
  <2>1. Inside(S, x, l) /\ Inside(S, x, r)
    BY <1>4 DEF Facts
  <2>2. Writes(S, w, Nested(l), l.start, l.end) /\ l.start \in Nat /\ l.end \in Nat /\ x.start <= l.start
    BY <2>1, InsideIs
  <2>3. Writes(S, w, Nested(r), r.start, r.end) /\ r.start \in Nat /\ r.end \in Nat /\ r.end <= x.end
    BY <2>1, InsideIs
  <2>4. write_statement(x) = Nested(l) \o Plain(l.end, r.start) \o Nested(r)
    BY <1>4 DEF write_statement
  <2> HIDE DEF w, l, r
  <2>5. Writes(S, w, Nested(l), x.start, l.end)
    BY <1>1, <2>2, Sooner
  <2>6. Writes(S, w, Plain(l.end, r.start), l.end, r.start)
    BY <2>2, <2>3, PlainIs
  <2>7. Writes(S, w, Nested(r), r.start, x.end)
    BY <1>1, <2>3, Later
  <2>8. Writes(S, w, Nested(l) \o Plain(l.end, r.start), x.start, r.start)
    BY <2>5, <2>6, Then
  <2> QED
    BY <2>4, <2>7, <2>8, Then DEF w
<1>5. CASE x.type = "ARRAY_ACCESS"
  <2> DEFINE c == x.index
  <2>1. Inside(S, x, c)
    BY <1>5 DEF Facts
  <2>2. Writes(S, w, Nested(c), c.start, c.end) /\ c.start \in Nat /\ c.end \in Nat
    BY <2>1, InsideIs
  <2>3. write_statement(x) = Plain(x.start, c.start) \o Nested(c) \o Plain(c.end, x.end)
    BY <1>5 DEF write_statement
  <2> HIDE DEF w, c
  <2>4. Writes(S, w, Plain(x.start, c.start), x.start, c.start)
    BY <1>1, <2>2, PlainIs
  <2>5. Writes(S, w, Plain(c.end, x.end), c.end, x.end)
    BY <1>1, <2>2, PlainIs
  <2>6. Writes(S, w, Plain(x.start, c.start) \o Nested(c), x.start, c.end)
    BY <2>2, <2>4, Then
  <2> QED
    BY <2>3, <2>5, <2>6, Then DEF w
<1>6. CASE x.type = "TYPE_CAST"
  <2> DEFINE c == x.expr
             type == x.data_type
  <2>1. Inside(S, x, c) /\ TypeFacts(type)
    BY <1>6 DEF Facts
  <2>2. Writes(S, w, Nested(c), c.start, c.end) /\ c.start \in Nat /\ c.end \in Nat /\ c.end <= x.end
    BY <2>1, InsideIs
  <2>3. type.start \in Nat /\ type.end \in Nat
    BY <2>1 DEF TypeFacts
  <2>4. write_statement(x) = Plain(x.start, type.start) \o write_data_type(type) \o Plain(type.end, c.start) \o Nested(c)
    BY <1>6 DEF write_statement
  <2> HIDE DEF w, c, type
  <2>5. Writes(S, w, Plain(x.start, type.start), x.start, type.start)
    BY <1>1, <2>3, PlainIs
  <2>6. Writes(S, w, write_data_type(type), type.start, type.end)
    BY <2>1, TypeWrites
  <2>7. Writes(S, w, Plain(type.end, c.start), type.end, c.start)
    BY <2>2, <2>3, PlainIs
  <2>8. Writes(S, w, Nested(c), c.start, x.end)
    BY <1>1, <2>2, Later
  <2>9. Writes(S, w, Plain(x.start, type.start) \o write_data_type(type), x.start, type.end)
    BY <2>5, <2>6, Then
  <2>10. Writes(S, w, Plain(x.start, type.start) \o write_data_type(type) \o Plain(type.end, c.start), x.start, c.start)
    BY <2>7, <2>9, Then
  <2> QED
    BY <2>4, <2>8, <2>10, Then DEF w
<1> QED
  BY <1>2, <1>3, <1>4, <1>5, <1>6

\* A node is written from its start to its end, with calls on shorter nodes.
LEMMA StatementWrites ==
  ASSUME Typed, NEW S, Placed(S), NEW x, Facts(S, Len(tokens) + 1, Elses, x)
  PROVE  Writes(S, Size(x), write_statement(x), x.start, x.end)
<1>1. Spans(Len(tokens) + 1, x)
  BY DEF Facts
<1>2. x.start \in Nat /\ x.end \in Nat /\ Size(x) \in Int
  BY <1>1, SpansIs
<1>3. CASE x.type = "FUNC_INVOKE"
  <2>1. write_statement(x) = write_func_invoke(x)
    BY <1>3 DEF write_statement
  <2>2. ListOf(S, Size(x), x.args)
    BY <1>3 DEF Facts
  <2> QED
    BY <1>1, <2>1, <2>2, InvokeWrites
<1>4. CASE x.type = "DECLARATION"
  <2>1. write_statement(x) = write_decl(x, "")
    BY <1>4 DEF write_statement
  <2>2. DeclFacts(S, x) /\ Size(x) <= Size(x)
    BY <1>2, <1>4 DEF Facts
  <2> QED
    BY <1>1, <1>2, <2>1, <2>2, DeclWrites
<1>5. CASE x.type = "IF_STATEMENT"
  <2>1. write_statement(x) = write_if(x)
    BY <1>5 DEF write_statement
  <2>2. IfFacts(S, Elses, x)
    BY <1>5 DEF Facts
  <2> QED
    BY <1>1, <2>1, <2>2, IfWrites
<1>6. CASE x.type = "STRUCT_INIT"
  <2>1. write_statement(x) = write_struct_init(x)
    BY <1>6 DEF write_statement
  <2>2. ListOf(S, Size(x), x.exprs)
    BY <1>6 DEF Facts
  <2> QED
    BY <1>1, <2>1, <2>2, InitWrites
<1>7. CASE x.type = "SWITCH_STATEMENT"
  <2>1. write_statement(x) = write_switch(x)
    BY <1>7 DEF write_statement
  <2>2. SwitchFacts(S, x)
    BY <1>7 DEF Facts
  <2> QED
    BY <1>1, <2>1, <2>2, SwitchWrites
<1>8. CASE x.type \in {"STRING_LITERAL", "INT_LITERAL", "GOTO_STATEMENT", "VAR_REFERENCE", "LABEL_DECL",
                       "DEFINE_REFERENCE", "COMMENT", "BREAK_STATEMENT", "MEMBER_ACCESS"}
  BY <1>1, <1>8, LeafWrites
<1>9. CASE x.type \in {"RETURN_STATEMENT", "UNARY_OP", "ASSIGNMENT", "BINARY_OP", "ARRAY_ACCESS", "TYPE_CAST"}
  BY <1>1, <1>9, NodeWrites
<1>10. CASE x.type \notin {"FUNC_INVOKE", "DECLARATION", "IF_STATEMENT", "STRUCT_INIT", "SWITCH_STATEMENT",
                          "STRING_LITERAL", "INT_LITERAL", "GOTO_STATEMENT", "VAR_REFERENCE", "LABEL_DECL",
                          "DEFINE_REFERENCE", "COMMENT", "BREAK_STATEMENT", "MEMBER_ACCESS",
                          "RETURN_STATEMENT", "UNARY_OP", "ASSIGNMENT", "BINARY_OP", "ARRAY_ACCESS", "TYPE_CAST"}
  <2>1. write_statement(x) = Crash
    BY <1>10 DEF write_statement
  <2> QED
    BY <1>2, <2>1, CrashIs
<1> QED
  BY <1>3, <1>4, <1>5, <1>6, <1>7, <1>8, <1>9, <1>10

\* So is each of a sound set of nodes.
LEMMA SoundShown ==
  ASSUME Typed, NEW S, Sound(S, Len(tokens) + 1, Elses)
  PROVE  Shown(S) /\ Placed(S)
<1>1. Placed(S)
  BY DEF Sound, Facts, Placed
<1>2. ASSUME NEW x \in S
      PROVE  /\ x.start \in Nat /\ x.end \in 0..(Len(tokens) + 1) /\ x.start <= x.end
             /\ Writes(S, Size(x), write_statement(x), x.start, x.end)
  <2>1. Facts(S, Len(tokens) + 1, Elses, x) /\ Spans(Len(tokens) + 1, x)
    BY <1>1 DEF Sound, Placed
  <2>2. x.start \in Nat /\ x.end \in 0..(Len(tokens) + 1) /\ x.start <= x.end
    BY <2>1, Lengths DEF Spans
  <2> QED
    BY <1>1, <2>1, <2>2, StatementWrites
<1> QED
  BY <1>1, <1>2 DEF Shown

-----------------------------------------------------------------------------
(***************************************************************************)
(* What the parser gives                                                   *)
(***************************************************************************)

\* A node read from p on: the next one is behind its end, it is no list, and it
\* starts at p or behind it.
Right(p, x) ==
  /\ Reads(p, x) /\ From(x.end, TokenBehind(x)) /\ ~IsList(x)
  /\ x.end # 0 => x.start \in Nat /\ p <= x.start /\ x.start < x.end

\* A node with nothing behind its end.
Bare(x) == ~IsList(x) /\ "next" \notin DOMAIN x

\* A bare node that starts at a position and ends behind another one.
LEMMA BareIs ==
  ASSUME Typed, NEW p \in Positions, NEW x, Bare(x), NEW q, From(p, x.start), From(x.start, q), Ends(q, x.end)
  PROVE  Right(p, x)
<1>1. TokenBehind(x) = x.end /\ ~IsList(x)
  BY DEF Bare, TokenBehind
<1>2. x.start \in Positions /\ q \in Positions /\ x.end \in Positions
  BY DEF From, Ends
<1>3. From(x.end, x.end) /\ Ends(x.start, x.end) /\ Ends(p, x.end)
  BY <1>2, OnFrom
<1>4. x.end # 0 => x.start \in Nat /\ p <= x.start /\ x.start < x.end
  BY <1>2, <1>3, Lengths DEF From, Ends, Positions
<1> QED
  BY <1>1, <1>3, <1>4 DEF Right, Reads

\* A bare node at a token, or behind it.
LEMMA BareAt ==
  ASSUME Typed, NEW p \in Positions, NEW at, From(p, at), NEW x, Bare(x), From(at, x.start), Ends(x.start, x.end)
  PROVE  Right(p, x)
<1>1. at \in Positions /\ x.start \in Positions
  BY DEF From
<1>2. From(p, x.start) /\ From(x.start, x.start)
  BY <1>1, OnFrom
<1> QED
  BY <1>2, BareIs

\* What is read from a position on is read from those before it.
LEMMA RightFrom ==
  ASSUME Typed, NEW p \in Positions, NEW q, From(p, q), NEW x, Right(q, x)
  PROVE  Right(p, x)
<1>1. Reads(p, x)
  BY NodeFrom DEF Right
<1>2. x.end # 0 => q # 0 /\ q \in Nat /\ p <= q
  BY Lengths DEF Right, Reads, Ends, From, Positions
<1>3. p \in Nat
  BY Lengths DEF Positions
<1> QED
  BY <1>1, <1>2, <1>3 DEF Right

\* A failed node, wherever it is.
LEMMA RightFailed ==
  ASSUME Typed, NEW p \in Positions
  PROVE  Right(p, Failed)
<1>1. Reads(p, Failed) /\ From(0, 0)
  BY FailedIs, Lengths DEF From, Positions
<1>2. ~IsList(Failed) /\ TokenBehind(Failed) = 0 /\ Failed.end = 0
  BY DEF Failed, IsList, TokenBehind
<1> QED
  BY <1>1, <1>2 DEF Right

\* What stands behind a token of the file, read by parsed.
LEMMA AtToken ==
  ASSUME Typed, NEW at \in DOMAIN tokens
  PROVE  /\ at \in Positions /\ at # 0 /\ From(at, at) /\ Ends(at, at + 1) /\ at + 1 \in Positions
         /\ Context(parsed, parsed, at)
BY NextAt, OnFrom, ParsedBehind DEF Ends

\* An assignment starts where its name is.
LEMMA AssignRight ==
  ASSUME Typed, NEW at \in DOMAIN tokens, NEW p, Ends(at, p) \/ From(at, p)
  PROVE  Right(p, parse_assign(parsed, p))
<1> DEFINE start == nonws_token(p)
           id == skip_token(Identifiers, start)
           sign == nonws_token(id)
           equal == skip_token({"="}, sign)
           in == nonws_token(equal)
           expr == parsed[<<"expr", in>>]
           x == parse_assign(parsed, p)
<1>0. p \in Positions
  BY DEF Ends, From
<1>1. From(p, start) /\ start \in Positions
  BY <1>0, NonWs
<1>2. x = Assignment(start, sign, expr)
  BY DEF parse_assign
<1> HIDE DEF start
<1>3. Ends(start, id) /\ id \in Positions
  BY <1>1, SkipIs, NullIs
<1> HIDE DEF id
<1>4. From(id, sign) /\ sign \in Positions
  BY <1>3, NonWs
<1> HIDE DEF sign
<1>5. Ends(sign, equal) /\ equal \in Positions
  BY <1>4, SkipIs
<1> HIDE DEF equal
<1>6. From(equal, in) /\ in \in Positions
  BY <1>5, NonWs
<1> HIDE DEF in
<1>7. Ends(in, expr.end)
  <2>1. <<"expr", in>> \in Readings /\ "expr" \notin DOMAIN Lists
    BY <1>6, ListKinds DEF Readings, Positions
  <2> QED
    BY <2>1, ParsedIs DEF Lies, Reads
<1> SUFFICES Right(p, x)
  OBVIOUS
<1> HIDE DEF expr, x
<1>8. Bare(x) /\ x.start = start /\ x.end = expr.end
  BY <1>2 DEF Assignment, Bare, IsList
<1>9. Ends(start, expr.end)
  BY <1>1, <1>3, <1>4, <1>5, <1>6, <1>7, OnFrom
<1>10. From(start, start)
  BY <1>1, OnFrom
<1> QED
  BY <1>0, <1>1, <1>8, <1>9, <1>10, BareIs

\* An operand starts where its first token is.
LEMMA LazyRight ==
  ASSUME Typed, NEW p \in Positions
  PROVE  Right(p, parse_expr_lazy(parsed, p))
<1> DEFINE at == Twice(p)
           first == at = nonws_token(p)
           x == parse_expr_lazy(parsed, p)
<1>1. From(p, at) /\ at \in Positions
  BY TwiceIs
<1>2. x = CASE Type(at) = "str" /\ first -> Leaf("STRING_LITERAL", at)
            [] Type(at) = "num" -> Leaf("INT_LITERAL", at)
            [] Type(at) = "{" -> parse_struct_init(parsed, at)
            [] Type(at) = "(" -> parse_cast(parsed, at)
            [] Type(at) \in Identifiers ->
                 IF Type(at) \in defines THEN Leaf("DEFINE_REFERENCE", at)
                 ELSE IF is_next_skipws("[", at) THEN parse_arr_access(parsed, at)
                 ELSE IF is_next_skipws("(", at) THEN parse_func_invoke(parsed, at)
                 ELSE IF is_next_skipws("=", at) THEN parse_assign(parsed, at)
                 ELSE Leaf("VAR_REFERENCE", at)
            [] OTHER -> Failed
  BY DEF parse_expr_lazy
<1> SUFFICES Right(p, x)
  OBVIOUS
<1> HIDE DEF at, first, x
<1>3. Type(at) \in Identifiers => Type(at) \notin {"str", "num", "{", "("}
  BY Apart DEF Signs
<1>4. Right(p, Failed)
  BY RightFailed
<1>5. CASE Type(at) \in {"str", "num", "{", "("} \cup Identifiers
  <2>1. at \in DOMAIN tokens
    BY <1>5, TypeIs, NullIs
  <2>2. Context(parsed, parsed, at) /\ From(at, at)
    BY <2>1, AtToken
  <2>3. Right(p, parse_assign(parsed, at))
    BY <1>1, <2>1, <2>2, AssignRight, RightFrom
  <2>4. ASSUME NEW y, Reads(at, y), Bare(y), y.start = at PROVE Right(p, y)
    BY <1>1, <2>2, <2>4, BareAt DEF Reads
  <2>5. Right(p, parse_arr_access(parsed, at))
    <3>1. Bare(parse_arr_access(parsed, at)) /\ parse_arr_access(parsed, at).start = at
      BY DEF parse_arr_access, ArrayAccess, Bare, IsList
    <3> QED
      BY <2>1, <2>2, <2>4, <3>1, AccessIs
  <2>6. Right(p, parse_func_invoke(parsed, at))
    <3>1. Bare(parse_func_invoke(parsed, at)) /\ parse_func_invoke(parsed, at).start = at
      BY DEF parse_func_invoke, FuncInvoke, Bare, IsList
    <3> QED
      BY <2>1, <2>2, <2>4, <3>1, InvokeIs
  <2>7. Right(p, parse_cast(parsed, at))
    <3>1. Bare(parse_cast(parsed, at)) /\ parse_cast(parsed, at).start = at
      BY DEF parse_cast, TypeCast, Bare, IsList
    <3> QED
      BY <2>1, <2>2, <2>4, <3>1, CastIs
  <2>8. Right(p, parse_struct_init(parsed, at))
    <3>1. Bare(parse_struct_init(parsed, at)) /\ parse_struct_init(parsed, at).start = at
      BY DEF parse_struct_init, StructInit, Bare, IsList
    <3> QED
      BY <2>1, <2>2, <2>4, <3>1, StructInitIs
  <2>9. ASSUME NEW type PROVE Right(p, Leaf(type, at))
    <3>1. Bare(Leaf(type, at)) /\ Leaf(type, at).start = at
      BY DEF Leaf, Bare, IsList
    <3> QED
      BY <2>1, <2>4, <3>1, LeafIs
  <2>10. CASE Type(at) \in Identifiers
    BY <1>2, <1>3, <2>3, <2>5, <2>6, <2>9, <2>10
  <2>11. CASE Type(at) = "str"
    BY <1>2, <1>3, <1>4, <2>9, <2>11
  <2>12. CASE Type(at) = "num"
    BY <1>2, <1>3, <2>9, <2>12
  <2>13. CASE Type(at) = "{"
    BY <1>2, <1>3, <2>8, <2>13
  <2>14. CASE Type(at) = "("
    BY <1>2, <1>3, <2>7, <2>14
  <2> QED
    BY <1>5, <2>10, <2>11, <2>12, <2>13, <2>14
<1>6. CASE Type(at) \notin {"str", "num", "{", "("} \cup Identifiers
  BY <1>2, <1>4, <1>6
<1> QED
  BY <1>5, <1>6

\* What parsed reads at a position.
LEMMA ParsedAt ==
  ASSUME Typed, NEW p \in Positions
  PROVE  /\ parsed[<<"expr", p>>] = parse_expr(parsed, p) /\ Reads(p, parsed[<<"expr", p>>])
         /\ parsed[<<"statement", p>>] = parse_statement(parsed, p) /\ Reads(p, parsed[<<"statement", p>>])
<1>1. <<"expr", p>> \in Readings /\ <<"statement", p>> \in Readings
  BY DEF Readings, Positions
<1>2. /\ Body(parsed, <<"expr", p>>) = parse_expr(parsed, p)
      /\ Body(parsed, <<"statement", p>>) = parse_statement(parsed, p)
  BY DEF Body
<1>3. \A r \in Readings : parsed[r] = Body(parsed, r) /\ Lies(r, parsed[r])
  BY ParsedIs
<1>4. /\ parsed[<<"expr", p>>] = Body(parsed, <<"expr", p>>) /\ Lies(<<"expr", p>>, parsed[<<"expr", p>>])
      /\ parsed[<<"statement", p>>] = Body(parsed, <<"statement", p>>)
      /\ Lies(<<"statement", p>>, parsed[<<"statement", p>>])
  BY <1>1, <1>3
<1> QED
  BY <1>2, <1>4, ListKinds DEF Lies

\* An expression starts behind one whitespace token, or two.
LEMMA ExprRight ==
  ASSUME Typed, NEW p \in Positions
  PROVE  Right(p, parsed[<<"expr", p>>])
<1> DEFINE start == nonws_token(p)
           at == Twice(p)
           in == nonws_token(at + 1)
           lhs == parse_expr_lazy(parsed, at)
           first == nonws_token(lhs.end)
           sign == nonws_token(first)
           member == nonws_token(first + 1)
           rhs == parse_expr_lazy(parsed, sign + 1)
           x == parse_expr(parsed, p)
<1>1. From(p, start) /\ start \in Positions
  BY NonWs
<1>2. From(start, at) /\ at \in Positions
  BY <1>1, NonWs DEF Twice
<1>3. From(p, at) /\ From(p, p) /\ From(at, at)
  BY <1>1, <1>2, OnFrom
<1>4. x = IF Type(at) \in {"&", "*"} THEN EndsWith("UNARY_OP", at, parsed[<<"expr", in>>])
          ELSE Operated(parsed, start, lhs)
  BY DEF parse_expr
<1>5. Operated(parsed, start, lhs) =
        CASE Type(first) = "->" -> MemberAccess(start, lhs, member)
          [] Type(sign) = "==" -> BinaryOp(start, lhs, rhs)
          [] Type(sign) = "NULL" -> Failed
          [] OTHER -> lhs
  BY DEF Operated
<1>6. Type(first) = "->" => Type(sign) \notin {"==", "NULL"}
  BY DEF nonws_token
<1>7. parsed[<<"expr", p>>] = x
  BY ParsedAt
<1> SUFFICES Right(p, x)
  BY <1>7
<1>8. Right(at, lhs)
  BY <1>2, LazyRight
<1> HIDE DEF start, x, at
<1>9. CASE Type(at) \in {"&", "*"}
  <2>1. at \in DOMAIN tokens
    BY <1>9, TypeIs
  <2>2. Ends(at, at + 1) /\ at + 1 \in Positions
    BY <2>1, AtToken
  <2>3. From(at + 1, in) /\ in \in Positions
    BY <2>2, NonWs
  <2> DEFINE expr == parsed[<<"expr", in>>]
  <2>4. Ends(in, expr.end)
    BY <2>3, ParsedAt DEF Reads
  <2>5. x = EndsWith("UNARY_OP", at, expr)
    BY <1>4, <1>9
  <2> HIDE DEF in, expr
  <2>6. Bare(x) /\ x.start = at /\ x.end = expr.end
    BY <2>5 DEF EndsWith, Bare, IsList
  <2>7. Ends(at, x.end)
    BY <1>2, <2>2, <2>3, <2>4, <2>6, OnFrom
  <2> QED
    BY <1>3, <2>6, <2>7, BareAt
<1>10. CASE Type(at) \notin {"&", "*"}
  <2> HIDE DEF lhs
  <2>1. Ends(at, lhs.end) /\ lhs.end \in Positions
    BY <1>8 DEF Right, Reads, Ends
  <2>2. From(lhs.end, first) /\ first \in Positions
    BY <2>1, NonWs
  <2> HIDE DEF first
  <2>3. Ends(start, first)
    BY <1>1, <1>2, <2>1, <2>2, OnFrom
  <2>4. From(first, sign) /\ sign \in Positions
    BY <2>2, NonWs
  <2> HIDE DEF sign
  <2>5. Right(p, Failed) /\ Right(p, lhs)
    BY <1>3, <1>8, RightFailed, RightFrom
  <2>6. CASE Type(first) = "->"
    <3>1. first \in DOMAIN tokens
      BY <2>6, TypeIs
    <3>2. Ends(first, first + 1) /\ first + 1 \in Positions
      BY <3>1, AtToken
    <3>3. From(first + 1, member) /\ member \in Positions
      BY <3>2, NonWs
    <3> HIDE DEF member
    <3>4. Ends(member, next_token(member))
      BY <3>3, NextIs
    <3>5. x = MemberAccess(start, lhs, member)
      BY <1>4, <1>5, <1>6, <1>10, <2>6
    <3>6. Bare(x) /\ x.start = start /\ x.end = next_token(member)
      BY <3>5 DEF MemberAccess, Bare, IsList
    <3>7. Ends(start, x.end)
      BY <1>1, <2>2, <2>3, <3>2, <3>3, <3>4, <3>6, OnFrom
    <3> QED
      BY <1>1, <3>6, <3>7, OnFrom, BareAt
  <2>7. CASE Type(first) # "->" /\ Type(sign) = "=="
    <3>1. sign \in DOMAIN tokens
      BY <2>7, TypeIs
    <3>2. Ends(sign, sign + 1) /\ sign + 1 \in Positions
      BY <3>1, AtToken
    <3>3. Ends(sign + 1, rhs.end)
      BY <3>2, LazyRight DEF Right, Reads
    <3>4. x = BinaryOp(start, lhs, rhs)
      BY <1>4, <1>5, <1>10, <2>7
    <3> HIDE DEF rhs
    <3>5. Bare(x) /\ x.start = start /\ x.end = rhs.end
      BY <3>4 DEF BinaryOp, Bare, IsList
    <3>6. Ends(start, x.end)
      BY <1>1, <2>3, <2>4, <3>2, <3>3, <3>5, OnFrom
    <3> QED
      BY <1>1, <3>5, <3>6, OnFrom, BareAt
  <2>8. CASE Type(first) # "->" /\ Type(sign) = "NULL"
    BY <1>4, <1>5, <1>10, <2>5, <2>8
  <2>9. CASE Type(first) # "->" /\ Type(sign) \notin {"==", "NULL"}
    BY <1>4, <1>5, <1>10, <2>5, <2>9
  <2> QED
    BY <2>6, <2>7, <2>8, <2>9
<1> QED
  BY <1>9, <1>10

\* A declaration starts behind one whitespace token.
LEMMA DeclRight ==
  ASSUME Typed, NEW p \in Positions
  PROVE  Right(p, parse_decl(parsed, p))
<1> DEFINE start == nonws_token(p)
           at == nonws_token(start)
           type == parse_data_type(at)
           id == nonws_token(type.end)
           assign == parse_assign(parsed, id)
           x == parse_decl(parsed, p)
<1>1. From(p, start) /\ start \in Positions
  BY NonWs
<1>2. From(start, at) /\ at \in Positions
  BY <1>1, NonWs
<1>3. x = IF Type(at) = "..."
            THEN [type |-> "DECLARATION", start |-> start, end |-> at + 1, var_arg |-> TRUE]
          ELSE IF is_next_skipws("=", id) THEN Initialised(start, type, id, assign)
          ELSE Declaration(start, type, id, skip_token(Identifiers, id), <<>>)
  BY DEF parse_decl
<1>4. From(at, type.end) /\ type.end \in Positions
  BY <1>2, DataType
<1>5. From(type.end, id) /\ id \in Positions
  BY <1>4, NonWs
<1> SUFFICES Right(p, x)
  OBVIOUS
<1> HIDE DEF start, at, type, x, assign, id
<1>6. From(start, id)
  BY <1>1, <1>2, <1>4, <1>5, OnFrom
<1>7. CASE Type(at) = "..."
  <2>1. at \in DOMAIN tokens
    BY <1>7, TypeIs
  <2>2. Ends(at, at + 1)
    BY <2>1, AtToken
  <2>3. Bare(x) /\ x.start = start /\ x.end = at + 1
    BY <1>3, <1>7 DEF Bare, IsList
  <2> QED
    BY <1>1, <1>2, <2>2, <2>3, OnFrom, BareIs
<1>8. CASE Type(at) # "..." /\ is_next_skipws("=", id)
  <2>1. id \in DOMAIN tokens
    BY <1>8 DEF is_next_skipws
  <2>2. Right(id, assign)
    BY <1>5, <2>1, AtToken, AssignRight DEF assign
  <2>3. x = Declaration(start, type, id, assign.end, <<assign>>)
    BY <1>3, <1>8 DEF Initialised
  <2>4. Bare(x) /\ x.start = start /\ x.end = assign.end
    BY <2>3 DEF Declaration, Bare, IsList
  <2>5. Ends(id, assign.end)
    BY <2>2 DEF Right, Reads
  <2> QED
    BY <1>1, <1>6, <2>4, <2>5, BareIs
<1>9. CASE Type(at) # "..." /\ ~is_next_skipws("=", id)
  <2>1. x = Declaration(start, type, id, skip_token(Identifiers, id), <<>>)
    BY <1>3, <1>9
  <2>2. Bare(x) /\ x.start = start /\ x.end = skip_token(Identifiers, id)
    BY <2>1 DEF Declaration, Bare, IsList
  <2>3. Ends(id, skip_token(Identifiers, id))
    BY <1>5, SkipIs, NullIs
  <2> QED
    BY <1>1, <1>6, <2>2, <2>3, BareIs
<1> QED
  BY <1>7, <1>8, <1>9

\* An if starts at its word, and the next token is behind its end.
LEMMA IfRight ==
  ASSUME Typed, NEW at \in DOMAIN tokens
  PROVE  Right(at, parse_if(parsed, at))
<1> DEFINE cond == parsed[<<"expr", skip_token({"("}, at + 1)>>]
           then == parse_branch(parsed, skip_token({")"}, cond.end))
           end == TokenBehind(then)
           behind == nonws_token(end)
           else == parse_branch(parsed, behind + 1)
           x == parse_if(parsed, at)
<1>1. x = IfThen(parsed, at, cond, then)
  BY DEF parse_if, If
<1>2. IfThen(parsed, at, cond, then) =
        CASE Type(behind) = "NULL" -> Failed
          [] Type(behind) = "else" -> IfElse(at, cond, then, behind, else)
          [] OTHER -> [type |-> "IF_STATEMENT", start |-> at, end |-> end, next |-> Twice(end),
                       cond |-> cond, then |-> then, else_token |-> 0]
  BY DEF IfThen
<1>3. Reads(at, x) /\ at \in Positions /\ From(at, at)
  BY AtToken, IfIs
<1> SUFFICES Right(at, x)
  OBVIOUS
<1> HIDE DEF x, cond, then, end, else, behind
<1>4. CASE Type(behind) = "NULL"
  BY <1>1, <1>2, <1>3, <1>4, RightFailed
<1>5. CASE Type(behind) = "else"
  <2>1. x = IfElse(at, cond, then, behind, else)
    BY <1>1, <1>2, <1>5
  <2>2. Bare(x) /\ x.start = at
    BY <2>1 DEF IfElse, Bare, IsList
  <2> QED
    BY <1>3, <2>2, BareAt DEF Reads
<1>6. CASE Type(behind) \notin {"NULL", "else"}
  <2> DEFINE next == Twice(end)
  <2>1. x = [type |-> "IF_STATEMENT", start |-> at, end |-> end, next |-> next,
             cond |-> cond, then |-> then, else_token |-> 0]
    BY <1>1, <1>2, <1>6
  <2> HIDE DEF next
  <2>2. ~IsList(x) /\ x.start = at /\ x.end = end /\ TokenBehind(x) = next
    BY <2>1 DEF IsList, TokenBehind
  <2>3. Ends(at, end) /\ end \in Positions
    BY <1>3, <2>2 DEF Reads, Ends
  <2>4. From(end, next)
    BY <2>3, TwiceIs DEF next
  <2>5. end # 0 => at \in Nat /\ at <= at /\ at < end
    BY <1>3, <2>3, Lengths DEF Ends, Positions
  <2> QED
    BY <1>3, <2>2, <2>4, <2>5 DEF Right
<1> QED
  BY <1>4, <1>5, <1>6

\* A statement starts behind whitespace.
LEMMA StatementRight ==
  ASSUME Typed, NEW p \in Positions
  PROVE  Right(p, parsed[<<"statement", p>>])
<1> DEFINE at == nonws_token(p)
           named == \E id \in Identifiers : is_next_skipws(id, at)
           labelled == is_next_skipws(":", at)
           x == parse_statement(parsed, p)
<1>1. From(p, at) /\ at \in Positions
  BY NonWs
<1>2. x = CASE Type(at) = "COMMENT" -> parse_comment(at)
            [] Type(at) \in Identifiers ->
                 IF labelled THEN parse_label(at)
                 ELSE IF named THEN parse_decl(parsed, at)
                 ELSE parsed[<<"expr", at>>]
            [] Type(at) = "goto" -> parse_goto(at)
            [] Type(at) = "if" -> parse_if(parsed, at)
            [] Type(at) = "return" -> parse_return(parsed, at)
            [] Type(at) = "switch" -> parse_switch(parsed, at)
            [] Type(at) = "break" -> parse_break(at)
            [] Type(at) \in Keywords \ JumpWords -> parse_decl(parsed, at)
            [] OTHER -> parsed[<<"expr", at>>]
  BY DEF parse_statement
<1>3. parsed[<<"statement", p>>] = x
  BY ParsedAt
<1> SUFFICES Right(p, x)
  BY <1>3
<1> HIDE DEF at, named, labelled, x
<1>4. Right(p, parsed[<<"expr", at>>]) /\ Right(p, parse_decl(parsed, at))
  BY <1>1, ExprRight, DeclRight, RightFrom
<1>5. ASSUME at \in DOMAIN tokens
      PROVE  /\ Right(p, parse_comment(at)) /\ Right(p, parse_break(at))
             /\ Right(p, parse_label(at)) /\ Right(p, parse_goto(at)) /\ Right(p, parse_if(parsed, at))
             /\ Right(p, parse_return(parsed, at)) /\ Right(p, parse_switch(parsed, at))
  <2>1. Context(parsed, parsed, at) /\ From(at, at)
    BY <1>5, AtToken
  <2>2. ASSUME NEW y, Reads(at, y), Bare(y), y.start = at PROVE Right(p, y)
    BY <1>1, <2>1, <2>2, BareAt DEF Reads
  <2>3. Right(p, parse_comment(at)) /\ Right(p, parse_break(at))
    <3>1. /\ Reads(at, parse_comment(at)) /\ Reads(at, parse_break(at))
          /\ Bare(parse_comment(at)) /\ parse_comment(at).start = at
          /\ Bare(parse_break(at)) /\ parse_break(at).start = at
      BY <1>5, LeafIs DEF parse_comment, parse_break, Leaf, Bare, IsList
    <3> QED
      BY <2>2, <3>1
  <2>4. Right(p, parse_label(at)) /\ Right(p, parse_goto(at))
    <3>1. /\ Bare(parse_label(at)) /\ parse_label(at).start = at
          /\ Bare(parse_goto(at)) /\ parse_goto(at).start = at
      BY DEF parse_label, parse_goto, Bare, IsList
    <3> QED
      BY <1>5, <2>2, <3>1, LabelIs
  <2>5. Right(p, parse_return(parsed, at))
    <3>1. Bare(parse_return(parsed, at)) /\ parse_return(parsed, at).start = at
      BY DEF parse_return, EndsWith, Bare, IsList
    <3> QED
      BY <1>5, <2>1, <2>2, <3>1, ReturnIs
  <2>6. Right(p, parse_switch(parsed, at))
    <3>1. Bare(parse_switch(parsed, at)) /\ parse_switch(parsed, at).start = at
      BY DEF parse_switch, Switch, SwitchStatement, Bare, IsList
    <3> QED
      BY <1>5, <2>1, <2>2, <3>1, SwitchIs
  <2>7. Right(p, parse_if(parsed, at))
    BY <1>1, <1>5, IfRight, RightFrom
  <2> QED
    BY <2>3, <2>4, <2>5, <2>6, <2>7
<1>6. /\ Type(at) \in Identifiers => Type(at) \notin Keywords \cup {"COMMENT"}
      /\ JumpWords \subseteq Keywords /\ "COMMENT" \notin Keywords
      /\ JumpWords = {"goto", "if", "return", "switch", "break"}
  BY Apart DEF Signs, Keywords, JumpWords
<1>7. Type(at) \in {"COMMENT"} \cup JumpWords \cup Identifiers => at \in DOMAIN tokens
  BY TypeIs, NullIs, <1>6
<1>8. CASE Type(at) \in Identifiers
  BY <1>2, <1>4, <1>5, <1>6, <1>7, <1>8
<1>9. CASE Type(at) = "COMMENT"
  BY <1>2, <1>5, <1>6, <1>7, <1>9
<1>10. CASE Type(at) = "goto"
  BY <1>2, <1>5, <1>6, <1>7, <1>10
<1>11. CASE Type(at) = "if"
  BY <1>2, <1>5, <1>6, <1>7, <1>11
<1>12. CASE Type(at) = "return"
  BY <1>2, <1>5, <1>6, <1>7, <1>12
<1>13. CASE Type(at) = "switch"
  BY <1>2, <1>5, <1>6, <1>7, <1>13
<1>14. CASE Type(at) = "break"
  BY <1>2, <1>5, <1>6, <1>7, <1>14
<1>15. CASE Type(at) \in Keywords \ JumpWords
  BY <1>2, <1>4, <1>6, <1>15
<1>16. CASE Type(at) \notin Identifiers \cup Keywords \cup {"COMMENT"}
  BY <1>2, <1>4, <1>6, <1>16
<1> QED
  BY <1>6, <1>8, <1>9, <1>10, <1>11, <1>12, <1>13, <1>14, <1>15, <1>16

\* The nodes the parser makes anywhere in the file, but for the failed ones,
\* and the stubs of its blocks.
Stub(p, q) == [type |-> "STUB", start |-> p, end |-> q]
Made ==
  {x \in {parsed[<<"expr", p>>] : p \in Positions} \cup {parsed[<<"statement", p>>] : p \in Positions}
         \cup {parse_expr_lazy(parsed, p) : p \in Positions} \cup {parse_decl(parsed, p) : p \in Positions} :
     x.end # 0}
  \cup {Stub(r[1], r[2]) : r \in {s \in Positions \X Positions : s[1] # 0 /\ s[1] <= s[2]}}

\* Each of them that has not failed is among them.
LEMMA MadeHas ==
  ASSUME NEW p \in Positions
  PROVE  /\ parsed[<<"expr", p>>].end # 0 => parsed[<<"expr", p>>] \in Made
         /\ parsed[<<"statement", p>>].end # 0 => parsed[<<"statement", p>>] \in Made
         /\ parse_expr_lazy(parsed, p).end # 0 => parse_expr_lazy(parsed, p) \in Made
         /\ parse_decl(parsed, p).end # 0 => parse_decl(parsed, p) \in Made
BY DEF Made

\* So is a stub.
LEMMA StubMade ==
  ASSUME NEW p \in Positions, NEW q \in Positions, p # 0, p <= q
  PROVE  Stub(p, q) \in Made
<1>1. <<p, q>> \in {s \in Positions \X Positions : s[1] # 0 /\ s[1] <= s[2]}
  OBVIOUS
<1> QED
  BY <1>1 DEF Made

\* A block of a switch: its statements stand behind its word, its colon behind
\* its label.
Cased(x) ==
  /\ x.label \in Nat /\ x.colon \in Nat
  /\ (IF x.label = 0 THEN x.start ELSE x.label) + 1 <= x.colon
  /\ IsSeq(x.items)
  /\ \A i \in DOMAIN x.items : x.items[i] \in Made /\ x.start < x.items[i].start /\ x.items[i].end <= x.end

\* What a list holds, between two positions.
Item(list, x) ==
  IF list = "cases" THEN Cased(x) ELSE x \in Made /\ (Lists[list].item = "decl" => x.type = "DECLARATION")
Element(list, p, q, x) ==
  /\ Item(list, x)
  /\ x.start \in Nat /\ x.end \in Nat /\ p <= x.start /\ x.end <= q
Elements(list, p, q, items) == IsSeq(items) /\ \A i \in DOMAIN items : Element(list, p, q, items[i])

\* A list read from a position on holds nodes from there to its end.
Filled(list, p) ==
  parsed[<<list, p>>].end # 0 => Elements(list, p, parsed[<<list, p>>].end, parsed[<<list, p>>].items)

\* So do all lists behind a position.
FilledBehind(p) == \A q \in Positions, list \in DOMAIN Lists : Ends(p, q) => Filled(list, q)

\* What is between two positions is between those around them.
LEMMA ElementsWithin ==
  ASSUME NEW list, NEW p \in Nat, NEW q \in Nat, NEW items, Elements(list, p, q, items),
         NEW a \in Nat, NEW b \in Nat, a <= p, q <= b
  PROVE  Elements(list, a, b, items)
BY DEF Elements, Element

\* A list of one.
LEMMA OneElement ==
  ASSUME NEW list, NEW p, NEW q, NEW x, Element(list, p, q, x)
  PROVE  Elements(list, p, q, <<x>>)
<1>1. <<x>> \in Seq({x}) /\ DOMAIN <<x>> = {1} /\ <<x>>[1] = x
  OBVIOUS
<1> QED
  BY <1>1 DEF Elements, IsSeq

\* A list of none.
LEMMA NoElement ==
  ASSUME NEW list, NEW p, NEW q
  PROVE  Elements(list, p, q, <<>>)
<1>1. <<>> \in Seq({}) /\ DOMAIN <<>> = {}
  OBVIOUS
<1> QED
  BY <1>1 DEF Elements, IsSeq

\* A list behind another one.
LEMMA MoreElements ==
  ASSUME NEW list, NEW p, NEW q, NEW s, Elements(list, p, q, s), NEW t, Elements(list, p, q, t)
  PROVE  Elements(list, p, q, s \o t)
<1>1. IsSeq(s) /\ IsSeq(t)
  BY DEF Elements
<1>2. IsSeq(s \o t) /\ \A i \in DOMAIN s : (s \o t)[i] = s[i]
  BY <1>1, Parts
<1>3. \A i \in DOMAIN (s \o t) : i \in DOMAIN s \/ (i - Len(s) \in DOMAIN t /\ (s \o t)[i] = t[i - Len(s)])
  BY <1>1, PartsOnly
<1> QED
  BY <1>2, <1>3 DEF Elements

\* What parsed reads of a list at a position.
LEMMA ListAt ==
  ASSUME Typed, NEW p \in Positions, NEW list \in DOMAIN Lists
  PROVE  parsed[<<list, p>>] = parse_list(parsed, p, list) /\ From(p, parsed[<<list, p>>].end)
<1>1. <<list, p>> \in Readings
  BY DEF Readings, Positions
<1>2. Body(parsed, <<list, p>>) = parse_list(parsed, p, list)
  BY ListKinds DEF Body
<1>3. parsed[<<list, p>>] = Body(parsed, <<list, p>>) /\ Lies(<<list, p>>, parsed[<<list, p>>])
  BY <1>1, ParsedIs
<1> QED
  BY <1>2, <1>3 DEF Lies

\* A list in delimiters: its nodes are between its stub and its end.
LEMMA EnclosedHas ==
  ASSUME Typed, NEW a \in Positions, NEW p, From(a, p), NEW open, open # "NULL", NEW close, close # "NULL",
         NEW list \in DOMAIN Lists, FilledBehind(a), NEW x, x = Enclosed(parsed, open, list, close, p), x.end # 0
  PROVE  /\ x.stub \in Nat /\ x.stub_end \in Nat /\ a < x.stub /\ x.stub <= x.stub_end
         /\ x.stub \in Positions /\ x.stub_end \in Positions /\ IsList(x)
         /\ x.end \in Nat /\ Elements(list, x.stub, x.end - 1, x.items) /\ x.stub_end < x.end
         /\ Ends(a, x.end) /\ TokenBehind(x) = x.end /\ p # 0 /\ p < x.stub
<1> DEFINE inside == skip_token({open}, p)
           stub == nonws_token(inside)
           in == Twice(inside)
           read == parsed[<<list, in>>]
           end == skip_token({close}, read.end)
<1>1. x = [stub |-> stub, stub_end |-> in, items |-> read.items, end |-> end]
  BY DEF Enclosed, Closed
<1>2. p \in Positions
  BY DEF From
<1>3. Ends(p, inside) /\ inside \in Positions
  BY <1>2, SkipIs
<1> HIDE DEF inside
<1>4. From(inside, stub) /\ stub \in Positions
  BY <1>3, NonWs
<1>5. in = nonws_token(stub)
  BY DEF Twice
<1> HIDE DEF stub, in
<1>6. From(stub, in) /\ in \in Positions
  BY <1>4, <1>5, NonWs
<1>7. From(in, read.end) /\ read.end \in Positions
  BY <1>6, ListAt DEF From
<1>8. Ends(read.end, end) /\ end \in Positions
  BY <1>7, SkipIs
<1>9. Ends(a, in)
  BY <1>2, <1>3, <1>4, <1>6, OnFrom
<1>10. Filled(list, in)
  BY <1>6, <1>9 DEF FilledBehind
<1> DEFINE items == read.items
           last == read.end
<1>11. last # 0 => Elements(list, in, last, items)
  BY <1>10 DEF Filled
<1>12. x.stub = stub /\ x.stub_end = in /\ x.items = items /\ x.end = end /\ IsList(x) /\ TokenBehind(x) = x.end
  BY <1>1 DEF IsList, TokenBehind
<1>13. last \in Positions /\ From(in, last) /\ Ends(last, end)
  BY <1>7, <1>8
<1> HIDE DEF items, last, end, read
<1>14. end # 0
  BY <1>12
<1>15. /\ stub \in Nat /\ in \in Nat /\ last \in Nat /\ end \in Nat /\ p \in Nat
       /\ last # 0 /\ last < end /\ in # 0 /\ in <= last /\ stub # 0 /\ stub <= in /\ inside # 0 /\ inside <= stub
       /\ p # 0 /\ p < inside /\ inside \in Nat /\ a # 0 /\ a <= p /\ a \in Nat
  BY <1>2, <1>3, <1>4, <1>6, <1>8, <1>13, <1>14, Lengths DEF From, Ends, Positions
<1>16. Elements(list, stub, end - 1, items)
  <2>1. end - 1 \in Nat /\ last <= end - 1
    BY <1>15
  <2> QED
    BY <1>11, <1>15, <2>1, ElementsWithin
<1>17. Ends(a, end)
  BY <1>8, <1>15 DEF Ends
<1>18. a < stub /\ in < end /\ p < stub
  BY <1>15
<1> QED
  BY <1>4, <1>6, <1>12, <1>15, <1>16, <1>17, <1>18

\* What the turns of a loop over each list read.
LEMMA ItemsAre ==
  /\ Lists["arguments"].item = "expr" /\ Lists["values"].item = "expr"
  /\ Lists["params"].item = "decl" /\ Lists["members"].item = "decl"
  /\ Lists["statements"].item = "statement" /\ Lists["parts"].item = "part" /\ Lists["cases"].item = "case"
BY DEF Lists

\* A node that is read alone.
LEMMA SingleHas ==
  ASSUME Typed, NEW at \in Positions, NEW list, NEW x, Right(at, x), TokenBehind(x) # 0,
         x.end # 0 => Item(list, x)
  PROVE  Elements(list, at, TokenBehind(x), Single(x).nodes)
<1>1. From(x.end, TokenBehind(x)) /\ x.end \in Positions /\ TokenBehind(x) \in Positions
  BY DEF Right, Reads, Ends
<1>2. x.end # 0 /\ x.end <= TokenBehind(x) /\ x.end \in Nat /\ TokenBehind(x) \in Nat /\ at \in Nat
  BY <1>1, Lengths DEF From, Positions
<1>3. Element(list, at, TokenBehind(x), x)
  BY <1>2 DEF Right, Element
<1> QED
  BY <1>3, OneElement DEF Single

\* A case, with the statements behind its colon.
LEMMA CaseHas ==
  ASSUME Typed, NEW at \in Positions, FilledBehind(at), NEW x, x = parse_case(parsed, at), x.end # 0
  PROVE  Cased(x) /\ x.start = at /\ Ends(at, x.end) /\ TokenBehind(x) = x.end
<1> DEFINE label == nonws_token(at + 1)
           labelled == IF Type(label) \in {"num"} \cup Identifiers THEN label + 1 ELSE 0
           before == IF Type(at) = "case" THEN labelled ELSE at + 1
           colon == nonws_token(before)
           behind == skip_token({":"}, colon)
           in == Twice(behind)
           id == IF Type(at) = "case" THEN label ELSE 0
           parts == parsed[<<"parts", in>>]
           end == parts.end
           items == parts.items
<1>1. Type(at) \in {"case", "default"}
  <2>1. Type(at) \notin {"case", "default"} => x = Failed
    BY DEF parse_case
  <2> QED
    BY <2>1 DEF Failed
<1>2. x = SwitchBlock(at, id, colon, parts)
  BY <1>1 DEF parse_case
<1>3. at \in DOMAIN tokens
  BY <1>1, TypeIs
<1>4. Ends(at, at + 1) /\ at + 1 \in Positions /\ at # 0 /\ at \in Nat
  BY <1>3, AtToken, Lengths DEF Positions
<1>5. From(at + 1, label) /\ label \in Positions
  BY <1>4, NonWs
<1> HIDE DEF label
<1>6. Ends(label, labelled) /\ labelled \in Positions /\ (labelled # 0 => labelled = label + 1)
  <2>1. CASE Type(label) \in {"num"} \cup Identifiers
    <3>1. label \in DOMAIN tokens
      BY <2>1, TypeIs, NullIs
    <3> QED
      BY <2>1, <3>1, AtToken
  <2>2. CASE Type(label) \notin {"num"} \cup Identifiers
    BY <1>5, <2>2, Lengths DEF Ends, Positions
  <2> QED
    BY <2>1, <2>2
<1> HIDE DEF labelled
<1>7. before \in Positions
  BY <1>4, <1>6
<1>8. before = IF Type(at) = "case" THEN labelled ELSE at + 1
  OBVIOUS
<1> HIDE DEF before
<1>9. From(before, colon) /\ colon \in Positions
  BY <1>7, NonWs
<1> HIDE DEF colon
<1>10. Ends(colon, behind) /\ behind \in Positions
  BY <1>9, SkipIs
<1> HIDE DEF behind
<1>11. From(behind, in) /\ in \in Positions
  BY <1>10, TwiceIs
<1> HIDE DEF in
<1>12. "parts" \in DOMAIN Lists
  BY ListKinds
<1>13. From(in, end)
  BY <1>11, <1>12, ListAt
<1>14. /\ x.start = at /\ x.end = end /\ x.items = items /\ x.label = id /\ x.colon = colon
       /\ TokenBehind(x) = x.end
  <2> HIDE DEF parts, id
  <2> QED
    BY <1>2 DEF SwitchBlock, TokenBehind
<1>15. id = IF Type(at) = "case" THEN label ELSE 0
  OBVIOUS
<1>16. Filled("parts", in) /\ Ends(at, in)
  <2>1. Ends(at, before)
    <3>1. CASE Type(at) = "case"
      BY <1>4, <1>5, <1>6, <1>8, <3>1, OnFrom
    <3>2. CASE Type(at) # "case"
      BY <1>4, <1>8, <3>2
    <3> QED
      BY <3>1, <3>2
  <2>2. Ends(at, in)
    BY <1>7, <1>9, <1>10, <1>11, <2>1, OnFrom
  <2> QED
    BY <1>11, <1>12, <2>2 DEF FilledBehind
<1>17. end # 0 => Elements("parts", in, end, items)
  BY <1>16 DEF Filled
<1> HIDE DEF end, items, parts, id
<1>18. /\ end # 0 /\ in # 0 /\ behind # 0 /\ colon # 0 /\ before # 0
       /\ in \in Nat /\ colon \in Nat /\ label \in Nat /\ end \in Nat
       /\ before <= colon /\ at < in /\ end \in Positions
  <2>1. end # 0 /\ in # 0 /\ behind # 0 /\ colon # 0 /\ before # 0
    BY <1>9, <1>10, <1>11, <1>13, <1>14 DEF From, Ends
  <2>2. in \in Nat /\ colon \in Nat /\ label \in Nat /\ end \in Nat
    BY <1>5, <1>9, <1>11, <1>13, Lengths DEF From, Positions
  <2> QED
    BY <1>9, <1>13, <1>16, <2>1, <2>2 DEF From, Ends
<1>19. (IF id = 0 THEN at ELSE id) + 1 <= colon /\ id \in Nat
  <2>1. CASE Type(at) = "case"
    <3>1. before = label + 1 /\ label # 0 /\ id = label
      BY <1>4, <1>5, <1>6, <1>8, <1>15, <1>18, <2>1 DEF From, Ends
    <3> QED
      BY <1>18, <3>1
  <2>2. CASE Type(at) # "case"
    BY <1>4, <1>8, <1>15, <1>18, <2>2
  <2> QED
    BY <2>1, <2>2
<1>20. ASSUME NEW i \in DOMAIN items
       PROVE  items[i] \in Made /\ at < items[i].start /\ items[i].end <= end
  <2>1. Element("parts", in, end, items[i])
    BY <1>17, <1>18 DEF Elements
  <2>2. Item("parts", items[i]) /\ items[i].start \in Nat /\ in <= items[i].start /\ items[i].end <= end
    BY <2>1 DEF Element
  <2> QED
    BY <1>4, <1>18, <2>2 DEF Item
<1>21. Cased(x)
  BY <1>14, <1>17, <1>18, <1>19, <1>20 DEF Cased, Elements
<1>22. Ends(at, end)
  BY <1>13, <1>16, <1>18 DEF Ends, From
<1> QED
  BY <1>14, <1>21, <1>22

\* A turn of a loop over a list gives nodes of the list.
LEMMA PartHas ==
  ASSUME Typed, NEW at \in Positions, FilledBehind(at), NEW list \in DOMAIN Lists,
         NEW part, part = parse_part(parsed, at, Lists[list].item), part.end # 0
  PROVE  Elements(list, at, part.end, part.nodes)
<1>1. \A y : Single(y).end = TokenBehind(y)
  BY DEF Single
<1>2. CASE Lists[list].item = "expr"
  <2> DEFINE y == parsed[<<"expr", at>>]
  <2>1. part = Single(y)
    BY <1>2 DEF parse_part
  <2>2. Right(at, y) /\ (y.end # 0 => y \in Made)
    BY ExprRight, MadeHas
  <2> HIDE DEF y
  <2>3. y.end # 0 => Item(list, y)
    BY <1>2, <2>2, ItemsAre DEF Item
  <2> QED
    BY <1>1, <2>1, <2>2, <2>3, SingleHas
<1>3. CASE Lists[list].item = "decl"
  <2> DEFINE y == parse_decl(parsed, at)
  <2>1. part = Single(y)
    BY <1>3 DEF parse_part
  <2>2. Right(at, y) /\ (y.end # 0 => y \in Made)
    BY DeclRight, MadeHas
  <2>3. y.type = "DECLARATION"
    BY DEF parse_decl, Initialised, Declaration
  <2> HIDE DEF y
  <2>4. y.end # 0 => Item(list, y)
    BY <1>3, <2>2, <2>3, ItemsAre DEF Item
  <2> QED
    BY <1>1, <2>1, <2>2, <2>4, SingleHas
<1>4. CASE Lists[list].item = "case"
  <2> DEFINE y == parse_case(parsed, at)
  <2>1. part = Single(y)
    BY <1>4 DEF parse_part
  <2> HIDE DEF y
  <2>2. part.end = TokenBehind(y) /\ part.nodes = <<y>>
    BY <2>1 DEF Single
  <2>3. y.end # 0
    <3> SUFFICES ASSUME y.end = 0 PROVE FALSE
      OBVIOUS
    <3>1. CASE Type(at) \in {"case", "default"}
      <4>1. \E s, l, c, b : y = SwitchBlock(s, l, c, b)
        BY <3>1 DEF y, parse_case
      <4>2. TokenBehind(y) = y.end
        BY <4>1 DEF SwitchBlock, TokenBehind
      <4> QED
        BY <2>2, <4>2
    <3>2. CASE Type(at) \notin {"case", "default"}
      <4>1. y = Failed
        BY <3>2 DEF y, parse_case
      <4>2. TokenBehind(y) = 0
        BY <4>1 DEF Failed, TokenBehind
      <4> QED
        BY <2>2, <4>2
    <3> QED
      BY <3>1, <3>2
  <2>4. Cased(y) /\ y.start = at /\ Ends(at, y.end) /\ TokenBehind(y) = y.end
    BY <2>3, CaseHas DEF y
  <2>5. list = "cases"
    BY <1>4, ItemsAre, ListKinds
  <2>6. at \in Nat /\ y.end \in Nat /\ part.end = y.end
    BY <2>2, <2>4, Lengths DEF Ends, Positions
  <2>7. Element(list, at, part.end, y)
    BY <2>4, <2>5, <2>6 DEF Element, Item
  <2> QED
    BY <2>2, <2>7, OneElement
<1>5. CASE Lists[list].item = "part" /\ Type(at) = "{"
  <2> DEFINE block == parse_block(parsed, at)
             stub == Stub(block.stub, block.stub_end)
  <2>1. part = Opened(block)
    BY <1>5 DEF parse_part
  <2>2. part.end = block.end /\ part.nodes = IF block.items # <<>> THEN block.items ELSE <<stub>>
    BY <2>1 DEF Opened, Stub
  <2>3. list = "parts"
    BY <1>5, ItemsAre, ListKinds
  <2>4. block = Enclosed(parsed, "{", "statements", "}", at) /\ From(at, at) /\ "statements" \in DOMAIN Lists
    BY OnFrom, ListKinds DEF parse_block
  <2> HIDE DEF block
  <2>5. /\ block.stub \in Positions /\ block.stub_end \in Positions /\ block.stub \in Nat /\ block.stub_end \in Nat
        /\ at < block.stub /\ block.stub <= block.stub_end /\ block.end \in Nat /\ block.stub_end < block.end
        /\ Elements("statements", block.stub, block.end - 1, block.items)
    BY <2>2, <2>4, EnclosedHas
  <2>6. at \in Nat
    BY Lengths DEF Positions
  <2>7. CASE block.items # <<>>
    <3>1. ASSUME NEW i \in DOMAIN block.items PROVE Element(list, at, part.end, block.items[i])
      <4>1. Element("statements", block.stub, block.end - 1, block.items[i])
        BY <2>5 DEF Elements
      <4>2. Item("parts", block.items[i])
        BY <4>1, ItemsAre DEF Element, Item
      <4> QED
        BY <2>2, <2>3, <2>5, <2>6, <4>1, <4>2 DEF Element
    <3> QED
      BY <2>2, <2>5, <2>7, <3>1 DEF Elements
  <2>8. CASE block.items = <<>>
    <3>1. stub \in Made
      BY <2>5, <2>6, StubMade
    <3>2. stub.start = block.stub /\ stub.end = block.stub_end
      BY DEF Stub
    <3> HIDE DEF stub
    <3>3. Element(list, at, part.end, stub)
      BY <2>2, <2>3, <2>5, <2>6, <3>1, <3>2, ItemsAre DEF Element, Item
    <3> QED
      BY <2>2, <2>8, <3>3, OneElement
  <2> QED
    BY <2>7, <2>8
<1>6. CASE Lists[list].item = "statement" \/ (Lists[list].item = "part" /\ Type(at) # "{")
  <2> DEFINE y == parsed[<<"statement", at>>]
  <2>1. part = Single(y)
    BY <1>6 DEF parse_part
  <2>2. Right(at, y) /\ (y.end # 0 => y \in Made)
    BY StatementRight, MadeHas
  <2> HIDE DEF y
  <2>3. y.end # 0 => Item(list, y)
    BY <1>6, <2>2, ItemsAre DEF Item
  <2> QED
    BY <1>1, <2>1, <2>2, <2>3, SingleHas
<1>7. Lists[list].item \in {"expr", "decl", "case", "part", "statement"}
  BY ItemsAre, ListKinds
<1> QED
  BY <1>2, <1>3, <1>4, <1>5, <1>6, <1>7

\* A list is filled when those behind it are.
LEMMA ListFilled ==
  ASSUME Typed, NEW p \in Positions, NEW list \in DOMAIN Lists, FilledBehind(p)
  PROVE  Filled(list, p)
<1> DEFINE at == nonws_token(p)
           part == parse_part(parsed, at, Lists[list].item)
           next == nonws_token(part.end)
           in == IF Type(next) = Lists[list].separator THEN next + 1 ELSE next
           x == parsed[<<list, p>>]
           rest == parsed[<<list, in>>]
<1> SUFFICES ASSUME x.end # 0 PROVE Elements(list, p, x.end, x.items)
  BY DEF Filled
<1>1. From(p, at) /\ at \in Positions
  BY NonWs
<1>2. x = IF Type(at) \in Lists[list].closing THEN [items |-> <<>>, end |-> at] ELSE ListFrom(parsed, part, list)
  BY ListAt DEF parse_list
<1>3. ListFrom(parsed, part, list) = IF part.end = 0 THEN [items |-> <<>>, end |-> 0] ELSE Linked(part, rest)
  BY DEF ListFrom
<1>4. Ends(at, part.end)
  <2>1. Context(parsed, parsed, at) /\ From(at, at)
    BY <1>1, ParsedBehind, OnFrom
  <2>2. AlikeFrom(parsed, parsed, "expr", at) /\ AlikeFrom(parsed, parsed, "statement", at)
    <3>1. ASSUME NEW q, From(at, q)
          PROVE  Alike(parsed, parsed, <<"expr", q>>) /\ Alike(parsed, parsed, <<"statement", q>>)
      <4>1. q \in Positions
        BY <3>1 DEF From
      <4> QED
        BY <4>1, ParsedAt, ListKinds DEF Alike, Lies
    <3> QED
      BY <3>1 DEF AlikeFrom
  <2> QED
    BY <2>1, <2>2, PartIs
<1> HIDE DEF at, x
<1>5. FilledBehind(at)
  <2>1. \A q \in Positions : Ends(at, q) => Ends(p, q)
    BY <1>1, OnFrom
  <2> QED
    BY <2>1 DEF FilledBehind
<1>6. CASE Type(at) \in Lists[list].closing
  <2>1. x.items = <<>>
    BY <1>2, <1>6
  <2> QED
    BY <2>1, NoElement
<1>7. CASE Type(at) \notin Lists[list].closing
  <2>1. part.end # 0 => Elements(list, at, part.end, part.nodes)
    BY <1>1, <1>5, PartHas
  <2> HIDE DEF part
  <2>2. part.end # 0 /\ x = Linked(part, rest)
    BY <1>2, <1>3, <1>7
  <2>3. part.end \in Positions /\ From(part.end, next) /\ next \in Positions
    BY <1>4, NonWs DEF Ends
  <2> HIDE DEF next
  <2>4. Lists[list].separator # "NULL"
    <3>1. /\ Lists["arguments"].separator = "," /\ Lists["values"].separator = ","
          /\ Lists["params"].separator = "," /\ Lists["members"].separator = ";"
          /\ Lists["statements"].separator = ";" /\ Lists["parts"].separator = ";"
          /\ Lists["cases"].separator = "NONE"
      BY DEF Lists
    <3> QED
      BY <3>1, ListKinds
  <2>5. From(next, in)
    <3>1. CASE Type(next) = Lists[list].separator
      <4>1. next \in DOMAIN tokens
        BY <2>4, <3>1, TypeIs
      <4> QED
        BY <2>3, <3>1, <4>1, AtToken, OnFrom
    <3>2. CASE Type(next) # Lists[list].separator
      BY <2>3, <3>2, OnFrom
    <3> QED
      BY <3>1, <3>2
  <2> HIDE DEF in
  <2>6. in \in Positions /\ From(part.end, in) /\ Ends(p, in)
    BY <1>1, <1>4, <2>3, <2>5, OnFrom
  <2>7. Filled(list, in)
    BY <2>6 DEF FilledBehind
  <2>8. From(in, rest.end)
    BY <2>6, ListAt
  <2>9. rest.end # 0 => Elements(list, in, rest.end, rest.items)
    BY <2>7 DEF Filled
  <2> HIDE DEF rest
  <2>10. x.end = rest.end /\ x.items = part.nodes \o rest.items
    BY <2>2 DEF Linked
  <2>11. /\ rest.end # 0 /\ in # 0 /\ rest.end \in Nat /\ in \in Nat /\ part.end \in Nat /\ at \in Nat /\ p \in Nat
         /\ p <= at /\ at <= part.end /\ part.end <= in /\ in <= rest.end /\ rest.end <= rest.end
    <3>1. rest.end # 0 /\ in # 0 /\ part.end # 0 /\ at # 0
      BY <1>4, <2>2, <2>8, <2>10 DEF From, Ends
    <3> QED
      BY <1>1, <1>4, <2>3, <2>6, <2>8, <3>1, Lengths DEF From, Ends, Positions
  <2>12. p <= in /\ part.end <= rest.end
    BY <2>11
  <2>13. Elements(list, p, rest.end, part.nodes)
    BY <2>1, <2>2, <2>11, <2>12, ElementsWithin
  <2>14. Elements(list, p, rest.end, rest.items)
    BY <2>9, <2>11, <2>12, ElementsWithin
  <2> QED
    BY <2>10, <2>13, <2>14, MoreElements
<1> QED
  BY <1>6, <1>7

\* All lists are.
LEMMA AllFilled ==
  ASSUME Typed, NEW p \in Positions
  PROVE  FilledBehind(p)
<1> DEFINE n == Len(tokens) + 2
           T == {m \in 0..n : \A q \in Positions, list \in DOMAIN Lists : q # 0 /\ n - q <= m => Filled(list, q)}
<1>1. n \in Nat /\ \A q \in Positions : q \in Nat /\ q < n
  BY Lengths DEF Positions
<1> HIDE DEF n
<1>2. 0 \in T
  <2>1. \A q \in Positions : ~(n - q <= 0)
    BY <1>1
  <2>2. 0 \in 0..n
    BY <1>1
  <2> QED
    BY <2>1, <2>2
<1>3. ASSUME NEW m \in 0..(n - 1), m \in T PROVE m + 1 \in T
  <2>1. m + 1 \in 0..n /\ m \in Nat
    BY <1>1
  <2>2. ASSUME NEW q \in Positions, NEW list \in DOMAIN Lists, q # 0, n - q <= m + 1 PROVE Filled(list, q)
    <3>1. ASSUME NEW r \in Positions, NEW l \in DOMAIN Lists, Ends(q, r) PROVE Filled(l, r)
      <4>1. CASE r # 0
        <5>1. q < r
          BY <3>1, <4>1 DEF Ends
        <5>2. n - r <= m
          BY <1>1, <2>1, <2>2, <5>1
        <5> QED
          BY <1>3, <4>1, <5>2
      <4>2. CASE r = 0
        <5>1. From(r, parsed[<<l, r>>].end)
          BY ListAt
        <5> QED
          BY <4>2, <5>1 DEF Filled, From
      <4> QED
        BY <4>1, <4>2
    <3>2. FilledBehind(q)
      BY <3>1 DEF FilledBehind
    <3> QED
      BY <3>2, ListFilled
  <2> QED
    BY <2>1, <2>2
<1>4. n \in T
  <2> HIDE DEF T
  <2>1. 0..n \subseteq T
    BY <1>1, <1>2, <1>3, InductionUpTo
  <2> QED
    BY <1>1, <2>1
<1>5. ASSUME NEW q \in Positions, NEW list \in DOMAIN Lists, Ends(p, q) PROVE Filled(list, q)
  <2>1. CASE q # 0
    <3>1. n - q <= n
      BY <1>1
    <3> QED
      BY <1>4, <2>1, <3>1
  <2>2. CASE q = 0
    <3>1. From(q, parsed[<<list, q>>].end)
      BY ListAt
    <3> QED
      BY <2>2, <3>1 DEF Filled, From
  <2> QED
    BY <2>1, <2>2
<1> QED
  BY <1>5 DEF FilledBehind

\* All that is read of a file is in it, and elses is whether it has one.
Faithful(x) == Facts(Made, Len(tokens) + 1, Elses, x)

\* What has not failed stands between its ends.
LEMMA RightSpans ==
  ASSUME Typed, NEW p \in Positions, NEW x, Right(p, x), x.end # 0
  PROVE  /\ Spans(Len(tokens) + 1, x) /\ x.start \in Nat /\ x.end \in Nat /\ x.start < x.end
         /\ p <= x.start /\ p # 0 /\ p \in Nat /\ x.start \in Positions /\ x.start # 0
<1>1. p # 0 /\ p \in Nat /\ x.end \in Positions /\ x.start \in Nat /\ p <= x.start /\ x.start < x.end
  BY Lengths DEF Right, Reads, Ends, Positions
<1> QED
  BY <1>1, Lengths DEF Spans, Positions

\* A node that is less than what it stands in.
LEMMA InsideMade ==
  ASSUME Typed, NEW x, x.start \in Nat, x.end \in Nat, NEW c \in Made, c.start \in Nat, c.end \in Nat,
         x.start <= c.start, c.end <= x.end, x.start < c.start \/ c.end < x.end
  PROVE  Inside(Made, x, c)
<1>1. Size(c) < Size(x)
  BY DEF Size
<1> QED
  BY <1>1 DEF Inside, Less

\* An expression that ends a node, or that more of it follows.
LEMMA ExprInside ==
  ASSUME Typed, NEW x, x.start \in Positions, NEW p, Ends(x.start, p), NEW c, c = parsed[<<"expr", p>>],
         From(c.end, x.end), x.end # 0
  PROVE  Inside(Made, x, c) /\ p \in Nat /\ p <= c.start
<1>1. p \in Positions /\ c.end \in Nat /\ x.end \in Nat /\ c.end # 0 /\ c.end <= x.end
  <2>1. p \in Positions
    BY DEF Ends
  <2>2. Right(p, c)
    BY <2>1, ExprRight
  <2> QED
    BY <2>1, <2>2, Lengths DEF From, Right, Reads, Ends, Positions
<1>2. Right(p, c) /\ c \in Made
  BY <1>1, ExprRight, MadeHas
<1>3. p \in Nat /\ p # 0 /\ p <= c.start /\ c.start \in Nat
  BY <1>1, <1>2, RightSpans
<1>4. x.start \in Nat /\ x.start < p
  BY <1>3, Lengths DEF Ends, Positions
<1> QED
  BY <1>1, <1>2, <1>3, <1>4, InsideMade

\* A list in the delimiters of a node.
LEMMA ListOfMade ==
  ASSUME Typed, NEW a \in Positions, NEW p, From(a, p), NEW open, open # "NULL", NEW close, close # "NULL",
         NEW list \in DOMAIN Lists, list # "cases", NEW x, x = Enclosed(parsed, open, list, close, p), x.end # 0,
         NEW w \in Int, x.end - a <= w
  PROVE  ListOf(Made, w, x)
<1>1. FilledBehind(a) /\ a \in Nat
  BY AllFilled, Lengths DEF Positions
<1>2. /\ x.stub \in Nat /\ x.stub_end \in Nat /\ a < x.stub /\ x.stub <= x.stub_end
      /\ x.end \in Nat /\ Elements(list, x.stub, x.end - 1, x.items)
  BY <1>1, EnclosedHas
<1>3. ASSUME NEW i \in DOMAIN x.items
      PROVE  Less(Made, w, x.items[i]) /\ x.stub <= x.items[i].start
  <2>1. Element(list, x.stub, x.end - 1, x.items[i])
    BY <1>2 DEF Elements
  <2>2. /\ x.items[i] \in Made /\ x.items[i].start \in Nat /\ x.items[i].end \in Nat
        /\ x.stub <= x.items[i].start /\ x.items[i].end <= x.end - 1
    BY <2>1 DEF Element, Item
  <2>3. Size(x.items[i]) < w
    BY <1>1, <1>2, <2>2 DEF Size
  <2> QED
    BY <2>2, <2>3 DEF Less
<1> QED
  BY <1>2, <1>3 DEF ListOf, Elements

-----------------------------------------------------------------------------
(***************************************************************************)
(* Every node is faithful                                                  *)
(***************************************************************************)

\* An assignment: its expression is behind its sign, and that behind its name.
LEMMA AssignHas ==
  ASSUME Typed, NEW p \in Positions, NEW a, a = parse_assign(parsed, p), a.end # 0
  PROVE  /\ a.type = "ASSIGNMENT" /\ a.start \in Nat /\ p <= a.start /\ a.start \in Positions
         /\ a.equal_sign \in Nat /\ p + 1 <= a.equal_sign /\ a.equal_sign + 1 <= a.expr.start
         /\ a.expr \in Made /\ a.expr.start \in Nat /\ a.expr.end \in Nat /\ a.expr.end = a.end
         /\ a.start < a.expr.start /\ a.expr.start < a.expr.end
<1> DEFINE start == nonws_token(p)
           id == skip_token(Identifiers, start)
           sign == nonws_token(id)
           equal == skip_token({"="}, sign)
           in == nonws_token(equal)
           expr == parsed[<<"expr", in>>]
<1>1. From(p, start) /\ start \in Positions
  BY NonWs
<1>2. a = Assignment(start, sign, expr)
  BY DEF parse_assign
<1> HIDE DEF start
<1>3. Ends(start, id) /\ id \in Positions
  BY <1>1, SkipIs, NullIs
<1> HIDE DEF id
<1>4. From(id, sign) /\ sign \in Positions
  BY <1>3, NonWs
<1> HIDE DEF sign
<1>5. Ends(sign, equal) /\ equal \in Positions
  BY <1>4, SkipIs
<1> HIDE DEF equal
<1>6. From(equal, in) /\ in \in Positions
  BY <1>5, NonWs
<1> HIDE DEF in
<1>7. Right(in, expr) /\ (expr.end # 0 => expr \in Made)
  BY <1>6, ExprRight, MadeHas
<1> HIDE DEF expr
<1>8. a.type = "ASSIGNMENT" /\ a.start = start /\ a.equal_sign = sign /\ a.expr = expr /\ a.end = expr.end
  BY <1>2 DEF Assignment
<1>9. expr.start \in Nat /\ expr.end \in Nat /\ expr.start < expr.end /\ in <= expr.start /\ in # 0 /\ in \in Nat
  BY <1>6, <1>7, <1>8, RightSpans
<1>10. /\ equal # 0 /\ sign # 0 /\ id # 0 /\ start # 0 /\ p # 0
       /\ equal \in Nat /\ sign \in Nat /\ id \in Nat /\ start \in Nat /\ p \in Nat
       /\ equal <= in /\ sign < equal /\ id <= sign /\ start < id /\ p <= start
  BY <1>1, <1>3, <1>4, <1>5, <1>6, <1>9, Lengths DEF From, Ends, Positions
<1>11. p + 1 <= sign /\ sign + 1 <= expr.start /\ start < expr.start
  BY <1>9, <1>10
<1> QED
  BY <1>1, <1>7, <1>8, <1>9, <1>10, <1>11

\* An assignment alone.
LEMMA AssignFaithful ==
  ASSUME Typed, NEW p \in Positions, NEW q \in Positions, NEW a, a = parse_assign(parsed, p), Right(q, a), a.end # 0
  PROVE  Faithful(a)
<1>1. Spans(Len(tokens) + 1, a) /\ a.end \in Nat
  BY RightSpans
<1>2. a.type = "ASSIGNMENT" /\ Inside(Made, a, a.expr)
  BY <1>1, AssignHas, InsideMade
<1> QED
  BY <1>1, <1>2 DEF Faithful, Facts

\* A declaration.
LEMMA DeclFaithful ==
  ASSUME Typed, NEW p \in Positions, NEW x, x = parse_decl(parsed, p), x.end # 0
  PROVE  Faithful(x) /\ x.type = "DECLARATION"
<1> DEFINE start == nonws_token(p)
           at == nonws_token(start)
           type == parse_data_type(at)
           id == nonws_token(type.end)
           assign == parse_assign(parsed, id)
<1>1. From(p, start) /\ start \in Positions
  BY NonWs
<1>2. From(start, at) /\ at \in Positions
  BY <1>1, NonWs
<1>3. x = IF Type(at) = "..."
            THEN [type |-> "DECLARATION", start |-> start, end |-> at + 1, var_arg |-> TRUE]
          ELSE IF is_next_skipws("=", id) THEN Declaration(start, type, id, assign.end, <<assign>>)
          ELSE Declaration(start, type, id, skip_token(Identifiers, id), <<>>)
  BY DEF parse_decl, Initialised
<1>4. From(at, type.start) /\ From(type.start, type.end) /\ type.end \in Positions
  BY <1>2, DataType
<1>5. From(type.end, id) /\ id \in Positions
  BY <1>4, NonWs
<1>6. Right(p, x)
  BY DeclRight
<1>7. Spans(Len(tokens) + 1, x) /\ x.start \in Nat /\ x.end \in Nat /\ x.start < x.end /\ x.start \in Positions
  BY <1>6, RightSpans
<1> HIDE DEF start, at, type, id
<1>8. CASE Type(at) = "..."
  <2>1. x.type = "DECLARATION" /\ x.var_arg
    BY <1>3, <1>8
  <2> QED
    BY <1>7, <2>1 DEF Faithful, Facts, DeclFacts
<1>9. CASE Type(at) # "..."
  <2> DEFINE Fit == /\ TypeFacts(type) /\ start <= type.start
                    /\ id \in Nat /\ type.end <= id
  <2>1. id # 0 => Fit
    <3>1. /\ type.start \in Positions /\ type.end \in Positions
          /\ (id # 0 => type.end # 0 /\ type.start # 0 /\ at # 0 /\ start # 0)
      BY <1>1, <1>2, <1>4, <1>5 DEF From
    <3> QED
      BY <1>1, <1>2, <1>4, <1>5, <3>1, Lengths DEF From, Positions, TypeFacts
  <2>2. id \in Nat
    BY <1>5, Lengths DEF Positions
  <2>3. CASE is_next_skipws("=", id)
    <3>1. x = Declaration(start, type, id, assign.end, <<assign>>)
      BY <1>3, <1>9, <2>3
    <3>2. <<assign>>[1] = assign /\ <<assign>> # <<>>
      OBVIOUS
    <3>3. assign.end # 0 => /\ assign.start \in Nat /\ id <= assign.start
                            /\ assign.equal_sign \in Nat /\ id + 1 <= assign.equal_sign
                            /\ assign.equal_sign + 1 <= assign.expr.start
                            /\ assign.expr \in Made /\ assign.expr.start \in Nat /\ assign.expr.end \in Nat
                            /\ assign.expr.end = assign.end /\ assign.expr.start < assign.expr.end
      BY <1>5, AssignHas
    <3> DEFINE one == <<assign>>
    <3>4. one[1] = assign /\ one # <<>>
      BY <3>2
    <3>5. x = Declaration(start, type, id, assign.end, one)
      BY <3>1
    <3> HIDE DEF one, assign
    <3>6. /\ x.type = "DECLARATION" /\ x.var_arg = FALSE /\ x.start = start /\ x.end = assign.end
          /\ x.data_type = type /\ x.id = id /\ x.assign = one
      BY <3>5 DEF Declaration
    <3>7. id # 0
      <4>1. id \in DOMAIN tokens
        BY <2>3 DEF is_next_skipws
      <4> QED
        BY <4>1, AtToken
    <3>8. assign.end # 0
      BY <3>6
    <3>9. Fit /\ id + 1 <= assign.end /\ start <= id
      <4>1. Fit
        BY <2>1, <3>7
      <4>2. type.start \in Nat /\ type.end \in Nat /\ start \in Nat
        BY <4>1, <1>1, Lengths DEF TypeFacts, Positions
      <4> QED
        BY <2>2, <3>3, <3>8, <4>1, <4>2 DEF TypeFacts
    <3>10. Inside(Made, x, assign.expr)
      <4>1. x.start <= assign.expr.start /\ x.start < assign.expr.start
        BY <1>7, <2>2, <3>3, <3>6, <3>8, <3>9
      <4> QED
        BY <1>7, <3>3, <3>6, <3>8, <4>1, InsideMade
    <3>11. AssignFacts(Made, x, assign)
      BY <3>3, <3>6, <3>8, <3>10 DEF AssignFacts
    <3>12. DeclFacts(Made, x)
      BY <3>4, <3>6, <3>9, <3>11 DEF DeclFacts
    <3> QED
      BY <1>7, <3>6, <3>12 DEF Faithful, Facts
  <2>4. CASE ~is_next_skipws("=", id)
    <3> DEFINE end == skip_token(Identifiers, id)
    <3>1. x = Declaration(start, type, id, end, <<>>)
      BY <1>3, <1>9, <2>4
    <3>2. Ends(id, end)
      BY <1>5, SkipIs, NullIs
    <3> HIDE DEF end
    <3>3. /\ x.type = "DECLARATION" /\ x.var_arg = FALSE /\ x.start = start /\ x.end = end
          /\ x.data_type = type /\ x.id = id /\ x.assign = <<>>
      BY <3>1 DEF Declaration
    <3>4. id # 0 /\ id + 1 <= end
      BY <1>7, <2>2, <3>2, <3>3, Lengths DEF Ends, Positions
    <3>5. DeclFacts(Made, x)
      BY <2>1, <3>3, <3>4 DEF DeclFacts
    <3> QED
      BY <1>7, <3>3, <3>5 DEF Faithful, Facts
  <2> QED
    BY <2>3, <2>4
<1> QED
  BY <1>8, <1>9

\* A node that starts at a token and ends behind it.
LEMMA AtSpans ==
  ASSUME Typed, NEW at \in DOMAIN tokens, NEW x, x.start = at, Ends(at, x.end), x.end # 0
  PROVE  /\ Spans(Len(tokens) + 1, x) /\ x.start \in Nat /\ x.end \in Nat /\ x.start < x.end
         /\ x.start \in Positions /\ x.start # 0 /\ Size(x) \in Int /\ x.end \in Positions
<1>1. at \in Positions /\ at # 0 /\ at \in Nat /\ x.end \in Positions /\ x.end \in Nat /\ at < x.end
  BY AtToken, Lengths DEF Ends, Positions
<1> QED
  BY <1>1, Lengths DEF Spans, Positions, Size

\* A node of one token.
LEMMA LeafFaithful ==
  ASSUME Typed, NEW at \in DOMAIN tokens, NEW type, NEW x, x = Leaf(type, at),
         type \in {"STRING_LITERAL", "INT_LITERAL", "DEFINE_REFERENCE", "VAR_REFERENCE", "COMMENT",
                   "BREAK_STATEMENT"}
  PROVE  Faithful(x)
<1>1. x.start = at /\ x.end = at + 1 /\ x.type = type
  BY DEF Leaf
<1>2. Ends(at, x.end) /\ x.end # 0
  BY <1>1, AtToken, Lengths
<1>3. Spans(Len(tokens) + 1, x) /\ x.start + 1 <= x.end
  BY <1>1, <1>2, AtSpans
<1> QED
  BY <1>1, <1>3 DEF Faithful, Facts

\* A call, with its arguments,
LEMMA InvokeFaithful ==
  ASSUME Typed, NEW at \in DOMAIN tokens, NEW x, x = parse_func_invoke(parsed, at), x.end # 0
  PROVE  Faithful(x)
<1> DEFINE args == Enclosed(parsed, "(", "arguments", ")", at + 1)
<1>1. x = FuncInvoke(at, args)
  BY DEF parse_func_invoke
<1>2. args = Enclosed(parsed, "(", "arguments", ")", at + 1)
  OBVIOUS
<1> HIDE DEF args
<1>3. x.type = "FUNC_INVOKE" /\ x.start = at /\ x.end = args.end /\ x.args = args
  BY <1>1 DEF FuncInvoke
<1>4. Context(parsed, parsed, at) /\ at \in Positions /\ Ends(at, at + 1) /\ From(at, at + 1)
  BY AtToken, OnFrom
<1>5. Ends(at, x.end)
  BY <1>4, InvokeIs DEF Reads
<1>6. Spans(Len(tokens) + 1, x) /\ Size(x) \in Int
  BY <1>3, <1>5, AtSpans
<1>7. "arguments" \in DOMAIN Lists /\ args.end - at <= Size(x)
  BY <1>3, <1>6, ListKinds DEF Size
<1>8. ListOf(Made, Size(x), args)
  BY <1>2, <1>3, <1>4, <1>6, <1>7, ListOfMade
<1> QED
  BY <1>3, <1>6, <1>8 DEF Faithful, Facts

\* an initialisation with its values,
LEMMA StructInitFaithful ==
  ASSUME Typed, NEW at \in DOMAIN tokens, NEW x, x = parse_struct_init(parsed, at), x.end # 0
  PROVE  Faithful(x)
<1> DEFINE exprs == Enclosed(parsed, "{", "values", "}", at)
<1>1. x = StructInit(at, exprs)
  BY DEF parse_struct_init
<1>2. exprs = Enclosed(parsed, "{", "values", "}", at)
  OBVIOUS
<1> HIDE DEF exprs
<1>3. x.type = "STRUCT_INIT" /\ x.start = at /\ x.end = exprs.end /\ x.exprs = exprs
  BY <1>1 DEF StructInit
<1>4. Context(parsed, parsed, at) /\ at \in Positions /\ From(at, at)
  BY AtToken, OnFrom
<1>5. Ends(at, x.end)
  BY <1>4, StructInitIs DEF Reads
<1>6. Spans(Len(tokens) + 1, x) /\ Size(x) \in Int
  BY <1>3, <1>5, AtSpans
<1>7. "values" \in DOMAIN Lists /\ exprs.end - at <= Size(x)
  BY <1>3, <1>6, ListKinds DEF Size
<1>8. ListOf(Made, Size(x), exprs)
  BY <1>2, <1>3, <1>4, <1>6, <1>7, ListOfMade
<1> QED
  BY <1>3, <1>6, <1>8 DEF Faithful, Facts

\* an access with its index,
LEMMA AccessFaithful ==
  ASSUME Typed, NEW at \in DOMAIN tokens, NEW x, x = parse_arr_access(parsed, at), x.end # 0
  PROVE  Faithful(x)
<1> DEFINE open == skip_token({"["}, at + 1)
           in == nonws_token(open)
           index == parsed[<<"expr", in>>]
           behind == nonws_token(index.end)
           end == skip_token({"]"}, behind)
<1>1. x = [type |-> "ARRAY_ACCESS", start |-> at, end |-> end, index |-> index]
  BY DEF parse_arr_access, ArrayAccess
<1>2. Context(parsed, parsed, at) /\ at \in Positions /\ Ends(at, at + 1) /\ at + 1 \in Positions
  BY AtToken
<1>3. Ends(at, x.end)
  BY <1>2, AccessIs DEF Reads
<1>4. Ends(at + 1, open) /\ open \in Positions
  BY <1>2, SkipIs
<1> HIDE DEF open
<1>5. From(open, in) /\ in \in Positions
  BY <1>4, NonWs
<1>6. Ends(at, in)
  BY <1>2, <1>4, <1>5, OnFrom
<1> HIDE DEF in
<1>7. index.end \in Positions
  BY <1>5, ParsedAt DEF Reads, Ends
<1>8. index = parsed[<<"expr", in>>]
  OBVIOUS
<1> HIDE DEF index
<1>9. From(index.end, behind) /\ behind \in Positions
  BY <1>7, NonWs
<1> HIDE DEF behind
<1>10. Ends(behind, end)
  BY <1>9, SkipIs
<1> HIDE DEF end
<1>11. From(index.end, end)
  BY <1>7, <1>9, <1>10, OnFrom
<1>12. x.type = "ARRAY_ACCESS" /\ x.start = at /\ x.end = end /\ x.index = index
  BY <1>1
<1>13. Spans(Len(tokens) + 1, x)
  BY <1>3, <1>12, AtSpans
<1>14. Inside(Made, x, index)
  BY <1>2, <1>6, <1>8, <1>11, <1>12, ExprInside
<1> QED
  BY <1>12, <1>13, <1>14 DEF Faithful, Facts

\* a cast with what it casts,
LEMMA CastFaithful ==
  ASSUME Typed, NEW at \in DOMAIN tokens, NEW x, x = parse_cast(parsed, at), x.end # 0
  PROVE  Faithful(x)
<1> DEFINE type == parse_data_type(at + 1)
           behind == nonws_token(type.end)
           close == skip_token({")"}, behind)
           in == nonws_token(close)
           expr == parsed[<<"expr", in>>]
<1>1. x = TypeCast(at, type, expr)
  BY DEF parse_cast
<1>2. Context(parsed, parsed, at) /\ at \in Positions /\ Ends(at, at + 1) /\ at + 1 \in Positions
  BY AtToken
<1>3. From(at + 1, type.start) /\ From(type.start, type.end) /\ type.end \in Positions
  BY <1>2, DataType
<1> HIDE DEF type
<1>4. From(type.end, behind) /\ behind \in Positions
  BY <1>3, NonWs
<1> HIDE DEF behind
<1>5. Ends(behind, close) /\ close \in Positions
  BY <1>4, SkipIs
<1> HIDE DEF close
<1>6. From(close, in) /\ in \in Positions
  BY <1>5, NonWs
<1>7. From(at + 1, type.end) /\ Ends(type.end, in)
  BY <1>2, <1>3, <1>4, <1>5, <1>6, OnFrom
<1>8. Ends(at, in)
  BY <1>2, <1>3, <1>7, OnFrom
<1> HIDE DEF in
<1>9. Ends(in, expr.end) /\ expr.end \in Positions
  BY <1>6, ParsedAt DEF Reads, Ends
<1>10. expr = parsed[<<"expr", in>>]
  OBVIOUS
<1> HIDE DEF expr
<1>11. x.type = "TYPE_CAST" /\ x.start = at /\ x.end = expr.end /\ x.data_type = type /\ x.expr = expr
  BY <1>1 DEF TypeCast
<1>12. Ends(at, x.end)
  BY <1>2, <1>6, <1>8, <1>9, <1>11, OnFrom
<1>13. Spans(Len(tokens) + 1, x)
  BY <1>11, <1>12, AtSpans
<1>14. From(expr.end, x.end)
  BY <1>9, <1>11, OnFrom
<1>15. Inside(Made, x, expr)
  BY <1>2, <1>8, <1>10, <1>11, <1>14, ExprInside
<1>16. TypeFacts(type)
  <2>1. in # 0
    BY <1>9, <1>11 DEF Ends
  <2>2. type.end # 0 /\ type.start # 0 /\ type.start \in Positions
    BY <1>3, <1>7, <2>1 DEF Ends, From
  <2> QED
    BY <1>3, <2>2, Lengths DEF From, Positions, TypeFacts
<1> QED
  BY <1>11, <1>13, <1>15, <1>16 DEF Faithful, Facts

\* An operand is faithful.
LEMMA LazyFaithful ==
  ASSUME Typed, NEW p \in Positions, NEW x, x = parse_expr_lazy(parsed, p), x.end # 0
  PROVE  Faithful(x)
<1> DEFINE at == Twice(p)
           first == at = nonws_token(p)
<1>1. From(p, at) /\ at \in Positions
  BY TwiceIs
<1>2. x = CASE Type(at) = "str" /\ first -> Leaf("STRING_LITERAL", at)
            [] Type(at) = "num" -> Leaf("INT_LITERAL", at)
            [] Type(at) = "{" -> parse_struct_init(parsed, at)
            [] Type(at) = "(" -> parse_cast(parsed, at)
            [] Type(at) \in Identifiers ->
                 IF Type(at) \in defines THEN Leaf("DEFINE_REFERENCE", at)
                 ELSE IF is_next_skipws("[", at) THEN parse_arr_access(parsed, at)
                 ELSE IF is_next_skipws("(", at) THEN parse_func_invoke(parsed, at)
                 ELSE IF is_next_skipws("=", at) THEN parse_assign(parsed, at)
                 ELSE Leaf("VAR_REFERENCE", at)
            [] OTHER -> Failed
  BY DEF parse_expr_lazy
<1> HIDE DEF at, first
<1>3. Type(at) \in Identifiers => Type(at) \notin {"str", "num", "{", "("}
  BY Apart DEF Signs
<1>4. Failed.end = 0
  BY DEF Failed
<1>5. CASE Type(at) \in {"str", "num", "{", "("} \cup Identifiers
  <2>1. at \in DOMAIN tokens
    BY <1>5, TypeIs, NullIs
  <2>2. From(at, at)
    BY <2>1, AtToken
  <2>3. x = parse_assign(parsed, at) => Faithful(x)
    BY <1>1, <2>1, <2>2, AssignRight, AssignFaithful
  <2>4. x = parse_arr_access(parsed, at) => Faithful(x)
    BY <2>1, AccessFaithful
  <2>5. x = parse_func_invoke(parsed, at) => Faithful(x)
    BY <2>1, InvokeFaithful
  <2>6. x = parse_cast(parsed, at) => Faithful(x)
    BY <2>1, CastFaithful
  <2>7. x = parse_struct_init(parsed, at) => Faithful(x)
    BY <2>1, StructInitFaithful
  <2>8. ASSUME NEW type \in {"STRING_LITERAL", "INT_LITERAL", "DEFINE_REFERENCE", "VAR_REFERENCE"}
        PROVE x = Leaf(type, at) => Faithful(x)
    BY <2>1, LeafFaithful
  <2>9. CASE Type(at) \in Identifiers
    BY <1>2, <1>3, <2>3, <2>4, <2>5, <2>8, <2>9
  <2>10. CASE Type(at) = "str"
    BY <1>2, <1>3, <1>4, <2>8, <2>10
  <2>11. CASE Type(at) = "num"
    BY <1>2, <1>3, <2>8, <2>11
  <2>12. CASE Type(at) = "{"
    BY <1>2, <1>3, <2>7, <2>12
  <2>13. CASE Type(at) = "("
    BY <1>2, <1>3, <2>6, <2>13
  <2> QED
    BY <1>5, <2>9, <2>10, <2>11, <2>12, <2>13
<1>6. CASE Type(at) \notin {"str", "num", "{", "("} \cup Identifiers
  BY <1>2, <1>4, <1>6
<1> QED
  BY <1>5, <1>6

\* An expression is faithful.
LEMMA ExprFaithful ==
  ASSUME Typed, NEW p \in Positions, NEW x, x = parsed[<<"expr", p>>], x.end # 0
  PROVE  Faithful(x)
<1> DEFINE start == nonws_token(p)
           at == Twice(p)
           in == nonws_token(at + 1)
           lhs == parse_expr_lazy(parsed, at)
           first == nonws_token(lhs.end)
           sign == nonws_token(first)
           member == nonws_token(first + 1)
           rhs == parse_expr_lazy(parsed, sign + 1)
<1>1. From(p, start) /\ start \in Positions
  BY NonWs
<1>2. From(start, at) /\ at \in Positions
  BY <1>1, NonWs DEF Twice
<1>3. x = parse_expr(parsed, p)
  BY ParsedAt
<1>4. x = IF Type(at) \in {"&", "*"} THEN EndsWith("UNARY_OP", at, parsed[<<"expr", in>>])
          ELSE Operated(parsed, start, lhs)
  BY <1>3 DEF parse_expr
<1>5. Operated(parsed, start, lhs) =
        CASE Type(first) = "->" -> MemberAccess(start, lhs, member)
          [] Type(sign) = "==" -> BinaryOp(start, lhs, rhs)
          [] Type(sign) = "NULL" -> Failed
          [] OTHER -> lhs
  BY DEF Operated
<1>6. Type(first) = "->" => Type(sign) \notin {"==", "NULL"}
  BY DEF nonws_token
<1>7. Right(p, x)
  BY ExprRight
<1>8. Spans(Len(tokens) + 1, x) /\ x.end \in Nat /\ x.start \in Nat
  BY <1>7, RightSpans
<1> HIDE DEF at, start
<1>9. CASE Type(at) \in {"&", "*"}
  <2> DEFINE expr == parsed[<<"expr", in>>]
  <2>1. at \in DOMAIN tokens
    BY <1>9, TypeIs
  <2>2. Ends(at, at + 1) /\ at + 1 \in Positions
    BY <2>1, AtToken
  <2>3. From(at + 1, in) /\ in \in Positions
    BY <2>2, NonWs
  <2>4. Ends(at, in)
    BY <1>2, <2>2, <2>3, OnFrom
  <2>5. x = EndsWith("UNARY_OP", at, expr)
    BY <1>4, <1>9
  <2> HIDE DEF in
  <2>6. expr.end \in Positions /\ expr = parsed[<<"expr", in>>]
    BY <2>3, ParsedAt DEF Reads, Ends
  <2> HIDE DEF expr
  <2>7. x.type = "UNARY_OP" /\ x.start = at /\ x.end = expr.end /\ x.expr = expr
    BY <2>5 DEF EndsWith
  <2>8. From(expr.end, x.end)
    BY <2>6, <2>7, OnFrom
  <2>9. Inside(Made, x, expr)
    BY <1>2, <2>4, <2>6, <2>7, <2>8, ExprInside
  <2> QED
    BY <1>8, <2>7, <2>9 DEF Faithful, Facts
<1>10. CASE Type(at) \notin {"&", "*"}
  <2>0. lhs.end # 0 => Faithful(lhs)
    BY <1>2, LazyFaithful
  <2>1. Right(at, lhs) /\ lhs.end \in Positions /\ (lhs.end # 0 => lhs \in Made)
    BY <1>2, LazyRight, MadeHas DEF Right, Reads, Ends
  <2> HIDE DEF lhs
  <2>2. From(lhs.end, first) /\ first \in Positions
    BY <2>1, NonWs
  <2>3. lhs.end # 0 => lhs.start \in Nat /\ lhs.end \in Nat /\ at <= lhs.start /\ at # 0 /\ start <= lhs.start
    <3> SUFFICES ASSUME lhs.end # 0
                 PROVE  lhs.start \in Nat /\ lhs.end \in Nat /\ at <= lhs.start /\ at # 0 /\ start <= lhs.start
      OBVIOUS
    <3>1. lhs.start \in Nat /\ lhs.end \in Nat /\ at <= lhs.start /\ at # 0 /\ at \in Nat
      BY <1>2, <2>1, RightSpans
    <3>2. start <= at /\ start \in Nat
      BY <1>1, <1>2, <3>1, Lengths DEF From, Positions
    <3> QED
      BY <3>1, <3>2
  <2> HIDE DEF first
  <2>4. From(first, sign) /\ sign \in Positions
    BY <2>2, NonWs
  <2> HIDE DEF sign
  <2>5. CASE Type(first) = "->"
    <3>1. first \in DOMAIN tokens
      BY <2>5, TypeIs
    <3>2. Ends(first, first + 1) /\ first + 1 \in Positions
      BY <3>1, AtToken
    <3>3. From(first + 1, member) /\ member \in Positions
      BY <3>2, NonWs
    <3> HIDE DEF member
    <3>4. x = MemberAccess(start, lhs, member)
      BY <1>4, <1>5, <1>6, <1>10, <2>5
    <3>5. /\ x.type = "MEMBER_ACCESS" /\ x.start = start /\ x.end = next_token(member)
          /\ x.lhs = lhs /\ x.member = member
      BY <3>4 DEF MemberAccess
    <3>6. x.end = member + 1 /\ member \in Nat /\ member # 0
      BY <3>3, <3>5, Lengths DEF next_token, Positions
    <3>7. lhs.end # 0
      <4>1. first # 0
        BY <3>1, AtToken
      <4> QED
        BY <2>2, <4>1 DEF From
    <3> QED
      BY <1>8, <2>3, <3>5, <3>6, <3>7 DEF Faithful, Facts
  <2>6. CASE Type(first) # "->" /\ Type(sign) = "=="
    <3>1. sign \in DOMAIN tokens
      BY <2>6, TypeIs
    <3>2. Ends(sign, sign + 1) /\ sign + 1 \in Positions /\ sign # 0
      BY <3>1, AtToken
    <3>3. Right(sign + 1, rhs) /\ (rhs.end # 0 => rhs \in Made)
      BY <3>2, LazyRight, MadeHas
    <3>4. x = BinaryOp(start, lhs, rhs)
      BY <1>4, <1>5, <1>10, <2>6
    <3> HIDE DEF rhs
    <3>5. x.type = "BINARY_OP" /\ x.start = start /\ x.end = rhs.end /\ x.lhs = lhs /\ x.rhs = rhs
      BY <3>4 DEF BinaryOp
    <3>6. first # 0 /\ lhs.end # 0 /\ lhs.end <= first /\ first <= sign /\ lhs.end \in Nat /\ first \in Nat /\ sign \in Nat
      <4>1. first # 0
        BY <2>4, <3>2 DEF From
      <4>2. lhs.end # 0
        BY <2>2, <4>1 DEF From
      <4> QED
        BY <2>1, <2>2, <2>4, <3>2, <4>1, <4>2, Lengths DEF From, Positions
    <3>7. rhs.start \in Nat /\ rhs.end \in Nat /\ sign + 1 <= rhs.start /\ rhs.start < rhs.end
      BY <1>8, <3>2, <3>3, <3>5, RightSpans
    <3>8. start <= lhs.start /\ lhs.start \in Nat /\ lhs.start < lhs.end
      BY <1>2, <2>1, <2>3, <3>6, RightSpans
    <3>9. start \in Nat /\ start < rhs.start /\ lhs.end < rhs.end
      BY <1>1, <3>6, <3>7, <3>8, Lengths DEF Positions
    <3>10. Inside(Made, x, lhs)
      BY <1>8, <2>1, <3>5, <3>6, <3>8, <3>9, InsideMade
    <3>11. Inside(Made, x, rhs)
      BY <1>8, <3>3, <3>5, <3>7, <3>9, InsideMade
    <3> QED
      BY <1>8, <3>5, <3>10, <3>11 DEF Faithful, Facts
  <2>7. CASE Type(first) # "->" /\ Type(sign) = "NULL"
    <3>1. x = Failed
      BY <1>4, <1>5, <1>10, <2>7
    <3> QED
      BY <3>1 DEF Failed
  <2>8. CASE Type(first) # "->" /\ Type(sign) \notin {"==", "NULL"}
    <3>1. x = lhs
      BY <1>4, <1>5, <1>10, <2>8
    <3> QED
      BY <2>0, <3>1
  <2> QED
    BY <2>5, <2>6, <2>7, <2>8
<1> QED
  BY <1>9, <1>10

\* A label and a goto.
LEMMA LabelFaithful ==
  ASSUME Typed, NEW at \in DOMAIN tokens, NEW x, x = parse_label(at) \/ x = parse_goto(at), x.end # 0
  PROVE  Faithful(x)
<1>1. x.type \in {"LABEL_DECL", "GOTO_STATEMENT"} /\ x.start = at
  BY DEF parse_label, parse_goto
<1>2. Ends(at, x.end)
  BY LabelIs DEF Reads
<1>3. Spans(Len(tokens) + 1, x) /\ x.start + 1 <= x.end
  BY <1>1, <1>2, AtSpans
<1> QED
  BY <1>1, <1>3 DEF Faithful, Facts

\* A return.
LEMMA ReturnFaithful ==
  ASSUME Typed, NEW at \in DOMAIN tokens, NEW x, x = parse_return(parsed, at), x.end # 0
  PROVE  Faithful(x)
<1> DEFINE in == at + 1
           expr == parsed[<<"expr", in>>]
<1>1. x = EndsWith("RETURN_STATEMENT", at, expr)
  BY DEF parse_return
<1>2. Context(parsed, parsed, at) /\ at \in Positions /\ Ends(at, in) /\ in \in Positions
  BY AtToken
<1>3. in = at + 1
  OBVIOUS
<1> HIDE DEF in
<1>4. expr.end \in Positions /\ expr = parsed[<<"expr", in>>]
  BY <1>2, ParsedAt DEF Reads, Ends
<1> HIDE DEF expr
<1>5. x.type = "RETURN_STATEMENT" /\ x.start = at /\ x.end = expr.end /\ x.expr = expr
  BY <1>1 DEF EndsWith
<1>6. Ends(at, x.end)
  BY <1>2, ReturnIs DEF Reads
<1>7. Spans(Len(tokens) + 1, x)
  BY <1>5, <1>6, AtSpans
<1>8. From(expr.end, x.end)
  BY <1>4, <1>5, OnFrom
<1>9. Inside(Made, x, expr) /\ in <= expr.start
  BY <1>2, <1>4, <1>5, <1>8, ExprInside
<1> QED
  BY <1>3, <1>5, <1>7, <1>9 DEF Faithful, Facts

\* A branch of an if.
LEMMA BranchHas ==
  ASSUME Typed, NEW a \in Positions, NEW p, Ends(a, p), NEW b, b = parse_branch(parsed, p), TokenBehind(b) # 0,
         NEW w \in Int, TokenBehind(b) - a <= w
  PROVE  IsList(b) => ListOf(Made, w, b)
<1> DEFINE at == nonws_token(p)
<1>1. p \in Positions
  BY DEF Ends
<1>2. From(p, at) /\ at \in Positions
  BY <1>1, NonWs
<1>3. b = IF Type(at) = "{" THEN parse_block(parsed, at) ELSE parsed[<<"statement", at>>]
  BY DEF parse_branch
<1> HIDE DEF at
<1>4. From(a, at)
  BY <1>1, <1>2, OnFrom
<1>5. CASE Type(at) = "{"
  <2>1. b = Enclosed(parsed, "{", "statements", "}", at)
    BY <1>3, <1>5 DEF parse_block
  <2>2. TokenBehind(b) = b.end
    BY <2>1 DEF Enclosed, Closed, TokenBehind
  <2>3. "statements" \in DOMAIN Lists
    BY ListKinds
  <2> QED
    BY <1>4, <2>1, <2>2, <2>3, ListOfMade
<1>6. CASE Type(at) # "{"
  <2>1. b = parsed[<<"statement", at>>]
    BY <1>3, <1>6
  <2>2. Right(at, b)
    BY <1>2, <2>1, StatementRight
  <2> QED
    BY <2>2 DEF Right
<1> QED
  BY <1>5, <1>6

\* A branch of an if goes on from a position.
LEMMA BranchFrom ==
  ASSUME Typed, NEW p \in Positions, NEW b, b = parse_branch(parsed, p)
  PROVE  From(p, TokenBehind(b)) /\ TokenBehind(b) \in Positions
<1> DEFINE at == nonws_token(p)
<1>1. From(p, at) /\ at \in Positions
  BY NonWs
<1>2. b = IF Type(at) = "{" THEN parse_block(parsed, at) ELSE parsed[<<"statement", at>>]
  BY DEF parse_branch
<1> HIDE DEF at
<1>3. CASE Type(at) = "{"
  <2>1. at \in DOMAIN tokens
    BY <1>3, TypeIs
  <2>2. b = parse_block(parsed, at)
    BY <1>2, <1>3
  <2>3. Context(parsed, parsed, at) /\ From(at, at)
    BY <2>1, AtToken
  <2>4. Ends(at, b.end) /\ TokenBehind(b) = b.end
    BY <2>1, <2>2, <2>3, BlockIs
  <2> QED
    BY <1>1, <2>4, OnFrom
<1>4. CASE Type(at) # "{"
  <2>1. Right(at, b)
    BY <1>1, <1>2, <1>4, StatementRight
  <2>2. Ends(at, TokenBehind(b))
    BY <2>1 DEF Right, Reads
  <2> QED
    BY <1>1, <2>2, OnFrom
<1> QED
  BY <1>3, <1>4

\* A node that is made has its ends in the file.
LEMMA MadeSpans ==
  ASSUME Typed, NEW x \in Made
  PROVE  x.start \in Nat /\ x.end \in Nat /\ x.start <= x.end /\ Spans(Len(tokens) + 1, x)
<1>1. ASSUME NEW p \in Positions, Right(p, x), x.end # 0
      PROVE  x.start \in Nat /\ x.end \in Nat /\ x.start <= x.end /\ Spans(Len(tokens) + 1, x)
  BY <1>1, RightSpans
<1>2. CASE \E p \in Positions : Right(p, x) /\ x.end # 0
  BY <1>1, <1>2
<1>3. CASE \E r \in Positions \X Positions : r[1] # 0 /\ r[1] <= r[2] /\ x = Stub(r[1], r[2])
  <2>1. PICK p \in Positions, q \in Positions : p # 0 /\ p <= q /\ x = Stub(p, q)
    BY <1>3
  <2>2. x.start = p /\ x.end = q
    BY <2>1 DEF Stub
  <2>3. p \in 1..(Len(tokens) + 1) /\ q \in 1..(Len(tokens) + 1)
    BY <2>1, Lengths DEF Positions
  <2> QED
    BY <2>1, <2>2, <2>3 DEF Spans
<1>4. \/ \E p \in Positions : Right(p, x) /\ x.end # 0
      \/ \E r \in Positions \X Positions : r[1] # 0 /\ r[1] <= r[2] /\ x = Stub(r[1], r[2])
  BY ExprRight, StatementRight, LazyRight, DeclRight DEF Made
<1> QED
  BY <1>2, <1>3, <1>4

\* An if has its condition and its blocks in it, and its else is one of the file.
LEMMA IfFaithful ==
  ASSUME Typed, NEW at \in DOMAIN tokens, NEW x, x = parse_if(parsed, at), x.end # 0
  PROVE  Faithful(x)
<1> DEFINE open == skip_token({"("}, at + 1)
           cond == parsed[<<"expr", open>>]
           close == skip_token({")"}, cond.end)
           then == parse_branch(parsed, close)
           end == TokenBehind(then)
           behind == nonws_token(end)
           in == behind + 1
           else == parse_branch(parsed, in)
           last == TokenBehind(else)
<1>1. x = IfThen(parsed, at, cond, then)
  BY DEF parse_if, If
<1>2. IfThen(parsed, at, cond, then) =
        CASE Type(behind) = "NULL" -> Failed
          [] Type(behind) = "else" -> IfElse(at, cond, then, behind, else)
          [] OTHER -> [type |-> "IF_STATEMENT", start |-> at, end |-> end, next |-> Twice(end),
                       cond |-> cond, then |-> then, else_token |-> 0]
  BY DEF IfThen
<1>3. /\ Context(parsed, parsed, at) /\ at \in Positions /\ Ends(at, at + 1) /\ at + 1 \in Positions
      /\ at # 0 /\ at \in Nat
  BY AtToken, Lengths DEF Positions
<1>4. Ends(at + 1, open) /\ open \in Positions
  BY <1>3, SkipIs
<1>5. Ends(at, open)
  BY <1>3, <1>4, OnFrom
<1> HIDE DEF open
<1>6. cond.end \in Positions /\ cond = parsed[<<"expr", open>>] /\ Reads(open, cond)
  BY <1>4, ParsedAt DEF Reads, Ends
<1> HIDE DEF cond
<1>7. Ends(cond.end, close) /\ close \in Positions
  BY <1>6, SkipIs
<1>8. Ends(at, cond.end)
  BY <1>3, <1>5, <1>6, OnFrom DEF Reads
<1>9. Ends(at, close)
  BY <1>3, <1>7, <1>8, OnFrom
<1> HIDE DEF close
<1>10. then = parse_branch(parsed, close) /\ From(close, end) /\ end \in Positions /\ end = TokenBehind(then)
  BY <1>7, BranchFrom
<1> HIDE DEF then, end
<1>11. From(end, behind) /\ behind \in Positions
  BY <1>10, NonWs
<1> HIDE DEF behind
<1>12. From(cond.end, end)
  BY <1>6, <1>7, <1>10, OnFrom
<1>13. Ends(at, end)
  BY <1>3, <1>9, <1>10, OnFrom
<1>14. Ends(at, x.end) /\ x.end \in Positions
  BY <1>3, IfIs DEF Reads, Ends
<1>15. ASSUME NEW w \in Int, end # 0, end - at <= w
       PROVE  IsList(then) => ListOf(Made, w, then)
  BY <1>3, <1>9, <1>10, <1>15, BranchHas
<1>16. CASE Type(behind) = "NULL"
  <2>1. x = Failed
    BY <1>1, <1>2, <1>16
  <2> QED
    BY <2>1 DEF Failed
<1>17. CASE Type(behind) \notin {"NULL", "else"}
  <2>1. x = [type |-> "IF_STATEMENT", start |-> at, end |-> end, next |-> Twice(end),
             cond |-> cond, then |-> then, else_token |-> 0]
    BY <1>1, <1>2, <1>17
  <2>2. /\ x.type = "IF_STATEMENT" /\ x.start = at /\ x.end = end /\ x.cond = cond /\ x.then = then
        /\ x.else_token = 0
    BY <2>1
  <2>3. Spans(Len(tokens) + 1, x) /\ Size(x) \in Int
    BY <1>14, <2>2, AtSpans
  <2>4. Inside(Made, x, cond)
    BY <1>3, <1>5, <1>6, <1>12, <2>2, ExprInside
  <2>5. IsList(then) => ListOf(Made, Size(x), then)
    <3>1. end \in Nat /\ end - at <= Size(x)
      BY <1>3, <1>10, <2>2, Lengths DEF Positions, Size
    <3> QED
      BY <1>15, <2>2, <2>3, <3>1
  <2>6. IfFacts(Made, Elses, x)
    BY <2>2, <2>4, <2>5 DEF IfFacts
  <2> QED
    BY <2>2, <2>3, <2>6 DEF Faithful, Facts
<1>18. CASE Type(behind) = "else"
  <2>1. x = IfElse(at, cond, then, behind, else)
    BY <1>1, <1>2, <1>18
  <2>2. behind \in DOMAIN tokens
    BY <1>18, TypeIs
  <2>3. Elses
    BY <1>18, <2>2 DEF Elses, Type
  <2>4. Ends(behind, in) /\ in \in Positions /\ behind # 0
    BY <2>2, AtToken
  <2> HIDE DEF in
  <2>5. else = parse_branch(parsed, in) /\ From(in, last) /\ last \in Positions /\ last = TokenBehind(else)
    BY <2>4, BranchFrom
  <2> HIDE DEF else, last
  <2>6. /\ x.type = "IF_STATEMENT" /\ x.start = at /\ x.end = last /\ x.cond = cond /\ x.then = then
        /\ x.else_token = behind /\ x.else = else
    BY <2>1, <2>5 DEF IfElse
  <2>7. Spans(Len(tokens) + 1, x) /\ Size(x) \in Int
    BY <1>14, <2>6, AtSpans
  <2>8. From(end, last) /\ From(behind, last)
    BY <1>10, <1>11, <2>4, <2>5, OnFrom
  <2>9. From(cond.end, last)
    BY <1>6, <1>10, <1>12, <2>8, OnFrom
  <2>10. Inside(Made, x, cond)
    BY <1>3, <1>5, <1>6, <2>6, <2>9, ExprInside
  <2>11. last # 0 /\ end # 0 /\ end \in Nat /\ last \in Nat /\ end <= last /\ last - at <= Size(x)
         /\ end - at <= Size(x)
    <3>1. last # 0 /\ last \in Nat /\ end \in Nat
      BY <1>10, <2>5, <2>6, Lengths DEF Positions
    <3>2. end # 0 /\ end <= last
      BY <2>8, <3>1 DEF From
    <3> QED
      BY <1>3, <2>6, <3>1, <3>2 DEF Size
  <2>12. IsList(then) => ListOf(Made, Size(x), then)
    BY <1>15, <2>7, <2>11
  <2>13. IsList(else) => ListOf(Made, Size(x), else)
    <3>1. Ends(at, in)
      BY <1>3, <1>10, <1>11, <1>13, <2>4, OnFrom
    <3> QED
      BY <1>3, <2>5, <2>7, <2>11, <3>1, BranchHas
  <2>14. behind \in Nat
    BY <2>2, Lengths
  <2>15. IfFacts(Made, Elses, x)
    BY <2>3, <2>6, <2>10, <2>12, <2>13, <2>14 DEF IfFacts
  <2> QED
    BY <2>6, <2>7, <2>15 DEF Faithful, Facts
<1> QED
  BY <1>16, <1>17, <1>18

\* A switch has its expression before its blocks, and each of them in it.
LEMMA SwitchFaithful ==
  ASSUME Typed, NEW at \in DOMAIN tokens, NEW x, x = parse_switch(parsed, at), x.end # 0
  PROVE  Faithful(x)
<1> DEFINE before == nonws_token(at + 1)
           open == skip_token({"("}, before)
           in == nonws_token(open)
           expr == parsed[<<"expr", in>>]
           behind == nonws_token(expr.end)
           close == skip_token({")"}, behind)
           start == nonws_token(close)
           blocks == Enclosed(parsed, "{", "cases", "}", start)
<1>1. x = SwitchStatement(at, expr, blocks)
  BY DEF parse_switch, Switch
<1>2. /\ Context(parsed, parsed, at) /\ at \in Positions /\ Ends(at, at + 1) /\ at + 1 \in Positions
      /\ at # 0 /\ at \in Nat
  BY AtToken, Lengths DEF Positions
<1>3. From(at + 1, before) /\ before \in Positions
  BY <1>2, NonWs
<1> HIDE DEF before
<1>4. Ends(before, open) /\ open \in Positions
  BY <1>3, SkipIs
<1> HIDE DEF open
<1>5. From(open, in) /\ in \in Positions
  BY <1>4, NonWs
<1>6. Ends(at, in)
  BY <1>2, <1>3, <1>4, <1>5, OnFrom
<1> HIDE DEF in
<1>7. expr.end \in Positions /\ expr = parsed[<<"expr", in>>] /\ Ends(in, expr.end)
  BY <1>5, ParsedAt DEF Reads, Ends
<1> HIDE DEF expr
<1>8. From(expr.end, behind) /\ behind \in Positions
  BY <1>7, NonWs
<1> HIDE DEF behind
<1>9. Ends(behind, close) /\ close \in Positions
  BY <1>8, SkipIs
<1> HIDE DEF close
<1>10. From(close, start) /\ start \in Positions
  BY <1>9, NonWs
<1>0. blocks = Enclosed(parsed, "{", "cases", "}", start)
  OBVIOUS
<1> HIDE DEF blocks
<1> HIDE DEF start
<1>11. x.type = "SWITCH_STATEMENT" /\ x.start = at /\ x.end = blocks.end /\ x.expr = expr /\ x.blocks = blocks
  BY <1>1 DEF SwitchStatement
<1>12. From(expr.end, start)
  BY <1>7, <1>8, <1>9, <1>10, OnFrom
<1>13. From(at, start)
  BY <1>2, <1>6, <1>7, <1>12, OnFrom
<1>14. FilledBehind(at) /\ "cases" \in DOMAIN Lists /\ FilledBehind(expr.end)
  BY <1>2, <1>7, AllFilled, ListKinds
<1>15. /\ blocks.stub \in Nat /\ blocks.stub_end \in Nat /\ blocks.stub <= blocks.stub_end
       /\ at < blocks.stub /\ blocks.end \in Nat /\ blocks.stub_end < blocks.end
       /\ Elements("cases", blocks.stub, blocks.end - 1, blocks.items)
       /\ Ends(at, blocks.end) /\ Ends(expr.end, blocks.end)
  <2>1. blocks = Enclosed(parsed, "{", "cases", "}", start) /\ blocks.end # 0
    BY <1>0, <1>11
  <2>2. /\ blocks.stub \in Nat /\ blocks.stub_end \in Nat /\ blocks.stub <= blocks.stub_end
        /\ at < blocks.stub /\ blocks.end \in Nat /\ blocks.stub_end < blocks.end
        /\ Elements("cases", blocks.stub, blocks.end - 1, blocks.items)
        /\ Ends(at, blocks.end)
    BY <1>2, <1>13, <1>14, <2>1, EnclosedHas
  <2>3. Ends(expr.end, blocks.end)
    BY <1>7, <1>12, <1>14, <2>1, EnclosedHas
  <2> QED
    BY <2>2, <2>3
<1>16. Spans(Len(tokens) + 1, x)
  BY <1>11, <1>15, AtSpans
<1>17. Inside(Made, x, expr)
  <2>1. From(expr.end, x.end)
    BY <1>7, <1>11, <1>15, OnFrom
  <2> QED
    BY <1>2, <1>6, <1>7, <1>11, <2>1, ExprInside
<1>18. ASSUME NEW i \in DOMAIN blocks.items
       PROVE  BlockFacts(Made, Size(x), blocks.items[i]) /\ blocks.stub <= blocks.items[i].start
  <2> DEFINE b == blocks.items[i]
  <2>1. Element("cases", blocks.stub, blocks.end - 1, b)
    BY <1>15 DEF Elements
  <2> HIDE DEF b
  <2>2. /\ Cased(b) /\ b.start \in Nat /\ b.end \in Nat /\ blocks.stub <= b.start /\ b.end <= blocks.end - 1
    BY <2>1 DEF Element, Item
  <2>3. ASSUME NEW j \in DOMAIN b.items PROVE Less(Made, Size(x), b.items[j])
    <3>1. b.items[j] \in Made /\ b.start < b.items[j].start /\ b.items[j].end <= b.end
      BY <2>2 DEF Cased
    <3>2. b.items[j].start \in Nat /\ b.items[j].end \in Nat
      BY <3>1, MadeSpans
    <3>3. Size(b.items[j]) < Size(x)
      BY <1>2, <1>11, <1>15, <2>2, <3>1, <3>2 DEF Size
    <3> QED
      BY <3>1, <3>3 DEF Less
  <2>4. BlockFacts(Made, Size(x), b)
    BY <2>2, <2>3 DEF BlockFacts, Cased
  <2> QED
    BY <2>2, <2>4 DEF b
<1>19. SwitchFacts(Made, x)
  <2>1. IsSeq(blocks.items) /\ blocks.stub <= x.end
    BY <1>11, <1>15 DEF Elements
  <2> QED
    BY <1>11, <1>15, <1>17, <1>18, <2>1 DEF SwitchFacts
<1> QED
  BY <1>11, <1>16, <1>19 DEF Faithful, Facts

\* A statement is faithful.
LEMMA StatementFaithful ==
  ASSUME Typed, NEW p \in Positions, NEW x, x = parsed[<<"statement", p>>], x.end # 0
  PROVE  Faithful(x)
<1> DEFINE at == nonws_token(p)
           named == \E id \in Identifiers : is_next_skipws(id, at)
           labelled == is_next_skipws(":", at)
           y == parse_statement(parsed, p)
<1>1. at \in Positions
  BY NonWs
<1>2. y = CASE Type(at) = "COMMENT" -> parse_comment(at)
            [] Type(at) \in Identifiers ->
                 IF labelled THEN parse_label(at)
                 ELSE IF named THEN parse_decl(parsed, at)
                 ELSE parsed[<<"expr", at>>]
            [] Type(at) = "goto" -> parse_goto(at)
            [] Type(at) = "if" -> parse_if(parsed, at)
            [] Type(at) = "return" -> parse_return(parsed, at)
            [] Type(at) = "switch" -> parse_switch(parsed, at)
            [] Type(at) = "break" -> parse_break(at)
            [] Type(at) \in Keywords \ JumpWords -> parse_decl(parsed, at)
            [] OTHER -> parsed[<<"expr", at>>]
  BY DEF parse_statement
<1>3. x = y
  BY ParsedAt
<1> HIDE DEF at, named, labelled, y
<1>4. /\ x = parsed[<<"expr", at>>] => Faithful(x)
      /\ x = parse_decl(parsed, at) => Faithful(x)
  BY <1>1, ExprFaithful, DeclFaithful
<1>5. ASSUME at \in DOMAIN tokens
      PROVE  /\ x = parse_comment(at) \/ x = parse_break(at) => Faithful(x)
             /\ x = parse_label(at) \/ x = parse_goto(at) => Faithful(x)
             /\ x = parse_return(parsed, at) => Faithful(x)
             /\ x = parse_if(parsed, at) => Faithful(x)
             /\ x = parse_switch(parsed, at) => Faithful(x)
  <2>1. x = parse_comment(at) \/ x = parse_break(at) => Faithful(x)
    BY <1>5, LeafFaithful DEF parse_comment, parse_break
  <2> QED
    BY <1>5, <2>1, LabelFaithful, ReturnFaithful, IfFaithful, SwitchFaithful
<1>6. /\ Type(at) \in Identifiers => Type(at) \notin Keywords \cup {"COMMENT"}
      /\ JumpWords \subseteq Keywords /\ "COMMENT" \notin Keywords
      /\ JumpWords = {"goto", "if", "return", "switch", "break"}
  BY Apart DEF Signs, Keywords, JumpWords
<1>7. Type(at) \in {"COMMENT"} \cup JumpWords \cup Identifiers => at \in DOMAIN tokens
  BY TypeIs, NullIs, <1>6
<1>8. CASE Type(at) \in Identifiers
  BY <1>2, <1>3, <1>4, <1>5, <1>6, <1>7, <1>8
<1>9. CASE Type(at) = "COMMENT"
  BY <1>2, <1>3, <1>5, <1>6, <1>7, <1>9
<1>10. CASE Type(at) = "goto"
  BY <1>2, <1>3, <1>5, <1>6, <1>7, <1>10
<1>11. CASE Type(at) = "if"
  BY <1>2, <1>3, <1>5, <1>6, <1>7, <1>11
<1>12. CASE Type(at) = "return"
  BY <1>2, <1>3, <1>5, <1>6, <1>7, <1>12
<1>13. CASE Type(at) = "switch"
  BY <1>2, <1>3, <1>5, <1>6, <1>7, <1>13
<1>14. CASE Type(at) = "break"
  BY <1>2, <1>3, <1>5, <1>6, <1>7, <1>14
<1>15. CASE Type(at) \in Keywords \ JumpWords
  BY <1>2, <1>3, <1>4, <1>6, <1>15
<1>16. CASE Type(at) \notin Identifiers \cup Keywords \cup {"COMMENT"}
  BY <1>2, <1>3, <1>4, <1>6, <1>16
<1> QED
  BY <1>6, <1>8, <1>9, <1>10, <1>11, <1>12, <1>13, <1>14, <1>15, <1>16

\* So is the stub of a block.
LEMMA StubFaithful ==
  ASSUME Typed, NEW p \in Positions, NEW q \in Positions, p # 0, p <= q, NEW x, x = Stub(p, q)
  PROVE  Faithful(x)
<1>1. x.type = "STUB" /\ x \in Made
  BY StubMade DEF Stub
<1>2. Spans(Len(tokens) + 1, x)
  BY <1>1, MadeSpans
<1> QED
  BY <1>1, <1>2 DEF Faithful, Facts

\* All the parser makes of a file is what the writers take it for.
LEMMA MadeSound ==
  ASSUME Typed
  PROVE  Sound(Made, Len(tokens) + 1, Elses)
<1>1. ASSUME NEW x \in Made PROVE Faithful(x)
  <2>1. \/ x.end # 0 /\ \E p \in Positions : \/ x = parsed[<<"expr", p>>] \/ x = parsed[<<"statement", p>>]
                                             \/ x = parse_expr_lazy(parsed, p) \/ x = parse_decl(parsed, p)
        \/ \E p \in Positions, q \in Positions : p # 0 /\ p <= q /\ x = Stub(p, q)
    BY DEF Made
  <2>2. CASE x.end # 0 /\ \E p \in Positions : x = parsed[<<"expr", p>>]
    BY <2>2, ExprFaithful
  <2>3. CASE x.end # 0 /\ \E p \in Positions : x = parsed[<<"statement", p>>]
    BY <2>3, StatementFaithful
  <2>4. CASE x.end # 0 /\ \E p \in Positions : x = parse_expr_lazy(parsed, p)
    BY <2>4, LazyFaithful
  <2>5. CASE x.end # 0 /\ \E p \in Positions : x = parse_decl(parsed, p)
    BY <2>5, DeclFaithful
  <2>6. CASE \E p \in Positions, q \in Positions : p # 0 /\ p <= q /\ x = Stub(p, q)
    BY <2>6, StubFaithful
  <2> QED
    BY <2>1, <2>2, <2>3, <2>4, <2>5, <2>6
<1> QED
  BY <1>1 DEF Sound, Faithful

-----------------------------------------------------------------------------
(***************************************************************************)
(* The elements of a file                                                  *)
(***************************************************************************)

\* Parameters and members are declarations.
Declared(list) == \A i \in DOMAIN list.items : list.items[i].type = "DECLARATION"

SignFacts(S, x, sign) ==
  /\ TypeFacts(sign.data_type) /\ x.start <= sign.data_type.start
  /\ sign.name \in Nat /\ sign.data_type.end <= sign.name /\ sign.name <= sign.end
  /\ ListOf(S, Len(tokens), sign.params) /\ Declared(sign.params)
  /\ sign.end \in Nat /\ sign.end <= x.end

\* An element whose nodes are in S.
Top(S, x) ==
  /\ Spans(Len(tokens) + 1, x)
  /\ x.type = "INCLUDE_DIRECTIVE" => x.path \in Nat /\ x.start + 1 <= x.path /\ x.path + 1 <= x.end
  /\ x.type = "DEFINE_DIRECTIVE" =>
       /\ x.id \in Nat /\ x.start + 1 <= x.id /\ x.id + 1 <= x.expr.start
       /\ Less(S, Len(tokens), x.expr) /\ x.expr.end <= x.end
  /\ x.type \in {"FUNC_DECL", "FUNC_DEF"} => SignFacts(S, x, x.signature)
  /\ x.type = "FUNC_DEF" => ListOf(S, Len(tokens), x.body)
  /\ x.type = "STRUCT_DECL" =>
       /\ x.id \in Nat /\ x.start + 1 <= x.id /\ x.id <= x.end
       /\ ListOf(S, Len(tokens), x.members) /\ Declared(x.members)

\* The names that are defined change from turn to turn, and what is read with
\* them: each element has nodes of its own.
Readable(x) == \E S : Sound(S, Len(tokens) + 1, Elses) /\ Top(S, x)

\* A turn of the loop of parse makes such an element or none.
Makes == \/ nodes' = nodes
         \/ \E node : nodes' = Append(nodes, node) /\ Readable(node)

\* The lists of declarations.
LEMMA DeclaredMade ==
  ASSUME Typed, NEW a \in Positions, NEW p, From(a, p), NEW open, open # "NULL", NEW close, close # "NULL",
         NEW list \in {"params", "members"}, NEW x, x = Enclosed(parsed, open, list, close, p), x.end # 0
  PROVE  Declared(x)
<1>1. FilledBehind(a) /\ list \in DOMAIN Lists
  BY AllFilled, ListKinds
<1>2. Elements(list, x.stub, x.end - 1, x.items)
  BY <1>1, EnclosedHas
<1>3. Lists[list].item = "decl" /\ list # "cases"
  BY ItemsAre
<1> QED
  BY <1>2, <1>3 DEF Elements, Element, Item, Declared

\* What is in delimiters is behind a token.
LEMMA EnclosedAt ==
  ASSUME Typed, NEW a \in Positions, NEW p, From(a, p), NEW open, open # "NULL", NEW close, close # "NULL",
         NEW list \in DOMAIN Lists, NEW x, x = Enclosed(parsed, open, list, close, p), x.end # 0
  PROVE  p \in Positions \ {0}
<1>1. FilledBehind(a) /\ p \in Positions
  BY AllFilled DEF From
<1>2. p # 0
  BY <1>1, EnclosedHas
<1> QED
  BY <1>1, <1>2

\* A list of a node is shorter than the file.
LEMMA ListInFile ==
  ASSUME Typed, NEW a \in Positions, a # 0, NEW p, From(a, p), NEW open, open # "NULL", NEW close, close # "NULL",
         NEW list \in DOMAIN Lists, list # "cases", NEW x, x = Enclosed(parsed, open, list, close, p), x.end # 0
  PROVE  ListOf(Made, Len(tokens), x)
<1>1. FilledBehind(a)
  BY AllFilled
<1>2. x.end \in Positions
  <2>1. Ends(a, x.end)
    BY <1>1, EnclosedHas
  <2> QED
    BY <2>1 DEF Ends
<1>3. Len(tokens) \in Int /\ x.end - a <= Len(tokens)
  BY <1>2, Lengths DEF Positions
<1> QED
  BY <1>3, ListOfMade

\* insert appends a node that ends somewhere.
LEMMA InsertMakes ==
  ASSUME Typed, NEW node, NEW next, insert(node, next), next # 0 => Top(Made, node)
  PROVE  Makes /\ tokens' = tokens
<1>1. CASE next = 0
  BY <1>1 DEF insert, Abort, Makes
<1>2. CASE next # 0
  <2>1. nodes' = Append(nodes, node) /\ tokens' = tokens
    BY <1>2 DEF insert
  <2>2. Readable(node)
    BY <1>2, MadeSound DEF Readable
  <2> QED
    BY <2>1, <2>2 DEF Makes
<1> QED
  BY <1>1, <1>2

\* An include.
LEMMA IncludeMakes ==
  ASSUME ParserInv, ParseInclude
  PROVE  Makes /\ tokens' = tokens
<1> DEFINE path == nonws_token(At + 1)
           node == [type |-> "INCLUDE_DIRECTIVE", start |-> At, end |-> path + 1, path |-> path]
           next == IF Type(path) = "HEADER" THEN path + 1 ELSE 0
<1>1. Turn({"INCLUDE"}) /\ insert(node, next)
  BY DEF ParseInclude
<1>2. At \in DOMAIN tokens /\ At \in Positions /\ At \in Nat /\ Typed /\ Ends(At, At + 1) /\ At + 1 \in Positions
  BY <1>1, TurnIs, AtToken
<1>3. Ends(At, path)
  <2>1. From(At + 1, path)
    BY <1>2, NonWs
  <2> QED
    BY <1>2, <2>1, OnFrom
<1> HIDE DEF path
<1>4. node.type = "INCLUDE_DIRECTIVE" /\ node.start = At /\ node.end = path + 1 /\ node.path = path
  OBVIOUS
<1> HIDE DEF node
<1>5. next # 0 => path \in DOMAIN tokens
  BY TypeIs
<1>6. next # 0 => Top(Made, node)
  <2> SUFFICES ASSUME next # 0 PROVE Top(Made, node)
    OBVIOUS
  <2>1. path \in 1..Len(tokens) /\ Len(tokens) \in Nat /\ At \in 1..Len(tokens) /\ At < path
    BY <1>2, <1>3, <1>5, Lengths DEF Ends
  <2> QED
    BY <1>4, <2>1 DEF Top, Spans
<1> HIDE DEF next
<1> QED
  BY <1>1, <1>2, <1>6, InsertMakes

\* A define, with its name before its expression.
LEMMA DefineMakes ==
  ASSUME ParserInv, ParseDefine
  PROVE  Makes /\ tokens' = tokens
<1> DEFINE id == nonws_token(At + 1)
           in == next_token(id)
           expr == parsed[<<"expr", in>>]
           node == [type |-> "DEFINE_DIRECTIVE", start |-> At, end |-> expr.end, id |-> id, expr |-> expr]
<1>1. Turn({"DEFINE"}) /\ Defined(id, expr)
  BY DEF ParseDefine
<1>2. At \in DOMAIN tokens /\ At \in Positions /\ At \in Nat /\ Typed /\ Ends(At, At + 1) /\ At + 1 \in Positions
  BY <1>1, TurnIs, AtToken
<1>3. Ends(At, id) /\ id \in Positions
  <2>1. From(At + 1, id) /\ id \in Positions
    BY <1>2, NonWs
  <2> QED
    BY <1>2, <2>1, OnFrom
<1> HIDE DEF id
<1>4. in \in Positions /\ (in # 0 => in = id + 1 /\ id # 0)
  BY <1>2, <1>3, NextIs, Lengths DEF next_token
<1> HIDE DEF in
<1>5. Right(in, expr) /\ (expr.end # 0 => expr \in Made)
  BY <1>2, <1>4, ExprRight, MadeHas
<1>6. node.type = "DEFINE_DIRECTIVE" /\ node.start = At /\ node.end = expr.end /\ node.id = id /\ node.expr = expr
  OBVIOUS
<1>7. CASE expr.end = 0
  BY <1>1, <1>7 DEF Defined, Abort, Makes
<1>8. CASE expr.end # 0
  <2>1. nodes' = Append(nodes, node) /\ tokens' = tokens
    BY <1>1, <1>8 DEF Defined
  <2> HIDE DEF node, expr
  <2>2. /\ Spans(Len(tokens) + 1, expr) /\ expr.start \in Nat /\ expr.end \in Nat /\ expr.start < expr.end
        /\ in <= expr.start /\ in # 0
    BY <1>2, <1>4, <1>5, <1>8, RightSpans
  <2>3. id \in Nat /\ At < id /\ id + 1 <= expr.start /\ At \in 1..Len(tokens) /\ Len(tokens) \in Nat
    BY <1>2, <1>3, <1>4, <2>2, Lengths DEF Ends, Positions
  <2>4. Less(Made, Len(tokens), expr)
    BY <1>5, <1>8, <2>2, <2>3 DEF Less, Size, Spans
  <2>5. Top(Made, node)
    BY <1>6, <2>2, <2>3, <2>4 DEF Top, Spans
  <2>6. Readable(node)
    BY <1>2, <2>5, MadeSound DEF Readable
  <2> QED
    BY <2>1, <2>6 DEF Makes
<1> QED
  BY <1>7, <1>8

\* A comment.
LEMMA CommentMakes ==
  ASSUME ParserInv, ParseComment
  PROVE  Makes /\ tokens' = tokens
<1> DEFINE node == parse_comment(At)
<1>1. Turn({"COMMENT"}) /\ insert(node, At + 1)
  BY DEF ParseComment
<1>2. At \in DOMAIN tokens /\ At \in Positions /\ At \in Nat /\ Typed
  BY <1>1, TurnIs
<1>3. node.type = "COMMENT" /\ node.start = At /\ node.end = At + 1
  BY DEF parse_comment, Leaf
<1> HIDE DEF node
<1>4. Top(Made, node)
  BY <1>2, <1>3, Lengths DEF Top, Spans
<1> QED
  BY <1>1, <1>2, <1>4, InsertMakes

\* A struct, with its name before its members.
LEMMA StructMakes ==
  ASSUME ParserInv, ParseStruct
  PROVE  Makes /\ tokens' = tokens
<1> DEFINE id == nonws_token(At + 1)
           named == skip_token(Identifiers, id)
           start == nonws_token(named)
           members == Enclosed(parsed, "{", "members", "}", start)
           behind == nonws_token(members.end)
           next == skip_token({";"}, behind)
           node == StructDecl(id, members)
<1>1. Turn({"struct"}) /\ insert(node, next)
  BY DEF ParseStruct, Struct
<1>2. /\ At \in DOMAIN tokens /\ At \in Positions /\ At \in Nat /\ At # 0 /\ Typed /\ Ends(At, At + 1)
      /\ At + 1 \in Positions /\ Context(parsed, parsed, At)
  BY <1>1, TurnIs, AtToken
<1>3. From(At + 1, id) /\ id \in Positions
  BY <1>2, NonWs
<1> HIDE DEF id
<1>4. Ends(id, named) /\ named \in Positions
  BY <1>2, <1>3, SkipIs, NullIs
<1> HIDE DEF named
<1>5. From(named, start) /\ start \in Positions
  BY <1>2, <1>4, NonWs
<1> HIDE DEF start
<1>6. Ends(At, start) /\ From(At, start) /\ Ends(At, id)
  BY <1>2, <1>3, <1>4, <1>5, OnFrom
<1>7. node.type = "STRUCT_DECL" /\ node.start = At /\ node.end = members.end /\ node.id = id /\ node.members = members
  BY DEF StructDecl
<1>8. members = Enclosed(parsed, "{", "members", "}", start) /\ "members" \in DOMAIN Lists
  BY ListKinds
<1> HIDE DEF members, node
<1>9. Ends(At, members.end) /\ members.end \in Positions
  <2>1. Ends(At, members.end)
    BY <1>2, <1>6, <1>8, EnclosedIs
  <2> QED
    BY <2>1 DEF Ends
<1>10. From(members.end, behind) /\ behind \in Positions
  BY <1>2, <1>9, NonWs
<1> HIDE DEF behind
<1>11. Ends(behind, next)
  BY <1>2, <1>10, SkipIs
<1> HIDE DEF next
<1>12. next # 0 => Top(Made, node)
  <2> SUFFICES ASSUME next # 0 PROVE Top(Made, node)
    OBVIOUS
  <2>1. members.end # 0
    BY <1>10, <1>11 DEF From, Ends
  <2>2. FilledBehind(At) /\ ListOf(Made, Len(tokens), members) /\ Declared(members)
    BY <1>2, <1>6, <1>8, <2>1, AllFilled, ListInFile, DeclaredMade
  <2>3. start # 0
    <3>1. Typed /\ At \in Positions /\ From(At, start) /\ FilledBehind(At) /\ "{" # "NULL" /\ "}" # "NULL"
      BY <1>2, <1>6, <2>2
    <3>2. start \in Positions \ {0}
      BY <1>8, <2>1, <3>1, EnclosedAt
    <3> QED
      BY <3>2
  <2>4. id \in Nat /\ At + 1 <= id /\ id # 0
    BY <1>2, <1>3, <1>4, <1>5, <2>3, Lengths DEF From, Ends, Positions
  <2>5. Spans(Len(tokens) + 1, node)
    <3>1. Ends(At, node.end) /\ node.end # 0
      BY <1>7, <1>9, <2>1
    <3> QED
      BY <1>2, <1>7, <3>1, AtSpans
  <2>6. id <= members.end
    <3>1. From(id, start) /\ FilledBehind(id)
      BY <1>2, <1>3, <1>4, <1>5, OnFrom, AllFilled
    <3>2. Ends(id, members.end)
      BY <1>2, <1>3, <1>8, <2>1, <3>1, EnclosedHas
    <3> QED
      BY <1>9, <2>1, <2>4, <3>2, Lengths DEF Ends, Positions
  <2> QED
    BY <1>2, <1>7, <2>2, <2>4, <2>5, <2>6 DEF Top
<1> QED
  BY <1>1, <1>2, <1>12, InsertMakes

\* A signature, with its name behind its type and before its parameters.
LEMMA SignHas ==
  ASSUME Typed, At \in DOMAIN tokens, NEW sign, sign = parse_func_signature, sign.end # 0,
         NEW x, x.start = At, x.end \in Nat, sign.end <= x.end
  PROVE  SignFacts(Made, x, sign)
<1> DEFINE type == parse_data_type(At)
           name == nonws_token(type.end)
           open == skip_token(Identifiers, name)
           params == Enclosed(parsed, "(", "params", ")", open)
<1>1. /\ At \in Positions /\ At \in Nat /\ At # 0 /\ From(At, At)
  BY AtToken, Lengths DEF Positions
<1>2. sign = Signature(type, name, params)
  BY DEF parse_func_signature
<1>3. params = Enclosed(parsed, "(", "params", ")", open) /\ "params" \in DOMAIN Lists
  BY ListKinds
<1> HIDE DEF params
<1>4. From(At, type.start) /\ From(type.start, type.end) /\ type.start \in Positions /\ type.end \in Positions
  <2>1. From(At, type.start) /\ From(type.start, type.end)
    BY <1>1, DataType
  <2> QED
    BY <2>1 DEF From
<1> HIDE DEF type
<1>5. From(type.end, name) /\ name \in Positions
  BY <1>4, NonWs
<1> HIDE DEF name
<1>6. Ends(name, open) /\ open \in Positions
  BY <1>5, SkipIs, NullIs
<1> HIDE DEF open
<1>7. sign.data_type = type /\ sign.name = name /\ sign.params = params /\ sign.end = params.end
  BY <1>2 DEF Signature
<1>8. From(At, open)
  BY <1>1, <1>4, <1>5, <1>6, OnFrom
<1>9. ListOf(Made, Len(tokens), params) /\ Declared(params) /\ open \in Positions \ {0}
  BY <1>1, <1>3, <1>7, <1>8, ListInFile, DeclaredMade, EnclosedAt
<1>10. Ends(At, params.end)
  BY <1>1, <1>3, <1>8, AtToken, EnclosedIs
<1>11. params.end \in Nat
  BY <1>10, Lengths DEF Ends, Positions
<1>12. name # 0 /\ type.end # 0 /\ type.start # 0
  BY <1>4, <1>5, <1>6, <1>9 DEF From, Ends
<1>13. /\ type.start \in Nat /\ type.end \in Nat /\ name \in Nat /\ At <= type.start /\ type.start <= type.end
       /\ type.end <= name
  BY <1>1, <1>4, <1>5, <1>12, Lengths DEF From, Positions
<1>14. name <= params.end
  <2>1. From(name, open) /\ FilledBehind(name)
    BY <1>5, <1>6, OnFrom, AllFilled
  <2>2. Ends(name, params.end)
    BY <1>3, <1>5, <1>7, <2>1, EnclosedHas
  <2> QED
    BY <1>7, <1>11, <1>13, <2>2 DEF Ends
<1> QED
  BY <1>7, <1>9, <1>11, <1>13, <1>14 DEF SignFacts, TypeFacts

\* A function, or its declaration.
LEMMA FuncMakes ==
  ASSUME ParserInv, ParseFunc
  PROVE  Makes /\ tokens' = tokens
<1> DEFINE sign == parse_func_signature
           first == nonws_token(sign.end)
           behind == nonws_token(first)
<1>1. Turn(Keywords \ {"struct"}) /\ FuncFrom(sign)
  BY DEF ParseFunc
<1>2. /\ At \in DOMAIN tokens /\ At \in Positions /\ At \in Nat /\ Typed
      /\ Context(parsed, parsed, At) /\ From(At, At) /\ At # 0
  BY <1>1, TurnIs, NullIs, OnFrom, AtToken
<1>3. sign = parse_func_signature /\ Ends(At, sign.end) /\ sign.end \in Positions
  <2> DEFINE type == parse_data_type(At)
             name == nonws_token(type.end)
             open == skip_token(Identifiers, name)
             params == Enclosed(parsed, "(", "params", ")", open)
  <2>1. sign.end = params.end
    BY DEF parse_func_signature, Signature
  <2>2. From(At, type.end)
    BY <1>2, DataType
  <2> HIDE DEF type, sign
  <2>3. From(At, name)
    BY <1>2, <2>2, Looked
  <2> HIDE DEF name
  <2>4. Ends(At, open)
    BY <1>2, <2>3, Looked, NullIs
  <2> HIDE DEF open
  <2>5. Ends(At, params.end)
    BY <1>2, <2>4, EnclosedIs, ListKinds
  <2> HIDE DEF params
  <2>6. Ends(At, sign.end)
    BY <2>1, <2>5
  <2> QED
    BY <2>6 DEF sign, Ends
<1>4. \/ FuncDecl(sign, first)
      \/ Type(first) # ";" /\ FuncDef(sign, behind)
      \/ Type(first) # ";" /\ Type(behind) # "{" /\ NoFunc(behind)
  BY <1>1 DEF FuncFrom
<1> HIDE DEF sign
<1>5. From(sign.end, first) /\ first \in Positions
  BY <1>2, <1>3, NonWs
<1> HIDE DEF first
<1>6. From(first, behind) /\ behind \in Positions
  BY <1>2, <1>5, NonWs
<1> HIDE DEF behind
<1>7. CASE FuncDecl(sign, first)
  <2> DEFINE node == [type |-> "FUNC_DECL", start |-> At, end |-> first, signature |-> sign]
  <2>1. Type(first) = ";" /\ insert(node, first + 1)
    BY <1>7 DEF FuncDecl
  <2>2. node.type = "FUNC_DECL" /\ node.start = At /\ node.end = first /\ node.signature = sign
    OBVIOUS
  <2> HIDE DEF node
  <2>3. first \in DOMAIN tokens
    BY <2>1, TypeIs
  <2>4. first # 0 /\ first \in Nat
    BY <1>2, <1>5, <2>3, AtToken, Lengths DEF Positions
  <2>5. sign.end # 0 /\ sign.end <= first
    BY <1>5, <2>4 DEF From
  <2>6. SignFacts(Made, node, sign)
    BY <1>2, <1>3, <2>2, <2>4, <2>5, SignHas
  <2>7. Spans(Len(tokens) + 1, node)
    <3>1. Ends(At, first)
      BY <1>2, <1>3, <1>5, OnFrom
    <3> QED
      BY <1>2, <2>2, <2>4, <3>1, AtSpans
  <2>8. Top(Made, node)
    BY <2>2, <2>6, <2>7 DEF Top
  <2> QED
    BY <1>2, <2>1, <2>8, InsertMakes
<1>8. CASE FuncDef(sign, behind)
  <2> DEFINE body == parse_block(parsed, behind)
             node == [type |-> "FUNC_DEF", start |-> At, end |-> body.end, signature |-> sign, body |-> body]
  <2>1. insert(node, body.end)
    BY <1>8 DEF FuncDef, Function
  <2>2. /\ node.type = "FUNC_DEF" /\ node.start = At /\ node.end = body.end /\ node.signature = sign
        /\ node.body = body
    OBVIOUS
  <2>3. body = Enclosed(parsed, "{", "statements", "}", behind) /\ "statements" \in DOMAIN Lists
    BY ListKinds DEF parse_block
  <2> HIDE DEF node, body
  <2>4. From(sign.end, behind) /\ Ends(At, behind) /\ From(At, behind)
    BY <1>2, <1>3, <1>5, <1>6, OnFrom
  <2>5. body.end # 0 => Top(Made, node)
    <3> SUFFICES ASSUME body.end # 0 PROVE Top(Made, node)
      OBVIOUS
    <3>1. Ends(At, body.end) /\ body.end \in Nat
      <4>1. Ends(At, body.end)
        BY <1>2, <2>3, <2>4, EnclosedIs
      <4> QED
        BY <1>2, <4>1, Lengths DEF Ends, Positions
    <3>2. ListOf(Made, Len(tokens), body)
      BY <1>2, <2>3, <2>4, ListInFile
    <3>3. behind \in Positions \ {0}
      BY <1>2, <2>3, <2>4, EnclosedAt
    <3>4. sign.end # 0 /\ sign.end <= body.end
      <4>1. Ends(behind, body.end)
        <5>1. behind \in DOMAIN tokens
          BY <1>8, TypeIs DEF FuncDef
        <5> QED
          BY <1>2, <2>3, <5>1, AtToken, EnclosedIs
      <4>2. Ends(sign.end, body.end)
        BY <1>2, <1>3, <2>4, <4>1, OnFrom
      <4>3. sign.end # 0 /\ sign.end < body.end
        BY <4>2 DEF Ends
      <4> QED
        BY <1>2, <1>3, <3>1, <4>3, Lengths DEF Positions
    <3>5. SignFacts(Made, node, sign)
      BY <1>2, <1>3, <2>2, <3>1, <3>4, SignHas
    <3>6. Spans(Len(tokens) + 1, node)
      BY <1>2, <2>2, <3>1, AtSpans
    <3> QED
      BY <2>2, <3>2, <3>5, <3>6 DEF Top
  <2> QED
    BY <1>2, <2>1, <2>5, InsertMakes
<1>9. CASE NoFunc(behind)
  BY <1>9 DEF NoFunc, Abort, Makes
<1> QED
  BY <1>4, <1>7, <1>8, <1>9

\* Every element of the list can be read.
AllReadable == \A i \in DOMAIN nodes : Readable(nodes[i])

\* It stays so.
LEMMA MakesKeeps ==
  ASSUME ParserInv, AllReadable, Makes, tokens' = tokens
  PROVE  AllReadable'
<1>1. \A x : Readable(x)' <=> Readable(x)
  BY DEF Readable, Sound, Facts, Top, SignFacts, ListOf, Spans, Elses
<1>2. CASE nodes' = nodes
  BY <1>1, <1>2 DEF AllReadable
<1>3. CASE \E node : nodes' = Append(nodes, node) /\ Readable(node)
  <2>1. PICK node : nodes' = Append(nodes, node) /\ Readable(node)
    BY <1>3
  <2>2. PICK S : nodes \in Seq(S)
    BY DEF ParserInv
  <2>3. \A i \in DOMAIN nodes' : nodes'[i] = node \/ (i \in DOMAIN nodes /\ nodes'[i] = nodes[i])
    BY <2>1, <2>2
  <2> QED
    BY <1>1, <2>1, <2>3 DEF AllReadable
<1> QED
  BY <1>2, <1>3 DEF Makes

\* A step of the parser keeps every element readable.
LEMMA ParserReads ==
  ASSUME ParserInv, AllReadable, [Parse \/ Render]_parserVars
  PROVE  AllReadable' /\ tokens' = tokens
<1>1. Makes /\ tokens' = tokens
  <2>1. CASE ParseInclude
    BY <2>1, IncludeMakes
  <2>2. CASE ParseDefine
    BY <2>2, DefineMakes
  <2>3. CASE ParseStub
    BY <2>3 DEF ParseStub, Makes
  <2>4. CASE ParseComment
    BY <2>4, CommentMakes
  <2>5. CASE ParseStruct
    BY <2>5, StructMakes
  <2>6. CASE ParseFunc
    BY <2>6, FuncMakes
  <2>7. CASE ParseOther
    BY <2>7 DEF ParseOther, Abort, Makes
  <2>8. CASE ParseEnd \/ Render
    BY <2>8 DEF ParseEnd, Render, Makes
  <2>9. CASE UNCHANGED parserVars
    BY <2>9 DEF parserVars, Makes
  <2> QED
    BY <2>1, <2>2, <2>3, <2>4, <2>5, <2>6, <2>7, <2>8, <2>9 DEF Parse
<1> QED
  BY <1>1, MakesKeeps

-----------------------------------------------------------------------------
(***************************************************************************)
(* The page                                                                *)
(***************************************************************************)

\* The declarations of a list, in whatever class.
LEMMA DeclsWrite ==
  ASSUME Typed, NEW S, Sound(S, Len(tokens) + 1, Elses), NEW w \in Int, NEW list, ListOf(S, w, list), Declared(list),
         NEW class
  PROVE  /\ Writes(S, w, Joined(list.items, Decls(list.items, class)), list.stub, LastEnd(list))
         /\ Writes(S, w, Joined(list.items, Decls(list.items, class)), First(list), LastEnd(list))
         /\ LastEnd(list) \in Nat /\ list.stub \in Nat /\ First(list) \in Nat
<1> DEFINE items == list.items
           cells == Decls(items, class)
<1>1. Placed(S)
  BY SoundShown
<1>2. ASSUME NEW i \in DOMAIN items PROVE Writes(S, w, cells[i], items[i].start, items[i].end)
  <2> DEFINE x == items[i]
  <2>1. cells[i] = write_decl(x, class)
    BY DEF Decls
  <2>2. Less(S, w, x) /\ x.type = "DECLARATION"
    BY DEF ListOf, Declared
  <2> HIDE DEF x, cells
  <2>3. Facts(S, Len(tokens) + 1, Elses, x)
    BY <2>2 DEF Sound, Less
  <2>4. Spans(Len(tokens) + 1, x) /\ DeclFacts(S, x)
    BY <2>2, <2>3 DEF Facts
  <2>5. Size(x) <= w
    <3>1. Size(x) < w /\ Size(x) \in Int
      BY <2>2, <2>4, SpansIs DEF Less
    <3> QED
      BY <3>1
  <2>6. Writes(S, w, write_decl(x, class), x.start, x.end)
    BY <1>1, <2>4, <2>5, DeclWrites
  <2> QED
    BY <2>1, <2>6 DEF x
<1> HIDE DEF cells
<1>3. /\ Writes(S, w, Joined(list.items, cells), list.stub, LastEnd(list))
      /\ LastEnd(list) \in Nat /\ list.stub \in Nat
      /\ Writes(S, w, Joined(list.items, cells), First(list), LastEnd(list)) /\ First(list) \in Nat
  BY <1>1, <1>2, ListedIs
<1> QED
  BY <1>3 DEF cells

\* A signature is written from the start of its element to its end.
LEMMA SignWrites ==
  ASSUME Typed, NEW S, Sound(S, Len(tokens) + 1, Elses), NEW x, Spans(Len(tokens) + 1, x), NEW sign,
         SignFacts(S, x, sign)
  PROVE  Writes(S, Len(tokens), write_func_sign(sign), x.start, sign.end)
<1> DEFINE w == Len(tokens)
           type == sign.data_type
           list == sign.params
           head == Span(type.start, type.end, "keyword")
           ws == write_ws(type.end)
           one == One(sign.name, "func-name")
           gap == Plain(sign.name + 1, First(list))
           params == write_params(list)
           tail == Plain(LastEnd(list), sign.end)
<1>1. /\ w \in Nat /\ x.start \in Nat /\ x.end \in Nat /\ x.end <= w + 1
      /\ type.start \in Nat /\ type.end \in Nat /\ type.start <= type.end /\ x.start <= type.start
      /\ sign.name \in Nat /\ type.end <= sign.name /\ sign.name <= sign.end /\ sign.end \in Nat /\ sign.end <= x.end
      /\ ListOf(S, w, list) /\ Declared(list)
  BY SpansIs, Lengths DEF SignFacts, TypeFacts
<1>2. write_func_sign(sign) = head \o ws \o one \o gap \o params \o tail
  BY DEF write_func_sign
<1>3. params = Joined(list.items, Decls(list.items, ""))
  BY DEF write_params
<1>0. w = Len(tokens)
  OBVIOUS
<1> HIDE DEF w, type, list
<1>4. w \in Int /\ type.end \in 0..(Len(tokens) + 1) /\ sign.name + 1 \in Nat
  BY ONLY <1>0, <1>1
<1>5. Writes(S, w, params, First(list), LastEnd(list)) /\ LastEnd(list) \in Nat /\ First(list) \in Nat
  <2> HIDE DEF params
  <2> QED
    BY <1>0, <1>1, <1>3, <1>4, DeclsWrite
<1>6. /\ Writes(S, w, head, type.start, type.end) /\ Writes(S, w, ws, type.end, type.end)
      /\ Writes(S, w, one, sign.name, sign.name + 1)
      /\ Writes(S, w, gap, sign.name + 1, First(list)) /\ Writes(S, w, tail, LastEnd(list), sign.end)
  BY <1>1, <1>4, <1>5, SpanIs, WsIs, OneIs, PlainIs
<1> HIDE DEF head, ws, one, gap, params, tail
<1>7. Writes(S, w, head, x.start, type.end) /\ Writes(S, w, one, type.end, sign.name + 1)
  BY <1>1, <1>6, Sooner
<1>8. Writes(S, w, head \o ws, x.start, type.end)
  BY <1>6, <1>7, Then
<1>9. Writes(S, w, head \o ws \o one, x.start, sign.name + 1)
  BY <1>7, <1>8, Then
<1>10. Writes(S, w, head \o ws \o one \o gap, x.start, First(list))
  BY <1>6, <1>9, Then
<1>11. Writes(S, w, head \o ws \o one \o gap \o params, x.start, LastEnd(list))
  BY <1>5, <1>10, Then
<1>12. Writes(S, w, head \o ws \o one \o gap \o params \o tail, x.start, sign.end)
  BY <1>6, <1>11, Then
<1> QED
  BY <1>0, <1>2, <1>12

\* A word and the whitespace behind it.
LEMMA WordWrites ==
  ASSUME Typed, NEW S, NEW w, NEW p \in 1..Len(tokens), NEW class
  PROVE  Writes(S, w, One(p, class) \o write_ws(p + 1), p, p + 1)
<1>1. p \in Nat /\ p + 1 \in 0..(Len(tokens) + 1)
  BY Lengths
<1>2. Writes(S, w, One(p, class), p, p + 1) /\ Writes(S, w, write_ws(p + 1), p + 1, p + 1)
  BY <1>1, OneIs, WsIs
<1> QED
  BY <1>2, Then

\* An include,
LEMMA IncludeWrites ==
  ASSUME Typed, NEW S, NEW x, Top(S, x), x.type = "INCLUDE_DIRECTIVE"
  PROVE  Writes(S, Len(tokens), One(x.start, "prep") \o write_ws(x.start + 1) \o One(x.path, "str"), x.start, x.end)
<1> DEFINE w == Len(tokens)
           head == One(x.start, "prep") \o write_ws(x.start + 1)
           path == One(x.path, "str")
<1>1. /\ Len(tokens) \in Nat /\ x.start \in 1..Len(tokens) /\ x.start + 1 \in Nat /\ x.end \in Nat
      /\ x.path \in Nat /\ x.start + 1 <= x.path /\ x.path + 1 <= x.end /\ x.path + 1 \in Nat
  BY Lengths DEF Top, Spans
<1> HIDE DEF w
<1>2. Writes(S, w, head, x.start, x.start + 1) /\ Writes(S, w, path, x.path, x.path + 1)
  BY <1>1, WordWrites, OneIs
<1> HIDE DEF head, path
<1>3. Writes(S, w, path, x.start + 1, x.path + 1)
  BY <1>1, <1>2, Sooner
<1>4. Writes(S, w, head \o path, x.start, x.path + 1)
  BY <1>2, <1>3, Then
<1>5. Writes(S, w, head \o path, x.start, x.end)
  BY <1>1, <1>4, Later
<1> QED
  BY <1>5 DEF w, head, path

\* a define,
LEMMA DefineWrites ==
  ASSUME Typed, NEW S, Placed(S), NEW x, Top(S, x), x.type = "DEFINE_DIRECTIVE"
  PROVE  Writes(S, Len(tokens), One(x.start, "prep") \o write_ws(x.start + 1)
                  \o One(x.id, "prepid") \o write_ws(x.id + 1) \o Nested(x.expr), x.start, x.end)
<1> DEFINE w == Len(tokens)
           head == One(x.start, "prep") \o write_ws(x.start + 1)
           one == One(x.id, "prepid")
           ws == write_ws(x.id + 1)
           c == x.expr
<1>1. /\ Len(tokens) \in Nat /\ x.start \in 1..(Len(tokens) + 1) /\ x.end \in 1..(Len(tokens) + 1)
      /\ x.id \in Nat /\ x.start + 1 <= x.id /\ x.id + 1 <= c.start /\ Less(S, Len(tokens), c) /\ c.end <= x.end
  BY Lengths DEF Top, Spans
<1>2. /\ Writes(S, Len(tokens), Nested(c), c.start, c.end)
      /\ c.start \in Nat /\ c.end \in Nat /\ c.start <= c.end /\ c.end <= Len(tokens) + 1
  BY <1>1, ChildIs
<1> HIDE DEF c
<1>3. /\ x.start \in 1..Len(tokens) /\ x.start + 1 \in Nat /\ x.end \in Nat /\ x.id + 1 \in 0..(Len(tokens) + 1)
      /\ x.id + 1 \in Nat
  BY <1>1, <1>2
<1> HIDE DEF w
<1>4. /\ Writes(S, w, head, x.start, x.start + 1) /\ Writes(S, w, one, x.id, x.id + 1)
      /\ Writes(S, w, ws, x.id + 1, x.id + 1)
  BY <1>1, <1>3, WordWrites, OneIs, WsIs
<1> HIDE DEF head, one, ws
<1>5. Writes(S, w, one, x.start + 1, x.id + 1)
  BY <1>1, <1>3, <1>4, Sooner
<1>6. Writes(S, w, head \o one, x.start, x.id + 1)
  BY <1>4, <1>5, Then
<1>7. Writes(S, w, head \o one \o ws, x.start, x.id + 1)
  BY <1>4, <1>6, Then
<1>8. Writes(S, w, Nested(c), x.id + 1, c.end)
  BY <1>1, <1>2, <1>3, Sooner DEF w
<1>9. Writes(S, w, head \o one \o ws \o Nested(c), x.start, c.end)
  BY <1>7, <1>8, Then
<1>10. Writes(S, w, head \o one \o ws \o Nested(c), x.start, x.end)
  BY <1>1, <1>3, <1>9, Later
<1>11. One(x.start, "prep") \o write_ws(x.start + 1) \o One(x.id, "prepid") \o write_ws(x.id + 1) \o Nested(x.expr)
         = head \o one \o ws \o Nested(c)
  BY DEF head, one, ws, c
<1> QED
  BY <1>10, <1>11 DEF w

\* a declaration of a function,
LEMMA FuncDeclWrites ==
  ASSUME Typed, NEW S, Sound(S, Len(tokens) + 1, Elses), NEW x, Top(S, x), x.type = "FUNC_DECL"
  PROVE  Writes(S, Len(tokens), write_func_sign(x.signature), x.start, x.end)
<1>1. SignFacts(S, x, x.signature) /\ Spans(Len(tokens) + 1, x)
  BY DEF Top
<1>2. Writes(S, Len(tokens), write_func_sign(x.signature), x.start, x.signature.end)
  BY <1>1, SignWrites
<1>3. x.signature.end <= x.end /\ x.end \in Nat
  BY <1>1, SpansIs DEF SignFacts
<1> QED
  BY <1>2, <1>3, Later

\* a function,
LEMMA FuncDefWrites ==
  ASSUME Typed, NEW S, Sound(S, Len(tokens) + 1, Elses), NEW x, Top(S, x), x.type = "FUNC_DEF"
  PROVE  Writes(S, Len(tokens),
                write_func_sign(x.signature) \o Plain(x.signature.end, x.body.stub) \o write_serial(x.body)
                  \o Plain(LastEnd(x.body), x.end), x.start, x.end)
<1> DEFINE w == Len(tokens)
           sign == x.signature
           body == x.body
           head == write_func_sign(sign)
           gap == Plain(sign.end, body.stub)
           serial == write_serial(body)
           tail == Plain(LastEnd(body), x.end)
<1>1. SignFacts(S, x, sign) /\ Spans(Len(tokens) + 1, x) /\ ListOf(S, Len(tokens), body)
  BY DEF Top
<1> HIDE DEF sign, body
<1>2. sign.end \in Nat /\ x.end \in Nat /\ Placed(S)
  BY <1>1, SpansIs, SoundShown DEF SignFacts
<1>3. Writes(S, w, head, x.start, sign.end)
  BY <1>1, SignWrites
<1>4. Writes(S, w, serial, body.stub, LastEnd(body)) /\ LastEnd(body) \in Nat /\ body.stub \in Nat
  BY <1>1, <1>2, SerialIs
<1>5. Writes(S, w, gap, sign.end, body.stub) /\ Writes(S, w, tail, LastEnd(body), x.end)
  BY <1>2, <1>4, PlainIs
<1> HIDE DEF w, head, gap, serial, tail
<1>6. Writes(S, w, head \o gap, x.start, body.stub)
  BY <1>3, <1>5, Then
<1>7. Writes(S, w, head \o gap \o serial, x.start, LastEnd(body))
  BY <1>4, <1>6, Then
<1>8. Writes(S, w, head \o gap \o serial \o tail, x.start, x.end)
  BY <1>5, <1>7, Then
<1> QED
  BY <1>8 DEF w, head, gap, serial, tail, sign, body

\* a struct,
LEMMA StructWrites ==
  ASSUME Typed, NEW S, Sound(S, Len(tokens) + 1, Elses), NEW x, Top(S, x), x.type = "STRUCT_DECL"
  PROVE  Writes(S, Len(tokens), One(x.start, "keyword") \o write_ws(x.start + 1)
                  \o One(x.id, "typename") \o Plain(x.id + 1, x.members.stub)
                  \o write_member_decls(x.members) \o Plain(LastEnd(x.members), x.end), x.start, x.end)
<1> DEFINE w == Len(tokens)
           list == x.members
           head == One(x.start, "keyword") \o write_ws(x.start + 1)
           one == One(x.id, "typename")
           gap == Plain(x.id + 1, list.stub)
           members == write_member_decls(list)
           tail == Plain(LastEnd(list), x.end)
<1>1. /\ Spans(Len(tokens) + 1, x) /\ x.id \in Nat /\ x.start + 1 <= x.id
      /\ ListOf(S, Len(tokens), list) /\ Declared(list)
  BY DEF Top
<1> HIDE DEF list
<1>2. x.end \in Nat /\ x.start \in Nat /\ x.start + 1 \in Nat /\ x.id + 1 \in Nat /\ Len(tokens) \in Int
  BY <1>1, SpansIs, Lengths
<1>3. members = Joined(list.items, Decls(list.items, "member"))
  BY DEF write_member_decls
<1>4. Writes(S, w, members, list.stub, LastEnd(list)) /\ LastEnd(list) \in Nat /\ list.stub \in Nat
  <2> HIDE DEF members
  <2> QED
    BY <1>1, <1>2, <1>3, DeclsWrite
<1>5. x.start \in 1..Len(tokens) /\ x.id <= Len(tokens) + 1
  <2>1. x.start # 0 /\ x.end <= Len(tokens) + 1
    BY <1>1, SpansIs
  <2>2. Len(tokens) \in Nat
    BY Lengths
  <2>3. x.id <= x.end
    BY DEF Top
  <2> QED
    BY ONLY <1>1, <1>2, <2>1, <2>2, <2>3
<1>6. Writes(S, w, head, x.start, x.start + 1) /\ Writes(S, w, one, x.id, x.id + 1)
  BY <1>1, <1>2, <1>5, WordWrites, OneIs
<1>7. Writes(S, w, gap, x.id + 1, list.stub) /\ Writes(S, w, tail, LastEnd(list), x.end)
  BY <1>2, <1>4, PlainIs
<1> HIDE DEF w, head, one, gap, members, tail
<1>8. Writes(S, w, one, x.start + 1, x.id + 1)
  BY <1>1, <1>2, <1>6, Sooner
<1>9. Writes(S, w, head \o one, x.start, x.id + 1)
  BY <1>6, <1>8, Then
<1>10. Writes(S, w, head \o one \o gap, x.start, list.stub)
  BY <1>7, <1>9, Then
<1>11. Writes(S, w, head \o one \o gap \o members, x.start, LastEnd(list))
  BY <1>4, <1>10, Then
<1>12. Writes(S, w, head \o one \o gap \o members \o tail, x.start, x.end)
  BY <1>7, <1>11, Then
<1>13. One(x.start, "keyword") \o write_ws(x.start + 1) \o One(x.id, "typename") \o Plain(x.id + 1, x.members.stub)
         \o write_member_decls(x.members) \o Plain(LastEnd(x.members), x.end)
       = head \o one \o gap \o members \o tail
  BY DEF head, one, gap, members, tail, list
<1> QED
  BY <1>12, <1>13 DEF w

\* a comment.
LEMMA CommentWrites ==
  ASSUME Typed, NEW S, NEW x, Top(S, x)
  PROVE  Writes(S, Len(tokens), Span(x.start, x.end, "comment"), x.start, x.end)
<1>1. x.start \in Nat /\ x.end \in Nat /\ x.start <= x.end
  BY SpansIs DEF Top
<1> QED
  BY <1>1, SpanIs

\* What is on the page: tokens only, from the first one on.
Shows(s, b) == CallsOn({}, s) /\ Laid({}, 0, s, 1, b)

\* Before a node, the page ends where the node starts.
PageInv ==
  /\ ParserInv
  /\ AllReadable
  /\ written \in 0..Len(nodes)
  /\ phase = "parse" => page = <<>> /\ written = 0
  /\ \E b \in Nat : Shows(page, b) /\ (written < Len(nodes) => b <= nodes[written + 1].start)

\* A page that is written whole is laid out whatever the nodes are.
LEMMA LaidAlike ==
  ASSUME NEW S, NEW w, NEW s, NEW a, NEW b, Laid(S, w, s, a, b), \A i \in DOMAIN s : ~IsCall(s[i])
  PROVE  CallsOn({}, s) /\ Laid({}, 0, s, a, b)
BY DEF Laid, Known, CallsOn

\* The elements of a list have places in it.
LEMMA NodesListed ==
  ASSUME ParserInv
  PROVE  Typed /\ Len(nodes) \in Nat /\ DOMAIN nodes = 1..Len(nodes)
<1>1. PICK S : nodes \in Seq(S)
  BY DEF ParserInv
<1> QED
  BY <1>1, InvTyped

\* What is behind an element, up to the next one.
LEMMA BehindIs ==
  ASSUME ParserInv, written \in Nat, written < Len(nodes)
  PROVE  \E b \in Nat : /\ Writes({}, 0, Behind, Node.end, b)
                        /\ written + 1 < Len(nodes) => b = nodes[written + 2].start
<1>1. /\ Typed /\ Len(nodes) \in Nat /\ written + 1 \in DOMAIN nodes
      /\ written + 1 < Len(nodes) => written + 2 \in DOMAIN nodes
  BY NodesListed
<1>2. \A i \in DOMAIN nodes : nodes[i].start \in Nat /\ nodes[i].end \in Nat
  BY <1>1, Lengths DEF ParserInv, ParserTypeOK
<1>3. Node.end \in Nat /\ Node.end + 1 \in Nat
  BY <1>1, <1>2 DEF Node
<1>4. CASE written + 1 < Len(nodes)
  <2>1. Behind = Plain(Node.end, nodes[written + 2].start) /\ nodes[written + 2].start \in Nat
    BY <1>1, <1>2, <1>4 DEF Behind
  <2> QED
    BY <1>3, <1>4, <2>1, PlainIs
<1>5. CASE ~(written + 1 < Len(nodes))
  <2>1. Behind = One(Node.end, "") \/ Behind = Crash
    BY <1>5 DEF Behind
  <2>2. Writes({}, 0, One(Node.end, ""), Node.end, Node.end + 1) /\ Writes({}, 0, Crash, Node.end, Node.end + 1)
    BY <1>3, OneIs, CrashIs
  <2> QED
    BY <1>3, <1>5, <2>1, <2>2
<1> QED
  BY <1>4, <1>5

\* An element that is written, with what is behind it, comes behind the page.
LEMMA CellsAre ==
  ASSUME PageInv, written < Len(nodes), NEW parts,
         \A S : Sound(S, Len(tokens) + 1, Elses) /\ Top(S, Node) => Writes(S, Len(tokens), parts, Node.start, Node.end),
         NEW cells, cells = WrittenOut(parts) \o Behind, Whole(cells)
  PROVE  \E b \in Nat : Shows(page \o cells, b) /\ (written + 1 < Len(nodes) => b <= nodes[written + 2].start)
<1> DEFINE out == WrittenOut(parts)
<1>1. ParserInv /\ Typed /\ Len(nodes) \in Nat /\ DOMAIN nodes = 1..Len(nodes) /\ written \in Nat
  BY NodesListed DEF PageInv
<1>2. PICK b \in Nat : Writes({}, 0, Behind, Node.end, b) /\ (written + 1 < Len(nodes) => b = nodes[written + 2].start)
  BY <1>1, BehindIs
<1>3. PICK S : Sound(S, Len(tokens) + 1, Elses) /\ Top(S, Node)
  BY <1>1 DEF PageInv, AllReadable, Readable, Node
<1>4. Writes(S, Len(tokens), parts, Node.start, Node.end) /\ Shown(S)
  BY <1>1, <1>3, SoundShown
<1>5. IsSeq(out) /\ IsSeq(Behind)
  BY <1>1, <1>2, <1>4, WrittenSeq DEF Writes, CallsOn
<1> HIDE DEF out
<1>6. Whole(out) /\ Whole(Behind)
  <2>1. Whole(out \o Behind)
    BY DEF out
  <2> QED
    BY <1>5, <2>1, WholeParts
<1>7. Laid(S, 0, out, Node.start, Node.end) /\ \A i \in DOMAIN out : ~IsCall(out[i])
  BY <1>1, <1>4, <1>6, WrittenIs DEF out
<1>8. CallsOn({}, out) /\ Laid({}, 0, out, Node.start, Node.end)
  BY <1>7, LaidAlike
<1>9. CallsOn({}, Behind) /\ Laid({}, 0, Behind, Node.end, b)
  BY <1>2, <1>6 DEF Writes
<1>10. PICK c \in Nat : Shows(page, c) /\ c <= Node.start
  BY DEF PageInv, Node
<1>11. Laid({}, 0, page, 1, Node.start)
  <2>1. Node.start \in Nat /\ Ordered(c, Node.start) /\ Ordered(1, 1)
    BY <1>8, <1>10 DEF Laid, Ordered
  <2> QED
    BY <1>10, <2>1, Widened DEF Shows
<1>12. Laid({}, 0, page \o cells, 1, b)
  <2>1. Laid({}, 0, cells, Node.start, b)
    BY <1>8, <1>9, Behinds DEF out
  <2> QED
    BY <1>11, <2>1, Behinds
<1>13. CallsOn({}, page \o cells)
  <2>1. CallsOn({}, page)
    BY <1>10 DEF Shows
  <2>2. CallsOn({}, cells)
    BY <1>8, <1>9, CallsParts DEF out
  <2> QED
    BY <2>1, <2>2, CallsParts
<1>14. written + 1 < Len(nodes) => b <= nodes[written + 2].start
  BY <1>2
<1> QED
  BY <1>12, <1>13, <1>14 DEF Shows

\* While the file stays, so does what is shown of it.
LEMMA ShowsKeeps ==
  ASSUME tokens' = tokens
  PROVE  \A s, b : Shows(s, b)' <=> Shows(s, b)
BY DEF Shows, CallsOn, Laid, IsSeq, Known, Ordered, Before, Lo, Elses, Type, IsCall

\* An empty page is one.
LEMMA EmptyShows ==
  ASSUME ParserInv
  PROVE  Shows(<<>>, 1) /\ \A i \in DOMAIN nodes : 1 <= nodes[i].start
<1>1. IsSeq(<<>>) /\ DOMAIN <<>> = {}
  <2>1. <<>> \in Seq({}) /\ DOMAIN <<>> = {}
    OBVIOUS
  <2> QED
    BY <2>1 DEF IsSeq
<1>2. Shows(<<>>, 1)
  BY <1>1 DEF Shows, CallsOn, Laid, Ordered
<1>3. \A i \in DOMAIN nodes : nodes[i].start \in 1..Len(tokens) /\ Len(tokens) \in Nat
  BY InvTyped, Lengths DEF ParserInv, ParserTypeOK
<1> QED
  BY <1>2, <1>3

\* The file is read into no page,
LEMMA ReadingKeeps ==
  ASSUME PageInv, Parse, UNCHANGED <<page, written>>
  PROVE  PageInv'
<1>1. phase = "parse" /\ page = <<>> /\ written = 0
  <2>1. phase = "parse"
    BY DEF Parse, ParseInclude, ParseDefine, ParseStub, ParseComment, ParseStruct, ParseFunc, ParseOther, ParseEnd, Turn
  <2> QED
    BY <2>1 DEF PageInv
<1>2. ParserInv' /\ AllReadable' /\ tokens' = tokens
  BY ParserStep, ParserReads DEF PageInv
<1>3. Shows(<<>>, 1)'
  BY <1>2, EmptyShows, ShowsKeeps DEF PageInv
<1>4. Len(nodes') \in Nat /\ DOMAIN nodes' = 1..Len(nodes')
  <2>1. PICK S : nodes' \in Seq(S)
    BY <1>2 DEF ParserInv
  <2> QED
    BY <2>1
<1>5. \A i \in DOMAIN nodes' : 1 <= nodes'[i].start
  <2>1. Len(tokens) \in Nat /\ DOMAIN tokens = 1..Len(tokens)
    BY InvTyped, Lengths DEF PageInv
  <2> QED
    BY <1>2, <2>1 DEF ParserInv, ParserTypeOK
<1>6. written' = 0 /\ page' = <<>>
  BY <1>1
<1> QED
  BY <1>2, <1>3, <1>4, <1>5, <1>6 DEF PageInv

\* and an element goes behind the page, as it is written.
LEMMA WritingKeeps ==
  ASSUME PageInv, phase = "write", written < Len(nodes), NEW parts, Write(parts),
         \A S : Sound(S, Len(tokens) + 1, Elses) /\ Top(S, Node) => Writes(S, Len(tokens), parts, Node.start, Node.end)
  PROVE  PageInv'
<1> DEFINE cells == WrittenOut(parts) \o Behind
<1>1. Render /\ (\/ Crash[1] \in ToSet(cells) /\ phase' = "abort" /\ UNCHANGED <<page, written>>
                 \/ Crash[1] \notin ToSet(cells) /\ page' = page \o cells /\ written' = written + 1 /\ UNCHANGED phase)
  BY DEF Write
<1>2. Len(nodes) \in Nat /\ written \in 0..Len(nodes)
  BY NodesListed DEF PageInv
<1>3. ParserInv' /\ AllReadable' /\ tokens' = tokens /\ nodes' = nodes /\ phase' # "parse"
  <2>1. ParserInv' /\ AllReadable' /\ tokens' = tokens
    BY <1>1, ParserStep, ParserReads DEF PageInv
  <2> QED
    BY <1>1, <2>1 DEF Render
<1>4. CASE UNCHANGED <<page, written>>
  <2>1. PICK b \in Nat : Shows(page, b) /\ (written < Len(nodes) => b <= nodes[written + 1].start)
    BY DEF PageInv
  <2>2. Shows(page, b)'
    BY <1>3, <1>4, <2>1, ShowsKeeps
  <2> QED
    BY <1>2, <1>3, <1>4, <2>1, <2>2 DEF PageInv
<1>5. CASE Crash[1] \notin ToSet(cells) /\ page' = page \o cells /\ written' = written + 1
  <2>1. Whole(cells)
    BY <1>5 DEF Whole, ToSet
  <2>2. PICK b \in Nat : Shows(page \o cells, b) /\ (written + 1 < Len(nodes) => b <= nodes[written + 2].start)
    BY <2>1, CellsAre
  <2> HIDE DEF cells
  <2>3. Shows(page, b)'
    BY <1>3, <1>5, <2>2, ShowsKeeps
  <2>4. written' \in 0..Len(nodes) /\ (written' < Len(nodes) => b <= nodes[written' + 1].start)
    BY <1>2, <1>5, <2>2
  <2> QED
    BY <1>3, <2>3, <2>4 DEF PageInv
<1> QED
  BY <1>1, <1>4, <1>5

\* Every step keeps the page.
LEMMA PageStep ==
  ASSUME PageInv, [Next]_vars
  PROVE  PageInv'
<1> DEFINE Is(parts) ==
      \A S : Sound(S, Len(tokens) + 1, Elses) /\ Top(S, Node) => Writes(S, Len(tokens), parts, Node.start, Node.end)
<1>1. Typed
  BY InvTyped DEF PageInv
<1>2. CASE Parse /\ UNCHANGED <<page, written>>
  BY <1>2, ReadingKeeps
<1>3. CASE WriteInclude
  <2> DEFINE parts == One(Node.start, "prep") \o write_ws(Node.start + 1) \o One(Node.path, "str")
  <2>1. phase = "write" /\ written < Len(nodes) /\ Node.type = "INCLUDE_DIRECTIVE" /\ Write(parts)
    BY <1>3 DEF WriteInclude, ToWrite
  <2>2. Is(parts)
    BY <1>1, <2>1, IncludeWrites
  <2> QED
    BY <2>1, <2>2, WritingKeeps
<1>4. CASE WriteDefine
  <2> DEFINE parts == One(Node.start, "prep") \o write_ws(Node.start + 1)
                        \o One(Node.id, "prepid") \o write_ws(Node.id + 1) \o Nested(Node.expr)
  <2>1. phase = "write" /\ written < Len(nodes) /\ Node.type = "DEFINE_DIRECTIVE" /\ Write(parts)
    BY <1>4 DEF WriteDefine, ToWrite
  <2>2. Is(parts)
    BY <1>1, <2>1, SoundShown, DefineWrites
  <2> QED
    BY <2>1, <2>2, WritingKeeps
<1>5. CASE WriteFuncDecl
  <2> DEFINE parts == write_func_sign(Node.signature)
  <2>1. phase = "write" /\ written < Len(nodes) /\ Node.type = "FUNC_DECL" /\ Write(parts)
    BY <1>5 DEF WriteFuncDecl, ToWrite
  <2>2. Is(parts)
    BY <1>1, <2>1, FuncDeclWrites
  <2> QED
    BY <2>1, <2>2, WritingKeeps
<1>6. CASE WriteFuncDef
  <2> DEFINE parts == write_func_sign(Node.signature)
                        \o Plain(Node.signature.end, Node.body.stub) \o write_serial(Node.body)
                        \o Plain(LastEnd(Node.body), Node.end)
  <2>1. phase = "write" /\ written < Len(nodes) /\ Node.type = "FUNC_DEF" /\ Write(parts)
    BY <1>6 DEF WriteFuncDef, ToWrite
  <2>2. Is(parts)
    BY <1>1, <2>1, FuncDefWrites
  <2> QED
    BY <2>1, <2>2, WritingKeeps
<1>7. CASE WriteStruct
  <2> DEFINE parts == One(Node.start, "keyword") \o write_ws(Node.start + 1)
                        \o One(Node.id, "typename") \o Plain(Node.id + 1, Node.members.stub)
                        \o write_member_decls(Node.members) \o Plain(LastEnd(Node.members), Node.end)
  <2>1. phase = "write" /\ written < Len(nodes) /\ Node.type = "STRUCT_DECL" /\ Write(parts)
    BY <1>7 DEF WriteStruct, ToWrite
  <2>2. Is(parts)
    BY <1>1, <2>1, StructWrites
  <2> QED
    BY <2>1, <2>2, WritingKeeps
<1>8. CASE WriteComment
  <2> DEFINE parts == Span(Node.start, Node.end, "comment")
  <2>1. phase = "write" /\ written < Len(nodes) /\ Write(parts)
    BY <1>8 DEF WriteComment, ToWrite
  <2>2. Is(parts)
    BY <1>1, <2>1, CommentWrites
  <2> QED
    BY <2>1, <2>2, WritingKeeps
<1>9. CASE (WriteEnd /\ phase' # "parse") \/ UNCHANGED vars
  <2>1. /\ [Parse \/ Render]_parserVars /\ UNCHANGED <<page, written, nodes, tokens>>
        /\ phase' = "parse" => phase = "parse"
    BY <1>9 DEF WriteEnd, Render, vars, parserVars
  <2>2. ParserInv' /\ AllReadable'
    BY <2>1, ParserStep, ParserReads DEF PageInv
  <2>3. PICK b \in Nat : Shows(page, b) /\ (written < Len(nodes) => b <= nodes[written + 1].start)
    BY DEF PageInv
  <2>4. Shows(page, b)'
    BY <2>1, <2>3, ShowsKeeps
  <2> QED
    BY <2>1, <2>2, <2>3, <2>4 DEF PageInv
<1>10. WriteEnd => phase' # "parse"
  BY DEF WriteEnd
<1>11. Ended => UNCHANGED vars
  BY DEF Ended
<1> QED
  BY <1>2, <1>3, <1>4, <1>5, <1>6, <1>7, <1>8, <1>9, <1>10, <1>11 DEF Next

\* The page starts with nothing on it.
LEMMA PageStart ==
  ASSUME RenderInit
  PROVE  PageInv
<1>1. ParserInv
  BY ParserStart DEF RenderInit
<1>2. nodes = <<>> /\ page = <<>> /\ written = 0
  BY DEF RenderInit, Init
<1>3. AllReadable
  BY <1>2 DEF AllReadable
<1>4. Shows(page, 1) /\ ~(written < Len(nodes)) /\ written \in 0..Len(nodes)
  BY <1>1, <1>2, EmptyShows
<1> QED
  BY <1>1, <1>2, <1>3, <1>4 DEF PageInv

\* No part of the page is behind the next one.
LEMMA PageOrder ==
  ASSUME PageInv
  PROVE  NothingTwice
<1> SUFFICES ASSUME \A i \in DOMAIN tokens : tokens[i] # "else", NEW i \in 1..(Len(page) - 1)
             PROVE  \/ page[i].token < page[i + 1].token
                    \/ Type(page[i].token) = "WS" /\ Type(page[i + 1].token) = "WS"
  BY DEF NothingTwice
<1>1. PICK b \in Nat : Shows(page, b)
  BY DEF PageInv
<1>2. ~Elses
  BY DEF Elses
<1>3. Len(page) \in Nat /\ DOMAIN page = 1..Len(page)
  BY <1>1, SeqIs DEF Shows, CallsOn
<1>4. i \in DOMAIN page /\ i + 1 \in DOMAIN page /\ i < i + 1
  BY <1>3
<1> DEFINE x == page[i]
           y == page[i + 1]
<1>5. ~IsCall(x) /\ ~IsCall(y) /\ Known({}, 0, x) /\ Known({}, 0, y)
  BY <1>1, <1>4 DEF Shows, CallsOn, Laid
<1>6. Before(x, Lo(y))
  BY <1>1, <1>4 DEF Shows, Laid
<1> HIDE DEF x, y
<1>7. x.token \in Nat /\ y.token \in Nat /\ \A q \in y.token..x.token : Type(q) = "WS"
  BY <1>2, <1>5, <1>6 DEF Known, Before, Lo
<1>8. x.token < y.token \/ (Type(x.token) = "WS" /\ Type(y.token) = "WS")
  BY <1>7
<1> QED
  BY <1>8 DEF x, y

\* The page is in order throughout.
LEMMA PageInvariant == Spec => []PageInv
<1>1. RenderInit => PageInv
  BY PageStart
<1>2. PageInv /\ [Next]_vars => PageInv'
  BY PageStep
<1> QED
  BY <1>1, <1>2, PTL DEF Spec

\* A page that is finished has no token twice but for whitespace, whatever file
\* without an else block is shown: no write_* function writes again what the one
\* that called it has.
THEOREM RenderNothingTwice == Spec => []NothingTwice
<1>1. PageInv => NothingTwice
  BY PageOrder
<1> QED
  BY <1>1, PageInvariant, PTL

\* Whoever writes the page sees the parser work as it does alone.
THEOREM RenderIsParser == Spec => ParserSpec
<1>1. RenderInit => Init
  BY DEF RenderInit
<1>2. [Next]_vars => [Parse \/ Render]_parserVars
  BY DEF Next, vars, WriteInclude, WriteDefine, WriteFuncDecl, WriteFuncDef, WriteStruct, WriteComment, Write,
         WriteEnd, Ended, parserVars
<1> QED
  BY <1>1, <1>2, PTL DEF Spec, ParserSpec
=============================================================================
