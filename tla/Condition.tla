----------------------------- MODULE Condition -----------------------------
(***************************************************************************)
(* eval_expr of lib/prep.c: the condition of an #if directive.  The array  *)
(* of tokens and the stack are statics: neither is cleared between calls.  *)
(*                                                                         *)
(* An expression is a sequence of symbols; a name is one symbol, and names *)
(* never touch.  Scanning a symbol is a step, and so is evaluating a token.*)
(***************************************************************************)
EXTENDS Integers, Sequences, FiniteSets

CONSTANTS
  Names,      \* the names that may be defined
  Exprs,      \* the conditions the files hold
  MaxTokens,  \* the length of tokens: 128
  MaxStack    \* the length of stack: 64

VARIABLES
  defs,     \* the names that are defined
  expr,     \* the expression of the call
  p,        \* the symbols of it that are scanned
  tokens,   \* the static array
  tp,       \* tp while scanning, tokenp while evaluating
  end,      \* end_token
  pending,  \* the calls of eval that wait, in an &&, for their right operand
  stack,    \* stack up to stackTop
  value,    \* what the last call returned
  phase     \* "idle", "scan", "eval", "and"; "abort", "outside" and "fault" end the program

vars == <<defs, expr, p, tokens, tp, end, pending, stack, value, phase>>

Defined == "defined"
Space == " "
Symbols == Names \cup {Defined, "&", "+", Space, "!"}

ASSUME ConditionAssumption ==
  /\ Names \cap {Defined, "&", "+", Space, "!"} = {}
  /\ Exprs \subseteq Seq(Symbols)
  /\ MaxTokens \in Nat \ {0}
  /\ MaxStack \in Nat \ {0}

\* A token of a type has a span; the tokens never written have a NULL one.
TokenOf(type, text) == [type |-> type, span |-> text]
Zeroed == TokenOf("UNKNOWN", "")
Symbol(i) == IF i \in 1..Len(expr) THEN expr[i] ELSE "LF"

Init ==
  /\ defs = {}
  /\ expr = <<>>
  /\ p = 0
  /\ tokens = [i \in 0..(MaxTokens - 1) |-> Zeroed]
  /\ tp = 0
  /\ end = 0
  /\ pending = 0
  /\ stack = <<>>
  /\ value = FALSE
  /\ phase = "idle"

\* expand calls eval_expr on what #define and #undef have left defined.
Call ==
  /\ phase = "idle"
  /\ defs' \in SUBSET Names
  /\ expr' \in Exprs
  /\ p' = 0
  /\ tp' = 0
  /\ phase' = "scan"
  /\ UNCHANGED <<tokens, end, pending, stack, value>>

Abort(because) ==
  /\ because
  /\ phase' = "abort"
  /\ UNCHANGED <<defs, expr, p, tokens, tp, end, pending, stack, value>>

-----------------------------------------------------------------------------
(***************************************************************************)
(* The loop over the characters.  Nothing compares tp with the end of the  *)
(* array: the write behind it is undefined.                                *)
(***************************************************************************)
Put(token, scanned) ==
  /\ IF tp < MaxTokens
       THEN /\ tokens' = [tokens EXCEPT ![tp] = token]
            /\ tp' = tp + 1
            /\ p' = p + scanned
            /\ UNCHANGED phase
       ELSE /\ phase' = "outside"
            /\ UNCHANGED <<tokens, tp, p>>
  /\ UNCHANGED <<defs, expr, end, pending, stack, value>>

\* Slip: the token scanned last stays.
ScanDoneLate ==
  /\ phase = "scan" /\ p >= Len(expr)
  /\ end' = tp + 1
  /\ tp' = 0
  /\ phase' = "eval"
  /\ UNCHANGED <<defs, expr, p, tokens, pending, stack, value>>

ScanName ==
  /\ phase = "scan" /\ p < Len(expr)
  /\ Symbol(p + 1) \in Names \cup {Defined}
  /\ Put(TokenOf(IF Symbol(p + 1) = Defined THEN "DEFINED" ELSE "IDENTIFIER", Symbol(p + 1)), 1)

\* The branch for "+" does not move p.
ScanPlus ==
  /\ phase = "scan" /\ p < Len(expr)
  /\ Symbol(p + 1) = "+"
  /\ Put(TokenOf("PLUS", "+"), 0)

ScanAnd ==
  /\ phase = "scan" /\ p < Len(expr)
  /\ Symbol(p + 1) = "&" /\ Symbol(p + 2) = "&"
  /\ Put(TokenOf("AND", "&&"), 2)

\* Slip: the loop does not move on behind a space.
ScanSpaceStuck ==
  /\ phase = "scan" /\ p < Len(expr)
  /\ Symbol(p + 1) = Space
  /\ UNCHANGED vars

ScanSpace ==
  /\ phase = "scan" /\ p < Len(expr)
  /\ Symbol(p + 1) = Space
  /\ p' = p + 1
  /\ UNCHANGED <<defs, expr, tokens, tp, end, pending, stack, value, phase>>

ScanFails ==
  Abort(/\ phase = "scan" /\ p < Len(expr)
        /\ \/ Symbol(p + 1) = "&" /\ Symbol(p + 2) # "&"
           \/ Symbol(p + 1) = "!")

ScanDone ==
  /\ phase = "scan" /\ p >= Len(expr)
  /\ end' = tp
  /\ tp' = 0
  /\ phase' = "eval"
  /\ UNCHANGED <<defs, expr, p, tokens, pending, stack, value>>

-----------------------------------------------------------------------------
(***************************************************************************)
(* eval is entered while tokens are left, or by an && for what follows it, *)
(* even if that is behind the last token: then it reads what an earlier    *)
(* call has left there.                                                    *)
(***************************************************************************)
Evaluating(type) ==
  /\ phase = "eval"
  /\ tp < end \/ pending > 0
  /\ tp < MaxTokens
  /\ tokens[tp].type = type

\* The token array is followed by other statics.
EvalOutside ==
  /\ phase = "eval"
  /\ \/ pending > 0 /\ tp >= MaxTokens
     \/ tp = MaxTokens - 1 /\ Evaluating("DEFINED")
  /\ phase' = "outside"
  /\ UNCHANGED <<defs, expr, p, tokens, tp, end, pending, stack, value>>

\* The name behind a last "defined" is a token never written: prep_define_get
\* compares a NULL span with the names in the bucket it looks in.
EvalNullName ==
  /\ Evaluating("DEFINED") /\ tp + 1 < MaxTokens
  /\ tokens[tp + 1] = Zeroed
  /\ defs # {}
  /\ phase' = "fault"
  /\ UNCHANGED <<defs, expr, p, tokens, tp, end, pending, stack, value>>

\* Slip: the stack takes one entry too many.
EvalDefinedOver ==
  /\ Evaluating("DEFINED") /\ tp + 1 < MaxTokens
  /\ Len(stack) <= MaxStack
  /\ stack' = Append(stack, tokens[tp + 1].span \in defs)
  /\ tp' = tp + 2
  /\ phase' = IF pending > 0 THEN "and" ELSE "eval"
  /\ UNCHANGED <<defs, expr, p, tokens, end, pending, value>>

EvalDefined ==
  /\ Evaluating("DEFINED") /\ tp + 1 < MaxTokens
  /\ Len(stack) < MaxStack
  /\ stack' = Append(stack, tokens[tp + 1].span \in defs)
  /\ tp' = tp + 2
  /\ phase' = IF pending > 0 THEN "and" ELSE "eval"
  /\ UNCHANGED <<defs, expr, p, tokens, end, pending, value>>

EvalAnd ==
  /\ Evaluating("AND")
  /\ tp' = tp + 1
  /\ pending' = pending + 1
  /\ UNCHANGED <<defs, expr, p, tokens, end, stack, value, phase>>

\* assert(stackTop < 64) of push, and the tokens eval has no case for.
EvalFails ==
  Abort(\/ Evaluating("DEFINED") /\ tp + 1 < MaxTokens /\ Len(stack) = MaxStack
        \/ Evaluating("IDENTIFIER") \/ Evaluating("PLUS") \/ Evaluating("UNKNOWN"))

Top == stack[Len(stack)]
Drop(n) == SubSeq(stack, 1, Len(stack) - n)

\* Slip: a false operand is dropped and the one below it decides.
AndBelow ==
  /\ phase = "and"
  /\ Len(stack) >= 2
  /\ stack' = Append(Drop(2), stack[Len(stack) - 1])
  /\ pending' = pending - 1
  /\ phase' = IF pending = 1 THEN "eval" ELSE "and"
  /\ UNCHANGED <<defs, expr, p, tokens, tp, end, value>>

\* push(pop() && pop()): the second pop is not called when the first gives 0.
And ==
  /\ phase = "and"
  /\ \/ /\ Len(stack) >= 1 /\ ~Top
        /\ stack' = Append(Drop(1), FALSE)
     \/ /\ Len(stack) >= 2 /\ Top
        /\ stack' = Append(Drop(2), stack[Len(stack) - 1])
  /\ pending' = pending - 1
  /\ phase' = IF pending = 1 THEN "eval" ELSE "and"
  /\ UNCHANGED <<defs, expr, p, tokens, tp, end, value>>

AndFails == Abort(phase = "and" /\ Len(stack) = 1 /\ Top)

Return ==
  /\ phase = "eval" /\ tp >= end /\ pending = 0
  /\ stack # <<>>
  /\ value' = Top
  /\ stack' = Drop(1)
  /\ phase' = "idle"
  /\ UNCHANGED <<defs, expr, p, tokens, tp, end, pending>>

ReturnFails == Abort(phase = "eval" /\ tp >= end /\ pending = 0 /\ stack = <<>>)

Step ==
  \/ ScanName \/ ScanPlus \/ ScanAnd \/ ScanSpace \/ ScanFails \/ ScanDone
  \/ EvalDefined \/ EvalAnd \/ EvalOutside \/ EvalNullName \/ EvalFails \/ And \/ AndFails
  \/ Return \/ ReturnFails

Next == Call \/ Step

\* A call runs to its end; nothing makes expand call again.
Spec == Init /\ [][Next]_vars /\ WF_vars(Step)

-----------------------------------------------------------------------------
(***************************************************************************)
(* Properties                                                              *)
(***************************************************************************)

TokenTypes == {"UNKNOWN", "PLUS", "IDENTIFIER", "DEFINED", "AND"}
Spans == Symbols \cup {"", "&&"}
Bools(length) == UNION {[1..n -> BOOLEAN] : n \in 0..length}

\* The statics keep their bounds: no entry of the stack or of the tokens is
\* written behind its array.
TypeOK ==
  /\ defs \subseteq Names
  /\ expr \in Seq(Symbols)
  /\ p \in 0..Len(expr)
  /\ tokens \in [0..(MaxTokens - 1) -> [type : TokenTypes, span : Spans]]
  /\ tp \in 0..MaxTokens /\ end \in 0..MaxTokens
  /\ pending \in 0..MaxTokens
  /\ stack \in Bools(MaxStack)
  /\ value \in BOOLEAN
  /\ phase \in {"idle", "scan", "eval", "and", "abort", "outside", "fault"}

\* "defined X", and "defined X && " before one such: the conditions of the
\* repository's tests, with any names.  Of every four symbols the first is
\* "defined", the second a name, and the others are those of an "&&", which no
\* space parts; the last is a name.
Operands(e) == {i \in DOMAIN e : e[i] \in Names}
Bare(e) == {i \in DOMAIN e : e[i] # Space}
Nth(e, i) == Cardinality({k \in Bare(e) : k <= i})
WellFormed(e) ==
  /\ Nth(e, Len(e)) % 4 = 2
  /\ \A i \in Bare(e) :
       CASE Nth(e, i) % 4 = 1 -> e[i] = Defined
         [] Nth(e, i) % 4 = 2 -> e[i] \in Names
         [] Nth(e, i) % 4 = 3 -> e[i] = "&" /\ i + 1 \in Bare(e)
         [] OTHER             -> e[i] = "&"

Value(e) == \A i \in Operands(e) : e[i] \in defs

\* A condition has the value of its text, whatever earlier calls have left in
\* the two statics.
ValueRight == phase = "idle" /\ WellFormed(expr) => (value <=> Value(expr))

\* A condition of n names has 3n - 1 tokens: it ends the program only where
\* these are too many for the array or the stack has no room for two more.
\* In particular it never reads a token of an earlier call.
FailsOnlyWhenFull ==
  phase \in {"abort", "outside", "fault"} /\ WellFormed(expr) =>
    \/ 3 * Cardinality(Operands(expr)) - 1 > MaxTokens
    \/ Len(stack) = MaxStack

\* Every call returns or ends the program, "+" (whose branch does not move on)
\* and the recursion of eval included.
Ends == phase # "idle" ~> phase \in {"idle", "abort", "outside", "fault"}

\* prep.c:511 lets one condition use the whole stack: as long as it has no more
\* names than that, it does not end the program.
NoAbortOnWellFormed ==
  phase = "abort" => ~(WellFormed(expr) /\ Cardinality(Operands(expr)) <= MaxStack)
=============================================================================
