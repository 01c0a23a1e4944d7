-------------------------- MODULE ConditionProofs --------------------------
(***************************************************************************)
(* For every set of names and conditions and every length of the two       *)
(* arrays: the statics of eval_expr keep their types and their bounds over *)
(* any sequence of calls, a well-formed condition has the value of its     *)
(* text, and it ends the program only where an array is full.              *)
(***************************************************************************)
EXTENDS Condition, Integers, FiniteSetTheorems, WellFoundedInduction, TLAPS

\* An && waits only in eval, and behind a token of its own: with this the
\* bound of the recursion is that of the token array.
Waiting ==
  /\ phase \in {"idle", "scan"} => pending = 0
  /\ phase \in {"eval", "and"} => pending <= tp
  /\ phase = "and" => pending > 0

ConditionInv == TypeOK /\ Waiting

-----------------------------------------------------------------------------
\* A set of naturals has a least element.
LEMMA LeastNat ==
  ASSUME NEW T, T \subseteq Nat, T # {}
  PROVE  \E x \in T : \A y \in T : x <= y
<1>1. PICK x \in T : \A y \in T : <<y, x>> \notin OpToRel(<, Nat)
  BY NatLessThanWellFounded, WFMin
<1>2. ASSUME NEW y \in T PROVE x <= y
  <2>1. ~(y < x)
    BY <1>1 DEF OpToRel
  <2> QED
    BY <2>1
<1> QED
  BY <1>2

\* A set that holds 0, and with every number below a bound the next one, holds
\* all of them.
LEMMA InductionUpTo ==
  ASSUME NEW n \in Nat, NEW T, 0 \in T, \A i \in 0..(n - 1) : i \in T => i + 1 \in T
  PROVE  0..n \subseteq T
<1> DEFINE B == {i \in 0..n : i \notin T}
<1> SUFFICES ASSUME B # {} PROVE FALSE
  OBVIOUS
<1>1. B \subseteq Nat
  OBVIOUS
<1> HIDE DEF B
<1>2. PICK x \in B : \A y \in B : x <= y
  BY <1>1, LeastNat
<1>3. x \in 1..n /\ x \notin T
  BY <1>2 DEF B
<1>4. x - 1 \in 0..(n - 1) /\ (x - 1) + 1 = x /\ ~(x <= x - 1)
  BY <1>3
<1>5. x - 1 \in T
  BY <1>2, <1>4 DEF B
<1> QED
  BY <1>3, <1>4, <1>5

-----------------------------------------------------------------------------
(***************************************************************************)
(* The stack                                                               *)
(***************************************************************************)

LEMMA StackIsSeq ==
  ASSUME NEW n \in Nat, NEW s
  PROVE  s \in Bools(n) <=> s \in Seq(BOOLEAN) /\ Len(s) <= n
<1>1. ASSUME s \in Bools(n)
      PROVE  s \in Seq(BOOLEAN) /\ Len(s) <= n
  <2>1. PICK m \in 0..n : s \in [1..m -> BOOLEAN]
    BY <1>1 DEF Bools
  <2> QED
    BY <2>1
<1>2. ASSUME s \in Seq(BOOLEAN), Len(s) <= n
      PROVE  s \in Bools(n)
  <2>1. Len(s) \in 0..n /\ s \in [1..Len(s) -> BOOLEAN]
    BY <1>2
  <2> QED
    BY <2>1 DEF Bools
<1> QED
  BY <1>1, <1>2

LEMMA DropType ==
  ASSUME stack \in Seq(BOOLEAN), NEW n \in Nat, n <= Len(stack)
  PROVE  Drop(n) \in Seq(BOOLEAN) /\ Len(Drop(n)) = Len(stack) - n
<1>1. Len(stack) - n \in 0..Len(stack)
  OBVIOUS
<1> QED
  BY <1>1 DEF Drop

LEMMA PushType ==
  ASSUME NEW s \in Seq(BOOLEAN), NEW b \in BOOLEAN
  PROVE  Append(s, b) \in Seq(BOOLEAN) /\ Len(Append(s, b)) = Len(s) + 1
OBVIOUS

-----------------------------------------------------------------------------
(***************************************************************************)
(* The calls and the scanning                                              *)
(***************************************************************************)

LEMMA InitInv ==
  ASSUME Init
  PROVE  ConditionInv
<1>1. MaxTokens \in Nat /\ MaxStack \in Nat
  BY ConditionAssumption
<1>2. Zeroed \in [type : TokenTypes, span : Spans]
  BY DEF Zeroed, TokenOf, TokenTypes, Spans
<1>3. tokens \in [0..(MaxTokens - 1) -> [type : TokenTypes, span : Spans]]
  BY <1>2 DEF Init
<1>4. stack \in Bools(MaxStack)
  BY <1>1, StackIsSeq DEF Init
<1>5. defs \subseteq Names /\ expr \in Seq(Symbols) /\ p \in 0..Len(expr)
  BY DEF Init
<1>6. tp \in 0..MaxTokens /\ end \in 0..MaxTokens /\ pending \in 0..MaxTokens
  BY <1>1 DEF Init
<1>7. value \in BOOLEAN
  BY Zenon DEF Init
<1>8. phase = "idle" /\ pending = 0
  BY DEF Init
<1> QED
  BY <1>3, <1>4, <1>5, <1>6, <1>7, <1>8 DEF ConditionInv, TypeOK, Waiting

LEMMA CallStep ==
  ASSUME ConditionInv, Call
  PROVE  ConditionInv'
<1>1. MaxTokens \in Nat
  BY ConditionAssumption
<1>2. defs' \subseteq Names
  BY DEF Call
<1>3. expr' \in Seq(Symbols) /\ p' \in 0..Len(expr')
  <2>1. expr' \in Seq(Symbols) /\ p' = 0
    BY ConditionAssumption DEF Call
  <2> QED
    BY <2>1
<1>4. tp' \in 0..MaxTokens
  BY <1>1 DEF Call
<1>5. UNCHANGED <<tokens, end, pending, stack, value>>
  BY DEF Call
<1>6. phase' = "scan" /\ pending = 0
  BY DEF Call, ConditionInv, Waiting
<1> QED
  BY <1>2, <1>3, <1>4, <1>5, <1>6 DEF ConditionInv, TypeOK, Waiting

\* An assertion that fails changes the phase alone.
LEMMA AbortStep ==
  ASSUME ConditionInv, NEW because, Abort(because)
  PROVE  ConditionInv'
<1>1. /\ phase' = "abort"
      /\ UNCHANGED <<defs, expr, p, tokens, tp, end, pending, stack, value>>
  BY DEF Abort
<1> QED
  BY <1>1 DEF ConditionInv, TypeOK, Waiting

LEMMA PutStep ==
  ASSUME ConditionInv, phase = "scan",
         NEW token \in [type : TokenTypes, span : Spans],
         NEW scanned \in Nat, p + scanned <= Len(expr),
         Put(token, scanned)
  PROVE  ConditionInv'
<1>1. UNCHANGED <<defs, expr, end, pending, stack, value>>
  BY DEF Put
<1>2. MaxTokens \in Nat /\ pending = 0 /\ TypeOK
  BY ConditionAssumption DEF ConditionInv, Waiting
<1>3. CASE tp < MaxTokens
  <2>1. /\ tokens' = [tokens EXCEPT ![tp] = token] /\ tp' = tp + 1
        /\ p' = p + scanned /\ phase' = phase
    BY <1>3 DEF Put
  <2>2. tokens' \in [0..(MaxTokens - 1) -> [type : TokenTypes, span : Spans]]
    BY <1>2, <1>3, <2>1 DEF TypeOK
  <2>3. tp' \in 0..MaxTokens
    BY <1>2, <1>3, <2>1 DEF TypeOK
  <2>4. p' \in 0..Len(expr')
    BY <1>1, <1>2, <2>1 DEF TypeOK
  <2> QED
    BY <1>1, <1>2, <2>1, <2>2, <2>3, <2>4 DEF ConditionInv, TypeOK, Waiting
<1>4. CASE ~(tp < MaxTokens)
  <2>1. phase' = "outside" /\ UNCHANGED <<tokens, tp, p>>
    BY <1>4 DEF Put
  <2> QED
    BY <1>1, <1>2, <2>1 DEF ConditionInv, TypeOK, Waiting
<1> QED
  BY <1>3, <1>4

LEMMA ScanStep ==
  ASSUME ConditionInv, ScanName \/ ScanPlus \/ ScanAnd
  PROVE  ConditionInv'
<1>1. phase = "scan" /\ p < Len(expr) /\ p \in Nat /\ expr \in Seq(Symbols) /\ Len(expr) \in Nat
  BY DEF ScanName, ScanPlus, ScanAnd, ConditionInv, TypeOK
<1>2. CASE ScanName
  <2>1. Symbol(p + 1) \in Spans
    BY <1>2 DEF ScanName, Spans, Symbols
  <2>2. TokenOf(IF Symbol(p + 1) = Defined THEN "DEFINED" ELSE "IDENTIFIER", Symbol(p + 1))
          \in [type : TokenTypes, span : Spans]
    BY <2>1 DEF TokenOf, TokenTypes
  <2>3. p + 1 <= Len(expr)
    BY <1>1
  <2> QED
    BY <1>1, <1>2, <2>2, <2>3, PutStep DEF ScanName
<1>3. CASE ScanPlus
  <2>1. TokenOf("PLUS", "+") \in [type : TokenTypes, span : Spans]
    BY DEF TokenOf, TokenTypes, Spans, Symbols
  <2>2. p + 0 <= Len(expr)
    BY <1>1
  <2> QED
    BY <1>1, <1>3, <2>1, <2>2, PutStep DEF ScanPlus
<1>4. CASE ScanAnd
  <2>1. TokenOf("AND", "&&") \in [type : TokenTypes, span : Spans]
    BY DEF TokenOf, TokenTypes, Spans
  <2>2. p + 2 <= Len(expr)
    <3>1. Symbol(p + 2) = "&"
      BY <1>4 DEF ScanAnd
    <3> QED
      BY <1>1, <3>1 DEF Symbol
  <2> QED
    BY <1>1, <1>4, <2>1, <2>2, PutStep DEF ScanAnd
<1> QED
  BY <1>2, <1>3, <1>4

LEMMA ScanSpaceStep ==
  ASSUME ConditionInv, ScanSpace
  PROVE  ConditionInv'
<1>1. p' = p + 1 /\ p < Len(expr)
  BY DEF ScanSpace
<1>2. UNCHANGED <<defs, expr, tokens, tp, end, pending, stack, value, phase>>
  BY DEF ScanSpace
<1>3. p' \in 0..Len(expr')
  BY <1>1, <1>2 DEF ConditionInv, TypeOK
<1> QED
  BY <1>2, <1>3 DEF ConditionInv, TypeOK, Waiting

LEMMA ScanDoneStep ==
  ASSUME ConditionInv, ScanDone
  PROVE  ConditionInv'
<1>1. end' = tp /\ tp' = 0 /\ phase = "scan" /\ phase' = "eval"
  BY DEF ScanDone
<1>2. UNCHANGED <<defs, expr, p, tokens, pending, stack, value>>
  BY DEF ScanDone
<1>3. pending = 0
  BY <1>1 DEF ConditionInv, Waiting
<1>4. tp' \in 0..MaxTokens
  <2>1. MaxTokens \in Nat
    BY ConditionAssumption
  <2> QED
    BY <1>1, <2>1
<1> QED
  BY <1>1, <1>2, <1>3, <1>4 DEF ConditionInv, TypeOK, Waiting

-----------------------------------------------------------------------------
(***************************************************************************)
(* The evaluation                                                          *)
(***************************************************************************)

\* What the steps of eval know of the state.
LEMMA Numbers ==
  ASSUME ConditionInv
  PROVE  /\ MaxTokens \in Nat /\ MaxStack \in Nat
         /\ tp \in 0..MaxTokens /\ end \in 0..MaxTokens /\ pending \in 0..MaxTokens
         /\ stack \in Seq(BOOLEAN) /\ Len(stack) \in Nat /\ Len(stack) <= MaxStack
<1>1. MaxTokens \in Nat /\ MaxStack \in Nat
  BY ConditionAssumption
<1>2. stack \in Seq(BOOLEAN) /\ Len(stack) <= MaxStack
  BY <1>1, StackIsSeq DEF ConditionInv, TypeOK
<1> QED
  BY <1>1, <1>2 DEF ConditionInv, TypeOK

\* A step that ends the program.
LEMMA EndsStep ==
  ASSUME ConditionInv, EvalOutside \/ EvalNullName
  PROVE  ConditionInv'
<1>1. /\ phase' \in {"outside", "fault"}
      /\ UNCHANGED <<defs, expr, p, tokens, tp, end, pending, stack, value>>
  BY DEF EvalOutside, EvalNullName
<1> QED
  BY <1>1 DEF ConditionInv, TypeOK, Waiting

LEMMA EvalDefinedStep ==
  ASSUME ConditionInv, EvalDefined
  PROVE  ConditionInv'
<1> DEFINE operand == tokens[tp + 1].span \in defs
<1>1. /\ phase = "eval" /\ tp + 1 < MaxTokens /\ Len(stack) < MaxStack
      /\ stack' = Append(stack, operand)
      /\ tp' = tp + 2
      /\ phase' = IF pending > 0 THEN "and" ELSE "eval"
      /\ UNCHANGED <<defs, expr, p, tokens, end, pending, value>>
  BY DEF EvalDefined, Evaluating
<1>2. operand \in BOOLEAN
  OBVIOUS
<1> HIDE DEF operand
<1>3. stack' \in Seq(BOOLEAN) /\ Len(stack') <= MaxStack
  BY <1>1, <1>2, Numbers, PushType
<1>4. stack' \in Bools(MaxStack)
  BY <1>3, Numbers, StackIsSeq
<1>5. tp' \in 0..MaxTokens /\ pending <= tp'
  BY <1>1, Numbers DEF ConditionInv, Waiting
<1> QED
  BY <1>1, <1>4, <1>5, Numbers DEF ConditionInv, TypeOK, Waiting

LEMMA EvalAndStep ==
  ASSUME ConditionInv, EvalAnd
  PROVE  ConditionInv'
<1>1. /\ phase = "eval" /\ tp < MaxTokens
      /\ tp' = tp + 1 /\ pending' = pending + 1
      /\ UNCHANGED <<defs, expr, p, tokens, end, stack, value, phase>>
  BY DEF EvalAnd, Evaluating
<1>2. pending <= tp
  BY <1>1 DEF ConditionInv, Waiting
<1>3. tp' \in 0..MaxTokens /\ pending' \in 0..MaxTokens /\ pending' <= tp'
  BY <1>1, <1>2, Numbers
<1> QED
  BY <1>1, <1>3 DEF ConditionInv, TypeOK, Waiting

LEMMA AndStep ==
  ASSUME ConditionInv, And
  PROVE  ConditionInv'
<1>1. /\ phase = "and" /\ pending' = pending - 1
      /\ phase' = IF pending = 1 THEN "eval" ELSE "and"
      /\ UNCHANGED <<defs, expr, p, tokens, tp, end, value>>
  BY DEF And
<1>2. stack' \in Seq(BOOLEAN) /\ Len(stack') <= MaxStack
  <2>1. CASE Len(stack) >= 1 /\ stack' = Append(Drop(1), FALSE)
    <3>1. Drop(1) \in Seq(BOOLEAN) /\ Len(Drop(1)) = Len(stack) - 1
      BY <2>1, Numbers, DropType
    <3> QED
      BY <2>1, <3>1, Numbers, PushType
  <2>2. CASE Len(stack) >= 2 /\ stack' = Append(Drop(2), stack[Len(stack) - 1])
    <3>1. Drop(2) \in Seq(BOOLEAN) /\ Len(Drop(2)) = Len(stack) - 2
      BY <2>2, Numbers, DropType
    <3>2. stack[Len(stack) - 1] \in BOOLEAN
      BY <2>2, Numbers
    <3> QED
      BY <2>2, <3>1, <3>2, Numbers, PushType
  <2> QED
    BY <2>1, <2>2 DEF And
<1>3. stack' \in Bools(MaxStack)
  BY <1>2, Numbers, StackIsSeq
<1>4. pending > 0 /\ pending <= tp
  BY <1>1 DEF ConditionInv, Waiting
<1>5. /\ pending' \in 0..MaxTokens /\ pending' <= tp
      /\ phase' = "and" => pending' > 0
      /\ phase' \in {"eval", "and"}
  BY <1>1, <1>4, Numbers
<1> QED
  BY <1>1, <1>3, <1>5 DEF ConditionInv, TypeOK, Waiting

LEMMA ReturnStep ==
  ASSUME ConditionInv, Return
  PROVE  ConditionInv'
<1>1. /\ pending = 0 /\ stack # <<>>
      /\ value' = Top /\ stack' = Drop(1) /\ phase' = "idle"
      /\ UNCHANGED <<defs, expr, p, tokens, tp, end, pending>>
  BY DEF Return
<1>2. Len(stack) >= 1
  BY <1>1, Numbers
<1>3. value' \in BOOLEAN
  BY <1>1, <1>2, Numbers DEF Top
<1>4. stack' \in Seq(BOOLEAN) /\ Len(stack') <= MaxStack
  BY <1>1, <1>2, Numbers, DropType
<1>5. stack' \in Bools(MaxStack)
  BY <1>4, Numbers, StackIsSeq
<1> QED
  BY <1>1, <1>3, <1>5 DEF ConditionInv, TypeOK, Waiting

LEMMA NextInv ==
  ASSUME ConditionInv, [Next]_vars
  PROVE  ConditionInv'
<1>1. CASE ScanFails \/ EvalFails \/ AndFails \/ ReturnFails
  BY <1>1, AbortStep DEF ScanFails, EvalFails, AndFails, ReturnFails
<1>2. CASE UNCHANGED vars
  BY <1>2 DEF vars, ConditionInv, TypeOK, Waiting
<1> QED
  BY <1>1, <1>2, CallStep, ScanStep, ScanSpaceStep, ScanDoneStep, EndsStep, EvalDefinedStep,
     EvalAndStep, AndStep, ReturnStep DEF Next, Step

\* However many conditions are evaluated, well-formed or not, the calls that
\* go on write neither behind the token array nor behind the stack, and eval
\* waits in no more calls of its own than there are tokens.
THEOREM ConditionTypeCorrect == Spec => []TypeOK
<1>1. Init => ConditionInv
  BY InitInv
<1>2. ConditionInv /\ [Next]_vars => ConditionInv'
  BY NextInv
<1>3. ConditionInv => TypeOK
  BY DEF ConditionInv
<1> QED
  BY <1>1, <1>2, <1>3, PTL DEF Spec

-----------------------------------------------------------------------------
\* The names up to a place of a condition.
Within(e, n) == {i \in Operands(e) : i <= n}

-----------------------------------------------------------------------------
(***************************************************************************)
(* The symbols of a well-formed condition                                  *)
(***************************************************************************)

\* A set of positions is finite.
LEMMA FiniteUpTo ==
  ASSUME NEW n \in Nat, NEW T, T \subseteq 1..n
  PROVE  IsFiniteSet(T)
<1>1. IsFiniteSet(1..n)
  BY FS_Interval
<1> QED
  BY <1>1, FS_Subset

\* A well-formed condition is read four symbols at a time.
LEMMA ModFour ==
  ASSUME NEW q \in Nat, NEW s \in 0..3
  PROVE  (4 * q + s) % 4 = s
OBVIOUS

\* One symbol more counts unless it is a space.
LEMMA NthStep ==
  ASSUME NEW e \in Seq(Symbols), NEW i \in 0..(Len(e) - 1)
  PROVE  /\ Nth(e, i) \in Nat
         /\ e[i + 1] = Space => Nth(e, i + 1) = Nth(e, i)
         /\ e[i + 1] # Space => Nth(e, i + 1) = Nth(e, i) + 1
<1> DEFINE upto(n) == {k \in Bare(e) : k <= n}
<1>1. Len(e) \in Nat /\ DOMAIN e = 1..Len(e) /\ i \in Nat /\ i + 1 \in DOMAIN e
  OBVIOUS
<1>2. upto(i) \subseteq 1..Len(e)
  BY <1>1 DEF Bare
<1>3. IsFiniteSet(upto(i))
  BY <1>1, <1>2, FiniteUpTo
<1>4. i + 1 \notin upto(i)
  BY <1>1
<1>5. CASE e[i + 1] = Space
  <2>1. upto(i + 1) = upto(i)
    BY <1>1, <1>5 DEF Bare
  <2> QED
    BY <1>3, <1>5, <2>1, FS_CardinalityType DEF Nth
<1>6. CASE e[i + 1] # Space
  <2>1. upto(i + 1) = upto(i) \cup {i + 1}
    BY <1>1, <1>6 DEF Bare
  <2>2. Cardinality(upto(i + 1)) = Cardinality(upto(i)) + 1
    BY <1>3, <1>4, <2>1, FS_AddElement
  <2> QED
    BY <1>3, <1>6, <2>2, FS_CardinalityType DEF Nth
<1> QED
  BY <1>5, <1>6

\* Nothing counts before the first symbol.
LEMMA NthZero ==
  ASSUME NEW e \in Seq(Symbols)
  PROVE  Nth(e, 0) = 0 /\ Within(e, 0) = {}
<1>1. {k \in Bare(e) : k <= 0} = {} /\ Within(e, 0) = {}
  BY DEF Bare, Within, Operands
<1> QED
  BY <1>1, FS_EmptySet DEF Nth

\* The count does not fall.
LEMMA NthGrows ==
  ASSUME NEW e \in Seq(Symbols), NEW i \in 0..Len(e), NEW j \in 0..Len(e), i <= j
  PROVE  Nth(e, i) \in Nat /\ Nth(e, j) \in Nat /\ Nth(e, i) <= Nth(e, j)
<1> DEFINE upto(n) == {k \in Bare(e) : k <= n}
<1>1. Len(e) \in Nat /\ upto(j) \subseteq 1..Len(e) /\ upto(i) \subseteq upto(j)
  BY DEF Bare
<1> HIDE DEF upto
<1>2. IsFiniteSet(upto(j))
  BY <1>1, FiniteUpTo
<1>3. IsFiniteSet(upto(i)) /\ Cardinality(upto(i)) <= Cardinality(upto(j))
  BY <1>1, <1>2, FS_Subset
<1> QED
  BY <1>2, <1>3, FS_CardinalityType DEF Nth, upto

\* What stands behind a place of a well-formed condition.
LEMMA Follows ==
  ASSUME NEW e \in Seq(Symbols), WellFormed(e), NEW i \in 0..(Len(e) - 1),
         NEW q \in Nat, NEW s \in 0..3, Nth(e, i) = 4 * q + s, e[i + 1] # Space
  PROVE  /\ s = 0 => e[i + 1] = Defined
         /\ s = 1 => e[i + 1] \in Names
         /\ s = 2 => e[i + 1] = "&" /\ i + 2 \in 1..Len(e) /\ e[i + 2] # Space
         /\ s = 3 => e[i + 1] = "&"
<1> DEFINE r == Nth(e, i + 1) % 4
<1>1. i + 1 \in Bare(e) /\ Len(e) \in Nat /\ DOMAIN e = 1..Len(e)
  BY DEF Bare
<1>2. Nth(e, i + 1) = 4 * q + (s + 1)
  BY NthStep
<1>3. /\ r = 1 => e[i + 1] = Defined
      /\ r = 2 => e[i + 1] \in Names
      /\ r = 3 => e[i + 1] = "&" /\ (i + 1) + 1 \in Bare(e)
      /\ r = 0 => e[i + 1] = "&"
  BY <1>1 DEF WellFormed
<1>4. s \in 0..2 => r = s + 1
  <2> SUFFICES ASSUME s \in 0..2 PROVE r = s + 1
    OBVIOUS
  <2>1. s + 1 \in 0..3
    OBVIOUS
  <2> QED
    BY <1>2, <2>1, ModFour
<1>5. s = 3 => r = 0
  <2> SUFFICES ASSUME s = 3 PROVE r = 0
    OBVIOUS
  <2>1. Nth(e, i + 1) = 4 * (q + 1) + 0 /\ q + 1 \in Nat
    BY <1>2
  <2> QED
    BY <2>1, ModFour
<1> HIDE DEF r
<1>6. CASE s = 0
  BY <1>3, <1>4, <1>6
<1>7. CASE s = 1
  BY <1>3, <1>4, <1>7
<1>8. CASE s = 2
  <2>1. e[i + 1] = "&" /\ (i + 1) + 1 \in Bare(e)
    BY <1>3, <1>4, <1>8
  <2> QED
    BY <1>1, <1>8, <2>1 DEF Bare
<1>9. CASE s = 3
  BY <1>3, <1>5, <1>9, SMT
<1> QED
  BY <1>6, <1>7, <1>8, <1>9

\* Names are no other symbols.
LEMMA NamesApart ==
  ASSUME NEW s \in Names
  PROVE  s # Defined /\ s # "&" /\ s # "+" /\ s # Space /\ s # "!"
BY ConditionAssumption

\* One symbol more is one operand more where it is a name.
LEMMA WithinStep ==
  ASSUME NEW e \in Seq(Symbols), NEW i \in 0..(Len(e) - 1)
  PROVE  /\ IsFiniteSet(Within(e, i)) /\ Cardinality(Within(e, i)) \in Nat
         /\ e[i + 1] \notin Names => Within(e, i + 1) = Within(e, i)
         /\ e[i + 1] \in Names => /\ Within(e, i + 1) = Within(e, i) \cup {i + 1}
                                  /\ Cardinality(Within(e, i + 1)) = Cardinality(Within(e, i)) + 1
<1>1. Len(e) \in Nat /\ DOMAIN e = 1..Len(e) /\ i \in Nat /\ i + 1 \in DOMAIN e
  OBVIOUS
<1>2. Within(e, i) \subseteq 1..Len(e)
  BY <1>1 DEF Within, Operands
<1>3. IsFiniteSet(Within(e, i))
  BY <1>1, <1>2, FiniteUpTo
<1>4. e[i + 1] \notin Names => Within(e, i + 1) = Within(e, i)
  BY <1>1 DEF Within, Operands
<1>5. e[i + 1] \in Names => Within(e, i + 1) = Within(e, i) \cup {i + 1}
  BY <1>1 DEF Within, Operands
<1>6. i + 1 \notin Within(e, i)
  BY <1>1 DEF Within
<1> QED
  BY <1>3, <1>4, <1>5, <1>6, FS_AddElement, FS_CardinalityType

\* Of every four symbols the second is a name.
LEMMA NamesCounted ==
  ASSUME NEW e \in Seq(Symbols), WellFormed(e), NEW i \in 0..Len(e)
  PROVE  \E q \in Nat, s \in 0..3 :
           /\ Nth(e, i) = 4 * q + s
           /\ Cardinality(Within(e, i)) = q + (IF s >= 2 THEN 1 ELSE 0)
<1> DEFINE T == {n \in 0..Len(e) :
                   \E q \in Nat, s \in 0..3 :
                     /\ Nth(e, n) = 4 * q + s
                     /\ Cardinality(Within(e, n)) = q + (IF s >= 2 THEN 1 ELSE 0)}
<1>1. Len(e) \in Nat
  OBVIOUS
<1>2. 0 \in T
  <2>1. Nth(e, 0) = 4 * 0 + 0 /\ Cardinality(Within(e, 0)) = 0 + 0
    BY NthZero, FS_EmptySet
  <2> QED
    BY <1>1, <2>1
<1>3. ASSUME NEW n \in 0..(Len(e) - 1), n \in T PROVE n + 1 \in T
  <2>1. PICK q \in Nat, s \in 0..3 :
          /\ Nth(e, n) = 4 * q + s
          /\ Cardinality(Within(e, n)) = q + (IF s >= 2 THEN 1 ELSE 0)
    BY <1>3
  <2>2. n + 1 \in 0..Len(e)
    BY <1>1
  <2>3. CASE e[n + 1] = Space
    <3>1. Nth(e, n + 1) = Nth(e, n)
      BY <2>3, NthStep
    <3>2. Within(e, n + 1) = Within(e, n)
      BY <2>3, WithinStep, NamesApart
    <3> QED
      BY <2>1, <2>2, <3>1, <3>2
  <2>4. CASE e[n + 1] # Space
    <3>1. Nth(e, n + 1) = 4 * q + (s + 1)
      BY <2>1, <2>4, NthStep
    <3>2. /\ s = 0 => e[n + 1] = Defined
          /\ s = 1 => e[n + 1] \in Names
          /\ s = 2 => e[n + 1] = "&"
          /\ s = 3 => e[n + 1] = "&"
      BY <2>1, <2>4, Follows
    <3>3. CASE s = 1
      <4>1. Cardinality(Within(e, n + 1)) = q + 1
        BY <2>1, <3>2, <3>3, WithinStep
      <4>2. Nth(e, n + 1) = 4 * q + 2 /\ 2 \in 0..3
        BY <3>1, <3>3
      <4>3. \E s2 \in 0..3 : /\ Nth(e, n + 1) = 4 * q + s2
                             /\ Cardinality(Within(e, n + 1)) = q + (IF s2 >= 2 THEN 1 ELSE 0)
        BY <4>1, <4>2
      <4> QED
        BY <2>2, <4>3
    <3>4. CASE s # 1
      <4>1. Within(e, n + 1) = Within(e, n)
        BY <3>2, <3>4, WithinStep, NamesApart
      <4>2. CASE s = 3
        <5>1. Nth(e, n + 1) = 4 * (q + 1) + 0 /\ Cardinality(Within(e, n + 1)) = (q + 1) + 0
          BY <2>1, <3>1, <4>1, <4>2
        <5> QED
          BY <2>2, <5>1
      <4>3. CASE s = 0 \/ s = 2
        <5>1. Cardinality(Within(e, n + 1)) = q + (IF s + 1 >= 2 THEN 1 ELSE 0)
          BY <2>1, <4>1, <4>3
        <5>2. s + 1 \in 0..3
          BY <4>3
        <5> QED
          BY <2>2, <3>1, <5>1, <5>2
      <4> QED
        BY <3>4, <4>2, <4>3
    <3> QED
      BY <3>3, <3>4
  <2> QED
    BY <2>3, <2>4
<1> HIDE DEF T
<1>4. 0..Len(e) \subseteq T
  BY <1>1, <1>2, <1>3, InductionUpTo
<1> QED
  BY <1>4 DEF T

\* A condition of q + 1 names has 4q + 2 symbols besides the spaces.
LEMMA AllCounted ==
  ASSUME NEW e \in Seq(Symbols), WellFormed(e)
  PROVE  \E q \in Nat : Nth(e, Len(e)) = 4 * q + 2 /\ Cardinality(Operands(e)) = q + 1
<1>1. Len(e) \in 0..Len(e) /\ Within(e, Len(e)) = Operands(e)
  BY DEF Within, Operands
<1>2. PICK q \in Nat, s \in 0..3 :
        /\ Nth(e, Len(e)) = 4 * q + s
        /\ Cardinality(Operands(e)) = q + (IF s >= 2 THEN 1 ELSE 0)
  BY <1>1, NamesCounted
<1>3. Nth(e, Len(e)) % 4 = s
  BY <1>2, ModFour
<1>4. s = 2
  BY <1>3 DEF WellFormed
<1> QED
  BY <1>2, <1>4

-----------------------------------------------------------------------------
(***************************************************************************)
(* What the statics hold for a well-formed condition                       *)
(***************************************************************************)

\* The names up to a place of a condition, and those of the tokens before n.
Read(e, n) == {e[i] : i \in Within(e, n)}
Shown(t, n) == {t[i].span : i \in {j \in 0..(n - 1) : t[j].type = "IDENTIFIER"}}
Holds(n) == Shown(tokens, n) \subseteq defs

\* Of every three tokens the first is a "defined", the second a name and the
\* third an "&&".
Shape(t, n) ==
  \A q \in 0..MaxTokens :
    /\ 3 * q < n => t[3 * q].type = "DEFINED"
    /\ 3 * q + 1 < n => t[3 * q + 1].type = "IDENTIFIER"
    /\ 3 * q + 2 < n => t[3 * q + 2].type = "AND"

\* What is scanned are the tokens of what is read.
Scanned ==
  /\ \E q \in Nat, s \in 0..2 : Nth(expr, p) = 4 * q + s /\ tp = 3 * q + s
  /\ Shape(tokens, tp)
  /\ Shown(tokens, tp) = Read(expr, p)

Whole ==
  /\ \E q \in Nat : end = 3 * q + 2
  /\ Shape(tokens, end)
  /\ Shown(tokens, end) = Read(expr, Len(expr))

\* Before a token: the top of the stack says of the names evaluated so far
\* whether all are defined.
Between ==
  \/ pending = 0 /\ tp = 0
  \/ /\ pending = 0 /\ tp <= end
     /\ \E k \in Nat : tp = 3 * k + 2
     /\ Len(stack) >= 1 /\ (Top <=> Holds(tp))
  \/ /\ pending = 1 /\ tp < end
     /\ \E k \in Nat : tp = 3 * k
     /\ Len(stack) >= 1 /\ (Top <=> Holds(tp))

\* Both operands of an && are on the stack.
Conjoining ==
  /\ pending = 1 /\ tp <= end
  /\ \E k \in Nat : tp = 3 * k + 2
  /\ Len(stack) >= 2
  /\ Top <=> tokens[tp - 1].span \in defs
  /\ stack[Len(stack) - 1] <=> Holds(tp - 2)

Evaluated ==
  WellFormed(expr) =>
    /\ phase = "scan" => Scanned
    /\ phase \in {"eval", "and"} => Whole
    /\ phase = "eval" => Between
    /\ phase = "and" => Conjoining

ValueInv == ConditionInv /\ Evaluated /\ ValueRight /\ FailsOnlyWhenFull

-----------------------------------------------------------------------------
(***************************************************************************)
(* The tokens                                                              *)
(***************************************************************************)

Tokens == [type : TokenTypes, span : Spans]

\* One token more shows one name more where it is a name.
LEMMA ShownStep ==
  ASSUME NEW t, NEW n \in Nat
  PROVE  /\ t[n].type = "IDENTIFIER" => Shown(t, n + 1) = Shown(t, n) \cup {t[n].span}
         /\ t[n].type # "IDENTIFIER" => Shown(t, n + 1) = Shown(t, n)
<1> DEFINE named(m) == {j \in 0..(m - 1) : t[j].type = "IDENTIFIER"}
<1>1. 0..((n + 1) - 1) = (0..(n - 1)) \cup {n}
  OBVIOUS
<1>2. t[n].type = "IDENTIFIER" => named(n + 1) = named(n) \cup {n}
  BY <1>1
<1>3. t[n].type # "IDENTIFIER" => named(n + 1) = named(n)
  BY <1>1
<1>4. \A m : Shown(t, m) = {t[i].span : i \in named(m)}
  BY DEF Shown
<1> HIDE DEF named
<1>5. CASE t[n].type = "IDENTIFIER"
  <2>1. \A x : x \in Shown(t, n + 1) <=> x \in Shown(t, n) \cup {t[n].span}
    BY <1>2, <1>4, <1>5
  <2> QED
    BY <1>5, <2>1
<1>6. CASE t[n].type # "IDENTIFIER"
  <2>1. Shown(t, n + 1) = Shown(t, n)
    BY <1>3, <1>4, <1>6, Zenon
  <2> QED
    BY <1>6, <2>1
<1> QED
  BY <1>5, <1>6

\* A token is added behind the ones there are.
Stored(token) == tokens'[tp] = token /\ \A j \in 0..(tp - 1) : tokens'[j] = tokens[j]

\* The same of a token just stored.
LEMMA ShownPut ==
  ASSUME tp \in Nat, NEW token, Stored(token)
  PROVE  /\ token.type = "IDENTIFIER" => Shown(tokens', tp + 1) = Shown(tokens, tp) \cup {token.span}
         /\ token.type # "IDENTIFIER" => Shown(tokens', tp + 1) = Shown(tokens, tp)
<1>1. Shown(tokens', tp) = Shown(tokens, tp)
  BY DEF Shown, Stored
<1>2. /\ tokens'[tp].type = "IDENTIFIER" => Shown(tokens', tp + 1) = Shown(tokens', tp) \cup {tokens'[tp].span}
      /\ tokens'[tp].type # "IDENTIFIER" => Shown(tokens', tp + 1) = Shown(tokens', tp)
  BY ShownStep
<1> QED
  BY <1>1, <1>2, Zenon DEF Stored

\* The token of the place s of its three.
Kind(s, token) ==
  /\ s = 0 => token.type = "DEFINED"
  /\ s = 1 => token.type = "IDENTIFIER"
  /\ s = 2 => token.type = "AND"

\* A token of the kind that is due keeps the shape of the tokens.
LEMMA ShapePut ==
  ASSUME tp \in Nat, NEW token, Shape(tokens, tp), Stored(token),
         NEW q \in Nat, NEW s \in 0..2, tp = 3 * q + s, Kind(s, token)
  PROVE  Shape(tokens', tp + 1)
<1>1. ASSUME NEW r \in 0..MaxTokens
      PROVE  /\ 3 * r < tp + 1 => tokens'[3 * r].type = "DEFINED"
             /\ 3 * r + 1 < tp + 1 => tokens'[3 * r + 1].type = "IDENTIFIER"
             /\ 3 * r + 2 < tp + 1 => tokens'[3 * r + 2].type = "AND"
  <2>1. /\ 3 * r < tp => tokens[3 * r].type = "DEFINED"
        /\ 3 * r + 1 < tp => tokens[3 * r + 1].type = "IDENTIFIER"
        /\ 3 * r + 2 < tp => tokens[3 * r + 2].type = "AND"
    BY DEF Shape
  <2>2. r \in Nat
    BY ConditionAssumption
  <2>3. 3 * r < tp + 1 => tokens'[3 * r].type = "DEFINED"
    <3>1. CASE 3 * r < tp
      BY <2>1, <2>2, <3>1 DEF Stored
    <3>2. CASE 3 * r = tp
      <4>1. s = 0
        BY <2>2, <3>2
      <4> QED
        BY <3>2, <4>1 DEF Stored, Kind
    <3> QED
      BY <2>2, <3>1, <3>2
  <2>4. 3 * r + 1 < tp + 1 => tokens'[3 * r + 1].type = "IDENTIFIER"
    <3>1. CASE 3 * r + 1 < tp
      BY <2>1, <2>2, <3>1 DEF Stored
    <3>2. CASE 3 * r + 1 = tp
      <4>1. s = 1
        BY <2>2, <3>2
      <4> QED
        BY <3>2, <4>1 DEF Stored, Kind
    <3> QED
      BY <2>2, <3>1, <3>2
  <2>5. 3 * r + 2 < tp + 1 => tokens'[3 * r + 2].type = "AND"
    <3>1. CASE 3 * r + 2 < tp
      BY <2>1, <2>2, <3>1 DEF Stored
    <3>2. CASE 3 * r + 2 = tp
      <4>1. s = 2
        BY <2>2, <3>2
      <4> QED
        BY <3>2, <4>1 DEF Stored, Kind
    <3> QED
      BY <2>2, <3>1, <3>2
  <2> QED
    BY <2>3, <2>4, <2>5
<1> QED
  BY <1>1 DEF Shape

\* The types of the tokens of a whole condition, and the names two or one
\* token further on.
LEMMA ShapeAt ==
  ASSUME NEW t, NEW n \in 0..MaxTokens, NEW q \in Nat, n = 3 * q + 2, Shape(t, n), NEW k \in Nat
  PROVE  /\ 3 * k < n => /\ 3 * k + 1 < n
                         /\ t[3 * k].type = "DEFINED" /\ t[3 * k + 1].type = "IDENTIFIER"
                         /\ Shown(t, 3 * k + 2) = Shown(t, 3 * k) \cup {t[3 * k + 1].span}
         /\ 3 * k + 2 < n => /\ 3 * k + 3 < n
                             /\ t[3 * k + 2].type = "AND"
                             /\ Shown(t, 3 * k + 3) = Shown(t, 3 * k + 2)
<1>0. MaxTokens \in Nat
  BY ConditionAssumption
<1>1. CASE 3 * k < n
  <2>1. k \in 0..MaxTokens /\ 3 * k + 1 < n
    BY <1>0, <1>1
  <2>2. t[3 * k].type = "DEFINED" /\ t[3 * k + 1].type = "IDENTIFIER"
    BY <1>1, <2>1 DEF Shape
  <2>3. 3 * k \in Nat /\ 3 * k + 1 \in Nat /\ (3 * k + 1) + 1 = 3 * k + 2
    OBVIOUS
  <2>4. Shown(t, 3 * k + 1) = Shown(t, 3 * k)
    BY <2>2, <2>3, ShownStep
  <2>5. Shown(t, (3 * k + 1) + 1) = Shown(t, 3 * k + 1) \cup {t[3 * k + 1].span}
    BY <2>2, <2>3, ShownStep
  <2>6. Shown(t, 3 * k + 2) = Shown(t, 3 * k) \cup {t[3 * k + 1].span}
    BY <2>3, <2>4, <2>5
  <2>7. CASE 3 * k + 2 < n
    <3>1. t[3 * k + 2].type = "AND" /\ 3 * k + 3 < n
      BY <2>1, <2>7 DEF Shape
    <3>2. 3 * k + 2 \in Nat /\ (3 * k + 2) + 1 = 3 * k + 3
      OBVIOUS
    <3>3. Shown(t, (3 * k + 2) + 1) = Shown(t, 3 * k + 2)
      BY <3>1, <3>2, ShownStep
    <3> QED
      BY <2>1, <2>2, <2>6, <3>1, <3>2, <3>3
  <2> QED
    BY <2>1, <2>2, <2>6, <2>7
<1>2. CASE ~(3 * k < n)
  BY <1>2
<1> QED
  BY <1>1, <1>2

\* No token shows no name.
LEMMA ShownNone ==
  ASSUME NEW t
  PROVE  Shown(t, 0) = {} /\ Shape(t, 0)
BY ConditionAssumption DEF Shown, Shape

\* One symbol more is one name more read where it is a name.
LEMMA ReadStep ==
  ASSUME NEW e \in Seq(Symbols), NEW i \in 0..(Len(e) - 1)
  PROVE  /\ e[i + 1] \notin Names => Read(e, i + 1) = Read(e, i)
         /\ e[i + 1] \in Names => Read(e, i + 1) = Read(e, i) \cup {e[i + 1]}
<1>1. CASE e[i + 1] \notin Names
  <2>1. Within(e, i + 1) = Within(e, i)
    BY <1>1, WithinStep
  <2> QED
    BY <1>1, <2>1 DEF Read
<1>2. CASE e[i + 1] \in Names
  <2>1. Within(e, i + 1) = Within(e, i) \cup {i + 1}
    BY <1>2, WithinStep
  <2>2. \A x : x \in Read(e, i + 1) <=> x \in Read(e, i) \cup {e[i + 1]}
    BY <2>1 DEF Read
  <2> QED
    BY <1>2, <2>2
<1> QED
  BY <1>1, <1>2

-----------------------------------------------------------------------------
(***************************************************************************)
(* The scanning of a well-formed condition                                 *)
(***************************************************************************)

\* What the steps of the scanner know of the state.
LEMMA ScanState ==
  ASSUME ValueInv, WellFormed(expr), phase = "scan"
  PROVE  /\ MaxTokens \in Nat /\ expr \in Seq(Symbols) /\ Len(expr) \in Nat
         /\ p \in 0..Len(expr) /\ tp \in 0..MaxTokens
         /\ tokens \in [0..(MaxTokens - 1) -> Tokens]
         /\ Scanned
BY ConditionAssumption DEF ValueInv, Evaluated, ConditionInv, TypeOK, Tokens

\* A token more means a condition with more tokens than are scanned.
LEMMA TokensLeft ==
  ASSUME expr \in Seq(Symbols), WellFormed(expr), p \in 0..(Len(expr) - 1),
         NEW q \in Nat, NEW s \in 0..2, Nth(expr, p) = 4 * q + s, expr[p + 1] # Space
  PROVE  3 * q + s < 3 * Cardinality(Operands(expr)) - 1
<1>1. PICK r \in Nat : Nth(expr, Len(expr)) = 4 * r + 2 /\ Cardinality(Operands(expr)) = r + 1
  BY AllCounted
<1>2. Nth(expr, p + 1) = (4 * q + s) + 1
  BY NthStep
<1>3. p + 1 \in 0..Len(expr) /\ Len(expr) \in 0..Len(expr) /\ p + 1 <= Len(expr)
  OBVIOUS
<1>4. Nth(expr, p + 1) <= Nth(expr, Len(expr))
  BY <1>3, NthGrows
<1>5. (4 * q + s) + 1 <= 4 * r + 2
  BY <1>1, <1>2, <1>4
<1>6. 3 * q + s < 3 * (r + 1) - 1
  BY <1>5
<1> QED
  BY <1>1, <1>6

\* The token of the next symbol is stored, or there is no room for it.
LEMMA PutValue ==
  ASSUME ValueInv, WellFormed(expr), phase = "scan", p < Len(expr),
         NEW q \in Nat, NEW s \in 0..2, Nth(expr, p) = 4 * q + s, tp = 3 * q + s,
         expr[p + 1] # Space,
         NEW token \in Tokens, NEW scanned \in Nat,
         Put(token, scanned),
         p + scanned <= Len(expr),
         s = 0 => token.type = "DEFINED" /\ scanned = 1 /\ expr[p + 1] \notin Names,
         s = 1 => token.type = "IDENTIFIER" /\ scanned = 1 /\ expr[p + 1] \in Names /\ token.span = expr[p + 1],
         s = 2 => /\ token.type = "AND" /\ scanned = 2
                  /\ expr[p + 1] \notin Names /\ expr[p + 2] \notin Names /\ expr[p + 2] # Space
  PROVE  Evaluated' /\ ValueRight' /\ FailsOnlyWhenFull'
<1>1. UNCHANGED <<defs, expr, end, pending, stack, value>>
  BY DEF Put
<1>2. /\ MaxTokens \in Nat /\ expr \in Seq(Symbols) /\ Len(expr) \in Nat
      /\ p \in 0..(Len(expr) - 1) /\ tp \in 0..MaxTokens
      /\ tokens \in [0..(MaxTokens - 1) -> Tokens]
      /\ Shape(tokens, tp) /\ Shown(tokens, tp) = Read(expr, p)
  BY ScanState DEF Scanned
<1>3. CASE tp < MaxTokens
  <2>1. /\ tokens' = [tokens EXCEPT ![tp] = token] /\ tp' = tp + 1
        /\ p' = p + scanned /\ phase' = "scan"
    BY <1>3 DEF Put
  <2>2. tp \in Nat /\ Stored(token)
    BY <1>2, <1>3, <2>1 DEF Stored
  <2>3. Shape(tokens', tp')
    <3>1. Kind(s, token)
      BY DEF Kind
    <3>2. Shape(tokens', tp + 1)
      BY <1>2, <2>2, <3>1, ShapePut
    <3> QED
      BY <2>1, <3>2
  <2>4. Shown(tokens', tp') = IF s = 1 THEN Shown(tokens, tp) \cup {token.span} ELSE Shown(tokens, tp)
    <3>1. s = 1 => token.type = "IDENTIFIER"
      OBVIOUS
    <3>2. s # 1 => token.type # "IDENTIFIER"
      OBVIOUS
    <3>3. tp' = tp + 1
      BY <2>1
    <3>4. /\ token.type = "IDENTIFIER" => Shown(tokens', tp + 1) = Shown(tokens, tp) \cup {token.span}
          /\ token.type # "IDENTIFIER" => Shown(tokens', tp + 1) = Shown(tokens, tp)
      BY <2>2, ShownPut
    <3> QED
      BY <3>1, <3>2, <3>3, <3>4, Zenon
  <2>5. Nth(expr, p + 1) = (4 * q + s) + 1
    BY <1>2, NthStep
  <2>6. /\ Shown(tokens', tp') = Read(expr, p')
        /\ \E q1 \in Nat, s1 \in 0..2 : Nth(expr, p') = 4 * q1 + s1 /\ tp' = 3 * q1 + s1
    <3>1. CASE s = 0
      <4>1. p' = p + 1 /\ Read(expr, p + 1) = Read(expr, p)
        BY <1>2, <2>1, <3>1, ReadStep
      <4>2. Nth(expr, p') = 4 * q + 1 /\ tp' = 3 * q + 1 /\ 1 \in 0..2
        BY <2>1, <2>5, <3>1, <4>1
      <4> QED
        BY <1>2, <2>4, <3>1, <4>1, <4>2
    <3>2. CASE s = 1
      <4>1. p' = p + 1 /\ Read(expr, p + 1) = Read(expr, p) \cup {expr[p + 1]}
        BY <1>2, <2>1, <3>2, ReadStep
      <4>2. Nth(expr, p') = 4 * q + 2 /\ tp' = 3 * q + 2 /\ 2 \in 0..2
        BY <2>1, <2>5, <3>2, <4>1
      <4> QED
        BY <1>2, <2>4, <3>2, <4>1, <4>2
    <3>3. CASE s = 2
      <4>1. p' = p + 2 /\ p + 1 \in 0..(Len(expr) - 1) /\ (p + 1) + 1 = p + 2
        BY <1>2, <2>1, <3>3
      <4>2. Read(expr, p + 1) = Read(expr, p)
        BY <1>2, <3>3, ReadStep
      <4>3. Read(expr, (p + 1) + 1) = Read(expr, p + 1)
        <5>1. expr[(p + 1) + 1] \notin Names
          BY <3>3, <4>1
        <5> QED
          BY <1>2, <4>1, <5>1, ReadStep
      <4>4. Nth(expr, (p + 1) + 1) = Nth(expr, p + 1) + 1
        <5>1. expr[(p + 1) + 1] # Space
          BY <3>3, <4>1
        <5> QED
          BY <1>2, <4>1, <5>1, NthStep
      <4>5. Nth(expr, p') = 4 * (q + 1) + 0 /\ tp' = 3 * (q + 1) + 0 /\ q + 1 \in Nat /\ 0 \in 0..2
        BY <2>1, <2>5, <3>3, <4>1, <4>4
      <4>6. Read(expr, p') = Read(expr, p)
        BY <4>1, <4>2, <4>3
      <4>7. Shown(tokens', tp') = Shown(tokens, tp)
        BY <2>4, <3>3
      <4>8. \E q1 \in Nat, s1 \in 0..2 : Nth(expr, p') = 4 * q1 + s1 /\ tp' = 3 * q1 + s1
        BY <4>5
      <4> QED
        BY <1>2, <4>6, <4>7, <4>8
    <3> QED
      BY <3>1, <3>2, <3>3
  <2>7. Scanned'
    BY <1>1, <2>3, <2>6 DEF Scanned
  <2> QED
    BY <1>1, <2>1, <2>7 DEF Evaluated, ValueRight, FailsOnlyWhenFull
<1>4. CASE ~(tp < MaxTokens)
  <2>1. phase' = "outside"
    BY <1>4 DEF Put
  <2>2. 3 * q + s < 3 * Cardinality(Operands(expr)) - 1
    BY <1>2, TokensLeft
  <2>3. Cardinality(Operands(expr)) \in Nat
    <3>1. PICK r \in Nat : Cardinality(Operands(expr)) = r + 1
      BY <1>2, AllCounted
    <3> QED
      BY <3>1
  <2>4. 3 * Cardinality(Operands(expr)) - 1 > MaxTokens
    BY <1>2, <1>4, <2>2, <2>3
  <2>5. 3 * Cardinality(Operands(expr')) - 1 > MaxTokens
    BY <1>1, <2>4
  <2> QED
    BY <2>1, <2>5 DEF Evaluated, ValueRight, FailsOnlyWhenFull
<1> QED
  BY <1>3, <1>4

\* What the scanner meets in a well-formed condition.
LEMMA Met ==
  ASSUME ValueInv, WellFormed(expr), phase = "scan", p < Len(expr)
  PROVE  /\ Symbol(p + 1) = expr[p + 1]
         /\ \E q \in Nat, s \in 0..2 :
              /\ Nth(expr, p) = 4 * q + s /\ tp = 3 * q + s
              /\ expr[p + 1] # Space =>
                   /\ s = 0 => expr[p + 1] = Defined
                   /\ s = 1 => expr[p + 1] \in Names
                   /\ s = 2 => /\ expr[p + 1] = "&" /\ expr[p + 2] = "&" /\ expr[p + 2] # Space
                               /\ p + 2 <= Len(expr) /\ Symbol(p + 2) = "&"
<1>1. PICK q \in Nat, s \in 0..2 : Nth(expr, p) = 4 * q + s /\ tp = 3 * q + s
  BY ScanState DEF Scanned
<1>2. expr \in Seq(Symbols) /\ Len(expr) \in Nat /\ p \in 0..(Len(expr) - 1) /\ p + 1 \in 1..Len(expr)
  BY ScanState
<1>3. Symbol(p + 1) = expr[p + 1]
  BY <1>2 DEF Symbol
<1>4. ASSUME expr[p + 1] # Space
      PROVE  /\ s = 0 => expr[p + 1] = Defined
             /\ s = 1 => expr[p + 1] \in Names
             /\ s = 2 => /\ expr[p + 1] = "&" /\ expr[p + 2] = "&" /\ expr[p + 2] # Space
                         /\ p + 2 <= Len(expr) /\ Symbol(p + 2) = "&"
  <2>1. s \in 0..3
    OBVIOUS
  <2>2. /\ s = 0 => expr[p + 1] = Defined
        /\ s = 1 => expr[p + 1] \in Names
        /\ s = 2 => expr[p + 1] = "&" /\ p + 2 \in 1..Len(expr) /\ expr[p + 2] # Space
    BY <1>1, <1>2, <1>4, <2>1, Follows
  <2>3. CASE s = 2
    <3>1. p + 1 \in 0..(Len(expr) - 1) /\ (p + 1) + 1 = p + 2 /\ p + 2 <= Len(expr)
      BY <1>2, <2>2, <2>3
    <3>2. Nth(expr, p + 1) = 4 * q + 3 /\ 3 \in 0..3
      BY <1>1, <1>2, <1>4, <2>3, NthStep
    <3>3. expr[(p + 1) + 1] = "&"
      <4>1. expr[(p + 1) + 1] # Space
        BY <2>2, <2>3, <3>1
      <4> QED
        BY <1>2, <3>1, <3>2, <4>1, Follows
    <3>4. Symbol(p + 2) = expr[p + 2]
      BY <2>2, <2>3 DEF Symbol
    <3> QED
      BY <2>2, <2>3, <3>1, <3>3, <3>4
  <2> QED
    BY <2>2, <2>3
<1> QED
  BY <1>1, <1>3, <1>4

\* A word, or "&&", is scanned.
LEMMA ScanValue ==
  ASSUME ValueInv, WellFormed(expr), ScanName \/ ScanAnd
  PROVE  Evaluated' /\ ValueRight' /\ FailsOnlyWhenFull'
<1>1. phase = "scan" /\ p < Len(expr) /\ Symbol(p + 1) # Space
  <2>1. CASE ScanName
    BY <2>1, ConditionAssumption, Zenon DEF ScanName, Defined, Space
  <2>2. CASE ScanAnd
    BY <2>2, Zenon DEF ScanAnd, Space
  <2> QED
    BY <2>1, <2>2
<1>2. PICK q \in Nat, s \in 0..2 :
        /\ Nth(expr, p) = 4 * q + s /\ tp = 3 * q + s
        /\ expr[p + 1] # Space =>
             /\ s = 0 => expr[p + 1] = Defined
             /\ s = 1 => expr[p + 1] \in Names
             /\ s = 2 => /\ expr[p + 1] = "&" /\ expr[p + 2] = "&" /\ expr[p + 2] # Space
                         /\ p + 2 <= Len(expr) /\ Symbol(p + 2) = "&"
  BY <1>1, Met
<1>3. Symbol(p + 1) = expr[p + 1] /\ p + 1 <= Len(expr)
  BY <1>1, Met, ScanState
<1>4. CASE ScanName
  <2> DEFINE token == TokenOf(IF Symbol(p + 1) = Defined THEN "DEFINED" ELSE "IDENTIFIER", Symbol(p + 1))
  <2>1. Put(token, 1) /\ Symbol(p + 1) \in Names \cup {Defined}
    BY <1>4 DEF ScanName
  <2>2. token \in Tokens
    BY <2>1 DEF TokenOf, Tokens, TokenTypes, Spans, Symbols
  <2>3. s # 2
    BY <1>1, <1>2, <1>3, <2>1, NamesApart DEF Defined
  <2>4. s = 0 => token.type = "DEFINED" /\ expr[p + 1] \notin Names
    BY <1>1, <1>2, <1>3, NamesApart DEF TokenOf
  <2>5. s = 1 => token.type = "IDENTIFIER" /\ expr[p + 1] \in Names /\ token.span = expr[p + 1]
    BY <1>1, <1>2, <1>3, NamesApart DEF TokenOf
  <2> HIDE DEF token
  <2> QED
    BY <1>1, <1>2, <1>3, <2>1, <2>2, <2>3, <2>4, <2>5, PutValue
<1>5. CASE ScanAnd
  <2>1. Put(TokenOf("AND", "&&"), 2) /\ Symbol(p + 1) = "&"
    BY <1>5 DEF ScanAnd
  <2>2. TokenOf("AND", "&&") \in Tokens /\ TokenOf("AND", "&&").type = "AND"
    BY DEF TokenOf, Tokens, TokenTypes, Spans
  <2>3. s = 2
    BY <1>1, <1>2, <1>3, <2>1, NamesApart DEF Defined
  <2>4. expr[p + 1] \notin Names /\ expr[p + 2] \notin Names /\ expr[p + 2] # Space /\ p + 2 <= Len(expr)
    BY <1>1, <1>2, <1>3, <2>1, <2>3, NamesApart
  <2>5. expr[p + 1] # Space
    BY <1>1, <1>3
  <2> QED
    BY <1>1, <1>2, <2>1, <2>2, <2>3, <2>4, <2>5, PutValue
<1> QED
  BY <1>4, <1>5

\* A well-formed condition holds nothing the scanner stumbles over.
LEMMA ScansOn ==
  ASSUME ValueInv, WellFormed(expr)
  PROVE  ~ScanPlus /\ ~ScanFails
<1> SUFFICES ASSUME phase = "scan", p < Len(expr),
                    \/ Symbol(p + 1) = "+" \/ Symbol(p + 1) = "!"
                    \/ Symbol(p + 1) = "&" /\ Symbol(p + 2) # "&"
             PROVE  FALSE
  BY DEF ScanPlus, ScanFails, Abort
<1>1. Symbol(p + 1) # Space
  BY Zenon DEF Space
<1>2. PICK s \in 0..2 :
        /\ s = 0 => expr[p + 1] = Defined
        /\ s = 1 => expr[p + 1] \in Names
        /\ s = 2 => expr[p + 1] = "&" /\ Symbol(p + 2) = "&"
  BY <1>1, Met
<1>3. expr[p + 1] = Symbol(p + 1)
  BY Met
<1> QED
  BY <1>2, <1>3, NamesApart DEF Defined

\* A space is scanned.
LEMMA SpaceValue ==
  ASSUME ValueInv, WellFormed(expr), ScanSpace
  PROVE  Evaluated' /\ ValueRight' /\ FailsOnlyWhenFull'
<1>1. /\ phase = "scan" /\ phase' = "scan" /\ p < Len(expr) /\ p' = p + 1 /\ Symbol(p + 1) = Space
      /\ UNCHANGED <<defs, expr, tokens, tp, end, pending, stack, value>>
  BY DEF ScanSpace
<1>2. /\ expr \in Seq(Symbols) /\ p \in 0..(Len(expr) - 1) /\ Scanned
  BY <1>1, ScanState
<1>3. expr[p + 1] = Space
  BY <1>1, <1>2 DEF Symbol
<1>4. expr[p + 1] \notin Names
  BY <1>3, NamesApart
<1>5. Nth(expr, p + 1) = Nth(expr, p) /\ Read(expr, p + 1) = Read(expr, p)
  BY <1>2, <1>3, <1>4, NthStep, ReadStep
<1>6. Scanned'
  BY <1>1, <1>2, <1>5 DEF Scanned
<1> QED
  BY <1>1, <1>6 DEF Evaluated, ValueRight, FailsOnlyWhenFull

\* The condition is scanned to its end.
LEMMA DoneValue ==
  ASSUME ValueInv, WellFormed(expr), ScanDone
  PROVE  Evaluated' /\ ValueRight' /\ FailsOnlyWhenFull'
<1>1. /\ phase = "scan" /\ p >= Len(expr) /\ end' = tp /\ tp' = 0 /\ phase' = "eval"
      /\ UNCHANGED <<defs, expr, p, tokens, pending, stack, value>>
  BY DEF ScanDone
<1>2. /\ Len(expr) \in Nat /\ p \in 0..Len(expr) /\ Scanned /\ pending = 0
  BY <1>1, ScanState DEF ValueInv, ConditionInv, Waiting
<1>3. p = Len(expr)
  BY <1>1, <1>2
<1>4. PICK q \in Nat, s \in 0..2 : Nth(expr, p) = 4 * q + s /\ tp = 3 * q + s
  BY <1>2 DEF Scanned
<1>5. s = 2
  <2>1. (4 * q + s) % 4 = s
    BY ModFour
  <2> QED
    BY <1>3, <1>4, <2>1 DEF WellFormed
<1>6. Whole'
  BY <1>1, <1>2, <1>3, <1>4, <1>5 DEF Whole, Scanned
<1>7. Between'
  BY <1>1, <1>2 DEF Between
<1> QED
  BY <1>1, <1>6, <1>7 DEF Evaluated, ValueRight, FailsOnlyWhenFull

-----------------------------------------------------------------------------
(***************************************************************************)
(* The evaluation of a well-formed condition                               *)
(***************************************************************************)

\* What the steps of eval know of the state.
LEMMA EvalState ==
  ASSUME ValueInv, WellFormed(expr), phase \in {"eval", "and"}
  PROVE  /\ MaxTokens \in Nat /\ MaxStack \in Nat
         /\ tp \in 0..MaxTokens /\ end \in 0..MaxTokens
         /\ stack \in Seq(BOOLEAN) /\ Len(stack) \in Nat /\ Len(stack) <= MaxStack
         /\ Whole
         /\ phase = "eval" => Between
         /\ phase = "and" => Conjoining
BY Numbers DEF ValueInv, Evaluated

\* The tokens of a whole condition by their places.
LEMMA TokenKinds ==
  ASSUME ValueInv, WellFormed(expr), phase \in {"eval", "and"}, NEW k \in Nat
  PROVE  /\ 3 * k < end =>
              /\ 3 * k + 1 < end
              /\ tokens[3 * k].type = "DEFINED" /\ tokens[3 * k + 1].type = "IDENTIFIER"
              /\ Shown(tokens, 3 * k + 2) = Shown(tokens, 3 * k) \cup {tokens[3 * k + 1].span}
         /\ 3 * k + 2 < end =>
              /\ 3 * k + 3 < end
              /\ tokens[3 * k + 2].type = "AND"
              /\ Shown(tokens, 3 * k + 3) = Shown(tokens, 3 * k + 2)
<1>1. PICK q \in Nat : end = 3 * q + 2
  BY EvalState DEF Whole
<1>2. Shape(tokens, end) /\ end \in 0..MaxTokens
  BY EvalState DEF Whole
<1> QED
  BY ONLY <1>1, <1>2, k \in Nat, ShapeAt

\* eval is at a "defined" or at an "&&", never behind the last token.
LEMMA EvalAt ==
  ASSUME ValueInv, WellFormed(expr), phase = "eval", tp < end \/ pending > 0
  PROVE  \/ /\ \E k \in Nat : tp = 3 * k
            /\ tokens[tp].type = "DEFINED" /\ tokens[tp + 1].type = "IDENTIFIER"
            /\ tp < end /\ tp + 1 < end /\ tp + 1 < MaxTokens
            /\ Shown(tokens, tp + 2) = Shown(tokens, tp) \cup {tokens[tp + 1].span}
            /\ \/ pending = 0 /\ tp = 0
               \/ pending = 1 /\ Len(stack) >= 1 /\ (Top <=> Holds(tp))
         \/ /\ \E k \in Nat : tp = 3 * k + 2
            /\ tokens[tp].type = "AND" /\ pending = 0 /\ tp + 1 < end
            /\ Shown(tokens, tp + 1) = Shown(tokens, tp)
            /\ Len(stack) >= 1 /\ (Top <=> Holds(tp))
<1>1. /\ MaxTokens \in Nat /\ tp \in 0..MaxTokens /\ end \in 0..MaxTokens /\ Between
      /\ \E q \in Nat : end = 3 * q + 2
  BY EvalState DEF Whole
<1>2. CASE pending = 0 /\ tp = 0
  <2>1. 0 \in Nat /\ 3 * 0 = 0 /\ 3 * 0 + 1 = 1 /\ 3 * 0 + 2 = 2 /\ 0 < end
    BY <1>1
  <2>2. /\ 3 * 0 + 1 < end
        /\ tokens[3 * 0].type = "DEFINED" /\ tokens[3 * 0 + 1].type = "IDENTIFIER"
        /\ Shown(tokens, 3 * 0 + 2) = Shown(tokens, 3 * 0) \cup {tokens[3 * 0 + 1].span}
    BY <2>1, TokenKinds
  <2>3. tp = 3 * 0 /\ tp + 1 = 3 * 0 + 1 /\ tp + 2 = 3 * 0 + 2
    BY <1>2
  <2> QED
    BY <1>1, <1>2, <2>1, <2>2, <2>3
<1>3. CASE /\ pending = 0 /\ tp <= end /\ \E k \in Nat : tp = 3 * k + 2
           /\ Len(stack) >= 1 /\ (Top <=> Holds(tp))
  <2>1. PICK k \in Nat : tp = 3 * k + 2
    BY <1>3
  <2>2. tp < end /\ tp + 1 = 3 * k + 3
    BY <1>3, <2>1
  <2>3. /\ 3 * k + 3 < end
        /\ tokens[3 * k + 2].type = "AND"
        /\ Shown(tokens, 3 * k + 3) = Shown(tokens, 3 * k + 2)
    BY <2>1, <2>2, TokenKinds
  <2> QED
    BY <1>3, <2>1, <2>2, <2>3
<1>4. CASE /\ pending = 1 /\ tp < end /\ \E k \in Nat : tp = 3 * k
           /\ Len(stack) >= 1 /\ (Top <=> Holds(tp))
  <2>1. PICK k \in Nat : tp = 3 * k
    BY <1>4
  <2>2. /\ 3 * k + 1 < end
        /\ tokens[3 * k].type = "DEFINED" /\ tokens[3 * k + 1].type = "IDENTIFIER"
        /\ Shown(tokens, 3 * k + 2) = Shown(tokens, 3 * k) \cup {tokens[3 * k + 1].span}
    BY <1>4, <2>1, TokenKinds
  <2>3. tp + 1 < end /\ tp + 1 < MaxTokens
    BY <1>1, <2>1, <2>2
  <2> QED
    BY <1>4, <2>1, <2>2, <2>3
<1> QED
  BY <1>1, <1>2, <1>3, <1>4 DEF Between

\* The last entry pushed, and the one below it.
LEMMA Pushed ==
  ASSUME NEW b \in BOOLEAN, stack \in Seq(BOOLEAN), stack' = Append(stack, b)
  PROVE  /\ Len(stack') = Len(stack) + 1 /\ Len(stack') \in Nat
         /\ Top' = b
         /\ Len(stack) >= 1 => stack'[Len(stack') - 1] = Top
<1>1. stack' \in Seq(BOOLEAN) /\ Len(stack) \in Nat /\ Len(stack') = Len(stack) + 1
  OBVIOUS
<1>2. stack'[Len(stack) + 1] = b
  OBVIOUS
<1>3. Len(stack) >= 1 => stack'[Len(stack)] = stack[Len(stack)]
  OBVIOUS
<1>4. Top' = stack'[Len(stack')] /\ Top = stack[Len(stack)]
  BY DEF Top
<1>5. Len(stack') - 1 = Len(stack) /\ Len(stack') \in Nat
  BY <1>1
<1>6. Top' = b
  BY <1>1, <1>2, <1>4, Zenon
<1>7. Len(stack) >= 1 => stack'[Len(stack') - 1] = Top
  BY <1>3, <1>4, <1>5, Zenon
<1> QED
  BY <1>1, <1>5, <1>6, <1>7, Zenon

\* A "defined" is evaluated: its value is on top.
LEMMA EvalDefinedValue ==
  ASSUME ValueInv, WellFormed(expr), EvalDefined
  PROVE  Evaluated' /\ ValueRight' /\ FailsOnlyWhenFull'
<1> DEFINE operand == tokens[tp + 1].span \in defs
<1>1. /\ phase = "eval" /\ (tp < end \/ pending > 0) /\ tokens[tp].type = "DEFINED"
      /\ stack' = Append(stack, operand) /\ tp' = tp + 2
      /\ phase' = IF pending > 0 THEN "and" ELSE "eval"
      /\ UNCHANGED <<defs, expr, p, tokens, end, pending, value>>
  BY DEF EvalDefined, Evaluating
<1>2. operand \in BOOLEAN
  OBVIOUS
<1>3. /\ MaxTokens \in Nat /\ tp \in 0..MaxTokens /\ end \in 0..MaxTokens
      /\ stack \in Seq(BOOLEAN) /\ Len(stack) \in Nat /\ Whole
  BY <1>1, EvalState
<1>4. /\ \E k \in Nat : tp = 3 * k
      /\ tp + 1 < end
      /\ Shown(tokens, tp + 2) = Shown(tokens, tp) \cup {tokens[tp + 1].span}
      /\ \/ pending = 0 /\ tp = 0
         \/ pending = 1 /\ Len(stack) >= 1 /\ (Top <=> Holds(tp))
  BY <1>1, EvalAt
<1>5. /\ Len(stack') = Len(stack) + 1 /\ (Top' <=> operand)
      /\ Len(stack) >= 1 => stack'[Len(stack') - 1] = Top
  <2> HIDE DEF operand
  <2> QED
    BY <1>1, <1>2, <1>3, Pushed
<1>6. \E k \in Nat : tp' = 3 * k + 2
  BY <1>1, <1>4
<1>7. tp' <= end' /\ tp' - 1 = tp + 1 /\ tp' - 2 = tp
  BY <1>1, <1>3, <1>4
<1>8. Whole'
  BY <1>1, <1>3 DEF Whole
<1>9. CASE pending = 0 /\ tp = 0
  <2>1. phase' = "eval" /\ pending' = 0
    BY <1>1, <1>9
  <2>2. Top' <=> Holds(tp)'
    <3>1. Shown(tokens, tp + 2) = {tokens[tp + 1].span}
      BY <1>4, <1>9, ShownNone
    <3>2. Holds(tp)' <=> Shown(tokens, tp + 2) \subseteq defs
      BY <1>1 DEF Holds
    <3> QED
      BY <1>5, <3>1, <3>2
  <2>3. Between'
    BY <1>3, <1>5, <1>6, <1>7, <2>1, <2>2 DEF Between
  <2> QED
    BY <1>8, <2>1, <2>3 DEF Evaluated, ValueRight, FailsOnlyWhenFull
<1>10. CASE pending = 1 /\ Len(stack) >= 1 /\ (Top <=> Holds(tp))
  <2>1. phase' = "and" /\ pending' = 1
    BY <1>1, <1>10
  <2>2. Top' <=> tokens'[tp' - 1].span \in defs'
    BY <1>1, <1>5, <1>7
  <2>3. stack'[Len(stack') - 1] <=> Holds(tp - 2)'
    <3>1. Holds(tp - 2)' <=> Holds(tp)
      BY <1>1, <1>7 DEF Holds
    <3> QED
      BY <1>5, <1>10, <3>1
  <2>4. Conjoining'
    BY <1>3, <1>5, <1>6, <1>7, <1>10, <2>1, <2>2, <2>3 DEF Conjoining
  <2> QED
    BY <1>8, <2>1, <2>4 DEF Evaluated, ValueRight, FailsOnlyWhenFull
<1> QED
  BY <1>4, <1>9, <1>10

\* An "&&" is met, and waits for its right operand.
LEMMA EvalAndValue ==
  ASSUME ValueInv, WellFormed(expr), EvalAnd
  PROVE  Evaluated' /\ ValueRight' /\ FailsOnlyWhenFull'
<1>1. /\ phase = "eval" /\ (tp < end \/ pending > 0) /\ tokens[tp].type = "AND"
      /\ tp' = tp + 1 /\ pending' = pending + 1 /\ phase' = "eval"
      /\ UNCHANGED <<defs, expr, p, tokens, end, stack, value>>
  BY DEF EvalAnd, Evaluating
<1>2. tp \in Nat /\ Whole
  BY <1>1, EvalState
<1>3. /\ \E k \in Nat : tp = 3 * k + 2
      /\ pending = 0 /\ tp + 1 < end
      /\ Shown(tokens, tp + 1) = Shown(tokens, tp)
      /\ Len(stack) >= 1 /\ (Top <=> Holds(tp))
  BY <1>1, EvalAt
<1>4. PICK k \in Nat : tp = 3 * k + 2
  BY <1>3
<1>5. tp' = 3 * (k + 1) /\ k + 1 \in Nat /\ tp' < end' /\ pending' = 1
  BY <1>1, <1>3, <1>4
<1>6. Len(stack') >= 1 /\ (Top' <=> Holds(tp)')
  <2>1. Holds(tp)' <=> Shown(tokens, tp + 1) \subseteq defs
    BY <1>1 DEF Holds
  <2>2. Top' = Top
    BY <1>1 DEF Top
  <2> QED
    BY <1>1, <1>3, <2>1, <2>2 DEF Holds
<1>7. Between'
  BY <1>5, <1>6 DEF Between
<1>8. Whole'
  BY <1>1, <1>2 DEF Whole
<1> QED
  BY <1>1, <1>7, <1>8 DEF Evaluated, ValueRight, FailsOnlyWhenFull

\* An "&&" has its right operand: the value on top is that of all operands so far.
LEMMA AndValue ==
  ASSUME ValueInv, WellFormed(expr), And
  PROVE  Evaluated' /\ ValueRight' /\ FailsOnlyWhenFull'
<1>1. /\ phase = "and" /\ pending' = pending - 1
      /\ phase' = IF pending = 1 THEN "eval" ELSE "and"
      /\ UNCHANGED <<defs, expr, p, tokens, tp, end, value>>
  BY DEF And
<1>2. /\ stack \in Seq(BOOLEAN) /\ Len(stack) \in Nat /\ Whole /\ Conjoining
      /\ tp \in Nat /\ end \in Nat
  BY <1>1, EvalState
<1>3. pending = 1 /\ tp <= end /\ Len(stack) >= 2
  BY <1>2 DEF Conjoining
<1>4. phase' = "eval" /\ pending' = 0
  BY <1>1, <1>3
<1>5. PICK k \in Nat : tp = 3 * k + 2
  BY <1>2 DEF Conjoining
<1>6. tp - 2 = 3 * k /\ tp - 1 = 3 * k + 1 /\ 3 * k < end
  BY <1>2, <1>3, <1>5
<1>7. Shown(tokens, tp) = Shown(tokens, tp - 2) \cup {tokens[tp - 1].span}
  BY <1>1, <1>5, <1>6, TokenKinds
<1>8. Holds(tp) <=> Holds(tp - 2) /\ tokens[tp - 1].span \in defs
  BY <1>7 DEF Holds
<1>9. Holds(tp)' <=> Holds(tp)
  BY <1>1 DEF Holds
<1>10. Len(stack') >= 1 /\ (Top' <=> Holds(tp))
  <2>1. CASE ~Top /\ stack' = Append(Drop(1), FALSE)
    <3>1. Drop(1) \in Seq(BOOLEAN) /\ Len(Drop(1)) = Len(stack) - 1
      BY <1>2, <1>3, DropType
    <3>2. Len(stack') = Len(stack) /\ stack'[Len(stack)] = FALSE
      BY <1>2, <1>3, <2>1, <3>1
    <3>3. Top' = FALSE
      BY <3>2 DEF Top
    <3>4. ~Holds(tp)
      BY <1>2, <1>8, <2>1 DEF Conjoining
    <3> QED
      BY <1>3, <3>2, <3>3, <3>4
  <2>2. CASE Top /\ stack' = Append(Drop(2), stack[Len(stack) - 1])
    <3>1. Drop(2) \in Seq(BOOLEAN) /\ Len(Drop(2)) = Len(stack) - 2
      BY <1>2, <1>3, DropType
    <3>2. /\ Len(stack') = Len(stack) - 1
          /\ stack'[Len(stack) - 1] = stack[Len(stack) - 1]
      BY <1>2, <1>3, <2>2, <3>1
    <3>3. Top' = stack[Len(stack) - 1]
      BY <3>2 DEF Top
    <3>4. stack[Len(stack) - 1] <=> Holds(tp)
      BY <1>2, <1>8, <2>2 DEF Conjoining
    <3> QED
      BY <1>2, <1>3, <3>2, <3>3, <3>4
  <2> QED
    BY <1>1, <2>1, <2>2 DEF And
<1>11. Between'
  BY <1>1, <1>3, <1>4, <1>5, <1>9, <1>10 DEF Between
<1>12. Whole'
  BY <1>1, <1>2 DEF Whole
<1> QED
  BY <1>4, <1>11, <1>12 DEF Evaluated, ValueRight, FailsOnlyWhenFull

\* The call returns behind the last token, with what its names say together.
LEMMA ReturnValue ==
  ASSUME ValueInv, WellFormed(expr), Return
  PROVE  Evaluated' /\ ValueRight' /\ FailsOnlyWhenFull'
<1>1. /\ phase = "eval" /\ tp >= end /\ pending = 0
      /\ value' = Top /\ phase' = "idle"
      /\ UNCHANGED <<defs, expr, p, tokens, tp, end, pending>>
  BY DEF Return
<1>2. /\ tp \in Nat /\ end \in Nat /\ Whole /\ Between
      /\ \E q \in Nat : end = 3 * q + 2
  BY <1>1, EvalState DEF Whole
<1>3. tp = end /\ (Top <=> Holds(tp))
  BY <1>1, <1>2 DEF Between
<1>4. Shown(tokens, end) = Read(expr, Len(expr))
  BY <1>2 DEF Whole
<1>5. Within(expr, Len(expr)) = Operands(expr)
  <2>1. expr \in Seq(Symbols)
    BY DEF ValueInv, ConditionInv, TypeOK
  <2> QED
    BY <2>1 DEF Within, Operands
<1>6. Holds(tp) <=> Value(expr)
  BY <1>3, <1>4, <1>5 DEF Holds, Read, Value
<1>7. Value(expr)' <=> Value(expr)
  BY <1>1 DEF Value
<1> QED
  BY <1>1, <1>3, <1>6, <1>7 DEF Evaluated, ValueRight, FailsOnlyWhenFull

\* Only a full stack ends the evaluation of a well-formed condition.
LEMMA EvaluatesOn ==
  ASSUME ValueInv, WellFormed(expr)
  PROVE  /\ ~EvalOutside /\ ~EvalNullName /\ ~AndFails /\ ~ReturnFails
         /\ EvalFails => Len(stack) = MaxStack
<1>1. ~EvalOutside
  <2> SUFFICES ASSUME EvalOutside PROVE FALSE
    OBVIOUS
  <2>1. /\ phase = "eval" /\ (tp < end \/ pending > 0)
        /\ \/ tp >= MaxTokens
           \/ tp = MaxTokens - 1 /\ tokens[tp].type = "DEFINED"
    BY DEF EvalOutside, Evaluating
  <2>2. MaxTokens \in Nat /\ tp \in 0..MaxTokens /\ end \in 0..MaxTokens
    BY <2>1, EvalState
  <2>3. tp + 1 < MaxTokens \/ (tokens[tp].type = "AND" /\ tp + 1 < end)
    BY <2>1, EvalAt
  <2> QED
    BY <2>1, <2>2, <2>3
<1>2. ~EvalNullName
  <2> SUFFICES ASSUME EvalNullName PROVE FALSE
    OBVIOUS
  <2>1. phase = "eval" /\ (tp < end \/ pending > 0) /\ tokens[tp].type = "DEFINED"
    BY DEF EvalNullName, Evaluating
  <2>2. tokens[tp + 1] = Zeroed
    BY DEF EvalNullName
  <2>3. tokens[tp + 1].type = "IDENTIFIER"
    BY <2>1, EvalAt
  <2>4. Zeroed.type = "UNKNOWN"
    BY DEF Zeroed, TokenOf
  <2> QED
    BY <2>2, <2>3, <2>4
<1>3. ~AndFails
  <2> SUFFICES ASSUME AndFails PROVE FALSE
    OBVIOUS
  <2>1. phase = "and" /\ Len(stack) = 1
    BY DEF AndFails, Abort
  <2>2. Len(stack) >= 2
    BY <2>1, EvalState DEF Conjoining
  <2> QED
    BY <2>1, <2>2
<1>4. ~ReturnFails
  <2> SUFFICES ASSUME ReturnFails PROVE FALSE
    OBVIOUS
  <2>1. phase = "eval" /\ tp >= end /\ pending = 0 /\ stack = <<>>
    BY DEF ReturnFails, Abort
  <2>2. /\ tp \in Nat /\ end \in Nat /\ Between
        /\ \E q \in Nat : end = 3 * q + 2
    BY <2>1, EvalState DEF Whole
  <2>3. Len(stack) >= 1
    BY <2>1, <2>2 DEF Between
  <2> QED
    BY <2>1, <2>3
<1>5. ASSUME EvalFails PROVE Len(stack) = MaxStack
  <2>1. CASE Evaluating("DEFINED") /\ tp + 1 < MaxTokens /\ Len(stack) = MaxStack
    BY <2>1
  <2>2. CASE Evaluating("IDENTIFIER") \/ Evaluating("PLUS") \/ Evaluating("UNKNOWN")
    <3>1. /\ phase = "eval" /\ (tp < end \/ pending > 0)
          /\ tokens[tp].type \in {"IDENTIFIER", "PLUS", "UNKNOWN"}
      BY <2>2 DEF Evaluating
    <3>2. tokens[tp].type \in {"DEFINED", "AND"}
      BY <3>1, EvalAt
    <3> QED
      BY <3>1, <3>2
  <2> QED
    BY <1>5, <2>1, <2>2 DEF EvalFails, Abort
<1> QED
  BY <1>1, <1>2, <1>3, <1>4, <1>5

-----------------------------------------------------------------------------
(***************************************************************************)
(* The values                                                              *)
(***************************************************************************)

\* A call begins, whatever is left on the stack.
LEMMA CallValue ==
  ASSUME ValueInv, Call
  PROVE  Evaluated' /\ ValueRight' /\ FailsOnlyWhenFull'
<1>1. p' = 0 /\ tp' = 0 /\ phase' = "scan" /\ expr' \in Seq(Symbols)
  BY ConditionAssumption DEF Call
<1>2. Nth(expr', 0) = 0 /\ Within(expr', 0) = {}
  BY <1>1, NthZero
<1>3. Read(expr', 0) = {}
  BY <1>2 DEF Read
<1>4. Shown(tokens', 0) = {} /\ Shape(tokens', 0)
  BY ShownNone
<1>5. Nth(expr', p') = 4 * 0 + 0 /\ tp' = 3 * 0 + 0
  BY <1>1, <1>2
<1>6. \E q \in Nat, s \in 0..2 : Nth(expr', p') = 4 * q + s /\ tp' = 3 * q + s
  <2>1. 0 \in Nat /\ 0 \in 0..2
    OBVIOUS
  <2> QED
    BY <1>5, <2>1
<1>7. Shape(tokens', tp') /\ Shown(tokens', tp') = Read(expr', p')
  BY <1>1, <1>3, <1>4
<1>8. Scanned'
  BY <1>6, <1>7, Zenon DEF Scanned
<1> QED
  BY <1>1, <1>8 DEF Evaluated, ValueRight, FailsOnlyWhenFull

\* A condition that is not well formed promises nothing before the next call.
LEMMA MalformedValue ==
  ASSUME ~WellFormed(expr), Step
  PROVE  Evaluated' /\ ValueRight' /\ FailsOnlyWhenFull'
<1>1. expr' = expr
  BY DEF Step, ScanName, ScanPlus, ScanAnd, ScanSpace, ScanFails, ScanDone, Put, Abort, EvalDefined,
         EvalAnd, EvalOutside, EvalNullName, EvalFails, And, AndFails, Return, ReturnFails
<1> QED
  BY <1>1 DEF Evaluated, ValueRight, FailsOnlyWhenFull

\* Every turn of a call.
LEMMA StepValue ==
  ASSUME ValueInv, WellFormed(expr), Step
  PROVE  Evaluated' /\ ValueRight' /\ FailsOnlyWhenFull'
<1>1. CASE EvalFails
  <2>1. phase' = "abort" /\ UNCHANGED stack
    BY <1>1 DEF EvalFails, Abort
  <2>2. Len(stack') = MaxStack
    BY <1>1, <2>1, EvaluatesOn
  <2> QED
    BY <2>1, <2>2 DEF Evaluated, ValueRight, FailsOnlyWhenFull
<1> QED
  BY <1>1, ScanValue, ScansOn, SpaceValue, DoneValue, EvalDefinedValue, EvalAndValue, AndValue,
     ReturnValue, EvaluatesOn DEF Step

\* The initial states.
LEMMA ValueInvInit ==
  ASSUME Init
  PROVE  ValueInv
<1>1. expr = <<>> /\ phase = "idle" /\ <<>> \in Seq(Symbols) /\ Len(<<>>) = 0
  BY DEF Init
<1>2. ~WellFormed(expr)
  <2>1. Nth(<<>>, 0) = 0
    BY <1>1, NthZero
  <2> QED
    BY <1>1, <2>1 DEF WellFormed
<1> QED
  BY <1>1, <1>2, InitInv DEF ValueInv, Evaluated, ValueRight, FailsOnlyWhenFull

\* Every step.
LEMMA ValueInvNext ==
  ASSUME ValueInv, [Next]_vars
  PROVE  ValueInv'
<1>1. ConditionInv'
  BY NextInv DEF ValueInv
<1>2. CASE UNCHANGED vars
  <2>1. Evaluated' /\ ValueRight' /\ FailsOnlyWhenFull'
    BY <1>2 DEF vars, ValueInv, Evaluated, Scanned, Whole, Between, Conjoining, Holds, Top,
                ValueRight, Value, FailsOnlyWhenFull
  <2> QED
    BY <1>1, <2>1 DEF ValueInv
<1>3. CASE Call
  BY <1>1, <1>3, CallValue DEF ValueInv
<1>4. CASE Step
  BY <1>1, <1>4, MalformedValue, StepValue DEF ValueInv
<1> QED
  BY <1>2, <1>3, <1>4 DEF Next

\* The inductive invariant holds.
LEMMA ValueInvHolds == Spec => []ValueInv
BY ValueInvInit, ValueInvNext, PTL DEF Spec

\* A well-formed condition of any number of names has the value of its text,
\* in whatever state the conditions before it, malformed ones and ones with
\* surplus operands included, have left the tokens and the stack.
THEOREM ConditionValueRight == Spec => []ValueRight
BY ValueInvHolds, PTL DEF ValueInv

\* A well-formed condition ends the program only when its tokens are too many
\* for the array or the stack is full: it reads no token of another condition,
\* and never pops an entry that is not there.
THEOREM ConditionFailsOnlyWhenFull == Spec => []FailsOnlyWhenFull
BY ValueInvHolds, PTL DEF ValueInv
=============================================================================
