---------------------------- MODULE MCCondition ----------------------------
(* Two names; well-formed conditions of one and two names, and malformed     *)
(* ones of every kind the scanner or eval treats differently.  Arrays of five *)
(* tokens and three stack entries are full soon.                             *)
EXTENDS Condition

CONSTANT Malformed  \* whether the files hold malformed conditions

MCNames == {"A", "B"}
One(n) == <<Defined, " ", n>>
Two(m, n) == <<Defined, " ", m, " ", "&", "&", " ", Defined, " ", n>>

MCWellFormed == {One(n) : n \in MCNames} \cup {Two(m, n) : m, n \in MCNames}

MCMalformed ==
  {<<>>, <<"A">>, <<"!">>, <<"+">>, <<Defined>>, <<"&", "&">>,
   <<"&", "A">>,
   <<Defined, " ", "A", "&", "&">>,
   <<"&", "&", Defined, " ", "B">>,
   <<"&", "&", "&", "&", Defined, " ", "A">>,
   <<Defined, " ", "A", " ", Defined, " ", "B">>,
   <<Defined, " ", "A", "&", "&", "&", "&", "&", "&">>,
   <<Defined, " ", "A", " ", Defined, " ", "B", " ", Defined>>}

MCExprs == MCWellFormed \cup (IF Malformed THEN MCMalformed ELSE {})
=============================================================================
