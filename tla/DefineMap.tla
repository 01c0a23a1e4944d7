----------------------------- MODULE DefineMap -----------------------------
(***************************************************************************)
(* What the define table of lib/prep.c promises its callers, the parser    *)
(* and the preprocessor: a map from names to replacements.  A name that    *)
(* was never defined and one that was undefined (set to NULL) look alike.  *)
(***************************************************************************)
CONSTANTS Keys, Values, NULL

VARIABLES
  defs,    \* the replacement of every name
  result   \* what the last prep_define_get returned

mapVars == <<defs, result>>

Init ==
  /\ defs = [key \in Keys |-> NULL]
  /\ result = NULL

Set(key, value) ==
  /\ defs' = [defs EXCEPT ![key] = value]
  /\ UNCHANGED result

Get(key) ==
  /\ result' = defs[key]
  /\ UNCHANGED defs

Next == \E key \in Keys :
  \/ \E value \in Values \cup {NULL} : Set(key, value)
  \/ Get(key)

Spec == Init /\ [][Next]_mapVars
=============================================================================
