------------------------------ MODULE MCDriver ------------------------------
(* Two cases whose names are the same up to the first dot, one that is       *)
(* expected to show what the first shows, one whose text is too long for     *)
(* test, one that the renderer asserts on, one that tokenize refuses, one    *)
(* that parse asserts on, and the directory prep.                            *)
EXTENDS Driver, TLC

A == <<"a", ".", "c">>
AB == <<"a", ".", "b", ".", "c">>
Same == <<"s", ".", "c">>
Large == <<"l", ".", "c">>
Odd == <<"o", ".", "c">>
Wrong == <<"w", ".", "c">>
Failing == <<"f", ".", "c">>

MCEntries == {A, AB, Same, Large, Odd, Wrong, Failing, Prep, <<"a", ".", "html">>}
MCVerdict ==
  (A :> "shown") @@ (AB :> "shown") @@ (Same :> "shown") @@ (Large :> "shown")
    @@ (Odd :> "gen_html") @@ (Wrong :> "tokenize") @@ (Failing :> "parse")
MCText ==
  (A :> "one") @@ (AB :> "two") @@ (Same :> "one") @@ (Large :> "three")
    @@ (Odd :> "four") @@ (Wrong :> "none") @@ (Failing :> "none")
MCLong == {Large}
MCExpected ==
  (ExpectedName(A) :> "one") @@ (ExpectedName(AB) :> "two") @@ (ExpectedName(Same) :> "one")
    @@ (ExpectedName(Large) :> "three")
=============================================================================
