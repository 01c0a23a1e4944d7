------------------------------ MODULE MCLexer ------------------------------
(* Every source of up to three symbols of the whole alphabet, and longer     *)
(* ones of the symbols that comments, operators, strings and directives are  *)
(* cut by.                                                                   *)
EXTENDS Lexer

CONSTANTS AnyLength, CommentLength, OperatorLength, DirectiveLength

MCWords == {"x", "if", "include", "define"}
MCKeywords == {"if"}
MCDigits == {"1"}
MCAlphabet == {" ", LF, "#", "\"", "@", ";", "<", ">", "-", "/", "*", "."} \cup MCWords \cup MCDigits

SourcesOver(symbols, length) == UNION {[1..n -> symbols] : n \in 0..length}

\* A word of several letters is one symbol here, so none stands where the lexer
\* takes a word apart: tokenize_include drops one letter behind its spaces, and
\* a line comment at the end of the source loses its last one.
CutsWord(s) ==
  \E i, j \in DOMAIN s :
    /\ i + 1 < j
    /\ s[i] = "include" /\ s[j] \in MCWords \ {"x"}
    /\ \A k \in (i + 1)..(j - 1) : s[k] \in Spaces

EndsInComment(s) ==
  /\ s # <<>> /\ s[Len(s)] \in MCWords \ {"x"}
  /\ \E i \in 1..(Len(s) - 1) : s[i] = "/" /\ s[i + 1] = "/"

MCSources == {s \in
  SourcesOver(MCAlphabet, AnyLength)
    \cup SourcesOver({"/", "*", "x", LF}, CommentLength)
    \cup SourcesOver({"-", ">", ".", "if", LF}, OperatorLength)
    \cup {<<"#">> \o s : s \in SourcesOver({"include", "define", "<", "\"", " ", LF}, DirectiveLength)} :
  ~CutsWord(s) /\ ~EndsInComment(s)}
=============================================================================
