------------------------------- MODULE Lexer -------------------------------
(***************************************************************************)
(* tokenize of lib/lexer.c: one file cut into tokens.                      *)
(*                                                                         *)
(* A source is a sequence of symbols, one per character, except that a run *)
(* of letters the lexer tells apart only as a whole (a keyword, the name   *)
(* of a directive, a plain word) is one symbol.  Position p of the source  *)
(* is the symbol p symbols after its first one, as the pointers of the     *)
(* code are, and columns count symbols.                                    *)
(*                                                                         *)
(* Each iteration of the main loop is one step; so is each iteration of    *)
(* the search for the end of a comment (read_until_str_inc).               *)
(***************************************************************************)
EXTENDS Integers, Sequences, FiniteSets

CONSTANTS
  Sources,   \* the files tokenize is called with
  Alphabet,  \* the symbols they are made of
  Words,     \* the symbols that stand for runs of letters and underscores
  Keywords,  \* lang_keywords
  Digits     \* the decimal digits

VARIABLES
  src,      \* lex->srcspan
  pos,      \* lex->pos
  eof,      \* lex->eof
  out,      \* what insert_token keeps: the tokens, current_line, current_column
  mode,     \* where tokenize is: "lexing", "comment", "done" or "error"
  comment,  \* where the comment being read starts
  err       \* the LexerError

vars == <<src, pos, eof, out, mode, comment, err>>

LF == "LF"
Quote == "\""
Spaces == {" ", LF}
Word == Words \cup Digits      \* isid
NonSpace == Alphabet \ Spaces
NUL == "NUL"                   \* what read returns at the end, and what the pool holds around a buffer
NoPtr == -1                    \* a NULL pointer of a span

ASSUME LexerAssumption ==
  /\ Sources \subseteq Seq(Alphabet)
  /\ Spaces \cup Words \cup Digits \subseteq Alphabet
  /\ NUL \notin Alphabet
  /\ Keywords \subseteq Words
  /\ Words \cap (Spaces \cup Digits \cup {"#", Quote}) = {}
  /\ Digits \cap (Spaces \cup {"#", Quote}) = {}

\* simple_token_defs: what a token is spelt as stands for its type.
SimpleTokens ==
  {<<"(">>, <<")">>, <<",">>, <<"&">>, <<"{">>, <<"}">>, <<"[">>, <<"]">>, <<":">>, <<";">>,
   <<"-">>, <<"-", "=">>, <<"-", ">">>, <<"-", "-">>, <<"/">>, <<"/", "/">>, <<"/", "*">>,
   <<"!">>, <<"!", "=">>, <<"=">>, <<"=", "=">>, <<"<">>, <<"<", "=">>, <<">">>, <<">", "=">>,
   <<"*">>, <<".">>, <<".", ".", ".">>}

LineComment == <<"/", "/">>
MultiComment == <<"/", "*">>
MaxTokenLen == 3

Len0 == Len(src)
At(p) == IF p \in 0..(Len0 - 1) THEN src[p + 1] ELSE NUL
Text(start, end) == [i \in 1..(end - start) |-> At(start + i - 1)]

Init ==
  /\ src \in Sources
  /\ pos = 0
  /\ eof = FALSE
  /\ out = [tokens |-> <<>>, line |-> 1, column |-> 1]
  /\ mode = "lexing"
  /\ comment = NoPtr
  /\ err = [token |-> NUL, line |-> 0, column |-> 0]

-----------------------------------------------------------------------------
(***************************************************************************)
(* insert_token: the token gets the current position, which then moves     *)
(* over its text.  A span whose end is NULL holds no text.                 *)
(***************************************************************************)
Breaks(start, end) == {q \in start..(end - 1) : At(q) = LF}

\* The columns up to p on its own line, from the one at first on.
OnLine(first, p) == {q \in first..p : Breaks(q, p) = {}}

LineAfter(line, start, end) == line + Cardinality(Breaks(start, end))

\* Slip: the column behind a line break counted from zero.
ColumnAfterFromZero(column, start, end) ==
  IF Breaks(start, end) # {} THEN Cardinality(OnLine(start, end)) - 1
  ELSE IF start <= end THEN column + (end - start)
  ELSE column

ColumnAfter(column, start, end) ==
  IF Breaks(start, end) # {} THEN Cardinality(OnLine(start, end))
  ELSE IF start <= end THEN column + (end - start)
  ELSE column

Token(type, start, end, line, column) ==
  [type |-> type, start |-> start, end |-> end, line |-> line, column |-> column]

InsertToken(o, type, start, end) ==
  [tokens |-> Append(o.tokens, Token(type, start, end, o.line, o.column)),
   line |-> LineAfter(o.line, start, end),
   column |-> ColumnAfter(o.column, start, end)]

\* Where the longest run of symbols of S from p on ends: at most one position.
Run(p, S) ==
  {q \in p..Len0 : /\ \A r \in p..(q - 1) : At(r) \in S
                   /\ q = Len0 \/ At(q) \notin S}

\* The position behind the closing symbol at q, when there is one.
Closed(q) == IF q < Len0 THEN q + 1 ELSE Len0

\* Slips: the symbol that stopped the reading taken too, and given back twice.
ReadPast(q) == pos' = Closed(q) /\ eof' = (q = Len0)
ReadBack(q) == pos' = (IF q < Len0 THEN q - 1 ELSE q) /\ eof' = (q = Len0)

\* The reading functions meet the end of the source when they stop there.
ReadTo(q) == pos' = q /\ eof' = (q = Len0)

Lexing(symbols) ==
  /\ mode = "lexing"
  /\ ~eof
  /\ pos < Len0
  /\ At(pos) \in symbols
  /\ UNCHANGED <<src, comment, err>>

\* Directives without a tokenizer of their own, and unknown ones: their word
\* is read and nothing is inserted.
DropDirective ==
  /\ Lexing({"#"})
  /\ \E word \in Run(pos + 1, NonSpace) :
       /\ Text(pos + 1, word) \notin {<<"include">>, <<"define">>}
       /\ ReadTo(word)
  /\ UNCHANGED <<out, mode>>

\* A directive that is kept, and the spaces behind it.
Directive(type, word, spaces) ==
  InsertToken(InsertToken(out, <<type>>, pos, word), <<"WHITESPACE">>, word, spaces)

\* tokenize_include: what follows the spaces is a file in brackets, a path in
\* quotes, or one symbol that is read and dropped.
IncludeDirective ==
  /\ Lexing({"#"})
  /\ \E word \in Run(pos + 1, NonSpace) : \E name \in Run(word, Spaces) :
       /\ Text(pos + 1, word) = <<"include">>
       /\ LET named == Directive("INCLUDE", word, name) IN
          \/ /\ At(name) = "<"
             /\ \E close \in Run(name, Alphabet \ {">"}) :
                  /\ out' = InsertToken(named, <<"HEADER_NAME">>, name, Closed(close))
                  /\ pos' = Closed(close) /\ eof' = (close = Len0)
          \/ /\ At(name) = Quote
             /\ \E close \in Run(name + 1, Alphabet \ {Quote}) :
                  /\ out' = InsertToken(named, <<"INCLUDE_PATH">>, name, Closed(close))
                  /\ pos' = Closed(close) /\ eof' = (close = Len0)
          \/ /\ At(name) \notin {"<", Quote}
             /\ out' = named
             /\ pos' = Closed(name) /\ eof' = (name = Len0)
  /\ UNCHANGED mode

\* tokenize_define: the name is everything up to the next space.
DefineDirective ==
  /\ Lexing({"#"})
  /\ \E word \in Run(pos + 1, NonSpace) : \E name \in Run(word, Spaces) :
     \E end \in Run(name, NonSpace) :
       /\ Text(pos + 1, word) = <<"define">>
       /\ out' = InsertToken(Directive("DEFINE", word, name), <<"IDENTIFIER">>, name, end)
       /\ ReadTo(end)
  /\ UNCHANGED mode

StringLiteral ==
  /\ Lexing({Quote})
  /\ \E close \in Run(pos + 1, Alphabet \ {Quote}) :
       /\ out' = InsertToken(out, <<"S_CHAR_SEQ">>, pos, Closed(close))
       /\ pos' = Closed(close) /\ eof' = (close = Len0)
  /\ UNCHANGED mode

Whitespace ==
  /\ Lexing(Spaces)
  /\ \E end \in Run(pos, Spaces) :
       /\ out' = InsertToken(out, <<"WHITESPACE">>, pos, end)
       /\ ReadTo(end)
  /\ UNCHANGED mode

NumLiteral ==
  /\ Lexing(Digits)
  /\ \E end \in Run(pos, Digits) :
       /\ out' = InsertToken(out, <<"NUM_LITERAL">>, pos, end)
       /\ ReadTo(end)
  /\ UNCHANGED mode

IsKeyword(text) == text \in {<<k>> : k \in Keywords}

\* Slip: the run ends at a digit.
WordTokenNoDigits ==
  /\ Lexing(Words)
  /\ \E end \in Run(pos, Words) :
       /\ out' = InsertToken(out, IF IsKeyword(Text(pos, end)) THEN <<"KEYWORD">> ELSE <<"IDENTIFIER">>,
                             pos, end)
       /\ ReadTo(end)
  /\ UNCHANGED mode

WordToken ==
  /\ Lexing(Words)
  /\ \E end \in Run(pos, Word) :
       /\ out' = InsertToken(out, IF IsKeyword(Text(pos, end)) THEN <<"KEYWORD">> ELSE <<"IDENTIFIER">>,
                             pos, end)
       /\ ReadTo(end)
  /\ UNCHANGED mode

-----------------------------------------------------------------------------
(***************************************************************************)
(* The simple tokens.  Texts of one, two and three symbols are looked up   *)
(* while they fit in the source, and the longest match counts.  The end of *)
(* the span is the end of the last text looked up minus the length left    *)
(* over, which is right only where three texts fit.                        *)
(***************************************************************************)
TextsTried(p) == IF p + MaxTokenLen <= Len0 THEN MaxTokenLen ELSE Len0 - p

Matches(p) == {l \in 1..TextsTried(p) : Text(p, p + l) \in SimpleTokens}

\* Slip: the first match counts.
Shortest(p) == {l \in Matches(p) : \A m \in Matches(p) : l <= m}

Longest(p) == {l \in Matches(p) : \A m \in Matches(p) : m <= l}

SpanEnd(p, l) ==
  LET end == p + l + TextsTried(p) - MaxTokenLen IN IF end < p + 1 THEN p + 1 ELSE end

\* The token of length l at p, and what its type makes tokenize read next.
InsertSimple(p, l) ==
  LET type == Text(p, p + l)
      end == SpanEnd(p, l)
  IN
  \/ /\ type \notin {LineComment, MultiComment}
     /\ out' = InsertToken(out, type, p, end)
     /\ pos' = end
     /\ UNCHANGED <<mode, comment>>
  \/ /\ type = MultiComment
     /\ pos' = end
     /\ mode' = "comment"
     /\ comment' = p
     /\ UNCHANGED out

\* read_until_char: the newline is given back, and so is the last symbol of a
\* source that ends in the comment.
\* Slip: the newline is not given back.
InsertLineCommentLF(p, l) ==
  /\ Text(p, p + l) = LineComment
  /\ \E newline \in Run(SpanEnd(p, l), Alphabet \ {LF}) :
       LET end == IF newline < Len0 THEN newline ELSE Len0 - 1 IN
       /\ out' = InsertToken(out, LineComment, p, end)
       /\ pos' = Closed(newline)
       /\ eof' = (newline = Len0)
  /\ UNCHANGED <<mode, comment>>

InsertLineComment(p, l) ==
  /\ Text(p, p + l) = LineComment
  /\ \E newline \in Run(SpanEnd(p, l), Alphabet \ {LF}) :
       LET end == IF newline < Len0 THEN newline ELSE Len0 - 1 IN
       /\ out' = InsertToken(out, LineComment, p, end)
       /\ pos' = end
       /\ eof' = (newline = Len0)
  /\ UNCHANGED <<mode, comment>>

LexError(token) ==
  /\ err' = [token |-> token, line |-> out.line, column |-> out.column]
  /\ mode' = "error"
  /\ UNCHANGED <<out, comment>>

IsSimple(symbol) == symbol \notin Spaces \cup Words \cup Digits \cup {"#", Quote}

SimpleToken ==
  /\ mode = "lexing" /\ ~eof /\ pos < Len0
  /\ IsSimple(At(pos))
  /\ \/ \E l \in Longest(pos) : InsertSimple(pos, l) /\ UNCHANGED <<eof, err>>
     \/ \E l \in Longest(pos) : InsertLineComment(pos, l) /\ UNCHANGED err
     \/ /\ Longest(pos) = {}
        /\ LexError(At(pos))
        /\ pos' = pos + 1
        /\ UNCHANGED eof
  /\ UNCHANGED src

(***************************************************************************)
(* A token that stops at the end of the source without having read past it *)
(* leaves eof unset.  The next read meets the end and the branch for       *)
(* simple tokens steps back onto the last symbol.                          *)
(***************************************************************************)
LexAgain ==
  /\ mode = "lexing" /\ ~eof /\ pos >= Len0
  /\ eof' = TRUE
  /\ \/ \E l \in Longest(pos - 1) : InsertSimple(pos - 1, l) /\ UNCHANGED err
     \/ /\ Longest(pos - 1) = {}
        /\ LexError(NUL)
        /\ pos' = pos
  /\ UNCHANGED src

(***************************************************************************)
(* read_until_str_inc(lex, "*/"): the inner loop has gone past a star that *)
(* nothing closes before the outer one moves on, by one more symbol.       *)
(***************************************************************************)
ClosesAt(p) == At(p) = "*" /\ At(p + 1) = "/"

\* Slip: the search is not bounded by the end of the source.
CommentSkipUnbounded ==
  /\ mode = "comment"
  /\ ~ClosesAt(pos)
  /\ pos' = IF At(pos) = "*" THEN pos + 2 ELSE pos + 1
  /\ UNCHANGED <<src, eof, out, mode, comment, err>>

\* Slip: the search waits at a star that closes nothing.
CommentSkipStuck ==
  /\ mode = "comment" /\ pos < Len0
  /\ ~ClosesAt(pos)
  /\ pos' = IF At(pos) = "*" THEN pos ELSE pos + 1
  /\ UNCHANGED <<src, eof, out, mode, comment, err>>

CommentSkip ==
  /\ mode = "comment" /\ pos < Len0
  /\ ~ClosesAt(pos)
  /\ pos' = IF At(pos) = "*" THEN pos + 2 ELSE pos + 1
  /\ UNCHANGED <<src, eof, out, mode, comment, err>>

CommentEnd ==
  /\ mode = "comment"
  /\ \/ /\ pos < Len0 /\ ClosesAt(pos)
        /\ out' = InsertToken(out, MultiComment, comment, pos + 2)
        /\ pos' = pos + 2
     \/ /\ pos >= Len0
        /\ out' = InsertToken(out, MultiComment, comment, NoPtr)
        /\ UNCHANGED pos
  /\ mode' = "lexing"
  /\ UNCHANGED <<src, eof, comment, err>>

InsertStub(o) == InsertToken(o, <<"STUB">>, NoPtr, NoPtr)

\* Slip: one stub fewer.
FinishThree ==
  /\ mode = "lexing" /\ eof
  /\ out' = InsertStub(InsertStub(InsertStub(out)))
  /\ mode' = "done"
  /\ UNCHANGED <<src, pos, eof, comment, err>>

Finish ==
  /\ mode = "lexing" /\ eof
  /\ out' = InsertStub(InsertStub(InsertStub(InsertStub(out))))
  /\ mode' = "done"
  /\ UNCHANGED <<src, pos, eof, comment, err>>

Next ==
  \/ DropDirective \/ IncludeDirective \/ DefineDirective
  \/ StringLiteral \/ Whitespace \/ NumLiteral \/ WordToken
  \/ SimpleToken \/ LexAgain \/ CommentSkip \/ CommentEnd
  \/ Finish

\* tokenize runs alone and to its end.
Spec == Init /\ [][Next]_vars /\ WF_vars(Next)

-----------------------------------------------------------------------------
(***************************************************************************)
(* Properties                                                              *)
(***************************************************************************)

\* The types of the tokens that are not spelt one way.
LongTypes ==
  {"INCLUDE", "DEFINE", "WHITESPACE", "HEADER_NAME", "INCLUDE_PATH", "IDENTIFIER",
   "S_CHAR_SEQ", "NUM_LITERAL", "KEYWORD", "STUB"}

TokenTypes == SimpleTokens \cup {<<type>> : type \in LongTypes}

Tokens == [type : TokenTypes, start : Int, end : Int, line : Int, column : Int]
LexErrors == [token : Alphabet \cup {NUL}, line : Int, column : Int]

\* The reading position leaves the source by one symbol at most (a star that
\* ends a comment nothing closes), and only steps back from its end.
TypeOK ==
  /\ src \in Seq(Alphabet)
  /\ pos \in 0..(Len0 + 1)
  /\ eof \in BOOLEAN
  /\ out.tokens \in Seq(Tokens) /\ out.line \in Nat \ {0} /\ out.column \in Nat \ {0}
  /\ mode \in {"lexing", "comment", "done", "error"}
  /\ comment \in {NoPtr} \cup 0..(Len0 - 1)
  /\ err \in LexErrors

\* Tokens with a text: not the stubs, not a comment that nothing closes.
HasText(t) == t.end # NoPtr

\* A comment that nothing closes loses the text behind its start.
LostComment == \E i \in DOMAIN out.tokens : out.tokens[i].type = MultiComment /\ ~HasText(out.tokens[i])

\* The line and the column of position p of the source.
LineAt(p) == LineAfter(1, 0, p)
ColumnAt(p) == Cardinality(OnLine(0, p))

\* insert_token's running position: the line of every token the renderer
\* numbers lines by is the line its text starts on, whatever directive text
\* tokenize dropped before it.
LinesRight ==
  ~LostComment => \A i \in DOMAIN out.tokens :
    HasText(out.tokens[i]) => out.tokens[i].line = LineAt(out.tokens[i].start)

\* The tokens up to the i-th cover the source from its start, each from where
\* the one before it ends.
Contiguous(tokens, i) ==
  /\ tokens[1].start = 0
  /\ \A j \in 1..(i - 1) : tokens[j].end \in Nat /\ tokens[j + 1].start = tokens[j].end

\* As long as no text is lost, the column insert_token counts is the column
\* the token has in the file.
ColumnsRight ==
  \A i \in DOMAIN out.tokens :
    Contiguous(out.tokens, i) /\ HasText(out.tokens[i]) =>
      /\ out.tokens[i].line = LineAt(out.tokens[i].start)
      /\ out.tokens[i].column = ColumnAt(out.tokens[i].start)

\* The text between the i-th token and the one before it.  What is behind the start
\* of a comment that nothing closes belongs to no token, and the first stub stands
\* at the end of the source.
IsStub(t) == t.type = <<"STUB">>
Behind(i) ==
  IF i = 1 THEN 0
  ELSE IF HasText(out.tokens[i - 1]) THEN out.tokens[i - 1].end ELSE out.tokens[i - 1].start
Ahead(i) == IF IsStub(out.tokens[i]) THEN Len0 ELSE out.tokens[i].start
Gap(i) == Behind(i)..(Ahead(i) - 1)

\* The i-th token stands behind a comment that is not closed, or is the stub behind
\* a line comment which the end of the source ends: there read_until_char gives back
\* the last symbol of the comment as if it were the newline.
BehindLostComment(i) == i > 1 /\ out.tokens[i - 1].type = MultiComment /\ ~HasText(out.tokens[i - 1])
BehindCutComment(i) == i > 1 /\ out.tokens[i - 1].type = LineComment /\ IsStub(out.tokens[i])

\* Every symbol of the source is in a token, but what one of three reasons tells
\* of: a directive that is not kept, or what follows "#include" and is no name of a
\* file, neither of which holds whitespace; the last symbol of a file that ends in a
\* line comment; a comment that is not closed.
LossesExplained ==
  \A i \in DOMAIN out.tokens :
    (i = 1 \/ ~IsStub(out.tokens[i - 1])) /\ Gap(i) # {} =>
      \/ /\ \A p \in Gap(i) : At(p) \notin Spaces
         /\ At(Behind(i)) = "#" \/ (i > 2 /\ out.tokens[i - 2].type = <<"INCLUDE">>)
      \/ BehindCutComment(i) /\ Gap(i) = {Len0 - 1}
      \/ BehindLostComment(i)

\* The lexer steps back at the end of the source only: a token starts before
\* the end of the one it follows only when it is the last symbol, again.
OverlapsOnlyAtEnd ==
  \A i \in 2..Len(out.tokens) :
    HasText(out.tokens[i]) /\ HasText(out.tokens[i - 1]) /\ out.tokens[i].start < out.tokens[i - 1].end =>
      out.tokens[i].start = Len0 - 1 /\ eof

\* A file that ends in a newline and has no "#" and no comment with a star is
\* kept to the last symbol: its tokens cover it, in order, with four stubs
\* behind them.
PlainSource ==
  /\ Len0 > 0 /\ At(Len0 - 1) = LF
  /\ \A p \in 0..(Len0 - 1) : At(p) # "#" /\ Text(p, p + 2) # MultiComment

PlainSourceKept ==
  mode = "done" /\ PlainSource =>
    LET n == Len(out.tokens) - 4 IN
    /\ n > 0
    /\ Contiguous(out.tokens, n)
    /\ out.tokens[n].end = Len0
    /\ \A i \in (n + 1)..(n + 4) : out.tokens[i].type = <<"STUB">>

\* Away from the end of the source an operator is the longest one that is
\* spelt there, and its text is its spelling: a--b is never a, -, -, b.
OperatorsWhole ==
  \A i \in DOMAIN out.tokens :
    LET t == out.tokens[i] IN
    t.type \in SimpleTokens \ {LineComment, MultiComment} /\ t.start + MaxTokenLen <= Len0 =>
      /\ Text(t.start, t.end) = t.type
      /\ \A longer \in (t.end + 1)..(t.start + MaxTokenLen) : Text(t.start, longer) \notin SimpleTokens

\* A word ends where its letters and digits do and a number where its digits do, and
\* a word is a keyword when it is spelt like one, so that neither "ifx" nor "if1" is
\* the keyword "if"; only a name that #define gives is read for what it is.  What is
\* in front of a word is another matter: a number ends at the first letter, so that
\* 0x1F is the number 0 and the word x1F.
WordsWhole ==
  \A i \in DOMAIN out.tokens : LET t == out.tokens[i] IN
    /\ t.type \in {<<"KEYWORD">>, <<"IDENTIFIER">>} => At(t.end) \notin Word
    /\ t.type = <<"NUM_LITERAL">> => At(t.end) \notin Digits
    /\ t.type = <<"KEYWORD">> => IsKeyword(Text(t.start, t.end))
    /\ t.type = <<"IDENTIFIER">> /\ IsKeyword(Text(t.start, t.end)) =>
         i > 2 /\ out.tokens[i - 2].type = <<"DEFINE">>

\* tokenize ends: with all its tokens or with an error.
Terminates == <>(mode \in {"done", "error"})

\* lexer.c:234 reads a comment until the first "*/" behind its start.
CommentsEndAtFirstClose ==
  \A i \in DOMAIN out.tokens :
    LET t == out.tokens[i] IN
    t.type = MultiComment =>
      \A p \in (t.start + 2)..(Len0 - 2) :
        ClosesAt(p) => HasText(t) /\ t.end <= p + 2
=============================================================================
