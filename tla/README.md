# A TLA+ development of zhaba

zhaba reads a C file and writes an HTML page that shows it with line numbers and
coloured tokens. A second program, `zhaba_expand`, expands the preprocessor
directives of a file. This directory holds TLA+ models of their parts, the TLC
runs that check them, and proofs about them that TLAPS checks.

## 1. Inventory of the system

| part | source | state it keeps | operations | used by |
|---|---|---|---|---|
| Pool | `lib/common.c` | base, bump pointer and size of one arena (statics) | `pool_init`, `pool_alloc_align`, (`pool_close`, called by nothing) | every other part |
| Search and path helpers | `lib/common.c` | none | binary searches, `spancmp`, `path_basename_noext`, `path_join`, `path_withext`, `file_exists` | lexer, parser, driver, preprocessor |
| Lexer | `lib/lexer.c` | position and eof flag; token list, line and column (statics) | `lexer_init`, `tokenize` | driver |
| Parser | `lib/parser.c` | current token, table of defines (statics) | `parser_init`, `parse` | driver |
| HTML renderer | `lib/html_render.c` | none of its own | `gen_html` over the tree | driver |
| HTML writer | `lib/html_writer.c` | stack of 32 open tags, each with pending attributes | open, close, attributes, text | renderer |
| Driver | `lib/lib.c`, `main.c` | pages, style sheets and directories on the disk | `render`, `write_css`, `main` | `main.c`, `test/main.c` |
| Define table | `lib/prep.c` | 32 buckets of linked entries | `prep_define_set`, `prep_define_get` | preprocessor, parser |
| Conditions | `lib/prep.c` | 128 tokens, 64-entry stack, stack top (statics) | `eval_expr` | preprocessor |
| Preprocessor | `lib/prep.c`, `expand.c` | define table, output buffer and what is left of it | `prep_expand` | `expand.c`, `test/main.c` |
| Not built or not called | `lib/utf8.c`, `lib/file_render.c` | | | nothing |
| Test programs | `test/` | the text read last (static), the cases not taken yet | `main`, an HTML reader, `assert_equal` | CMake |

Interaction is by call: the driver passes a file through lexer, parser and renderer in
that order, the renderer writes through the HTML writer, and all of them allocate from
the one pool and never free. Nothing runs concurrently. The pages and style sheets in
the working directory are all that one program leaves to the next. What makes the code
hard is therefore not interleaving but

- **state that outlives a call**: the pool and its bump pointer across files, the
  define table of the parser, the token buffer and the stack of the conditions;
- **protocol**: no allocation before `pool_init`, no attribute after an opening
  tag has been written, tags closed in the order they were opened;
- **limits**: the pool, 32 open tags, 128 condition tokens, 64 stack entries, the
  10 KiB output buffer of `expand.c`;
- **boundaries of the source**: the last token of a file without a newline at its
  end, comments and strings that nothing closes, the empty file;
- **files written in pieces**: a page is emptied before its style sheets are written,
  no write is asked for its result, and a program that asserts or is killed leaves what it
  had written to the next one;
- **termination**: the loops of the lexer, of `eval_expr` and of recursive includes.

What makes each part correct:

- *Pool*: blocks apart, aligned and inside the arena; the program ends only when
  the arena is full, and never writes outside it.
- *Lexer*: tokens cover the file in order and every text that is in none of them has
  a reason; line and column of each token are those of its text; operators are the
  longest possible, words and numbers end where their symbols do; it ends for every file.
- *Define table*: the buckets behave as one map, whatever the hash does.
- *Conditions*: the value is that of the expression, whatever the calls before.
- *HTML writer*: the page is the one an eager writer would have written; tags
  balance; the stack does not overflow.
- *Preprocessor*: exactly the lines of the branches taken are written, within the
  buffer; nested conditionals and includes return to where they were.
- *Parser and renderer*: every token appears on the page once, in file order,
  marked for what it is; the parser moves forward with every turn.
- *Driver*: no page without its style sheets; a case that passes is on the page that
  was compared; a program that ends well has repaired what one before it left; a source
  that is refused leaves the page there is.

## 2. Plan

The modules were written in this order: first what everything allocates from and
writes through, then the parts with the most state, then the two large readers.

| module | models | composed with | state |
|---|---|---|---|
| `Pool` | `lib/common.c`, the starts of the three programs | | done, all properties proved |
| `Lexer` | `tokenize` | | done, all invariants proved |
| `DefineMap`, `DefineTable` | the define table, abstract and as buckets | refinement | done, all proved |
| `Condition` | `eval_expr` | | done, all invariants proved |
| `Markup`, `HtmlWriter` | the page, abstract and as the writer delays it | refinement | done, all proved |
| `Preprocess`, `Expand`, `ExpandLines` | what `prep_expand` is for; `prep_expand` and `expand`; the files they are for | refinement | done, all proved |
| `Parser`, `HtmlRender` | `parse`, and `write_code` over its nodes | `HtmlRender` extends `Parser` | done, `Parser` and `NothingTwice` proved |
| `Paths`, `Driver` | paths; `render`, `write_css`, and the `main`s of zhaba and test with the files they leave | the outcomes of the lexer, the parser, the renderer and the pool as choices | done, all properties proved |

What would come next: `Page`, in which `HtmlRender` writes through `HtmlWriter`, so that
the cells of a page are calls of the writer; `LexedFile`, in which the token lists of
`Lexer` are those of `Parser`, with the directives it drops;
and the bisections of `common.c`, `lexer.c` and `parser.c` as programs of their own.

Theorems left: what marks a page in `HtmlRender` (`PageRight` and `WellFormedIsShown` of
`MCHtmlRender`); section 7 says why they stay with the runs.

## 3. The modules and the code

Throughout, a step is what the code does between two points where its state is
looked at again: a call, or one turn of a main loop. Assertions are part of the
steps: where one fails, the program is in a state it does not leave. Pointers into
an array or a file are positions, and NULL is a position outside it.

**`Pool`.** The three statics of `lib/common.c` are variables of their names.
Addresses are words of `Width` bits and every sum of the code wraps. `StartTest`,
`StartExpand` and `StartZhaba` are the ways the three programs begin: one leaves
when `pool_init` fails, one does not look, one does not call it. `PoolAlloc` is
`pool_alloc_align`: rounding, assertion, bump, and the memset. `Requests` are sizes with
the alignments of their types, up to the largest word: `lib.c:27` asks for the -1 of an
`ftell` that failed. Where the sum in the assertion wraps (`Wraps`), the assertion
holds and the memset runs to the end of the address space; `Cleared` is what comes of a
memset, in and outside the memory `malloc` gave. `blocks` remembers what was handed out
and `request` what was asked for last.

**`Lexer`.** Each branch of the loop of `tokenize` is an action, and so is each turn
of the search for the end of a comment, which can fail to meet it. A symbol of a
source is a character; a run of letters is one symbol, as the lexer takes runs
whole. The reading functions stop at the end of the longest run of some symbols,
`Run`. `eof` is a variable of its own because the code sets it only when a read
fails: `LexAgain` is the turn of the loop a file without a newline at its end gets
for that reason. `SpanEnd` computes the end of an operator the way the code does
(from how many lengths it tried), not the way it is meant. A token type is the
spelling of an operator, or one of `LongTypes`; `TokenTypes` are both. `Gap` is the text
between two tokens, or between the last one and the stubs, and `LossesExplained` names
what such a text can be: directives that have no tokenizer, which hold no whitespace; what
directly follows an `#include` that names no file; the last symbol of a line comment that
the end of the file ends, which `read_until_char` gives back as if it were the newline
(`lexer.c:334`); and all that is behind the start of a comment that is not closed. Losses
behind the last token count, so that `//x` without a newline is seen to lose its last symbol.
`WordsWhole` is about the end of a word or a number and not about its beginning: the code
takes `0x1F` for the number 0 and the word `x1F` (`lexer.c:194`).

**`DefineMap`, `DefineTable`.** A bucket is the sequence of its nodes. `Set` is
`prep_define_set`: the node found is replaced in place, another goes to the front.
The hash is a constant function, so that what holds does so for every hash. NULL as
a value is what `#undef` stores. `DefineMap` is one function and a result.

**`Condition`.** `tokens`, `stack` and what is on it outlive a call, as the statics
of the code do. Scanning a symbol is a step, evaluating a token is one, and the
recursion of `eval` at an `&&` is counted by `pending`. The code bounds the stack by an
assertion (`abort`) and the array by nothing (`outside`); a name read behind the last
token may be a span never written (`fault`).

**`Markup`, `HtmlWriter`.** The stack has the tags with their attributes and whether
their opening tag is written. `EnsuredFile` and `EnsuredStack` are
`ensure_open_tag_written`, which every call but the attributes begins with. The room a
line break needs on the stack, because it is a tag, is in `html_write_token`.
`html_add_doctype` writes a line of its own and is the first call for a page. A text
item is a symbol as the reader of the page sees it: the entity of a character is that
character. `Markup` writes every tag at once and lets attributes join it until something
else is written.

**`Expand`, `ExpandLines`, `Preprocess`.** `frames` are the calls of `expand` that are not finished,
with the file, the place and the end of each; the position the caller goes on from is
set before the callee starts, as in the code. One action per directive and per kind
of text. The readers (`readnext`, `read_while`, `read_until`,
`read_spaces_until_lf`) are functions on the pair of pointer and last symbol, with
the symbol they give back or take too much. The value of `#if` is that of
`Condition`: right for what is a condition, any otherwise, and the program may end
there.

`Preprocess` is the reference: a file is a list of pieces (a directive, a name, or a piece of
text), calls are ranges of pieces, and each piece has its effect in one step. It knows no
position, no buffer and no pool. `ExpandLines` says when a list of pieces is a file: each
piece stands between two positions, the next one starts where it ends, and what stands
there is written as a piece of its kind is (`IsPiece`): a comment is closed at the first
place it can be, a name goes as far as it can, a directive takes its whole line and its
argument has no spaces, the file an `#include` means is the local one or that of the first
search path that has it. These are the rules of the language as far as `expand` is meant for
them, said of the symbols and not with its readers. `doc` has the pieces of all files, or is
empty for files that are no lines. `Undone` maps a call to the pieces it has yet to do,
and `ExpansionRight` says that `Expand` implements `Preprocess` so. No meaning is given to
conditionals inside of others, escapes in literals, comments behind directives, names that
start with an underscore or a digit, and a replacement of one character in the last line
before an `#endif`: section 8 says what the code does with most of them.

**`Parser`, `HtmlRender`.** A token is its type, and its text where the parser looks
at it. A node is a record with the positions of its first token and of the one behind
its last, and the nodes inside it; the circular lists of the code, known by their
last node, are sequences with the position of their stub. `parse_x` of the module is
`parse_x` of the code, of a position instead of the static `token`; a failed assertion is
position 0, which every reader hands on. The functions of the code call each other; here
an operator is given the function `read`, which says what stands at the positions behind,
and `parsed` is the function that the operators make of itself. A look at the next token
passes one whitespace token for good, as `nonws_token` does, and the module looks where
and as often as the code does (`Twice`): where the lexer has dropped a directive two stand
in a row, and what a look sees depends on how many came before it. A turn of the loop of
`parse` is a step (`Parse...`), and so is a top-level node written by `write_code`
(`Write...`), which is a `Render` to the parser. The page is the sequence of the tokens written, with the class of
the span around each. `write_statement` calls itself: what it writes for a node is given as
tokens with the calls in their places, and `WrittenOut` carries the calls out, level by
level, as many as the file has tokens. A walk that runs past the end of the file, a list that is none
and a node the renderer has no case for are `Crash`.

**`Paths`, `Driver`.** A program is a sequence of phases, one for each call that can
fail or change a file; `pages`, `sheets` and `dirs` are on the disk and outlive it. A
program starts when none runs, takes the phases of `render` in their order, and ends in
one of four ways; `Kill` can end it behind every step, with any part of the page being
written on the disk. What the text of a case does to the lexer, the parser and the
renderer is the constant `Verdict`, so that it is the same each time; the pool may be
full wherever memory is allocated, and is not there in `zhaba`, whose `main` makes none.
Of a page it is known which source it shows and how much of it arrived (`Amounts`).
`source` of `test/main.c` is static and keeps the text of the case before: `Contents` is
what the reader leaves in it for each state of the page. It holds the beginning of a text
that is too long for it (`Long`), and the assertions of the reader can end the program on
a page that is cut. `PassedIsShown` is about the page `test` reads for a case that passed:
it shows that case, or another case taken since was rendered to the same page, or it is
the case's own page, the disk was full before its text began, and what was compared is
the text of another case that expects the same. `OldPagesKept` is about what a step may
not touch: every page but that of the case at work, and with a source that the lexer or
the parser refuses every page and sheet. Paths are sequences of words,
because `render` names a page by the first dot of its source and `test` looks for it by
the last.

The map in `PROJECT.json` names the lines of the code each definition stands for.
`Expand`, `Parser` and `HtmlRender` were also compared with the compiled code: on every
file of their passing runs the text and the page are those of the program, and it aborts
where they do; files that fill the small buffer of the model were left out.

## 4. The runs

| run | distinct states | question |
|---|---|---|
| `pool` | 251,752 | Are blocks apart, aligned, inside; does the assertion end the program only when the pool is full; when does the memset leave it? |
| `lexer` | 130,246 | Are positions right, has every loss a reason, are operators and words whole, does it end? |
| `define_table` | 2,710 | Is the table a map, and is nothing doubled or lost in a bucket? |
| `condition` | 424,902 | Is every value right after any earlier calls, and does a call fail only where an array is full? |
| `html_writer` | 89,840 | Is the page that of an eager writer, and do its tags nest? |
| `expand` | 60,508 | Is the expansion the one the pieces mean, does it fail only when something is full, does every turn move on? |
| `page` | 208,260 | Is every token of a file on the page, once, in order and marked right, and does the parser move on? |
| `driver` | 1,753,354 | Whatever programs ended how and when before: is a case that passed on its page, has every page its styles, does a good end repair, does a refused source leave the old page? |
| `lexer_comment`, `condition_leak`, `expand_nested`, `page_else` | | Counterexamples to what a comment, an assertion or a test says: section 8. |

**`pool`.** Words of 6 bits, a pool of 10 bytes at address 16, requests of 0, 3 and 4
bytes with alignments 1, 4 and 8. The pool is filled to its last byte and missed by
one; 10 is no multiple of an alignment, so the last block may fit and not be
aligned. One more request has the largest size there is, 63, which is what -1 is in
these words: with it the sum in the assertion wraps, except at address 0.

**`lexer`.** Every source of up to 3 symbols out of 17, which has every branch at the
start, in the middle and at the end of a file; up to 6 of the symbols of comments, so
that stars, slashes and newlines meet in every order with the end behind any of
them; up to 5 of the symbols of operators, one more than the longest operator and
the symbol behind it need; up to 5 behind a `#`. The word that the code would take
apart (one letter behind `#include`, one at the end of a comment) is only the
one-letter one, since a longer one is a single symbol.

**`define_table`.** Three names in one bucket, one in another, two values: a node
replaced at the head, inside and at the end of its list. No bound on the calls.

**`condition`.** Statics of 5 tokens and 3 entries instead of 128 and 64. The longest
well-formed condition fills the array, and three conditions that leave an entry fill
the stack. Every well-formed condition of one or two names over two names, and
thirteen malformed ones, one for each way the scanner or `eval` treats them
differently. Calls follow each other without a bound.

**`html_writer`.** A stack of 2 instead of 32, three tags of which one is not closed,
and up to 4 items in the file and 1 attribute on a tag (`Small`, a state constraint:
what is longer is reached but not gone on from). Two tags are what the
properties tell apart: the innermost one and one around it.

**`expand`.** Every file of up to 3 lines out of 17, one of each kind: definitions with
and without a replacement and over two lines, includes of both kinds from three
directories, the three conditionals with and without content, comments and literals with
names in them. The pieces of each are written beside it, and `MCInit` asserts that they are
those of the file (`AreLines`). Then every file of up to 2 lines that lack something, and such a line
before a conditional without an end; each with and without its last newline. `OutSize`
30 and `MaxLoads` 3 are reached. `Lost` is the 5 of `strlen("#endif") - 1`.

**`page`.** A file with the definition of a macro and a function, whose body is each
statement alone, before and behind others, and inside an `else`; expressions nested
two deep; every element before two others and a function, and at the end of the file.
Two elements and two statements with doubled whitespace between them, as where the
lexer dropped a directive. These have their classes written beside them. Then each of
these files with one whitespace of its own doubled, wherever it is, every body of a function of up to
4 fragments out of 14 and every file of up to 3 out of 15, most of them no C: these are
for the assertions, for `NothingTwice` and for `ParseForward`. 54,315 files in all.

**`driver`.** Up to three programs, each `zhaba` for one source or `test` over all cases
in any order or over one of them: a program that leaves something, one that meets it,
and one that meets what both left. Seven cases: two with the same name up to the first
dot, one that is expected to show what another shows, one whose text the array of `test`
cannot hold, one the renderer asserts on, one the lexer refuses and one the parser
asserts on; beside them the directory `prep` and a file that is no source. The pool is full, the disk is full, a file does not open or the program is killed at every
step that allows it.

Deadlock is checked in `expand` and `page`, whose ends are an action, `Ended`; in the
others the program really stops, in a state in which no action is enabled.

Each property of a passing run is violated by the run's `mutants` entry: a definition
with a slip such as a bug in that code would make. The slips stand before the
definition they would replace and are used by nothing.

## 5. Fairness and liveness

`Lexer!Spec` has weak fairness of `Next` and `Condition!Spec` of `Step`, the turns of a
call. Both programs have one thread, and a function that can go on does; nothing
makes the caller of `eval_expr` call it again, so `Call` is not fair. `Terminates` and
`Ends` are checked under it.

`Expand`, `HtmlRender` and `Driver` state no fairness: a program of `Driver` can be
killed at any step, so nothing has to be reached. That the loops of the other two end is
stated as an action property: every turn that stays in the loop moves its position
forward, and what is handed to another call lies between the two positions
(`NothingTwice`, `ParseForward`). The positions are bounded by the file and the files by
the pool, so that with the check for deadlock there is no endless run. `write_code`
takes one node a step.

## 6. What is proved

TLAPS checks the proofs of `PoolProofs`, `DefineTableProofs`, `HtmlWriterProofs`,
`LexerProofs`, `ConditionProofs`, `ExpandProofs`, `HtmlRenderProofs` and `DriverProofs`. They
hold for every value of the constants that satisfies the assumption of the module. In
each, an invariant of the module is shown to hold at the start and over every action, and
the properties are read off it.

Some of it is induction: over the words of a condition, over what is left of a text. The
induction theorems of the library take an operator as a parameter, which the provers cannot
be given, but what is needed of them can be said of sets: a non-empty set of naturals has a
least element (`LeastNat`), and a set that holds 0 and with each number below a bound the
next one holds them all (`InductionUpTo`). Where a reader is recursive, that there is a
function as it is written is proved too, with what is left to read as the rank.

**The pool** (`PoolCorrect`, and from it all six properties of the run). From
`PoolAssumption`: the pool lies in the address space, does not start at 0 and has room
for an alignment behind it; sizes are any words. Disjointness is not inductive: a new
block could meet an old one above the bump pointer. `PoolInv` adds that every block ends
at the bump pointer or below and that nothing is allocated before the start, so that
`pool_init` moves no pointer under a block. The arithmetic is in lemmas: rounding moves
an address up by less than the alignment (`AlignUpBounds`), to a multiple of it
(`RemainderTaken`, `AlignUpAligned`), and since two multiples are at least an alignment
apart (`MultiplesApart`) there is none in between (`AlignUpLeast`). The last one gives
`AbortOnlyWhenFull`: an assertion that fails leaves no aligned place for the request.
With a size that wraps, the assertion holds and the memset faults, which
`FaultOnlyWhenBlind` names as the one way out of a pool that exists.

**The define table** (`TableCorrect`, `TableTypeCorrect`, `TableIsMap`). From
`DefineTableAssumption` (the hash gives a bucket, NULL is no replacement): a name has
one entry, in the bucket its hash names, and `DefineTable` implements `DefineMap`. The
map of a state is the value of the first entry with each key; that a replaced entry is
the only one needs `OneEntryPerKey`, so the invariant comes first. `SetListCorrect` says
what `prep_define_set` does to one list: at the front, inside, or not found.

**The writer** (`WriterCorrect`, `WriterTypeCorrect`, `WriterIsEager`,
`WriterBalanced`). From `WriterAssumption`: the stack stays in its array, only its
innermost tag can be unwritten, and `HtmlWriter` implements `Markup`. The mapping shows
the page with the pending tag on it. `OnlyTopPending` is the strengthening: without it
`ensure_open_tag_written`, which looks at the top alone, would leave tags behind. Each
call has a lemma that gives its page and whether a tag is pending behind it (`OpenStep`,
`CloseStep`, `AttrStep`, `TokenStep`, `DoctypeStep`, `FailStep`). `Balanced`
counts the open tags of the stack, but a closing tag is right only when the tag it
takes from the stack is the one the file has open there.
`NestingInv` joins the two: the depth of the file is the number of tags of the stack it
shows (void tags aside), and each tag that nothing has closed is found on the stack at
its depth (`OpenOnStack`). `NestedOpen` and `NestedClose` are the two steps that change
it; everything else appends items that open and close nothing (`NestedFlat`).

**The lexer** (`LexerTypeCorrect`, `LexerLines`, `LexerColumns`, `LexerLosses`,
`LexerOverlaps`, `LexerOperators`, `LexerWords`). From `LexerAssumption`, for every
source over every alphabet. `LexInv` says, beside the types, what the properties say of
the tokens there are (`Kept`), and that these tokens are a reading of the text up to the
position (`Reached`): the line and column kept are those of the position when nothing
was lost, and what lies between the last token and the position may be lost (`MayLose`),
for a `Reason` that the tokens already there and the text tell. `InsertToken` is the only
writer of tokens, so that each branch of the loop is one of `InsertText`, `InsertNoText`
and `DropText` at positions shown by the lemma of the branch. `eof` is why tokens can
overlap: the turn after the last symbol starts one symbol back, and `Kept` allows an
overlap at that symbol only, once a read has failed. `eof` is also why nothing more is
lost behind the last token: when it is set the position is the end of the source, or the
last token is a line comment and ends one symbol before it (`Ended`). Where a word, a
number or an operator ends is decided where it is inserted: `LexerWhole` carries
`AllWhole`, what is said of each token by itself, beside `LexInv`.
`LexerKeepsPlain` is about files that end in a newline and have neither a `#` nor a `/*`
anywhere. `PlainInv` says that the tokens cover the text up to the position (`Covers`),
and that the position stays inside the file until `eof` is set: the newline at the end is
read by a branch that meets the end, so that no symbol is lexed again. A file `;` without
a newline is not such a file, and gives `;` twice.

**Conditions** (`ConditionTypeCorrect`, `ConditionValueRight`,
`ConditionFailsOnlyWhenFull`). From `ConditionAssumption`, over calls without end: what an
action writes stays in the token array and on the stack. The recursion of `eval` is not
bounded by the types; `Waiting` bounds it by the tokens of the call, one for each `&&` that
waits. `ValueInv` carries the value: the tokens of the call have the `Shape` of the
condition that was asked for, the entries of this call stand above those the calls before
it left, and what has been evaluated from the right is, operand by operand, what the
condition says there. That an entry is left behind makes no value wrong, since the call
looks at the top of the stack alone. `FailsOnlyWhenFull` needs the count as well: four
words of a condition become three tokens (`Scanned`), so that the array is full only for
a condition that has too many names for it.

**The preprocessor** (`ExpandTypeCorrect`, `ExpandNothingTwice`, `ExpandIsMeant`,
`ExpandFailsWhenFull`). From `ExpandAssumption`, for every set of files, well-formed or not, of any length, and every
room in the output. `NothingTwice` says of each turn that the file of the innermost call
is read forward and that a call made for a part of it gets a part that lies ahead. It needs
`ExpandInv`: every call reads its own file, its end is in the file or just behind it, and
its position at most one further, where a reader that took a symbol too much leaves it. The
readers are
recursive functions: that they exist is `RankRecursion`, and that they move forward and
stay in the file is `Passed`, by `RankInduction`. `Block` and `CommentEnd` bound the two
searches, and each action has a lemma that it moves on.

The last two theorems are about `DocSpec` of `ExpandLines`, for files of any number of lines
of any length, and need `LettersAssumption` beside: a letter is no other symbol. The argument
has four parts. First, what the readers give exactly, where the symbols up to some
position are known (`UpToStop`, `WhileIs`, `UntilIs`, `SpacesIs`, `LiteralEndAt`); these are
again inductions over what is left. Then, for each kind of piece, that an innermost call
which stands before one (`Stands`) takes the step the piece means, ends where the next one
starts, and that no other action is enabled (`TextTurn`, `NameTurn`, `DefineTurn`,
`UndefTurn`, `IncludeTurn`, `ConditionTurn`; `BlockOf` for the search for the `#endif`).
Third, where calls are: `Everywhere`, the inductive part of `LinesInv`, says that each call
that is not finished starts at a piece and ends before one (`Between`), so that `Undone` is
what it seems (`UndoneIs`). An end is that of the file, and then no conditional is open
there, or an `#endif` of the call's own conditional, with an empty content one symbol earlier,
because the code takes a newline away that is not the content's. Last, each step is carried
over to `Preprocess` (`CopiesRight`, `DefinesRight`, `UndefinesRight`, `IncludesRight`,
`ChoosesRight`, `ReturnsRight`), with the lemmas about what is left of the calls
(`RestMoved`, `RestEntered`) and of the table (`TableDefined`, `TableUndefined`). Where a step
ends the program, it changes nothing that `Preprocess` sees, and there was no room: the proof
of `FailsOnlyWhenFull` is the same case split, because a file of lines never reaches
`Unrecognized`, an unclosed path or a file that is not there.

**The parser** (`ParsedIs`, `ParserTypeCorrect`, `ParserMovesForward`,
`ParserElementsApart`). From `ParserAssumption`, for every list of tokens, C or not, under
`ParserSpec`: the turns of `parse`, with a renderer that changes none of its variables. The
invariant says that the elements stand one behind the other, before the token to be read.
What a turn needs to keep it is that whatever it reads ends behind its token, or an
assertion fails (`Reads`, `Ends`). For each operator there is a lemma that says so, and that
it gives the same for two readers that agree behind its token (`Context`): then `parsed`
exists and all its readings lie ahead (`BodyIs`, `FixExists`, `ParsedIs`), by induction over
the tokens left, with an expression before a statement and a statement before a list at
one place, as a list reads a statement at its own token and a statement an expression. So
the recursion of the parser ends for every file, which the check for deadlock of the run
shows for those of its constants.

**The page** (`RenderIsParser`, `RenderNothingTwice`). From `ParserAssumption`, for every
list of tokens, C or not, under the `Spec` of `HtmlRender`: a page that is finished repeats
no token but whitespace, unless the file has an `else`, whose block is shown twice. The
argument has three parts. What a writer writes is `Laid` between two positions when each
part of it, a token or a call on a node, is before the next one; `Then` joins two such
pieces where one ends and the other starts, and for each kind of node there is a lemma that
what is written for it is laid between the start and the end of the node (`StatementWrites`),
given that the node is `Sound`: `Facts` says of every kind where its tokens and its children
are. Then every node of the parser is sound (`MadeSound`): a child starts behind its
parent's first tokens, ends where the parent goes on, and is shorter than the parent or the
file. Last, a call that is carried out lies in the place of the call and calls on shorter
nodes only, so that after as many levels as the file has tokens no call is left
(`WrittenIs`). `PageInv` carries it over the loop of `write_code`: the elements are readable
(`AllReadable`), and the page ends where the next one starts. An element that a failed
assertion ends is not laid anywhere; then the program ends, too.

**The driver** (`DriverTypeCorrect`, `StylesBesidePages`, `OldPagesSurvive`, `PassedShown`,
`GoodEndRepairs`). From `DriverAssumption`, for every set of cases, whatever their texts
do, every number of programs and every kill. `DriverInv` adds to `PagesHaveStyles` that the
sheets are begun from the phases behind `write_css` on (`SheetsBegun`), that `zhaba` gets no
further than the memory for its source (`ZhabaStopped`), and that a page that is read is
there (`PageFound`). `OldPagesKept` is an action property: a program is in the phases that
write only with a source that the lexer and the parser took (`Accepted`). A case that passed was compared with an array that is static, on a page
another case may have written since: `TestInv` says for each case taken which case wrote
the page of its name last and what the array holds, and `PassedIsShown` and
`ExitZeroRepairs` are read off it when the program ends.

## 7. What is only model-checked

- Liveness (`Terminates`, `Ends`): under fairness, and not for the provers.
- `PageRight` and `WellFormedIsShown` of `MCHtmlRender`: they speak of files with their
  classes written beside them. That nothing is lost and that each token is marked for what
  it is depends on what every kind of file is read as, for which there is no reference but
  those files.

## 8. Where the code departs from what it says

Four runs are expected to find a violation:

- `lexer_comment`: `/***/` does not close the comment (`lexer.c:342`).
- `condition_leak`: `push(pop() && pop())` keeps an entry when the right operand
  is not defined (`prep.c:567`), until a well-formed condition fails.
- `expand_nested`: a conditional inside a conditional ends at the first `#endif` and the
  program at the second (`prep.c:368`).
- `page_else`: an `else` block of several statements is shown twice but for its last
  (`html_render.c:201`).

Others were met while the code was read. No run states them, because no comment,
assertion or test of the repository says otherwise, because one step shows them, or because
the models leave the data out:

- `main.c` offers `src-file [out-dir]` (line 21) and returns 0 behind a rendered page (line
  52), but makes no pool, and the call in `lib.c:30` is commented out: the first
  allocation of the program `zhaba` ends it, for every source (`Pool!StartZhaba`, and
  `pool` of `Driver`). This disagrees with what line 21 says of the program. It is a step
  of `Pool` and `Driver` and has no run of its own: it takes one step to see.
- `expand.c:11` ignores a `pool_init` that failed, and the first allocation passes the
  assertion with a NULL base (`Pool` has it: the phase `fault`).
- `lib.c:27`: the -1 of `ftell` for a file that cannot be positioned is a size at which
  the sum in the assertion wraps (`Pool` has it: `Wraps`).
- `lib.c:52` names a page by the first dot of its source and `test/main.c:97` looks for
  it by the last: a case with two dots is looked for in vain, and two cases can have one
  page (`PassedIsShown` allows it).
- `lexer.c:334`: `read_until_char` gives back the last symbol of a line comment that ends
  the file, which then is in no token: of `//x` without a newline only `//` is
  (`LossesExplained` allows it).
- `lexer.c:222`: an operator of two symbols at the end of a file is cut, and the last symbol
  of a file without a newline is given twice when it is an operator (`OverlapsOnlyAtEnd`
  allows it).
- `test/main.c:109`: on a page without the tag of the source the text of the case before
  is compared again (`Contents`; `PassedIsShown` allows it). Of a text of more than
  `SOURCE_MAX_LEN` characters (line 27) only the beginning is read, and the case fails.
- `lib.c:54` and 65: the page is emptied before its style sheets are written, and no
  write and no `fclose` is asked for its result; a full disk cuts a page and `render`
  returns SUCCESS (`GenHtml`).
- `prep.c:283` and 484: `out` is checked when a call is entered and not when it is
  written (`Expand` has it: the phase `outside`).
- `prep.c:451`: a quote behind a backslash ends a literal.
- `prep.c:252` with 348: a replacement of one character in the last line before `#endif`
  is empty (`ExpandLines` leaves such lines out).
- `prep.c:267`: a comment behind a directive loses its slash.
- `prep.c:463`: of a name that starts with an underscore only the rest is looked up.
- `lexer.c:239`: for a symbol met behind the last token the error names NUL
  (`LexAgain`).
- `parser.c:183`: `nonws_token` passes one whitespace token, so what the parser makes of
  two depends on how often it happens to look: around a directive behind the last
  statement of a block they end the program, and behind `struct` the whitespace is marked
  as the name (`DoubledFiles` has these files).
- `parser.c:553` with `html_render.c`: a branch that is no block, `else if` included,
  crashes the renderer (`Crash`).
- `parser.c:13`: the table of primitive types is not sorted, and `double` is not found;
  nothing reads the result.
- `html_render.c:385`: the newline behind a declaration or a struct at the end of a file
  is lost. Whitespace between a declared name and its semicolon or comma is written
  twice, and what stands left of `->` loses its classes (`html_render.c:263`).
- `html_render.c:289`: what stands between the last statement of a `switch` and its end is
  written by the loop over its cases: a `switch` without a case loses its closing brace.
- `common.c:145`: `path_basename_noext` of a name without a directory looks at the
  character before it.

## 9. What is not modelled

- **Search helpers** (`common.c`, `lexer.c`, `parser.c`): bisections in sorted tables are
  membership in the modules that use them. `common.c:145` (above) is in `Paths`.
- `pool_close` is called by nothing.
- **Terminal renderer** (`file_render.c`) is called by nothing, and the **UTF-8 reader**
  (`utf8.c`) is not built.
- **Test programs** (`test/`): their `main` is in `Driver`. Of `html_reader.c` and
  `decode_source` only what a whole page, a cut one and one without its source leave
  in the array is there, the comparisons of the directory `prep` are one step, and what
  `assert_equal` prints is left out.
- **Assets**: style sheets, the script that packs them, a mock-up.
- In the parts that are modelled: hashing, the spelling of numbers and names, HTML
  entities, the fixed head of the page and the line numbers, and the kinds of data
  types, which nothing reads.
