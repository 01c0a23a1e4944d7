------------------------------- MODULE Driver -------------------------------
(***************************************************************************)
(* What the programs do with files: render of lib/lib.c, called by "zhaba" *)
(* (main.c) for one source, and by "test" (test/main.c) for every case of  *)
(* a directory, which then reads the page back and compares its text.      *)
(*                                                                         *)
(* The files outlive the programs, and a program can be killed after every *)
(* step.  A page is known by the source it was written from and by how     *)
(* much of it has reached the disk.  Where memory is allocated, the pool   *)
(* may be full.                                                            *)
(***************************************************************************)
EXTENDS Paths

CONSTANTS
  Entries,   \* the names in the directory of the cases
  Verdict,   \* for a source, the step that fails on its text, or "shown"
  Text,      \* for a source, the text of its page
  Long,      \* the sources whose text, on its page, is longer than the array of test
  Expected,  \* for the name of an expected page, its text
  MaxRuns    \* how many programs are started

VARIABLES
  program,  \* the program that runs, or ran last
  phase,    \* the step it is about to take
  status,   \* how it ended
  todo,     \* the entries test has not taken
  case,     \* the entry at work
  pool,     \* whether the program has made a pool
  source,   \* the text test read last: its array outlives the case
  pages,    \* the pages on the disk
  sheets,   \* the style sheets on the disk
  dirs,     \* the directories made
  passed,   \* the cases whose comparison succeeded
  full,     \* whether the disk has been full
  runs      \* the programs started

files == <<pages, sheets, dirs>>
vars == <<program, phase, status, todo, case, pool, source, files, passed, full, runs>>

CaseDir == <<"cases">>
OutDir == <<"temp">>
Prep == <<"prep">>
HtmlExt == <<".", "html">>
CExt == <<".", "c">>
Sheets == {"reset", "style"}

\* The entries test renders.
Cases == {e \in Entries : endswith(e, CExt)}

\* The word in front of a command line argument.
BeforeArgument == "NUL"

\* Where render puts the page of a case, and where test looks for it.
PagePath(name) ==
  path_join(OutDir, path_withext(path_basename_noext(path_join(CaseDir, name), BeforeArgument), HtmlExt))
ReadPath(name) == path_join(OutDir, path_replace_ext(name, HtmlExt))
ExpectedName(name) == path_replace_ext(name, HtmlExt)

PagePaths == {PagePath(c) : c \in Cases} \cup {ReadPath(c) : c \in Cases}

\* An entry of a directory is a name, without a slash.
ASSUME DriverAssumption ==
  /\ \A e \in Entries : e \in Seq(STRING) /\ Places(e, "/") = {}
  /\ Verdict \in [Cases -> {"shown", "tokenize", "parse", "gen_html"}]
  /\ Cases \subseteq DOMAIN Text
  /\ Long \subseteq Cases
  /\ MaxRuns \in Nat

NoEntry == <<>>
NoFile == [of |-> NoEntry, has |-> "nothing"]

\* How much of a page or a style sheet is on the disk: not even its text has
\* begun, some of the text, all the text but not what follows, everything.
Amounts == {"start", "some", "text", "all"}
FileOf(name, amount) == [of |-> name, has |-> amount]

\* The array is zeroed when the program starts.
NoText == [of |-> NoEntry, complete |-> FALSE]

Init ==
  /\ program = "none" /\ phase = "idle" /\ status = "none"
  /\ todo = {} /\ case = NoEntry /\ pool = FALSE /\ source = NoText
  /\ pages = [p \in PagePaths |-> NoFile]
  /\ sheets = [s \in Sheets |-> "nothing"]
  /\ dirs = {}
  /\ passed = {} /\ full = FALSE /\ runs = 0

-----------------------------------------------------------------------------
(***************************************************************************)
(* Steps of a program.  Ended is the end of the process; the statics and   *)
(* the pool go with it, the files stay.                                    *)
(***************************************************************************)

Ended(how) ==
  /\ phase' = "idle"
  /\ status' = how
  /\ UNCHANGED <<program, todo, case, pool, source, passed, runs>>

Goes(next) ==
  /\ phase' = next
  /\ UNCHANGED <<program, status, todo, case, pool, source, passed, runs>>

\* A step that allocates: the assertion of pool_alloc_align can end it, and does
\* where there is no pool.
PoolFull == Ended("abort") /\ UNCHANGED <<files, full>>

Idle == phase = "idle" /\ runs < MaxRuns

\* main.c makes no pool.
StartZhaba(name) ==
  /\ Idle
  /\ program' = "zhaba"
  /\ phase' = "fopen"
  /\ status' = "none"
  /\ case' = name
  /\ pool' = FALSE
  /\ runs' = runs + 1
  /\ todo' = {} /\ source' = NoText /\ passed' = {} /\ full' = FALSE
  /\ UNCHANGED files

\* What test takes from the directory: prep in any case, and the sources, or
\* the one it was given the name of.
Selected(only) == {e \in Entries : e = Prep \/ (e \in Cases /\ e \in only)}

StartTest(only) ==
  /\ Idle
  /\ program' = "test"
  /\ phase' = "mkdir temp"
  /\ status' = "none"
  /\ todo' = Selected(only)
  /\ case' = NoEntry
  /\ pool' = TRUE
  /\ runs' = runs + 1
  /\ source' = NoText /\ passed' = {} /\ full' = FALSE
  /\ UNCHANGED files

\* mkdir: the directory is there, or is made, or cannot be made.
MkdirWorks(dir) == dirs' = dirs \cup {dir}
MkdirFails(dir) == dir \notin dirs /\ UNCHANGED dirs

MkdirTemp ==
  /\ phase = "mkdir temp"
  /\ \/ /\ MkdirWorks("temp") /\ Goes("readdir")
     \/ MkdirFails("temp") /\ Ended("abort")
  /\ UNCHANGED <<pages, sheets, full>>

\* Slip: prep is taken for a case.
ReaddirAll ==
  /\ phase = "readdir"
  /\ IF todo = {}
       THEN Ended("exit 0")
       ELSE \E e \in todo :
              /\ todo' = todo \ {e}
              /\ case' = e
              /\ phase' = "fopen"
              /\ UNCHANGED <<program, status, pool, source, passed, runs>>
  /\ UNCHANGED <<files, full>>

\* readdir gives the entries in any order.
Readdir ==
  /\ phase = "readdir"
  /\ IF todo = {}
       THEN Ended("exit 0")
       ELSE \E e \in todo :
              /\ todo' = todo \ {e}
              /\ case' = e
              /\ phase' = IF e = Prep THEN "prep" ELSE "fopen"
              /\ UNCHANGED <<program, status, pool, source, passed, runs>>
  /\ UNCHANGED <<files, full>>

\* run_prep_tests: every case of it expands into memory of the pool.
PrepTests ==
  /\ phase = "prep"
  /\ Goes("readdir") \/ Ended("failure") \/ Ended("abort")
  /\ UNCHANGED <<files, full>>

-----------------------------------------------------------------------------
(***************************************************************************)
(* render                                                                  *)
(***************************************************************************)

\* Slip: the page is opened together with the source.
FopenBoth ==
  /\ phase = "fopen"
  /\ pages' = [pages EXCEPT ![PagePath(case)] = FileOf(case, "start")]
  /\ Goes("fread")
  /\ UNCHANGED <<sheets, dirs, full>>

Fopen ==
  /\ phase = "fopen"
  /\ Goes("fread") \/ Ended("failure")
  /\ UNCHANGED <<files, full>>

Fread ==
  /\ phase = "fread"
  /\ \/ pool /\ Goes("tokenize") /\ UNCHANGED <<files, full>>
     \/ PoolFull

\* Both programs leave with a message when tokenize finds an error.
Tokenize ==
  /\ phase = "tokenize"
  /\ \/ pool /\ Verdict[case] # "tokenize" /\ Goes("parse") /\ UNCHANGED <<files, full>>
     \/ pool /\ Verdict[case] = "tokenize" /\ Ended("failure") /\ UNCHANGED <<files, full>>
     \/ PoolFull

\* An assertion of the parser ends the program as a full pool does.
Parse ==
  /\ phase = "parse"
  /\ \/ pool /\ Verdict[case] # "parse" /\ Goes("mkdir") /\ UNCHANGED <<files, full>>
     \/ PoolFull

\* test has made the directory, and zhaba does not get here.
MkdirOut ==
  /\ phase = "mkdir"
  /\ MkdirWorks("temp")
  /\ Goes("open page")
  /\ UNCHANGED <<pages, sheets, full>>

\* fopen with "w" empties the page.
OpenPage ==
  /\ phase = "open page"
  /\ \/ /\ pool
        /\ pages' = [pages EXCEPT ![PagePath(case)] = FileOf(case, "start")]
        /\ Goes("open reset")
        /\ UNCHANGED <<sheets, dirs, full>>
     \/ Ended("failure") /\ UNCHANGED <<files, full>>
     \/ PoolFull

\* write_css: fopen, behind a mkdir and two paths, empties the sheet.
OpenSheet(sheet, next) ==
  /\ \/ /\ pool
        /\ MkdirWorks("css")
        /\ sheets' = [sheets EXCEPT ![sheet] = "cut"]
        /\ Goes(next)
     \/ /\ MkdirWorks("css") \/ MkdirFails("css")
        /\ Ended("abort")
        /\ UNCHANGED sheets
  /\ UNCHANGED <<pages, full>>

\* A full disk cuts the sheet, which write_css does not end for.
CloseSheet(sheet, next) ==
  /\ \/ sheets' = [sheets EXCEPT ![sheet] = "whole"] /\ UNCHANGED full
     \/ UNCHANGED sheets /\ full' = TRUE
  /\ Goes(next)
  /\ UNCHANGED <<pages, dirs>>

\* Two slips: the style sheet is forgotten, and a sheet that is there is left as
\* it is.
WriteCssReset ==
  \/ phase = "open reset" /\ OpenSheet("reset", "close reset")
  \/ phase = "close reset" /\ CloseSheet("reset", "gen_html")

WriteCssOnce ==
  \/ phase = "open reset" /\ sheets["reset"] = "nothing" /\ OpenSheet("reset", "close reset")
  \/ phase = "close reset" /\ CloseSheet("reset", "open style")
  \/ phase = "open style" /\ sheets["style"] = "nothing" /\ OpenSheet("style", "close style")
  \/ phase = "close style" /\ CloseSheet("style", "gen_html")
  \/ /\ phase = "open reset" /\ sheets["reset"] # "nothing"
     /\ Goes("gen_html") /\ UNCHANGED <<files, full>>

WriteCss ==
  \/ phase = "open reset" /\ OpenSheet("reset", "close reset")
  \/ phase = "close reset" /\ CloseSheet("reset", "open style")
  \/ phase = "open style" /\ OpenSheet("style", "close style")
  \/ phase = "close style" /\ CloseSheet("style", "gen_html")

\* gen_html and the fclose behind it, which ask no write for its result.  stdio
\* writes in pieces: what has reached the disk when the program ends early, or
\* the disk is full, is any part of the page.
GenHtml ==
  /\ phase = "gen_html"
  /\ \/ /\ pool /\ Verdict[case] # "gen_html"
        /\ \E amount \in Amounts :
             /\ pages' = [pages EXCEPT ![PagePath(case)] = FileOf(case, amount)]
             /\ full' = (full \/ amount # "all")
        /\ Goes("fopen page")
     \/ /\ \E amount \in Amounts \ {"all"} :
             pages' = [pages EXCEPT ![PagePath(case)] = FileOf(case, amount)]
        /\ Ended("abort")
        /\ UNCHANGED full
  /\ UNCHANGED <<sheets, dirs>>

-----------------------------------------------------------------------------
(***************************************************************************)
(* test, behind render                                                     *)
(***************************************************************************)

\* The assertion behind fopen can only hold when the page is where test looks.
FopenPage ==
  /\ phase = "fopen page"
  /\ \/ pages[ReadPath(case)] # NoFile /\ Goes("read page")
     \/ Ended("abort")
  /\ UNCHANGED <<files, full>>

\* Whether html_read_content gets all of a text: it stops where the array is full,
\* and a closing tag that is cut is taken for text.
Completeness(file) ==
  CASE file.of \in Long \/ file.has \notin {"text", "all"} -> {FALSE}
    [] file.of \notin Long /\ file.has = "text" -> BOOLEAN
    [] OTHER -> {TRUE}

\* What the loop over the tags leaves in source.  Without the tag of the source
\* nothing is read and the array has what it had; on a page without any tag the
\* class asked for is a field never written, which may still say "source" from
\* the reader freed before, and then nothing is read into the array.
Contents(file) ==
  IF file.has = "start" THEN {source, NoText}
  ELSE [of : {file.of}, complete : Completeness(file)]

\* A tag cut in two, at the end of the page or of the array, fails an assertion of
\* the reader or of decode_source.
ReadPage ==
  /\ phase = "read page"
  /\ \/ /\ source' \in Contents(pages[ReadPath(case)])
        /\ phase' = "assert_equal"
        /\ UNCHANGED <<program, status, todo, case, pool, passed, runs>>
     \/ /\ pages[ReadPath(case)].has \in {"start", "some"} \/ pages[ReadPath(case)].of \in Long
        /\ Ended("abort")
  /\ UNCHANGED <<files, full>>

\* Slip: a text that ends before the expected one passes.
EqualPrefix(name) ==
  /\ ExpectedName(name) \in DOMAIN Expected
  /\ source.of # NoEntry => Text[source.of] = Expected[ExpectedName(name)]

Equal(name) ==
  /\ ExpectedName(name) \in DOMAIN Expected
  /\ source.complete
  /\ Text[source.of] = Expected[ExpectedName(name)]

\* assert_equal ends the program with the first case that differs.
AssertEqual ==
  /\ phase = "assert_equal"
  /\ \/ /\ Equal(case)
        /\ passed' = passed \cup {case}
        /\ phase' = "readdir"
        /\ UNCHANGED <<program, status, todo, case, pool, source, runs>>
     \/ ~Equal(case) /\ Ended("failure")
  /\ UNCHANGED <<files, full>>

-----------------------------------------------------------------------------
\* The program is killed; of a page it is writing, some may be on the disk.
Kill ==
  /\ phase # "idle"
  /\ Ended("killed")
  /\ \/ UNCHANGED pages
     \/ /\ phase = "gen_html"
        /\ \E amount \in {"some", "text"} :
             pages' = [pages EXCEPT ![PagePath(case)] = FileOf(case, amount)]
  /\ UNCHANGED <<sheets, dirs, full>>

Step ==
  \/ MkdirTemp \/ Readdir \/ PrepTests
  \/ Fopen \/ Fread \/ Tokenize \/ Parse \/ MkdirOut \/ OpenPage \/ WriteCss \/ GenHtml
  \/ FopenPage \/ ReadPage \/ AssertEqual

Next ==
  \/ \E name \in Cases : StartZhaba(name)
  \/ \E only \in {Cases} \cup {{name} : name \in Cases} : StartTest(only)
  \/ Step
  \/ Kill

Spec == Init /\ [][Next]_vars

-----------------------------------------------------------------------------
(***************************************************************************)
(* Properties                                                              *)
(***************************************************************************)

Phases == {"idle", "mkdir temp", "readdir", "prep", "fopen", "fread", "tokenize", "parse", "mkdir",
  "open page", "open reset", "close reset", "open style", "close style", "gen_html",
  "fopen page", "read page", "assert_equal"}
Ends == {"none", "exit 0", "failure", "abort", "killed"}
Pages == {NoFile} \cup [of : Cases, has : Amounts]

\* A step of render works on a case.
ControlOK ==
  /\ program \in {"none", "test", "zhaba"}
  /\ phase \in Phases
  /\ status \in Ends
  /\ todo \subseteq Cases \cup {Prep}
  /\ case \in Cases \cup {Prep, NoEntry}
  /\ phase \notin {"idle", "mkdir temp", "readdir", "prep"} => case \in Cases
  /\ passed \subseteq Cases
  /\ runs \in 0..MaxRuns

FlagsOK == pool \in BOOLEAN /\ full \in BOOLEAN

FilesOK ==
  /\ source \in {NoText} \cup [of : Cases, complete : BOOLEAN]
  /\ pages \in [PagePaths -> Pages]
  /\ sheets \in [Sheets -> {"nothing", "cut", "whole"}]
  /\ dirs \subseteq {"temp", "css"}

\* What the program knows, and what is on the disk, is of the kinds above.
TypeOK == ControlOK /\ FlagsOK /\ FilesOK

\* The file test reads for a case that passed has all of the text of that case.
\* What else can have happened: another case of the same page has been rendered
\* since, or the disk was full before the text of the case began, and test has
\* compared what it had read for another case, which expects the same.
Shows(file, name) == file.of = name /\ file.has \in {"text", "all"}

PassedIsShown ==
  \A c \in passed : LET page == pages[ReadPath(c)] IN
    \/ Shows(page, c)
    \/ page.of \in (passed \cup {case}) \ {c}
    \/ /\ page = FileOf(c, "start") /\ full
       /\ \E d \in passed \ {c} : Expected[ExpectedName(d)] = Expected[ExpectedName(c)]

\* No page with a text, were it the rest of a program that was killed, lacks a
\* style sheet beside it.
PagesHaveStyles ==
  \A p \in PagePaths : pages[p].has \notin {"nothing", "start"} => \A s \in Sheets : sheets[s] # "nothing"

\* Whatever earlier programs have left, a test that ends well has written every
\* page it went through, and both sheets, to the end, when the disk was not full.
ExitZeroRepairs ==
  program = "test" /\ status = "exit 0" /\ ~full /\ passed # {} =>
    /\ \A s \in Sheets : sheets[s] = "whole"
    /\ \A c \in passed : \E d \in passed :
         ReadPath(c) = PagePath(d) /\ pages[ReadPath(c)] = FileOf(d, "all")

\* A program touches no page but the one of the case at work, and neither that nor
\* a sheet for a source that tokenize or parse ends on: the page of such a source
\* stays as an earlier program left it.
OldPagesKept ==
  [][/\ \A p \in PagePaths :
          pages'[p] # pages[p] => p = PagePath(case) /\ Verdict[case] \notin {"tokenize", "parse"}
     /\ sheets' # sheets => Verdict[case] \notin {"tokenize", "parse"}]_vars
=============================================================================
