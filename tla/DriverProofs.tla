---------------------------- MODULE DriverProofs ----------------------------
(***************************************************************************)
(* What the programs leave on the disk, for every set of cases, whatever   *)
(* their texts do to render, and however often a program is started and    *)
(* killed.                                                                 *)
(***************************************************************************)
EXTENDS Driver, Integers, SequenceTheorems, WellFoundedInduction, TLAPS

\* Both sheets are opened before gen_html writes the page, and stay.
SheetsBegun ==
  /\ phase \in {"close reset", "open style", "close style", "gen_html"} => sheets["reset"] # "nothing"
  /\ phase \in {"close style", "gen_html"} => sheets["style"] # "nothing"

\* zhaba goes no further than the memory for its source.
ZhabaStopped ==
  program = "zhaba" => ~pool /\ phase \in {"idle", "fopen", "fread"} /\ status # "exit 0"

\* The assertion behind fopen has held.
PageFound == phase = "read page" => pages[ReadPath(case)] # NoFile

DriverInv ==
  /\ TypeOK
  /\ PagesHaveStyles
  /\ SheetsBegun
  /\ ZhabaStopped
  /\ PageFound

\* Where render writes and test reads are pages.
LEMMA PathsOfCases ==
  ASSUME NEW name \in Cases
  PROVE  PagePath(name) \in PagePaths /\ ReadPath(name) \in PagePaths
BY DEF PagePaths

\* A page that is written is of the kind a page has.
LEMMA FileWritten ==
  ASSUME NEW name \in Cases, NEW amount \in Amounts
  PROVE  FileOf(name, amount) \in Pages /\ FileOf(name, amount).has = amount
BY DEF FileOf, Pages

\* Before the first program there is nothing on the disk.
LEMMA DriverInvInit == Init => DriverInv
<1> SUFFICES ASSUME Init PROVE DriverInv
  OBVIOUS
<1>1. ControlOK
  BY DriverAssumption DEF Init, ControlOK, Phases, Ends
<1>2. FlagsOK
  BY DEF Init, FlagsOK
<1>3. FilesOK
  BY DEF Init, FilesOK, Pages
<1>4. PagesHaveStyles
  BY DEF Init, PagesHaveStyles, NoFile
<1> QED
  BY <1>1, <1>2, <1>3, <1>4 DEF TypeOK, Init, DriverInv, SheetsBegun, ZhabaStopped, PageFound

\* The end of a program leaves the files as they are.
LEMMA EndedInv ==
  ASSUME DriverInv, NEW how \in Ends, program = "zhaba" => how # "exit 0", Ended(how),
         UNCHANGED full, UNCHANGED pages, UNCHANGED sheets, dirs' \subseteq {"temp", "css"}
  PROVE  DriverInv'
<1>1. ControlOK'
  BY DEF DriverInv, TypeOK, ControlOK, Ended, Phases
<1>2. FlagsOK'
  BY DEF DriverInv, TypeOK, FlagsOK, Ended
<1>3. FilesOK'
  BY DEF DriverInv, TypeOK, FilesOK, Ended
<1>4. PagesHaveStyles' /\ SheetsBegun' /\ ZhabaStopped' /\ PageFound'
  BY DEF DriverInv, PagesHaveStyles, SheetsBegun, ZhabaStopped, PageFound, Ended
<1> QED
  BY <1>1, <1>2, <1>3, <1>4 DEF DriverInv, TypeOK

\* A step that changes no file, and neither ends nor starts a program.
LEMMA GoesInv ==
  ASSUME DriverInv, NEW next \in Phases, Goes(next),
         next \notin {"idle", "mkdir temp", "readdir", "prep"} => case \in Cases,
         UNCHANGED <<pages, sheets>>, dirs' \subseteq {"temp", "css"}, full' \in BOOLEAN,
         SheetsBegun', ZhabaStopped', PageFound'
  PROVE  DriverInv'
<1>1. ControlOK'
  BY DEF DriverInv, TypeOK, ControlOK, Goes
<1>2. FlagsOK'
  BY DEF DriverInv, TypeOK, FlagsOK, Goes
<1>3. FilesOK'
  BY DEF DriverInv, TypeOK, FilesOK, Goes
<1>4. PagesHaveStyles'
  BY DEF DriverInv, PagesHaveStyles
<1> QED
  BY <1>1, <1>2, <1>3, <1>4 DEF DriverInv, TypeOK

\* Starting a program changes no file.
LEMMA StartInv ==
  ASSUME DriverInv,
         (\E name \in Cases : StartZhaba(name))
           \/ (\E only \in {Cases} \cup {{name} : name \in Cases} : StartTest(only))
  PROVE  DriverInv'
<1>1. UNCHANGED <<pages, sheets, dirs>> /\ source' = NoText /\ full' = FALSE
  BY DEF StartZhaba, StartTest, files
<1>2. pool' \in BOOLEAN
  BY DEF StartZhaba, StartTest
<1>3. ControlOK' /\ ZhabaStopped' /\ phase' \in {"fopen", "mkdir temp"}
  <2>1. ASSUME NEW name \in Cases, StartZhaba(name)
        PROVE  ControlOK' /\ ZhabaStopped' /\ phase' \in {"fopen", "mkdir temp"}
    <3>1. /\ program' = "zhaba" /\ phase' = "fopen" /\ status' = "none" /\ case' = name
          /\ todo' = {} /\ passed' = {} /\ runs' = runs + 1 /\ runs < MaxRuns
      BY <2>1 DEF StartZhaba, Idle
    <3>2. ~pool'
      BY <2>1 DEF StartZhaba
    <3>3. ControlOK'
      <4>1. runs' \in 0..MaxRuns
        <5>1. runs \in 0..MaxRuns /\ MaxRuns \in Nat
          BY DriverAssumption DEF DriverInv, TypeOK, ControlOK
        <5>2. runs' = runs + 1 /\ runs < MaxRuns
          BY <3>1
        <5> QED
          BY <5>1, <5>2
      <4> QED
        BY <3>1, <4>1 DEF ControlOK, Phases, Ends
    <3> QED
      BY <3>1, <3>2, <3>3 DEF ZhabaStopped
  <2>2. ASSUME NEW only, StartTest(only)
        PROVE  ControlOK' /\ ZhabaStopped' /\ phase' \in {"fopen", "mkdir temp"}
    <3>1. /\ program' = "test" /\ phase' = "mkdir temp" /\ status' = "none" /\ case' = NoEntry
          /\ todo' = Selected(only) /\ passed' = {} /\ runs' = runs + 1 /\ runs < MaxRuns
      BY <2>2 DEF StartTest, Idle
    <3>2. Selected(only) \subseteq Cases \cup {Prep}
      BY DEF Selected
    <3>3. ControlOK'
      <4>1. runs' \in 0..MaxRuns
        <5>1. runs \in 0..MaxRuns /\ MaxRuns \in Nat
          BY DriverAssumption DEF DriverInv, TypeOK, ControlOK
        <5>2. runs' = runs + 1 /\ runs < MaxRuns
          BY <3>1
        <5> QED
          BY <5>1, <5>2
      <4> QED
        BY <3>1, <3>2, <4>1 DEF ControlOK, Phases, Ends
    <3> QED
      BY <3>1, <3>3 DEF ZhabaStopped
  <2> QED
    BY <2>1, <2>2
<1>4. FlagsOK'
  BY <1>1, <1>2 DEF FlagsOK
<1>5. FilesOK' /\ PagesHaveStyles'
  BY <1>1 DEF DriverInv, TypeOK, FilesOK, PagesHaveStyles
<1>6. SheetsBegun' /\ PageFound'
  BY <1>3 DEF SheetsBegun, PageFound
<1> QED
  BY <1>3, <1>4, <1>5, <1>6 DEF DriverInv, TypeOK

\* The steps of test between the cases.
LEMMA CasesInv ==
  ASSUME DriverInv, MkdirTemp \/ Readdir \/ PrepTests
  PROVE  DriverInv'
<1>1. CASE MkdirTemp
  <2>1. program # "zhaba"
    BY <1>1 DEF MkdirTemp, DriverInv, ZhabaStopped
  <2>2. dirs \subseteq {"temp", "css"} /\ full \in BOOLEAN
    BY DEF DriverInv, TypeOK, FilesOK, FlagsOK
  <2>3. CASE MkdirFails("temp") /\ Ended("abort")
    BY <1>1, <2>2, <2>3, EndedInv DEF MkdirTemp, MkdirFails, Ends
  <2>4. CASE MkdirWorks("temp") /\ Goes("readdir")
    <3>1. dirs' \subseteq {"temp", "css"}
      BY <2>2, <2>4 DEF MkdirWorks
    <3>2. SheetsBegun' /\ ZhabaStopped' /\ PageFound'
      BY <2>1, <2>4 DEF Goes, SheetsBegun, ZhabaStopped, PageFound
    <3> QED
      BY <1>1, <2>2, <2>4, <3>1, <3>2, GoesInv DEF MkdirTemp, Phases
  <2> QED
    BY <1>1, <2>3, <2>4 DEF MkdirTemp
<1>2. CASE Readdir
  <2>1. program # "zhaba"
    BY <1>2 DEF Readdir, DriverInv, ZhabaStopped
  <2>2. UNCHANGED <<pages, sheets, dirs>> /\ UNCHANGED full
    BY <1>2 DEF Readdir, files
  <2>3. CASE todo = {}
    BY <1>2, <2>1, <2>2, <2>3, EndedInv DEF Readdir, Ends, DriverInv, TypeOK, FilesOK
  <2>4. CASE todo # {}
    <3>1. PICK e \in todo :
            /\ todo' = todo \ {e}
            /\ case' = e
            /\ phase' = IF e = Prep THEN "prep" ELSE "fopen"
            /\ UNCHANGED <<program, status, pool, source, passed, runs>>
      BY <1>2, <2>4 DEF Readdir
    <3>2. ControlOK'
      BY <3>1 DEF DriverInv, TypeOK, ControlOK, Phases
    <3>3. FlagsOK' /\ FilesOK' /\ PagesHaveStyles'
      BY <2>2, <3>1 DEF DriverInv, TypeOK, FlagsOK, FilesOK, PagesHaveStyles
    <3>4. SheetsBegun' /\ ZhabaStopped' /\ PageFound'
      BY <2>1, <3>1 DEF SheetsBegun, ZhabaStopped, PageFound
    <3> QED
      BY <3>2, <3>3, <3>4 DEF DriverInv, TypeOK
  <2> QED
    BY <2>3, <2>4
<1>3. CASE PrepTests
  <2>1. program # "zhaba"
    BY <1>3 DEF PrepTests, DriverInv, ZhabaStopped
  <2>2. UNCHANGED <<pages, sheets, dirs>> /\ UNCHANGED full
    BY <1>3 DEF PrepTests, files
  <2>3. dirs \subseteq {"temp", "css"} /\ full \in BOOLEAN
    BY DEF DriverInv, TypeOK, FilesOK, FlagsOK
  <2>4. CASE Goes("readdir")
    <3>1. SheetsBegun' /\ ZhabaStopped' /\ PageFound'
      BY <2>1, <2>4 DEF Goes, SheetsBegun, ZhabaStopped, PageFound
    <3> QED
      BY <2>2, <2>3, <2>4, <3>1, GoesInv DEF Phases
  <2> QED
    BY <1>3, <2>2, <2>3, <2>4, EndedInv DEF PrepTests, Ends
<1> QED
  BY <1>1, <1>2, <1>3

\* The steps of render before it opens the page.  None but the first is taken
\* by a program without a pool.
LEMMA ReadInv ==
  ASSUME DriverInv, Fopen \/ Fread \/ Tokenize \/ Parse \/ MkdirOut
  PROVE  DriverInv'
<1>1. UNCHANGED <<pages, sheets>> /\ UNCHANGED full /\ dirs' \subseteq {"temp", "css"}
  BY DEF Fopen, Fread, Tokenize, Parse, MkdirOut, PoolFull, MkdirWorks, files,
     DriverInv, TypeOK, FilesOK
<1>2. full' \in BOOLEAN
  BY <1>1 DEF DriverInv, TypeOK, FlagsOK
<1>3. phase \in {"fopen", "fread", "tokenize", "parse", "mkdir"} /\ case \in Cases
  BY DEF Fopen, Fread, Tokenize, Parse, MkdirOut, DriverInv, TypeOK, ControlOK
<1>4. (\E how \in {"failure", "abort"} : Ended(how))
        \/ (\E next \in {"fread", "tokenize", "parse", "mkdir", "open page"} :
              Goes(next) /\ (next # "fread" => program # "zhaba"))
  BY DEF Fopen, Fread, Tokenize, Parse, MkdirOut, PoolFull, DriverInv, ZhabaStopped
<1>5. ASSUME NEW how \in {"failure", "abort"}, Ended(how) PROVE DriverInv'
  BY <1>1, <1>5, EndedInv DEF Ends
<1>6. ASSUME NEW next \in {"fread", "tokenize", "parse", "mkdir", "open page"},
             Goes(next), next # "fread" => program # "zhaba"
      PROVE  DriverInv'
  <2>1. SheetsBegun' /\ ZhabaStopped' /\ PageFound'
    BY <1>6 DEF Goes, SheetsBegun, ZhabaStopped, PageFound, DriverInv
  <2> QED
    BY <1>1, <1>2, <1>3, <1>6, <2>1, GoesInv DEF Phases
<1> QED
  BY <1>4, <1>5, <1>6

\* A page written for the case at work, by a program that goes on or ends.
LEMMA WrittenInv ==
  ASSUME DriverInv, case \in Cases, program # "zhaba", NEW amount \in Amounts,
         pages' = [pages EXCEPT ![PagePath(case)] = FileOf(case, amount)],
         amount # "start" => \A s \in Sheets : sheets[s] # "nothing",
         UNCHANGED <<sheets, dirs>>, full' \in BOOLEAN,
         \/ \E next \in {"open reset", "fopen page"} : Goes(next)
         \/ \E how \in {"abort", "killed"} : Ended(how)
  PROVE  DriverInv'
<1>1. /\ UNCHANGED <<program, todo, case, pool, source, passed, runs>>
      /\ phase' \in {"open reset", "fopen page", "idle"}
      /\ status' \in {status, "abort", "killed"}
  BY DEF Goes, Ended
<1>2. ControlOK'
  BY <1>1 DEF DriverInv, TypeOK, ControlOK, Phases, Ends
<1>3. FlagsOK'
  BY <1>1 DEF DriverInv, TypeOK, FlagsOK
<1>4. pages \in [PagePaths -> Pages] /\ FileOf(case, amount) \in Pages /\ FileOf(case, amount).has = amount
  BY FileWritten DEF DriverInv, TypeOK, FilesOK
<1>5. FilesOK'
  BY <1>1, <1>4 DEF DriverInv, TypeOK, FilesOK
<1>6. PagesHaveStyles'
  BY <1>4 DEF DriverInv, PagesHaveStyles
<1>7. SheetsBegun' /\ ZhabaStopped' /\ PageFound'
  BY <1>1 DEF DriverInv, SheetsBegun, ZhabaStopped, PageFound
<1> QED
  BY <1>2, <1>3, <1>5, <1>6, <1>7 DEF DriverInv, TypeOK

\* Opening the page, and writing it when both sheets have been opened.
LEMMA PageInv ==
  ASSUME DriverInv, OpenPage \/ GenHtml
  PROVE  DriverInv'
<1>1. /\ phase \in {"open page", "gen_html"} /\ case \in Cases
      /\ program # "zhaba" /\ full \in BOOLEAN /\ dirs \subseteq {"temp", "css"}
  BY DEF OpenPage, GenHtml, DriverInv, TypeOK, ControlOK, FlagsOK, FilesOK, ZhabaStopped
<1>2. ASSUME UNCHANGED <<pages, sheets, dirs>>, UNCHANGED full, NEW how \in {"failure", "abort"}, Ended(how)
      PROVE  DriverInv'
  BY <1>1, <1>2, EndedInv DEF Ends
<1>3. CASE OpenPage
  <2>1. CASE \E how \in {"failure", "abort"} : Ended(how) /\ UNCHANGED <<files, full>>
    BY <1>2, <2>1 DEF files
  <2>2. CASE /\ pages' = [pages EXCEPT ![PagePath(case)] = FileOf(case, "start")]
             /\ Goes("open reset")
             /\ UNCHANGED <<sheets, dirs, full>>
    <3>1. "start" \in Amounts /\ full' \in BOOLEAN
      BY <1>1, <2>2 DEF Amounts
    <3> QED
      BY <1>1, <2>2, <3>1, WrittenInv
  <2> QED
    BY <1>3, <2>1, <2>2 DEF OpenPage, PoolFull
<1>4. CASE GenHtml
  <2>1. \A s \in Sheets : sheets[s] # "nothing"
    BY <1>4 DEF GenHtml, DriverInv, SheetsBegun, Sheets
  <2>2. PICK amount \in Amounts :
          /\ pages' = [pages EXCEPT ![PagePath(case)] = FileOf(case, amount)]
          /\ \/ Goes("fopen page") /\ full' = (full \/ amount # "all")
             \/ Ended("abort") /\ UNCHANGED full
    BY <1>4 DEF GenHtml
  <2>3. phase = "gen_html" /\ UNCHANGED <<sheets, dirs>>
    BY <1>4 DEF GenHtml
  <2>4. full' \in BOOLEAN
    BY <1>1, <2>2
  <2> QED
    BY <1>1, <2>1, <2>2, <2>3, <2>4, WrittenInv
<1> QED
  BY <1>3, <1>4

\* A sheet that is opened or closed: the one before it has been.
LEMMA SheetStep ==
  ASSUME DriverInv, program # "zhaba", NEW next \in Phases, Goes(next), case \in Cases,
         NEW sheet \in Sheets, NEW amount \in {"cut", "whole"},
         sheets' = [sheets EXCEPT ![sheet] = amount] \/ UNCHANGED sheets,
         UNCHANGED pages, dirs' \subseteq {"temp", "css"}, full' \in BOOLEAN,
         SheetsBegun', next # "read page"
  PROVE  DriverInv'
<1>1. ControlOK'
  BY DEF DriverInv, TypeOK, ControlOK, Goes
<1>2. FlagsOK'
  BY DEF DriverInv, TypeOK, FlagsOK, Goes
<1>3. FilesOK'
  BY DEF DriverInv, TypeOK, FilesOK, Goes
<1>4. PagesHaveStyles'
  BY DEF DriverInv, PagesHaveStyles, TypeOK, FilesOK
<1>5. ZhabaStopped' /\ PageFound'
  BY DEF Goes, ZhabaStopped, PageFound
<1> QED
  BY <1>1, <1>2, <1>3, <1>4, <1>5 DEF DriverInv, TypeOK

\* The steps of write_css.
LEMMA SheetsInv ==
  ASSUME DriverInv, WriteCss
  PROVE  DriverInv'
<1>1. /\ program # "zhaba" /\ case \in Cases /\ full \in BOOLEAN /\ dirs \subseteq {"temp", "css"}
      /\ sheets \in [Sheets -> {"nothing", "cut", "whole"}]
  BY DEF WriteCss, DriverInv, TypeOK, ControlOK, FlagsOK, FilesOK, ZhabaStopped
<1>2. ASSUME NEW sheet \in Sheets, NEW next \in {"close reset", "close style"},
             OpenSheet(sheet, next),
             next = "close reset" => sheet = "reset",
             next = "close style" => sheet = "style" /\ sheets["reset"] # "nothing"
      PROVE  DriverInv'
  <2>1. dirs' \subseteq {"temp", "css"} /\ UNCHANGED pages /\ UNCHANGED full
    BY <1>1, <1>2 DEF OpenSheet, MkdirWorks, MkdirFails
  <2>2. CASE Ended("abort") /\ UNCHANGED sheets
    BY <2>1, <2>2, EndedInv DEF Ends
  <2>3. CASE sheets' = [sheets EXCEPT ![sheet] = "cut"] /\ Goes(next)
    <3>1. SheetsBegun'
      BY <1>1, <1>2, <2>3 DEF Goes, SheetsBegun, Sheets
    <3> QED
      BY <1>1, <2>1, <2>3, <3>1, SheetStep DEF Phases
  <2> QED
    BY <1>2, <2>2, <2>3 DEF OpenSheet
<1>3. ASSUME NEW sheet \in Sheets, NEW next \in {"open style", "gen_html"},
             CloseSheet(sheet, next), sheets["reset"] # "nothing",
             next = "gen_html" => sheets["style"] # "nothing"
      PROVE  DriverInv'
  <2>1. Goes(next) /\ UNCHANGED <<pages, dirs>>
    BY <1>3 DEF CloseSheet
  <2>2. sheets' = [sheets EXCEPT ![sheet] = "whole"] \/ UNCHANGED sheets
    BY <1>3 DEF CloseSheet
  <2>3. full' \in BOOLEAN
    BY <1>1, <1>3 DEF CloseSheet
  <2>4. SheetsBegun'
    BY <1>1, <1>3, <2>1, <2>2 DEF Goes, SheetsBegun, Sheets
  <2> QED
    BY <1>1, <2>1, <2>2, <2>3, <2>4, SheetStep DEF Phases
<1>4. "reset" \in Sheets /\ "style" \in Sheets
  BY DEF Sheets
<1>5. CASE phase = "open reset" /\ OpenSheet("reset", "close reset")
  BY <1>2, <1>4, <1>5
<1>6. CASE phase = "close reset" /\ CloseSheet("reset", "open style")
  BY <1>3, <1>4, <1>6 DEF DriverInv, SheetsBegun
<1>7. CASE phase = "open style" /\ OpenSheet("style", "close style")
  BY <1>2, <1>4, <1>7 DEF DriverInv, SheetsBegun
<1>8. CASE phase = "close style" /\ CloseSheet("style", "gen_html")
  BY <1>3, <1>4, <1>8 DEF DriverInv, SheetsBegun
<1> QED
  BY <1>5, <1>6, <1>7, <1>8 DEF WriteCss

\* The steps of test behind render write nothing.
LEMMA CompareInv ==
  ASSUME DriverInv, FopenPage \/ ReadPage \/ AssertEqual
  PROVE  DriverInv'
<1>1. /\ phase \in {"fopen page", "read page", "assert_equal"} /\ case \in Cases
      /\ program # "zhaba" /\ full \in BOOLEAN /\ dirs \subseteq {"temp", "css"}
  BY DEF FopenPage, ReadPage, AssertEqual, DriverInv, TypeOK, ControlOK, FlagsOK, FilesOK, ZhabaStopped
<1>2. UNCHANGED <<pages, sheets, dirs>> /\ UNCHANGED full
  BY DEF FopenPage, ReadPage, AssertEqual, files
<1>3. ASSUME NEW how \in {"failure", "abort"}, Ended(how)
      PROVE  DriverInv'
  BY <1>1, <1>2, <1>3, EndedInv DEF Ends
<1>4. CASE FopenPage
  <2>1. CASE pages[ReadPath(case)] # NoFile /\ Goes("read page")
    <3>1. PageFound'
      <4>1. UNCHANGED <<pages, case>>
        BY <1>2, <2>1 DEF Goes
      <4> QED
        BY <2>1, <4>1 DEF PageFound, ReadPath
    <3>2. SheetsBegun' /\ ZhabaStopped'
      BY <1>1, <2>1 DEF Goes, SheetsBegun, ZhabaStopped
    <3> QED
      BY <1>1, <1>2, <2>1, <3>1, <3>2, GoesInv DEF Phases
  <2> QED
    BY <1>3, <1>4, <2>1 DEF FopenPage
<1>5. CASE ReadPage
  <2>1. CASE /\ source' \in Contents(pages[ReadPath(case)])
             /\ phase' = "assert_equal"
             /\ UNCHANGED <<program, status, todo, case, pool, passed, runs>>
    <3>1. pages[ReadPath(case)] \in [of : Cases, has : Amounts]
      <4>1. pages[ReadPath(case)] \in Pages /\ pages[ReadPath(case)] # NoFile
        BY <1>1, <1>5, PathsOfCases DEF ReadPage, DriverInv, TypeOK, FilesOK, PageFound
      <4> QED
        BY <4>1 DEF Pages
    <3>2. source' \in {NoText} \cup [of : Cases, complete : BOOLEAN]
      <4> DEFINE f == pages[ReadPath(case)]
      <4>1. f.of \in Cases
        BY <3>1
      <4>2. Completeness(f) \subseteq BOOLEAN
        BY DEF Completeness
      <4>3. source' \in {source, NoText} \/ source' \in [of : {f.of}, complete : Completeness(f)]
        BY <2>1 DEF Contents
      <4>4. source \in {NoText} \cup [of : Cases, complete : BOOLEAN]
        BY DEF DriverInv, TypeOK, FilesOK
      <4>5. [of : {f.of}, complete : Completeness(f)] \subseteq [of : Cases, complete : BOOLEAN]
        BY ONLY <4>1, <4>2
      <4> QED
        BY <4>3, <4>4, <4>5
    <3>3. ControlOK'
      BY <1>1, <2>1 DEF DriverInv, TypeOK, ControlOK, Phases
    <3>4. FlagsOK' /\ PagesHaveStyles'
      BY <1>2, <2>1 DEF DriverInv, TypeOK, FlagsOK, PagesHaveStyles
    <3>5. FilesOK'
      BY <1>2, <3>2 DEF DriverInv, TypeOK, FilesOK
    <3>6. SheetsBegun' /\ ZhabaStopped' /\ PageFound'
      BY <1>1, <2>1 DEF SheetsBegun, ZhabaStopped, PageFound
    <3> QED
      BY <3>3, <3>4, <3>5, <3>6 DEF DriverInv, TypeOK
  <2> QED
    BY <1>3, <1>5, <2>1 DEF ReadPage
<1>6. CASE AssertEqual
  <2>1. CASE /\ passed' = passed \cup {case}
             /\ phase' = "readdir"
             /\ UNCHANGED <<program, status, todo, case, pool, source, runs>>
    <3>1. ControlOK'
      BY <1>1, <2>1 DEF DriverInv, TypeOK, ControlOK, Phases
    <3>2. FlagsOK' /\ FilesOK' /\ PagesHaveStyles'
      BY <1>2, <2>1 DEF DriverInv, TypeOK, FlagsOK, FilesOK, PagesHaveStyles
    <3>3. SheetsBegun' /\ ZhabaStopped' /\ PageFound'
      BY <1>1, <2>1 DEF SheetsBegun, ZhabaStopped, PageFound
    <3> QED
      BY <3>1, <3>2, <3>3 DEF DriverInv, TypeOK
  <2> QED
    BY <1>3, <1>6, <2>1 DEF AssertEqual
<1> QED
  BY <1>4, <1>5, <1>6

\* A kill leaves what is on the disk, and may leave more of the page.
LEMMA KillInv ==
  ASSUME DriverInv, Kill
  PROVE  DriverInv'
<1>1. Ended("killed") /\ UNCHANGED <<sheets, dirs, full>>
  BY DEF Kill
<1>2. full \in BOOLEAN /\ dirs \subseteq {"temp", "css"}
  BY DEF DriverInv, TypeOK, FlagsOK, FilesOK
<1>3. CASE UNCHANGED pages
  BY <1>1, <1>2, <1>3, EndedInv DEF Ends
<1>4. CASE phase = "gen_html" /\ \E amount \in {"some", "text"} :
                pages' = [pages EXCEPT ![PagePath(case)] = FileOf(case, amount)]
  <2>1. PICK amount \in {"some", "text"} :
          pages' = [pages EXCEPT ![PagePath(case)] = FileOf(case, amount)]
    BY <1>4
  <2>2. amount \in Amounts /\ case \in Cases /\ program # "zhaba" /\ \A s \in Sheets : sheets[s] # "nothing"
    BY <1>4 DEF Amounts, DriverInv, TypeOK, ControlOK, SheetsBegun, ZhabaStopped, Sheets
  <2> QED
    BY <1>1, <1>2, <2>1, <2>2, WrittenInv
<1> QED
  BY <1>3, <1>4 DEF Kill

\* Every step of a program keeps DriverInv.
LEMMA DriverInvNext ==
  ASSUME DriverInv, [Next]_vars
  PROVE  DriverInv'
<1>1. CASE Step
  BY <1>1, CasesInv, ReadInv, PageInv, SheetsInv, CompareInv DEF Step
<1>2. CASE UNCHANGED vars
  <2>1. UNCHANGED <<program, phase, status, todo, case, pool, source, pages, sheets, dirs, passed, full, runs>>
    BY <1>2 DEF vars, files
  <2>2. TypeOK'
    BY <2>1 DEF DriverInv, TypeOK, ControlOK, FlagsOK, FilesOK
  <2>3. PagesHaveStyles' /\ SheetsBegun'
    BY <2>1 DEF DriverInv, PagesHaveStyles, SheetsBegun
  <2>4. ZhabaStopped' /\ PageFound'
    BY <2>1 DEF DriverInv, ZhabaStopped, PageFound
  <2> QED
    BY <2>2, <2>3, <2>4 DEF DriverInv
<1> QED
  BY <1>1, <1>2, StartInv, KillInv DEF Next

\* The inductive invariant of the control and of the sheets.
THEOREM DriverCorrect == Spec => []DriverInv
<1>1. DriverInv /\ [Next]_vars => DriverInv'
  BY DriverInvNext
<1> QED
  BY DriverInvInit, <1>1, PTL DEF Spec

\* The state of the programs and the files stay of their kinds.
THEOREM DriverTypeCorrect == Spec => []TypeOK
<1>1. DriverInv => TypeOK
  BY DEF DriverInv
<1> QED
  BY DriverCorrect, <1>1, PTL

\* However often a program is killed, no page with a text lacks a style sheet.
THEOREM StylesBesidePages == Spec => []PagesHaveStyles
<1>1. DriverInv => PagesHaveStyles
  BY DEF DriverInv
<1> QED
  BY DriverCorrect, <1>1, PTL

\* A source is known to be accepted by tokenize before parse sees it, and by parse
\* before the first file is opened for writing.
Accepted ==
  /\ phase = "parse" => Verdict[case] # "tokenize"
  /\ phase \in {"mkdir", "open page", "open reset", "close reset", "open style", "close style", "gen_html"} =>
       Verdict[case] \notin {"tokenize", "parse"}

\* Every step keeps Accepted: a step that does not end moves on by one phase.
LEMMA AcceptedNext ==
  ASSUME Accepted, [Next]_vars
  PROVE  Accepted'
<1>1. CASE phase' \in {"idle", "fopen", "mkdir temp", "readdir", "prep", "fread", "tokenize",
                      "fopen page", "read page", "assert_equal"}
  BY <1>1 DEF Accepted
<1>2. CASE Tokenize \/ Parse \/ MkdirOut \/ OpenPage
  <2>1. \/ phase' = "idle"
        \/ UNCHANGED case /\ phase' = "parse" /\ Verdict[case] # "tokenize"
        \/ UNCHANGED case /\ phase = "parse" /\ phase' = "mkdir" /\ Verdict[case] # "parse"
        \/ /\ UNCHANGED case /\ phase \in {"mkdir", "open page"}
           /\ phase' \in {"open page", "open reset"}
    BY <1>2 DEF Tokenize, Parse, MkdirOut, OpenPage, PoolFull, Goes, Ended
  <2> QED
    BY <2>1 DEF Accepted
<1>3. CASE WriteCss
  <2>1. \/ phase' = "idle"
        \/ /\ UNCHANGED case /\ phase \in {"open reset", "close reset", "open style", "close style"}
           /\ phase' \in {"close reset", "open style", "close style", "gen_html"}
    BY <1>3 DEF WriteCss, OpenSheet, CloseSheet, Goes, Ended
  <2> QED
    BY <2>1 DEF Accepted
<1>4. CASE UNCHANGED vars
  BY <1>4 DEF vars, Accepted
<1>5. CASE /\ Next
           /\ ~(Tokenize \/ Parse \/ MkdirOut \/ OpenPage) /\ ~WriteCss
  <2>1. CASE Step
    BY <1>1, <1>5, <2>1 DEF Step, MkdirTemp, Readdir, PrepTests, Fopen, Fread, GenHtml, FopenPage, ReadPage,
       AssertEqual, PoolFull, Goes, Ended
  <2>2. CASE ~Step
    BY <1>1, <1>5, <2>2 DEF Next, StartZhaba, StartTest, Kill, Ended
  <2> QED
    BY <2>1, <2>2
<1> QED
  BY <1>2, <1>3, <1>4, <1>5

\* The page and the sheets of an earlier program stay when the source of a case
\* does not go through tokenize and parse.
THEOREM OldPagesSurvive == Spec => OldPagesKept
<1>1. Init => Accepted
  BY DEF Init, Accepted
<1>2. Accepted /\ [Next]_vars => Accepted'
  BY AcceptedNext
<1>3. ASSUME DriverInv, Accepted, [Next]_vars
      PROVE  [/\ \A p \in PagePaths :
                   pages'[p] # pages[p] => p = PagePath(case) /\ Verdict[case] \notin {"tokenize", "parse"}
              /\ sheets' # sheets => Verdict[case] \notin {"tokenize", "parse"}]_vars
  <2>1. \/ UNCHANGED pages
        \/ /\ phase \in {"open page", "gen_html"}
           /\ \E file : pages' = [pages EXCEPT ![PagePath(case)] = file]
    <3>1. CASE OpenPage \/ GenHtml \/ Kill
      BY <3>1 DEF OpenPage, GenHtml, Kill, PoolFull, files
    <3>2. CASE MkdirTemp \/ Readdir \/ PrepTests \/ Fopen \/ Fread \/ Tokenize \/ Parse \/ MkdirOut \/ WriteCss
                 \/ FopenPage \/ ReadPage \/ AssertEqual
      BY <3>2 DEF MkdirTemp, Readdir, PrepTests, Fopen, Fread, Tokenize, Parse, MkdirOut, WriteCss, OpenSheet,
         CloseSheet, FopenPage, ReadPage, AssertEqual, PoolFull, files
    <3>3. CASE UNCHANGED vars
      BY <3>3 DEF vars, files
    <3>4. CASE (\E name \in Cases : StartZhaba(name))
                 \/ (\E only \in {Cases} \cup {{name} : name \in Cases} : StartTest(only))
      BY <3>4 DEF StartZhaba, StartTest, files
    <3> QED
      BY <1>3, <3>1, <3>2, <3>3, <3>4 DEF Next, Step
  <2>2. UNCHANGED sheets \/ phase \in {"open reset", "close reset", "open style", "close style"}
    <3>1. CASE WriteCss
      BY <3>1 DEF WriteCss
    <3>2. CASE Step /\ ~WriteCss
      BY <3>2 DEF Step, MkdirTemp, Readdir, PrepTests, Fopen, Fread, Tokenize, Parse, MkdirOut, OpenPage, GenHtml,
         FopenPage, ReadPage, AssertEqual, PoolFull, files
    <3>3. CASE UNCHANGED vars
      BY <3>3 DEF vars, files
    <3>4. CASE (\E name \in Cases : StartZhaba(name))
                 \/ (\E only \in {Cases} \cup {{name} : name \in Cases} : StartTest(only)) \/ Kill
      BY <3>4 DEF StartZhaba, StartTest, Kill, files
    <3> QED
      BY <1>3, <3>1, <3>2, <3>3, <3>4 DEF Next
  <2>3. ASSUME NEW p \in PagePaths, pages'[p] # pages[p]
        PROVE  p = PagePath(case) /\ Verdict[case] \notin {"tokenize", "parse"}
    <3>1. /\ phase \in {"open page", "gen_html"}
          /\ \E file : pages' = [pages EXCEPT ![PagePath(case)] = file]
      BY <2>1, <2>3
    <3>2. pages \in [PagePaths -> Pages]
      BY <1>3 DEF DriverInv, TypeOK, FilesOK
    <3>3. p = PagePath(case)
      BY <2>3, <3>1, <3>2
    <3> QED
      BY <1>3, <3>1, <3>3 DEF Accepted
  <2>4. sheets' # sheets => Verdict[case] \notin {"tokenize", "parse"}
    BY <1>3, <2>2 DEF Accepted
  <2> QED
    BY <2>3, <2>4
<1> QED
  BY <1>1, <1>2, <1>3, DriverCorrect, PTL DEF Spec, OldPagesKept

-----------------------------------------------------------------------------
(***************************************************************************)
(* The paths: where render puts a page and where test looks for it.        *)
(***************************************************************************)

\* The page the name of a case means is named by it up to its first dot.
Stem(name) == SubSeq(name, 1, Min(Places(name, ".")) - 1)
Meant(name) == path_join(OutDir, Stem(name) \o HtmlExt)

\* A set of naturals has a least element.
LEMMA LeastNat ==
  ASSUME NEW T, T \subseteq Nat, T # {}
  PROVE  \E x \in T : \A y \in T : x <= y
<1>1. PICK x \in T : \A y \in T : <<y, x>> \notin OpToRel(<, Nat)
  BY NatLessThanWellFounded, WFMin
<1>2. ASSUME NEW y \in T PROVE x <= y
  <2>1. ~(y < x)
    BY <1>1 DEF OpToRel
  <2> QED
    BY <2>1
<1> QED
  BY <1>2

\* A set of naturals below a bound has a greatest element.
LEMMA GreatestNat ==
  ASSUME NEW n \in Nat, NEW T, T \subseteq 0..n, T # {}
  PROVE  \E x \in T : \A y \in T : x >= y
<1> DEFINE U == {n - x : x \in T}
<1>1. U \subseteq Nat /\ U # {}
  <2>1. ASSUME NEW x \in T PROVE n - x \in Nat
    <3>1. x \in 0..n
      OBVIOUS
    <3> QED
      BY <3>1
  <2> QED
    BY <2>1
<1>2. PICK u \in U : \A y \in U : u <= y
  BY <1>1, LeastNat
<1>3. PICK x \in T : u = n - x
  BY <1>2
<1>4. ASSUME NEW y \in T PROVE x >= y
  <2>1. n - y \in U
    OBVIOUS
  <2>2. n - x <= n - y
    BY <1>2, <1>3, <2>1
  <2>3. x \in 0..n /\ y \in 0..n
    BY <1>3
  <2> QED
    BY <2>2, <2>3
<1> QED
  BY <1>3, <1>4

\* The least place of a word in a path, and the greatest.
LEMMA MinIs ==
  ASSUME NEW T, T \subseteq Nat, T # {}
  PROVE  Min(T) \in T /\ \A y \in T : Min(T) <= y
<1>1. \E x \in T : \A y \in T : x =< y
  BY LeastNat
<1> QED
  BY <1>1, Zenon DEF Min

LEMMA MaxIs ==
  ASSUME NEW n \in Nat, NEW T, T \subseteq 0..n, T # {}
  PROVE  Max(T) \in T /\ \A y \in T : y <= Max(T)
<1>1. \E x \in T : \A y \in T : x >= y
  BY GreatestNat
<1>2. Max(T) \in T /\ \A y \in T : Max(T) >= y
  BY <1>1, Zenon DEF Max
<1>3. \A y \in T : y \in 0..n
  OBVIOUS
<1> QED
  BY <1>2, <1>3

\* The name of a case has a dot and no slash.
LEMMA CaseName ==
  ASSUME NEW c \in Cases
  PROVE  /\ c \in Seq(STRING) /\ Places(c, "/") = {}
         /\ Places(c, ".") \subseteq 1..Len(c) /\ Places(c, ".") # {}
<1>1. c \in Seq(STRING) /\ Places(c, "/") = {} /\ endswith(c, CExt)
  BY DriverAssumption DEF Cases
<1>2. Len(c) \in Nat /\ DOMAIN c = 1..Len(c)
  BY <1>1
<1>3. Places(c, ".") \subseteq 1..Len(c)
  BY <1>2 DEF Places
<1>4. /\ Len(CExt) = 2 /\ 2 <= Len(c)
      /\ SubSeq(c, Len(c) - 1, Len(c)) = <<".", "c">>
  BY <1>1, <1>2 DEF endswith, CExt
<1>5. SubSeq(c, Len(c) - 1, Len(c))[1] = c[Len(c) - 1]
  BY <1>1, <1>2, <1>4
<1>6. Len(c) - 1 \in Places(c, ".")
  <2>1. <<".", "c">>[1] = "."
    OBVIOUS
  <2>2. c[Len(c) - 1] = "."
    BY <1>4, <1>5, <2>1, Zenon
  <2>3. Len(c) - 1 \in 1..Len(c)
    BY <1>2, <1>4
  <2> QED
    BY <1>2, <2>2, <2>3 DEF Places
<1> QED
  BY <1>1, <1>3, <1>6

\* Where the name that render gives the page ends.
FirstDot(c) == Min(Places(c, "."))

\* The first dot of a case has none before it.
LEMMA FirstDotIs ==
  ASSUME NEW c \in Cases
  PROVE  /\ FirstDot(c) \in 1..Len(c) /\ c[FirstDot(c)] = "."
         /\ \A i \in 1..(FirstDot(c) - 1) : c[i] # "."
<1>1. /\ c \in Seq(STRING) /\ Places(c, ".") \subseteq 1..Len(c) /\ Places(c, ".") # {}
  BY CaseName
<1>2. Places(c, ".") \subseteq Nat
  BY <1>1
<1>3. FirstDot(c) \in Places(c, ".") /\ \A y \in Places(c, ".") : FirstDot(c) <= y
  BY <1>1, <1>2, MinIs DEF FirstDot
<1> QED
  BY <1>1, <1>3 DEF Places

\* render names the page by what is before the first dot.
LEMMA PageIsMeant ==
  ASSUME NEW c \in Cases
  PROVE  PagePath(c) = Meant(c)
<1> DEFINE f == path_join(CaseDir, c)
           m == FirstDot(c)
           start == Max(Places(f, "/") \cup {0}) + 1
           W == STRING \cup {"cases", "/"}
           end == Min({i \in start..Len(f) : f[i] = "."} \cup {Len(f) + 1})
<1>0. "cases" \in W /\ "/" \in W
  OBVIOUS
<1>1. c \in Seq(W) /\ Places(c, "/") = {} /\ Len(c) \in Nat
  <2>1. STRING \subseteq W
    OBVIOUS
  <2> HIDE DEF W
  <2>2. c \in Seq(STRING) /\ Places(c, "/") = {}
    BY CaseName
  <2>3. c \in Seq(W)
    BY <2>1, <2>2, SeqMonotonic, Zenon
  <2> QED
    BY <2>2, <2>3
<1> HIDE DEF W
<1>2. f \in Seq(W) /\ Len(f) = Len(c) + 2 /\ f[1] = "cases" /\ f[2] = "/"
      /\ \A i \in 1..Len(c) : f[i + 2] = c[i]
  <2> DEFINE g == <<"cases">> \o <<"/">>
  <2>1. g \in Seq(W) /\ Len(g) = 2 /\ g[1] = "cases" /\ g[2] = "/"
    <3>1. /\ <<"cases">> \in Seq(W) /\ Len(<<"cases">>) = 1 /\ <<"cases">>[1] = "cases"
          /\ <<"/">> \in Seq(W) /\ Len(<<"/">>) = 1 /\ <<"/">>[1] = "/"
      BY <1>0
    <3>2. /\ g \in Seq(W) /\ Len(g) = 1 + 1
          /\ \A i \in 1..(1 + 1) : g[i] = IF i <= 1 THEN <<"cases">>[i] ELSE <<"/">>[i - 1]
      <4> DEFINE u == <<"cases">>
                 v == <<"/">>
      <4> HIDE DEF u, v
      <4>1. /\ u \o v \in Seq(W) /\ Len(u \o v) = Len(u) + Len(v)
            /\ \A i \in 1..(Len(u) + Len(v)) : (u \o v)[i] = IF i <= Len(u) THEN u[i] ELSE v[i - Len(u)]
        BY <3>1, ConcatProperties, Zenon DEF u, v
      <4> QED
        BY <3>1, <4>1, Zenon DEF u, v
    <3>3. 1 \in 1..(1 + 1) /\ 2 \in 1..(1 + 1) /\ 1 <= 1 /\ ~(2 <= 1) /\ 1 + 1 = 2 /\ 2 - 1 = 1
      OBVIOUS
    <3> HIDE DEF g
    <3>4. g[1] = <<"cases">>[1] /\ g[2] = <<"/">>[2 - 1]
      BY <3>2, <3>3, Zenon
    <3> QED
      BY <3>1, <3>2, <3>3, <3>4, Zenon
  <2>2. f = g \o c
    BY DEF path_join, CaseDir
  <2> HIDE DEF f, g
  <2>3. /\ f \in Seq(W) /\ Len(f) = Len(g) + Len(c)
        /\ \A i \in 1..(Len(g) + Len(c)) : f[i] = IF i <= Len(g) THEN g[i] ELSE c[i - Len(g)]
    BY <1>1, <2>1, <2>2, ConcatProperties
  <2>4. f[1] = g[1] /\ f[2] = g[2]
    BY <1>1, <2>1, <2>3
  <2>5. ASSUME NEW i \in 1..Len(c) PROVE f[i + 2] = c[i]
    <3>1. i + 2 \in 1..(2 + Len(c)) /\ ~(i + 2 <= 2) /\ (i + 2) - 2 = i
      BY <1>1
    <3> QED
      BY <2>1, <2>3, <3>1
  <2> QED
    BY <1>1, <2>1, <2>3, <2>4, <2>5
<1>3. Places(f, "/") = {2}
  <2>1. ASSUME NEW i \in DOMAIN f, f[i] = "/" PROVE i = 2
    <3>1. CASE i > 2
      <4>1. i - 2 \in 1..Len(c) /\ f[(i - 2) + 2] = c[i - 2]
        BY <1>1, <1>2, <3>1
      <4>2. c[i - 2] = "/"
        BY <1>1, <1>2, <2>1, <3>1, <4>1
      <4> QED
        BY <1>1, <4>1, <4>2 DEF Places
    <3> QED
      BY <1>2, <2>1, <3>1
  <2> QED
    BY <1>1, <1>2, <2>1 DEF Places
<1>4. start = 3
  <2>1. Places(f, "/") \cup {0} = {0, 2}
    BY <1>3
  <2>2. Max({0, 2}) \in {0, 2} /\ \A y \in {0, 2} : y <= Max({0, 2})
    BY MaxIs, {0, 2} \subseteq 0..2
  <2>3. Max({0, 2}) = 2
    BY <2>2
  <2> QED
    BY <2>1, <2>3
<1>5. m \in 1..Len(c) /\ c[m] = "." /\ \A i \in 1..(m - 1) : c[i] # "."
  BY FirstDotIs
<1>6. end = m + 2
  <2> DEFINE D == {i \in 3..Len(f) : f[i] = "."} \cup {Len(f) + 1}
  <2>1. D \subseteq Nat /\ m + 2 \in D
    BY <1>1, <1>2, <1>5
  <2>2. ASSUME NEW y \in D PROVE m + 2 <= y
    <3>1. CASE y = Len(f) + 1
      BY <1>1, <1>2, <1>5, <3>1
    <3>2. CASE y \in 3..Len(f) /\ f[y] = "."
      <4>1. y - 2 \in 1..Len(c) /\ f[(y - 2) + 2] = c[y - 2]
        BY <1>1, <1>2, <3>2
      <4>2. c[y - 2] = "."
        BY <1>1, <1>2, <3>2, <4>1
      <4> QED
        BY <1>1, <1>5, <4>1, <4>2
    <3> QED
      BY <3>1, <3>2
  <2>3. Min(D) \in D /\ \A y \in D : Min(D) <= y
    BY <2>1, MinIs
  <2>4. Min(D) = m + 2
    <3>0. m \in Nat
      BY <1>1, <1>5
    <3> HIDE DEF D, m
    <3>1. Min(D) <= m + 2
      BY <2>1, <2>3
    <3>2. m + 2 <= Min(D)
      BY <2>2, <2>3
    <3>3. Min(D) \in Nat
      BY <2>1, <2>3
    <3> QED
      BY <3>0, <3>1, <3>2, <3>3
  <2> QED
    BY <1>4, <2>4
<1>7. SubSeq(f, 3, m + 1) = SubSeq(c, 1, m - 1)
  <2>1. Len(SubSeq(f, 3, m + 1)) = m - 1 /\ Len(SubSeq(c, 1, m - 1)) = m - 1
    BY <1>1, <1>2, <1>5
  <2>2. ASSUME NEW i \in 1..(m - 1) PROVE SubSeq(f, 3, m + 1)[i] = SubSeq(c, 1, m - 1)[i]
    BY <1>1, <1>2, <1>5
  <2>3. SubSeq(f, 3, m + 1) \in Seq(W) /\ SubSeq(c, 1, m - 1) \in Seq(W)
    BY <1>1, <1>2, <1>5
  <2> QED
    BY <2>1, <2>2, <2>3, SeqEqual
<1>8. path_basename_noext(f, BeforeArgument) = SubSeq(f, start, end - 1)
  <2>1. start # 1
    BY <1>4
  <2> HIDE DEF f
  <2>2. path_basename_noext(f, BeforeArgument)
          = IF start = 1 /\ BeforeArgument # "/" THEN CString(<<BeforeArgument>> \o SubSeq(f, start, end - 1))
            ELSE SubSeq(f, start, end - 1)
    BY Zenon DEF path_basename_noext
  <2> QED
    BY <2>1, <2>2, Zenon
<1>9. path_basename_noext(f, BeforeArgument) = SubSeq(c, 1, m - 1)
  <2>1. end - 1 = m + 1
    BY <1>1, <1>5, <1>6
  <2> QED
    BY <1>4, <1>7, <1>8, <2>1
<1> QED
  BY <1>9 DEF PagePath, Meant, Stem, path_withext, FirstDot

\* Two names with one page of render begin alike.
LEMMA SameStem ==
  ASSUME NEW s \in Seq(STRING), NEW t \in Seq(STRING),
         path_join(OutDir, s \o HtmlExt) = path_join(OutDir, t \o HtmlExt)
  PROVE  s = t
<1> DEFINE W == STRING \cup {"temp", "/", ".", "html"}
           dir == OutDir \o <<"/">>
<1>1. "temp" \in W /\ "/" \in W /\ "." \in W /\ "html" \in W /\ STRING \subseteq W
  OBVIOUS
<1> HIDE DEF W
<1>2. s \in Seq(W) /\ t \in Seq(W)
  BY <1>1, SeqMonotonic, Zenon
<1>3. HtmlExt \in Seq(W) /\ OutDir \in Seq(W) /\ <<"/">> \in Seq(W)
  BY <1>1 DEF HtmlExt, OutDir
<1>4. dir \in Seq(W) /\ s \o HtmlExt \in Seq(W) /\ t \o HtmlExt \in Seq(W)
  BY <1>2, <1>3, ConcatProperties, Zenon
<1>5. dir \o (s \o HtmlExt) = dir \o (t \o HtmlExt)
  BY DEF path_join
<1>6. s \o HtmlExt = t \o HtmlExt
  BY <1>4, <1>5, ConcatSimplifications, Zenon
<1> QED
  BY <1>2, <1>3, <1>6, ConcatSimplifications, Zenon

\* The file test reads is a page of render only when the name of the case has
\* one dot, and is then the page of the case.
LEMMA ReadIsMeant ==
  ASSUME NEW c \in Cases, NEW d \in Cases, ReadPath(c) = PagePath(d)
  PROVE  ReadPath(c) = Meant(c)
<1> DEFINE last == Max(Places(c, "."))
           dot == Min(Places(d, "."))
           s == SubSeq(c, 1, last - 1)
           t == SubSeq(d, 1, dot - 1)
<1>1. /\ c \in Seq(STRING) /\ Places(c, ".") \subseteq 1..Len(c) /\ Places(c, ".") # {}
      /\ d \in Seq(STRING) /\ Len(c) \in Nat /\ Len(d) \in Nat
  BY CaseName
<1>2. last \in Places(c, ".") /\ \A y \in Places(c, ".") : y <= last
  BY <1>1, MaxIs
<1>3. dot \in 1..Len(d) /\ \A i \in 1..(dot - 1) : d[i] # "."
  BY FirstDotIs DEF FirstDot
<1>4. last \in 1..Len(c)
  BY <1>1, <1>2
<1>5. /\ s \in Seq(STRING) /\ Len(s) = last - 1 /\ \A i \in 1..(last - 1) : s[i] = c[i]
      /\ t \in Seq(STRING) /\ Len(t) = dot - 1 /\ \A i \in 1..(dot - 1) : t[i] = d[i]
  BY <1>1, <1>3, <1>4
<1>6. s = t
  <2>1. ReadPath(c) = path_join(OutDir, s \o HtmlExt)
    BY <1>1 DEF ReadPath, path_replace_ext
  <2>2. PagePath(d) = path_join(OutDir, t \o HtmlExt)
    BY PageIsMeant DEF Meant, Stem
  <2> HIDE DEF s, t
  <2> QED
    BY <1>5, <2>1, <2>2, SameStem, Zenon
<1>7. \A i \in 1..(last - 1) : c[i] # "."
  <2> HIDE DEF s, t, last, dot
  <2> QED
    BY <1>3, <1>4, <1>5, <1>6
<1>8. Min(Places(c, ".")) = last
  <2>1. /\ Min(Places(c, ".")) \in Places(c, ".")
        /\ \A y \in Places(c, ".") : Min(Places(c, ".")) <= y
    <3>1. Places(c, ".") \subseteq Nat
      BY <1>1
    <3> QED
      BY <1>1, <3>1, MinIs
  <2> DEFINE first == Min(Places(c, "."))
  <2>2. first <= last /\ first \in 1..Len(c) /\ c[first] = "."
    BY <1>1, <1>2, <2>1 DEF Places
  <2> HIDE DEF first, last
  <2>3. first = last
    BY <1>1, <1>4, <1>7, <2>2
  <2> QED
    BY <2>3 DEF first
<1>9. ReadPath(c) = path_join(OutDir, s \o HtmlExt)
  BY <1>1 DEF ReadPath, path_replace_ext
<1> HIDE DEF last
<1> QED
  BY <1>8, <1>9 DEF Meant, Stem

\* No case is the directory's entry for the tests of the preprocessor.
LEMMA PrepIsNoCase == Prep \notin Cases /\ NoEntry \notin Cases
<1>1. Len(Prep) = 1 /\ Len(NoEntry) = 0 /\ Len(CExt) = 2
  BY DEF Prep, NoEntry, CExt
<1>2. ASSUME NEW c \in Cases PROVE 2 <= Len(c)
  BY <1>1 DEF Cases, endswith
<1> QED
  BY <1>1, <1>2

-----------------------------------------------------------------------------
(***************************************************************************)
(* What a test has done.  TestInv says, beside the two properties of the   *)
(* runs, what each step needs of the ones before: which case is at work    *)
(* and that it has not passed, whose page is being compared, where the     *)
(* text in the array comes from, and which sheets and pages are whole      *)
(* while no end but a good one and no full disk has been met.              *)
(***************************************************************************)

\* Between the cases; behind the fopen of the page; behind render.
Between == {"idle", "mkdir temp", "readdir", "prep"}
Rendering == {"open reset", "close reset", "open style", "close style", "gen_html"}
Comparing == {"fopen page", "read page", "assert_equal"}

\* A page is where render puts that of a case.
PagesOfCases == \A p \in PagePaths : pages[p] # NoFile => \E c \in Cases : p = PagePath(c)

\* An entry is taken once; the case at work has not passed, one that is no
\* longer at work has.
TakenOnce ==
  /\ todo \cap passed = {}
  /\ phase \notin Between => case \notin todo \cup passed
  /\ phase = "mkdir temp" => case = NoEntry
  /\ phase = "prep" => case = Prep
  /\ phase = "readdir" => case \in passed \cup {Prep, NoEntry}
  /\ case = NoEntry => passed = {}

\* test reads the page behind the render that wrote it, to its end but on a full
\* disk.
PageOfCase ==
  phase \in Comparing => pages[Meant(case)].of = case /\ (full \/ pages[Meant(case)].has = "all")

\* The page of a case is what test has read to pass it, or compares.
ReadRight ==
  /\ \A c \in passed : ReadPath(c) = Meant(c)
  /\ phase = "assert_equal" => ReadPath(case) = Meant(case)

\* PassedIsShown, of the page that the name of the case means.
PassedOnPage ==
  \A c \in passed :
    \/ Shows(pages[Meant(c)], c)
    \/ pages[Meant(c)].of \in (passed \cup {case}) \ {c}
    \/ /\ pages[Meant(c)] = FileOf(c, "start") /\ full
       /\ \E d \in passed \ {c} : Expected[ExpectedName(d)] = Expected[ExpectedName(c)]

\* A program that runs has met no end.
StatusNone == phase # "idle" => status = "none"

\* The text in the array is on the page of the case at work, or is the one a
\* case that passed was expected to show, the page being one a full disk has cut
\* before its text.
SourceKnown ==
  phase # "idle" /\ source.complete =>
    \/ /\ \E d \in passed : Text[source.of] = Expected[ExpectedName(d)]
       /\ phase = "assert_equal" => pages[Meant(case)] = FileOf(case, "start") /\ full
    \/ phase = "assert_equal" /\ Shows(pages[Meant(case)], case)

\* The run of test has met no end but the good one, and no full disk.
Good == program = "test" /\ ~full /\ (phase # "idle" \/ status = "exit 0")

\* Each sheet is whole from its fclose to its next fopen.
SheetsWhole ==
  Good =>
    /\ phase \in {"open style", "close style", "gen_html"} \cup Comparing => sheets["reset"] = "whole"
    /\ phase \in {"gen_html"} \cup Comparing => sheets["style"] = "whole"
    /\ passed # {} /\ phase # "close reset" => sheets["reset"] = "whole"
    /\ passed # {} /\ phase # "close style" => sheets["style"] = "whole"

\* The page a case passed on is whole, whoever wrote it last.
PagesWhole ==
  Good =>
    /\ phase \in Comparing => pages[Meant(case)] = FileOf(case, "all")
    /\ \A c \in passed :
         \/ phase \in Rendering \cup Comparing /\ Meant(c) = Meant(case)
         \/ \E d \in passed : Meant(d) = Meant(c) /\ pages[Meant(c)] = FileOf(d, "all")

TestInv ==
  /\ StatusNone /\ PagesOfCases /\ TakenOnce /\ PageOfCase /\ SourceKnown
  /\ ReadRight /\ PassedOnPage /\ SheetsWhole /\ PagesWhole

\* A page that is written is the one the name of the case means, and no other.
LEMMA PageWritten ==
  ASSUME DriverInv, case \in Cases, NEW amount \in Amounts,
         pages' = [pages EXCEPT ![PagePath(case)] = FileOf(case, amount)]
  PROVE  /\ pages'[Meant(case)] = FileOf(case, amount)
         /\ \A c \in Cases : Meant(c) # Meant(case) => pages'[Meant(c)] = pages[Meant(c)]
         /\ PagesOfCases => PagesOfCases'
<1>1. /\ pages \in [PagePaths -> Pages] /\ Meant(case) = PagePath(case)
      /\ \A c \in Cases : Meant(c) \in PagePaths
  BY PageIsMeant, PathsOfCases DEF DriverInv, TypeOK, FilesOK
<1>2. /\ pages'[Meant(case)] = FileOf(case, amount)
      /\ \A p \in PagePaths : p # Meant(case) => pages'[p] = pages[p]
  BY <1>1
<1>3. ASSUME PagesOfCases PROVE PagesOfCases'
  <2> SUFFICES ASSUME NEW p \in PagePaths, pages'[p] # NoFile PROVE \E c \in Cases : p = PagePath(c)
    BY DEF PagesOfCases
  <2>1. CASE p = Meant(case)
    BY <1>1, <2>1
  <2>2. CASE p # Meant(case)
    BY <1>2, <1>3, <2>2 DEF PagesOfCases
  <2> QED
    BY <2>1, <2>2
<1> QED
  BY <1>1, <1>2, <1>3

\* What the case at work writes, no case that passed has to itself.
LEMMA WrittenPassed ==
  ASSUME DriverInv, TakenOnce, PassedOnPage, phase \notin Between, case \in Cases, NEW amount \in Amounts,
         pages' = [pages EXCEPT ![PagePath(case)] = FileOf(case, amount)],
         UNCHANGED <<case, passed>>, full => full'
  PROVE  PassedOnPage'
<1> SUFFICES ASSUME NEW c \in passed
             PROVE  \/ Shows(pages'[Meant(c)], c)
                    \/ pages'[Meant(c)].of \in (passed \cup {case}) \ {c}
                    \/ /\ pages'[Meant(c)] = FileOf(c, "start") /\ full'
                       /\ \E d \in passed \ {c} : Expected[ExpectedName(d)] = Expected[ExpectedName(c)]
  BY DEF PassedOnPage, Meant, Stem, Shows, ExpectedName, FileOf
<1>1. c \in Cases /\ c # case
  BY DEF DriverInv, TypeOK, ControlOK, TakenOnce
<1>2. CASE Meant(c) = Meant(case)
  <2>1. pages'[Meant(c)] = FileOf(case, amount)
    BY <1>2, PageWritten
  <2>2. pages'[Meant(c)].of = case
    BY <2>1 DEF FileOf
  <2> QED
    BY <1>1, <2>2
<1>3. CASE Meant(c) # Meant(case)
  <2>1. pages'[Meant(c)] = pages[Meant(c)]
    BY <1>1, <1>3, PageWritten
  <2> QED
    BY <2>1 DEF PassedOnPage
<1> QED
  BY <1>2, <1>3

\* A program ends, and not well.
LEMMA BadEnd ==
  ASSUME DriverInv, TestInv, NEW how \in {"failure", "abort", "killed"}, Ended(how),
         PagesOfCases', PassedOnPage'
  PROVE  TestInv'
<1>1. /\ phase' = "idle" /\ status' = how
      /\ UNCHANGED <<program, todo, case, pool, source, passed, runs>>
  BY DEF Ended
<1>2. ~Good'
  BY <1>1 DEF Good
<1>3. SheetsWhole' /\ PagesWhole'
  BY <1>2 DEF SheetsWhole, PagesWhole
<1>4. StatusNone' /\ TakenOnce' /\ PageOfCase' /\ SourceKnown'
  BY <1>1 DEF TestInv, StatusNone, TakenOnce, PageOfCase, SourceKnown, Between, Comparing
<1>5. ReadRight'
  BY <1>1 DEF TestInv, ReadRight, ReadPath, Meant, Stem
<1> QED
  BY <1>3, <1>4, <1>5 DEF TestInv

\* Where no page changes, the pages are where they were.
LEMMA PagesKept ==
  ASSUME TestInv, UNCHANGED <<pages, case, passed>>, full => full'
  PROVE  PagesOfCases' /\ PassedOnPage'
BY DEF TestInv, PagesOfCases, PassedOnPage, Shows, Meant, Stem, ExpectedName, PagePath, FileOf

\* A step of render or of the tests of the preprocessor that touches no page and
\* no sheet; the case at work stays.
LEMMA PlainStep ==
  ASSUME DriverInv, TestInv, NEW next \in Phases, Goes(next), UNCHANGED <<pages, sheets, full>>,
         phase \notin {"idle", "mkdir temp", "readdir", "assert_equal"} \cup Rendering,
         next \notin {"idle", "mkdir temp", "prep", "assert_equal"} \cup Rendering,
         phase = "prep" <=> next = "readdir", phase \in Comparing <=> next \in Comparing
  PROVE  TestInv'
<1>1. /\ phase' = next
      /\ UNCHANGED <<program, status, todo, case, pool, source, passed, runs>>
  BY DEF Goes
<1>2. PagesOfCases' /\ PassedOnPage'
  BY <1>1, PagesKept
<1>3. StatusNone'
  BY <1>1 DEF TestInv, StatusNone
<1>4. TakenOnce'
  BY <1>1 DEF TestInv, TakenOnce, Between, Rendering
<1>5. PageOfCase'
  BY <1>1, <1>2 DEF TestInv, PageOfCase, Meant, Stem
<1>6. SourceKnown'
  BY <1>1 DEF TestInv, SourceKnown, ExpectedName
<1>7. SheetsWhole'
  <2> SUFFICES ASSUME Good' PROVE SheetsWhole'
    BY DEF SheetsWhole
  <2>1. Good
    BY <1>1 DEF Good
  <2> QED
    BY <1>1, <2>1 DEF TestInv, SheetsWhole, Rendering, Comparing
<1>8. PagesWhole'
  <2> SUFFICES ASSUME Good' PROVE PagesWhole'
    BY DEF PagesWhole
  <2>1. Good
    BY <1>1 DEF Good
  <2> QED
    BY <1>1, <2>1 DEF TestInv, PagesWhole, Rendering, Comparing, Meant, Stem
<1>9. ReadRight'
  BY <1>1 DEF TestInv, ReadRight, ReadPath, Meant, Stem
<1> QED
  BY <1>2, <1>3, <1>4, <1>5, <1>6, <1>7, <1>8, <1>9 DEF TestInv

\* Starting a program: nothing has passed, and the array is zeroed.
LEMMA StartTestInv ==
  ASSUME DriverInv, TestInv,
         (\E name \in Cases : StartZhaba(name))
           \/ (\E only \in {Cases} \cup {{name} : name \in Cases} : StartTest(only))
  PROVE  TestInv'
<1>1. /\ UNCHANGED pages /\ source' = NoText /\ passed' = {} /\ status' = "none"
      /\ \/ program' = "zhaba" /\ phase' = "fopen" /\ todo' = {}
         \/ program' = "test" /\ phase' = "mkdir temp" /\ case' = NoEntry
  BY DEF StartZhaba, StartTest, files
<1>2. PagesOfCases' /\ PassedOnPage' /\ StatusNone' /\ TakenOnce' /\ PageOfCase'
  BY <1>1 DEF TestInv, PagesOfCases, PassedOnPage, StatusNone, TakenOnce, PageOfCase, Between, Comparing,
     PagePath
<1>3. SourceKnown'
  BY <1>1 DEF SourceKnown, NoText
<1>4. SheetsWhole' /\ PagesWhole'
  BY <1>1 DEF SheetsWhole, PagesWhole, Good, Comparing, Rendering
<1>5. ReadRight'
  BY <1>1 DEF ReadRight
<1> QED
  BY <1>2, <1>3, <1>4, <1>5 DEF TestInv

\* Making the directory, and the tests of the preprocessor.
LEMMA PreparedTestInv ==
  ASSUME DriverInv, TestInv, MkdirTemp \/ PrepTests
  PROVE  TestInv'
<1>1. UNCHANGED <<pages, sheets, full>>
  BY DEF MkdirTemp, PrepTests, files
<1>2. ASSUME NEW how \in {"failure", "abort"}, Ended(how) PROVE TestInv'
  <2>1. PagesOfCases' /\ PassedOnPage'
    BY <1>1, <1>2, PagesKept DEF Ended
  <2> QED
    BY <1>2, <2>1, BadEnd
<1>3. CASE Goes("readdir") /\ phase = "prep"
  BY <1>1, <1>3, PlainStep DEF Phases, Rendering, Comparing
<1>4. CASE Goes("readdir") /\ phase = "mkdir temp"
  <2>1. /\ phase' = "readdir"
        /\ UNCHANGED <<program, status, todo, case, pool, source, passed, runs>>
    BY <1>4 DEF Goes
  <2>2. PagesOfCases' /\ PassedOnPage'
    BY <1>1, <2>1, PagesKept
  <2>3. StatusNone' /\ TakenOnce' /\ PageOfCase' /\ SourceKnown'
    BY <1>4, <2>1 DEF TestInv, StatusNone, TakenOnce, PageOfCase, SourceKnown, ExpectedName, Between, Comparing
  <2>4. SheetsWhole' /\ PagesWhole'
    <3>1. Good' => Good
      BY <1>1, <1>4, <2>1 DEF Good
    <3> QED
      BY <1>1, <1>4, <2>1, <3>1 DEF TestInv, SheetsWhole, PagesWhole, Rendering, Comparing, Meant, Stem
  <2>5. ReadRight'
    BY <2>1 DEF TestInv, ReadRight, ReadPath, Meant, Stem
  <2> QED
    BY <2>2, <2>3, <2>4, <2>5 DEF TestInv
<1> QED
  BY <1>2, <1>3, <1>4 DEF MkdirTemp, PrepTests

\* The entry taken last has passed, or was not a case.
LEMMA ReaddirTestInv ==
  ASSUME DriverInv, TestInv, Readdir
  PROVE  TestInv'
<1>1. UNCHANGED <<pages, sheets, dirs>> /\ UNCHANGED full /\ phase = "readdir"
  BY DEF Readdir, files
<1>2. /\ UNCHANGED <<program, pool, source, passed, runs>>
      /\ \/ phase' = "idle" /\ status' = "exit 0" /\ UNCHANGED <<todo, case>>
         \/ /\ phase' \in {"prep", "fopen"} /\ UNCHANGED status
            /\ case' \in todo /\ todo' = todo \ {case'}
            /\ phase' = "prep" <=> case' = Prep
  BY DEF Readdir, Ended
<1>3. PagesOfCases'
  BY <1>1 DEF TestInv, PagesOfCases, PagePath
<1>4. PassedOnPage'
  <2>1. case \in passed \cup {Prep, NoEntry}
    BY <1>1 DEF TestInv, TakenOnce
  <2> SUFFICES ASSUME NEW c \in passed
               PROVE  \/ Shows(pages[Meant(c)], c)
                      \/ pages[Meant(c)].of \in (passed \cup {case'}) \ {c}
                      \/ /\ pages[Meant(c)] = FileOf(c, "start") /\ full
                         /\ \E d \in passed \ {c} : Expected[ExpectedName(d)] = Expected[ExpectedName(c)]
    BY <1>1, <1>2 DEF PassedOnPage, Meant, Stem, Shows, ExpectedName, FileOf
  <2>2. pages[Meant(c)].of \in Cases \cup {NoEntry}
    <3>1. c \in Cases
      BY DEF DriverInv, TypeOK, ControlOK
    <3>2. Meant(c) \in PagePaths /\ pages \in [PagePaths -> Pages]
      BY <3>1, PageIsMeant, PathsOfCases DEF DriverInv, TypeOK, FilesOK
    <3>3. pages[Meant(c)] \in Pages
      BY <3>2
    <3> QED
      BY <3>3 DEF Pages, NoFile
  <2>3. case # NoEntry
    BY DEF TestInv, TakenOnce
  <2>4. Prep # NoEntry
    BY DEF Prep, NoEntry
  <2>5. pages[Meant(c)].of = case => case \in passed
    BY <2>1, <2>2, <2>3, <2>4, PrepIsNoCase
  <2> QED
    BY <2>5 DEF TestInv, PassedOnPage
<1>5. StatusNone' /\ PageOfCase' /\ ReadRight'
  BY <1>1, <1>2 DEF TestInv, StatusNone, PageOfCase, ReadRight, ReadPath, Meant, Stem, Between, Comparing
<1>8. TakenOnce'
  <2>1. todo \subseteq Cases \cup {Prep} /\ NoEntry # Prep /\ NoEntry \notin Cases
    BY PrepIsNoCase DEF DriverInv, TypeOK, ControlOK, Prep, NoEntry
  <2>2. CASE phase' = "idle"
    BY <1>1, <1>2, <2>2 DEF TestInv, TakenOnce, Between
  <2>3. CASE phase' # "idle"
    <3>1. /\ phase' \in {"prep", "fopen"} /\ case' \in todo /\ todo' = todo \ {case'}
          /\ phase' = "prep" <=> case' = Prep
          /\ UNCHANGED passed
      BY <1>2, <2>3
    <3>2. todo \cap passed = {}
      BY DEF TestInv, TakenOnce
    <3> QED
      BY <2>1, <3>1, <3>2 DEF TakenOnce, Between
  <2> QED
    BY <2>2, <2>3
<1>6. SourceKnown'
  BY <1>1, <1>2 DEF TestInv, SourceKnown, ExpectedName
<1>7. SheetsWhole' /\ PagesWhole'
  <2>1. Good' => Good
    BY <1>1, <1>2 DEF Good
  <2> QED
    BY <1>1, <1>2, <2>1 DEF TestInv, SheetsWhole, PagesWhole, Rendering, Comparing, Meant, Stem
<1> QED
  BY <1>3, <1>4, <1>5, <1>6, <1>7, <1>8 DEF TestInv

\* render before it opens the page, and the fopen of test behind it.
LEMMA ReadTestInv ==
  ASSUME DriverInv, TestInv, Fopen \/ Fread \/ Tokenize \/ Parse \/ MkdirOut \/ FopenPage
  PROVE  TestInv'
<1>1. UNCHANGED <<pages, sheets, full>>
  BY DEF Fopen, Fread, Tokenize, Parse, MkdirOut, FopenPage, PoolFull, files
<1>2. ASSUME NEW how \in {"failure", "abort"}, Ended(how) PROVE TestInv'
  <2>1. PagesOfCases' /\ PassedOnPage'
    BY <1>1, <1>2, PagesKept DEF Ended
  <2> QED
    BY <1>2, <2>1, BadEnd
<1>3. ASSUME NEW next \in {"fread", "tokenize", "parse", "mkdir", "open page"}, Goes(next),
             phase \in {"fopen", "fread", "tokenize", "parse", "mkdir"}
      PROVE  TestInv'
  BY <1>1, <1>3, PlainStep DEF Phases, Rendering, Comparing
<1>4. ASSUME Goes("read page"), phase = "fopen page" PROVE TestInv'
  BY <1>1, <1>4, PlainStep DEF Phases, Rendering, Comparing
<1> QED
  BY <1>2, <1>3, <1>4 DEF Fopen, Fread, Tokenize, Parse, MkdirOut, FopenPage, PoolFull

\* Opening the page, and writing it.
LEMMA PageTestInv ==
  ASSUME DriverInv, TestInv, OpenPage \/ GenHtml
  PROVE  TestInv'
<1>1. /\ phase \in {"open page", "gen_html"} /\ case \in Cases /\ UNCHANGED sheets
      /\ phase \notin Between
  BY DEF OpenPage, GenHtml, PoolFull, files, DriverInv, TypeOK, ControlOK, Between
<1>2. ASSUME NEW how \in {"failure", "abort"}, Ended(how), UNCHANGED <<pages, full>> PROVE TestInv'
  <2>1. PagesOfCases' /\ PassedOnPage'
    BY <1>2, PagesKept DEF Ended
  <2> QED
    BY <1>2, <2>1, BadEnd
<1>3. ASSUME NEW amount \in Amounts, pages' = [pages EXCEPT ![PagePath(case)] = FileOf(case, amount)],
             UNCHANGED <<case, passed>>, full => full'
      PROVE  PagesOfCases' /\ PassedOnPage'
  BY <1>1, <1>3, PageWritten, WrittenPassed DEF TestInv
<1>4. ASSUME NEW amount \in Amounts, pages' = [pages EXCEPT ![PagePath(case)] = FileOf(case, amount)],
             Ended("abort"), UNCHANGED full
      PROVE  TestInv'
  <2>1. PagesOfCases' /\ PassedOnPage'
    BY <1>3, <1>4 DEF Ended
  <2> QED
    BY <1>4, <2>1, BadEnd
<1>5. ASSUME NEW amount \in Amounts, pages' = [pages EXCEPT ![PagePath(case)] = FileOf(case, amount)],
             NEW next, Goes(next),
             \/ phase = "open page" /\ next = "open reset" /\ UNCHANGED full
             \/ phase = "gen_html" /\ next = "fopen page" /\ full' = (full \/ amount # "all")
      PROVE  TestInv'
  <2>1. /\ phase' = next
        /\ UNCHANGED <<program, status, todo, case, pool, source, passed, runs>>
    BY <1>5 DEF Goes
  <2>0. full => full'
    BY <1>5
  <2>2. PagesOfCases' /\ PassedOnPage'
    BY <1>3, <1>5, <2>0, <2>1
  <2>3. StatusNone' /\ TakenOnce'
    BY <1>5, <2>1 DEF TestInv, StatusNone, TakenOnce, Between
  <2>4. /\ pages'[Meant(case)] = FileOf(case, amount)
        /\ \A c \in Cases : Meant(c) # Meant(case) => pages'[Meant(c)] = pages[Meant(c)]
    BY <1>1, <1>5, PageWritten
  <2>5. PageOfCase' /\ ReadRight'
    <3>1. pages'[Meant(case)].of = case /\ pages'[Meant(case)].has = amount
      BY <2>4 DEF FileOf
    <3>3. phase' \in Comparing => full' \/ amount = "all"
      <4>1. CASE phase = "open page" /\ next = "open reset"
        BY <2>1, <4>1 DEF Comparing
      <4>2. CASE full' = (full \/ amount # "all")
        BY <4>2
      <4> QED
        BY <1>5, <4>1, <4>2
    <3>2. phase' # "assert_equal"
      BY <1>5, <2>1
    <3> QED
      BY <2>1, <3>1, <3>2, <3>3 DEF PageOfCase, ReadRight, TestInv, ReadPath, Meant, Stem
  <2>6. SourceKnown'
    BY <1>5, <2>1 DEF TestInv, SourceKnown, ExpectedName
  <2>7. Good' => Good /\ (phase = "gen_html" => amount = "all")
    BY <1>5, <2>1 DEF Good, DriverInv, TypeOK, FlagsOK
  <2>8. SheetsWhole'
    BY <1>1, <1>5, <2>1, <2>7 DEF TestInv, SheetsWhole, Rendering, Comparing
  <2>9. PagesWhole'
    <3> SUFFICES ASSUME Good'
                 PROVE  /\ phase' \in Comparing => pages'[Meant(case)] = FileOf(case, "all")
                        /\ \A c \in passed :
                             \/ phase' \in Rendering \cup Comparing /\ Meant(c) = Meant(case)
                             \/ \E d \in passed : Meant(d) = Meant(c) /\ pages'[Meant(c)] = FileOf(d, "all")
      BY <2>1 DEF PagesWhole, Meant, Stem, FileOf
    <3>1. phase' \in Rendering \cup Comparing /\ (phase' \in Comparing => phase = "gen_html")
      BY <1>5, <2>1 DEF Rendering, Comparing
    <3>2. phase' \in Comparing => pages'[Meant(case)] = FileOf(case, "all")
      BY <2>4, <2>7, <3>1
    <3>3. ASSUME NEW c \in passed, Meant(c) # Meant(case)
          PROVE  \E d \in passed : Meant(d) = Meant(c) /\ pages'[Meant(c)] = FileOf(d, "all")
      <4>1. pages'[Meant(c)] = pages[Meant(c)]
        BY <2>4, <3>3 DEF DriverInv, TypeOK, ControlOK
      <4> QED
        BY <2>7, <3>3, <4>1 DEF TestInv, PagesWhole
    <3> QED
      BY <3>1, <3>2, <3>3
  <2> QED
    BY <2>2, <2>3, <2>5, <2>6, <2>8, <2>9 DEF TestInv
<1>6. CASE OpenPage
  BY <1>2, <1>5, <1>6 DEF OpenPage, PoolFull, files, Amounts
<1>7. CASE GenHtml
  BY <1>4, <1>5, <1>7 DEF GenHtml
<1> QED
  BY <1>6, <1>7

\* A kill leaves what is on the disk, and may leave more of the page.
LEMMA KillTestInv ==
  ASSUME DriverInv, TestInv, Kill
  PROVE  TestInv'
<1>1. Ended("killed") /\ UNCHANGED <<case, passed, full>>
  BY DEF Kill, Ended
<1>2. CASE UNCHANGED pages
  BY <1>1, <1>2, PagesKept, BadEnd
<1>3. CASE phase = "gen_html" /\ \E amount \in {"some", "text"} :
                pages' = [pages EXCEPT ![PagePath(case)] = FileOf(case, amount)]
  <2>1. case \in Cases /\ phase \notin Between
    BY <1>3 DEF DriverInv, TypeOK, ControlOK, Between
  <2>2. PICK amount \in Amounts : pages' = [pages EXCEPT ![PagePath(case)] = FileOf(case, amount)]
    BY <1>3 DEF Amounts
  <2>3. PagesOfCases' /\ PassedOnPage'
    BY <1>1, <2>1, <2>2, PageWritten, WrittenPassed DEF TestInv
  <2> QED
    BY <1>1, <2>3, BadEnd
<1> QED
  BY <1>2, <1>3 DEF Kill

\* The sheets: each is cut at its fopen, and at its fclose whole, or the disk was full.
LEMMA SheetsTestInv ==
  ASSUME DriverInv, TestInv, WriteCss
  PROVE  TestInv'
<1>1. /\ phase \in Rendering /\ UNCHANGED pages
      /\ sheets \in [Sheets -> {"nothing", "cut", "whole"}] /\ full \in BOOLEAN
      /\ full => full'
  BY DEF WriteCss, OpenSheet, CloseSheet, DriverInv, TypeOK, FlagsOK, FilesOK, Rendering
<1>2. CASE Ended("abort")
  <2>1. PagesOfCases' /\ PassedOnPage'
    BY <1>1, <1>2, PagesKept DEF Ended
  <2> QED
    BY <1>2, <2>1, BadEnd
<1>3. ASSUME NEW next \in Rendering, Goes(next), Good' => Good, SheetsWhole' PROVE TestInv'
  <2>1. /\ phase' = next
        /\ UNCHANGED <<program, status, todo, case, pool, source, passed, runs>>
    BY <1>3 DEF Goes
  <2>2. PagesOfCases' /\ PassedOnPage'
    BY <1>1, <2>1, PagesKept
  <2>3. StatusNone' /\ TakenOnce' /\ PageOfCase' /\ SourceKnown' /\ ReadRight'
    BY <1>1, <1>3, <2>1 DEF TestInv, StatusNone, TakenOnce, PageOfCase, SourceKnown, ExpectedName,
       ReadRight, ReadPath, Meant, Stem, Between, Comparing, Rendering
  <2>4. PagesWhole'
    BY <1>1, <1>3, <2>1 DEF TestInv, PagesWhole, Meant, Stem, Rendering, Comparing
  <2> QED
    BY <1>3, <2>2, <2>3, <2>4 DEF TestInv
<1>4. "reset" \in Sheets /\ "style" \in Sheets
  BY DEF Sheets
<1>5. ASSUME NEW sheet \in Sheets, NEW next \in Rendering, Goes(next),
             \/ /\ sheets' = [sheets EXCEPT ![sheet] = "cut"] /\ UNCHANGED full
                /\ \/ phase = "open reset" /\ sheet = "reset" /\ next = "close reset"
                   \/ phase = "open style" /\ sheet = "style" /\ next = "close style"
             \/ /\ \/ sheets' = [sheets EXCEPT ![sheet] = "whole"] /\ UNCHANGED full
                   \/ UNCHANGED sheets /\ full' = TRUE
                /\ \/ phase = "close reset" /\ sheet = "reset" /\ next = "open style"
                   \/ phase = "close style" /\ sheet = "style" /\ next = "gen_html"
      PROVE  (Good' => Good) /\ SheetsWhole'
  <2>1. /\ phase' = next
        /\ UNCHANGED <<program, status, todo, case, pool, source, passed, runs>>
    BY <1>5 DEF Goes
  <2>2. Good' => Good /\ UNCHANGED full
    BY <1>1, <1>5, <2>1 DEF Good, Rendering
  <2>3. ASSUME Good' PROVE SheetsWhole'
    BY <1>1, <1>4, <1>5, <2>1, <2>2, <2>3 DEF TestInv, SheetsWhole, Rendering, Comparing, Good
  <2> QED
    BY <2>2, <2>3 DEF SheetsWhole
<1> QED
  BY <1>2, <1>3, <1>4, <1>5 DEF WriteCss, OpenSheet, CloseSheet, Rendering

\* What test reads is the page of the case at work, or what it had.
LEMMA ReadPageTestInv ==
  ASSUME DriverInv, TestInv, ReadPage
  PROVE  TestInv'
<1>1. /\ phase = "read page" /\ UNCHANGED <<pages, sheets, full>> /\ case \in Cases
  BY DEF ReadPage, files, DriverInv, TypeOK, ControlOK
<1>2. CASE Ended("abort")
  <2>1. PagesOfCases' /\ PassedOnPage'
    BY <1>1, <1>2, PagesKept DEF Ended
  <2> QED
    BY <1>2, <2>1, BadEnd
<1>3. CASE /\ source' \in Contents(pages[ReadPath(case)])
           /\ phase' = "assert_equal"
           /\ UNCHANGED <<program, status, todo, case, pool, passed, runs>>
  <2>1. PagesOfCases' /\ PassedOnPage'
    BY <1>1, <1>3, PagesKept
  <2>2. StatusNone' /\ TakenOnce' /\ PageOfCase'
    BY <1>1, <1>3 DEF TestInv, StatusNone, TakenOnce, PageOfCase, Meant, Stem, Between, Comparing
  <2>3. ReadPath(case) = Meant(case)
    <3>1. ReadPath(case) \in PagePaths /\ pages[ReadPath(case)] # NoFile
      BY <1>1, PathsOfCases DEF DriverInv, PageFound
    <3>2. PICK d \in Cases : ReadPath(case) = PagePath(d)
      BY <3>1 DEF TestInv, PagesOfCases
    <3> QED
      BY <1>1, <3>2, ReadIsMeant
  <2>4. pages[Meant(case)].of = case /\ (full \/ pages[Meant(case)].has = "all")
    BY <1>1 DEF TestInv, PageOfCase, Comparing
  <2>5. SourceKnown' /\ ReadRight'
    <3> DEFINE file == pages[Meant(case)]
    <3>1. CASE file.has = "start" /\ source' = source
      <4>1. file = FileOf(case, "start")
        <5>1. file \in Pages
          BY <1>1, PathsOfCases, PageIsMeant DEF DriverInv, TypeOK, FilesOK
        <5>3. file # NoFile
          <6>1. NoFile.of = NoEntry
            BY DEF NoFile
          <6>2. file.of = case /\ case # NoEntry
            BY <1>1, <2>4, PrepIsNoCase
          <6> QED
            BY ONLY <6>1, <6>2
        <5> HIDE DEF file
        <5>2. file \in [of : Cases, has : Amounts]
          BY <5>1, <5>3 DEF Pages
        <5>4. file.of = case /\ file.has = "start"
          BY <2>4, <3>1 DEF file
        <5> QED
          BY <5>2, <5>4 DEF FileOf
      <4>2. full
        BY <2>4, <3>1
      <4>3. source.complete => \E d \in passed : Text[source.of] = Expected[ExpectedName(d)]
        BY <1>1 DEF TestInv, SourceKnown
      <4>4. UNCHANGED <<passed, case>>
        BY <1>3
      <4> QED
        BY <1>1, <1>3, <3>1, <4>1, <4>2, <4>3, <4>4, <2>3
           DEF SourceKnown, FileOf, Meant, Stem, ExpectedName, ReadRight, TestInv, ReadPath
    <3>2. CASE source' = NoText
      BY <1>3, <2>3, <3>2 DEF SourceKnown, NoText, ReadRight, TestInv, ReadPath, Meant, Stem
    <3>3. CASE source' \in [of : {case}, complete : Completeness(file)]
      <4>1. TRUE \in Completeness(file) => file.has \in {"text", "all"}
        BY DEF Completeness
      <4>2. source'.complete => Shows(file, case)
        BY <2>4, <3>3, <4>1 DEF Shows
      <4> QED
        BY <1>1, <1>3, <2>3, <4>2 DEF SourceKnown, ReadRight, TestInv, ReadPath, Shows, Meant, Stem
    <3> QED
      BY <1>3, <2>3, <2>4, <3>1, <3>2, <3>3 DEF Contents
  <2>6. Good' => Good
    BY <1>1, <1>3 DEF Good
  <2>7. SheetsWhole' /\ PagesWhole'
    BY <1>1, <1>3, <2>6 DEF TestInv, SheetsWhole, PagesWhole, Meant, Stem, Rendering, Comparing
  <2> QED
    BY <2>1, <2>2, <2>5, <2>7 DEF TestInv
<1> QED
  BY <1>2, <1>3 DEF ReadPage

\* A case passes on its page, or on the text of a case that passed before it.
LEMMA AssertTestInv ==
  ASSUME DriverInv, TestInv, AssertEqual
  PROVE  TestInv'
<1>1. /\ phase = "assert_equal" /\ UNCHANGED <<pages, sheets, full>> /\ case \in Cases
      /\ case \notin passed
  BY DEF AssertEqual, files, DriverInv, TypeOK, ControlOK, TestInv, TakenOnce, Between
<1>2. CASE Ended("failure")
  <2>1. PagesOfCases' /\ PassedOnPage'
    BY <1>1, <1>2, PagesKept DEF Ended
  <2> QED
    BY <1>2, <2>1, BadEnd
<1>3. CASE /\ Equal(case)
           /\ passed' = passed \cup {case}
           /\ phase' = "readdir"
           /\ UNCHANGED <<program, status, todo, case, pool, source, runs>>
  <2>1. source.complete /\ Text[source.of] = Expected[ExpectedName(case)]
    BY <1>3 DEF Equal
  <2>2. \/ /\ \E d \in passed : Text[source.of] = Expected[ExpectedName(d)]
           /\ pages[Meant(case)] = FileOf(case, "start") /\ full
        \/ Shows(pages[Meant(case)], case)
    BY <1>1, <2>1 DEF TestInv, SourceKnown
  <2>3. PagesOfCases'
    BY <1>1 DEF TestInv, PagesOfCases, PagePath
  <2>4. PassedOnPage'
    <3> SUFFICES ASSUME NEW c \in passed'
                 PROVE  \/ Shows(pages[Meant(c)], c)
                        \/ pages[Meant(c)].of \in passed' \ {c}
                        \/ /\ pages[Meant(c)] = FileOf(c, "start") /\ full
                           /\ \E d \in passed' \ {c} : Expected[ExpectedName(d)] = Expected[ExpectedName(c)]
      BY <1>1, <1>3 DEF PassedOnPage, Meant, Stem, Shows, ExpectedName, FileOf
    <3>1. CASE c \in passed
      BY <1>3, <3>1 DEF TestInv, PassedOnPage
    <3>2. CASE c = case
      BY <1>1, <1>3, <2>1, <2>2, <3>2
    <3> QED
      BY <1>3, <3>1, <3>2
  <2>5. StatusNone' /\ TakenOnce' /\ PageOfCase' /\ ReadRight'
    <3>1. case # NoEntry
      BY <1>1, PrepIsNoCase
    <3> QED
      BY <1>1, <1>3, <3>1 DEF TestInv, StatusNone, TakenOnce, PageOfCase, ReadRight, ReadPath, Meant, Stem,
         Between, Comparing
  <2>6. SourceKnown'
    BY <1>3, <2>1 DEF SourceKnown, ExpectedName
  <2>7. Good' => Good
    BY <1>1, <1>3 DEF Good
  <2>8. SheetsWhole'
    BY <1>1, <1>3, <2>7 DEF TestInv, SheetsWhole, Rendering, Comparing
  <2>9. PagesWhole'
    <3> SUFFICES ASSUME Good', NEW c \in passed'
                 PROVE  \E d \in passed' : Meant(d) = Meant(c) /\ pages[Meant(c)] = FileOf(d, "all")
      BY <1>1, <1>3 DEF PagesWhole, Meant, Stem, FileOf, Rendering, Comparing
    <3>1. pages[Meant(case)] = FileOf(case, "all")
      BY <1>1, <2>7 DEF TestInv, PagesWhole, Comparing
    <3>2. CASE Meant(c) = Meant(case)
      BY <1>3, <3>1, <3>2
    <3>3. CASE Meant(c) # Meant(case)
      BY <1>3, <2>7, <3>3 DEF TestInv, PagesWhole
    <3> QED
      BY <3>2, <3>3
  <2> QED
    BY <2>3, <2>4, <2>5, <2>6, <2>8, <2>9 DEF TestInv
<1> QED
  BY <1>2, <1>3 DEF AssertEqual

\* Every step of a program keeps TestInv, where DriverInv holds.
LEMMA TestInvNext ==
  ASSUME DriverInv, TestInv, [Next]_vars
  PROVE  TestInv'
<1>1. CASE Step
  BY <1>1, PreparedTestInv, ReaddirTestInv, ReadTestInv, PageTestInv, SheetsTestInv, ReadPageTestInv,
     AssertTestInv DEF Step
<1>2. CASE UNCHANGED vars
  <2>1. UNCHANGED <<program, phase, status, todo, case, pool, source, pages, sheets, dirs, passed, full, runs>>
    BY <1>2 DEF vars, files
  <2>2. StatusNone' /\ TakenOnce' /\ SourceKnown' /\ ReadRight'
    BY <2>1 DEF TestInv, StatusNone, TakenOnce, SourceKnown, ReadRight
  <2>3. PagesOfCases' /\ PageOfCase'
    BY <2>1 DEF TestInv, PagesOfCases, PageOfCase, Shows
  <2>4. PassedOnPage' /\ SheetsWhole' /\ PagesWhole'
    BY <2>1 DEF TestInv, PassedOnPage, SheetsWhole, PagesWhole, Good
  <2> QED
    BY <2>2, <2>3, <2>4 DEF TestInv
<1> QED
  BY <1>1, <1>2, StartTestInv, KillTestInv DEF Next

\* Before the first program nothing has passed.
LEMMA TestInvInit == Init => TestInv
<1> SUFFICES ASSUME Init PROVE TestInv
  OBVIOUS
<1>1. PagesOfCases /\ PassedOnPage
  BY DEF Init, PagesOfCases, PassedOnPage
<1>2. StatusNone /\ TakenOnce /\ PageOfCase /\ SourceKnown /\ ReadRight
  BY DEF Init, StatusNone, TakenOnce, PageOfCase, SourceKnown, ReadRight, Between, Comparing
<1>3. SheetsWhole /\ PagesWhole
  BY DEF Init, SheetsWhole, PagesWhole, Good
<1> QED
  BY <1>1, <1>2, <1>3 DEF TestInv

\* What a test has done, at every step of every program.
THEOREM TestCorrect == Spec => []TestInv
<1>1. DriverInv /\ TestInv /\ [Next]_vars => TestInv'
  BY TestInvNext
<1> QED
  BY TestInvInit, DriverCorrect, <1>1, PTL DEF Spec

\* What a passed case says: its text is where test has read it, or another case has
\* been rendered to that page since, or a full disk has cut the page before its text
\* and another case that passed was expected to show the same.
THEOREM PassedShown == Spec => []PassedIsShown
<1>1. TestInv => PassedIsShown
  <2> SUFFICES ASSUME TestInv, NEW c \in passed
               PROVE  LET page == pages[ReadPath(c)] IN
                        \/ Shows(page, c)
                        \/ page.of \in (passed \cup {case}) \ {c}
                        \/ /\ page = FileOf(c, "start") /\ full
                           /\ \E d \in passed \ {c} : Expected[ExpectedName(d)] = Expected[ExpectedName(c)]
    BY DEF PassedIsShown
  <2>1. ReadPath(c) = Meant(c)
    BY DEF TestInv, ReadRight
  <2> QED
    BY <2>1 DEF TestInv, PassedOnPage
<1> QED
  BY TestCorrect, <1>1, PTL

\* A test that ends well has repaired what programs killed before it left cut.
THEOREM GoodEndRepairs == Spec => []ExitZeroRepairs
<1>1. DriverInv /\ TestInv => ExitZeroRepairs
  <2> SUFFICES ASSUME DriverInv, TestInv, program = "test", status = "exit 0", ~full, passed # {}
               PROVE  /\ \A s \in Sheets : sheets[s] = "whole"
                      /\ \A c \in passed : \E d \in passed :
                           ReadPath(c) = PagePath(d) /\ pages[ReadPath(c)] = FileOf(d, "all")
    BY DEF ExitZeroRepairs
  <2>1. Good /\ phase = "idle"
    BY DEF Good, TestInv, StatusNone
  <2>2. sheets["reset"] = "whole" /\ sheets["style"] = "whole"
    BY <2>1 DEF TestInv, SheetsWhole
  <2>3. ASSUME NEW c \in passed
        PROVE  \E d \in passed : ReadPath(c) = PagePath(d) /\ pages[ReadPath(c)] = FileOf(d, "all")
    <3>1. PICK d \in passed : Meant(d) = Meant(c) /\ pages[Meant(c)] = FileOf(d, "all")
      BY <2>1, <2>3 DEF TestInv, PagesWhole, Rendering, Comparing
    <3>2. ReadPath(c) = Meant(c) /\ PagePath(d) = Meant(d)
      BY <2>3, PageIsMeant DEF TestInv, ReadRight, DriverInv, TypeOK, ControlOK
    <3> QED
      BY <3>1, <3>2
  <2> QED
    BY <2>2, <2>3 DEF Sheets
<1> QED
  BY TestCorrect, DriverCorrect, <1>1, PTL
=============================================================================
