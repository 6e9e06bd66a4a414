------------------------------- MODULE CheatDb --------------------------------
(***************************************************************************)
(* The FPS unlocks a game is offered: the text database is streamed line   *)
(* by line once at boot, the running game's cheats with "fps" in their     *)
(* name become options, and the chosen one is kept on the card by name.    *)
(***************************************************************************)
EXTENDS Integers, Sequences, SequencesExt

CONSTANTS
  MaxOptions,    \* options offered (FPS_MAX_OPTIONS, 12)
  MaxLines,      \* lines of all options together (FPS_MAX_LINES, 256)
  MaxCheatLines, \* lines of one cheat (FPS_MAX_CHEAT_LINES, 160)
  Names,         \* names a cheat may have
  KeptName(_),   \* what is kept of a name (its first FPS_NAME_LEN - 1 letters)
  TextLength     \* bound: lines of the database

ASSUME DbAssumption ==
  /\ {MaxOptions, MaxLines, MaxCheatLines, TextLength} \subseteq Nat \ {0}

\* a line: a section, a cheat (its name, and whether it is an FPS cheat), or code (can it be
\* run, and does it do anything)
Line == [t : {"S"}, own : BOOLEAN] \cup [t : {"C"}, name : Names, fps : BOOLEAN]
          \cup [t : {"L"}, good : BOOLEAN, real : BOOLEAN]

VARIABLES
  text,     \* history: the lines read so far
  inGame, done,          \* pa_in_game, pa_done
  cur,      \* the cheat being read: [fps, name, unsup, real, lines]
  options,  \* g_fps_name, g_fps_off, g_fps_cnt
  used,     \* g_fps_pool_used
  dbStage,       \* "reading", "ready"
  activeOption,   \* g_fps_active, 0 is Stock
  kept      \* fps.cfg: the name it holds, "" for Stock

dbVars == <<text, inGame, done, cur, options, used, dbStage, activeOption, kept>>

NoCheat == [fps |-> FALSE, name |-> "", unsup |-> FALSE, real |-> FALSE, lines |-> 0]

Keep(c, opts, n) ==
  /\ c.fps /\ c.real /\ ~c.unsup /\ c.lines > 0
  /\ Len(opts) < MaxOptions /\ n + c.lines <= MaxLines

\* commit_cur: a usable FPS cheat with an effect becomes an option while there is room
Commit(c, opts, n) ==
  IF Keep(c, opts, n) THEN Append(opts, [name |-> KeptName(c.name), off |-> n, cnt |-> c.lines]) ELSE opts

\* ... behind the code of those before it
CommitUsed(c, opts, n) == IF Commit(c, opts, n) # opts THEN n + c.lines ELSE n

\* proc_line, "_S": the section before ends; the one after ours ends the reading
SectionLine(line) ==
  /\ line.t = "S"
  /\ options' = Commit(cur, options, used) /\ used' = CommitUsed(cur, options, used)
  /\ cur' = NoCheat
  /\ done' = inGame
  /\ inGame' = (inGame \/ line.own)

\* proc_line, "_C": the next cheat of our section
CheatLine(line) ==
  /\ line.t = "C"
  /\ IF inGame
     THEN /\ options' = Commit(cur, options, used) /\ used' = CommitUsed(cur, options, used)
          /\ cur' = [NoCheat EXCEPT !.fps = line.fps, !.name = line.name]
     ELSE UNCHANGED <<options, used, cur>>
  /\ UNCHANGED <<inGame, done>>

\* Variant: a cheat that is too long is cut instead of dropped.
CodeLineCut(line) ==
  /\ line.t = "L"
  /\ cur' = IF ~inGame \/ ~cur.fps \/ cur.lines >= MaxCheatLines THEN cur
            ELSE [cur EXCEPT !.lines = @ + 1, !.unsup = @ \/ ~line.good, !.real = @ \/ line.real]
  /\ UNCHANGED <<inGame, done, options, used>>

\* proc_line, "_L": a line of an FPS cheat; one too many drops the cheat
CodeLine(line) ==
  /\ line.t = "L"
  /\ cur' = IF ~inGame \/ ~cur.fps THEN cur
            ELSE IF cur.lines >= MaxCheatLines THEN [cur EXCEPT !.unsup = TRUE]
            ELSE [cur EXCEPT !.lines = @ + 1, !.unsup = @ \/ ~line.good, !.real = @ \/ line.real]
  /\ UNCHANGED <<inGame, done, options, used>>

ReadLine ==
  /\ dbStage = "reading" /\ ~done /\ Len(text) < TextLength
  /\ \E line \in Line : /\ text' = Append(text, line)
                        /\ SectionLine(line) \/ CheatLine(line) \/ CodeLine(line)
  /\ UNCHANGED <<dbStage, activeOption, kept>>

\* cheats_load_selection: the first option of the kept name
Selected(opts) ==
  LET same == {i \in 1 .. Len(opts) : opts[i].name = kept}
  IN IF kept = "" \/ same = {} THEN 0 ELSE CHOOSE i \in same : \A j \in same : i <= j

\* the end of the file, or the next game's section: the last cheat, then the selection
Finish ==
  /\ dbStage = "reading" /\ dbStage' = "ready"
  /\ options' = Commit(cur, options, used) /\ used' = CommitUsed(cur, options, used)
  /\ cur' = NoCheat
  /\ activeOption' = Selected(options')
  /\ UNCHANGED <<text, inGame, done, kept>>

\* cheats_fps_cycle: Stock and the options in a ring
Cycled(dir) ==
  LET m == Len(options)
  IN IF dir > 0 THEN (IF activeOption < m THEN activeOption + 1 ELSE 0) ELSE IF activeOption > 0 THEN activeOption - 1 ELSE m

\* ... and cheats_save_selection
CycleOption ==
  /\ dbStage = "ready" /\ options # <<>>
  /\ \E dir \in {-1, 1} : activeOption' = Cycled(dir)
  /\ kept' = IF activeOption' \in 1 .. Len(options) THEN options[activeOption'].name ELSE ""
  /\ UNCHANGED <<text, inGame, done, cur, options, used, dbStage>>

\* the game is started again with the same database: the same lines lead to the same options
Reboot ==
  /\ dbStage = "ready" /\ activeOption' = Selected(options)
  /\ UNCHANGED <<text, inGame, done, cur, options, used, dbStage, kept>>

DbInit ==
  /\ text = <<>> /\ inGame = FALSE /\ done = FALSE /\ cur = NoCheat /\ options = <<>> /\ used = 0
  /\ dbStage = "reading" /\ activeOption = 0 /\ kept \in {KeptName(n) : n \in Names} \cup {""}

DbNext == ReadLine \/ Finish \/ CycleOption \/ Reboot
DbSpec == DbInit /\ [][DbNext]_dbVars

DbTypeOK ==
  /\ Len(options) <= MaxOptions /\ used \in 0 .. MaxLines /\ cur.lines \in 0 .. MaxCheatLines
  /\ activeOption \in 0 .. MaxOptions /\ dbStage \in {"reading", "ready"}

(***** what the database means, read as a whole *****)

\* the lines that are ours: behind the first line that opens our section, before the next section
Opens(line) == line.t = "S" /\ line.own
OurLines(txt) ==
  {i \in 1 .. Len(txt) : \E s \in 1 .. i - 1 :
     /\ Opens(txt[s]) /\ \A j \in 1 .. s - 1 : ~Opens(txt[j])
     /\ \A j \in s + 1 .. i : txt[j].t # "S"}

\* the code of the cheat at line i, up to the next cheat
CodeOf(txt, i) == {j \in OurLines(txt) : j > i /\ \A k \in i + 1 .. j : txt[k].t = "L"}

Usable(txt, i) ==
  /\ i \in OurLines(txt) /\ txt[i].t = "C" /\ txt[i].fps
  /\ Cardinality(CodeOf(txt, i)) \in 1 .. MaxCheatLines
  /\ (\A j \in CodeOf(txt, i) : txt[j].good) /\ \E j \in CodeOf(txt, i) : txt[j].real

\* the cheat at line i after the offer made of those before it
Nothing == [options |-> <<>>, used |-> 0]
Offer(txt, o, i) ==
  LET n == Cardinality(CodeOf(txt, i))
  IN IF Usable(txt, i) /\ Len(o.options) < MaxOptions /\ o.used + n <= MaxLines
     THEN [options |-> Append(o.options, [name |-> KeptName(txt[i].name), off |-> o.used, cnt |-> n]),
           used    |-> o.used + n]
     ELSE o

WholeOffer(txt) ==
  FoldLeft(LAMBDA o, i : Offer(txt, o, i), Nothing, [i \in 1 .. Len(txt) |-> i])

\* Reading line by line offers exactly the usable FPS cheats of our section, in order, as
\* long as they fit; a cheat that does not fit is left out and a later one may still fit.
OffersSection == dbStage = "ready" => [options |-> options, used |-> used] = WholeOffer(text)

\* The options' code lies side by side in the pool and never past its end.
PoolIsSliced ==
  /\ \A i \in 1 .. Len(options) :
       options[i].off = IF i = 1 THEN 0 ELSE options[i - 1].off + options[i - 1].cnt
  /\ options # <<>> => used = options[Len(options)].off + options[Len(options)].cnt
  /\ used <= MaxLines

\* What is offered is what the database says, each option with its own code.
DatabaseOffered == OffersSection /\ PoolIsSliced
===============================================================================
