--------------------------------- MODULE Dttc ---------------------------------
(***************************************************************************)
(* dttc (src/preprocessor/dttc.c), which translates programs with DTT      *)
(* pragmas into C.  A first pass over all files builds the tables of       *)
(* triggers, blocks and support functions, a loop links each trigger to    *)
(* its support function, and a second pass over all files writes the       *)
(* output.  Both passes work line by line, with code of their own for      *)
(* comments.                                                               *)
(*                                                                         *)
(* A line is what the passes look for in it: its kind, the texts they cut  *)
(* out of it as names, and the comment it ends in, if any:                 *)
(*   "slashes"  a // comment                                               *)
(*   "inline"   a comment of the other form, all on this line              *)
(*   "url"      the same with // inside, which hides its end from dttc     *)
(*   "open"     one that goes on in the next line                          *)
(*   "close"    the end of one, with no code after it                      *)
(* A text is what the code finds between two delimiters, which need not be *)
(* a name of the program: the two passes use different delimiters, and the *)
(* texts of two lines may differ although the lines mean the same variable.*)
(* The input is chosen line by line as the first pass reads it.            *)
(***************************************************************************)
EXTENDS Integers, Sequences

CONSTANTS
  Texts,      \* texts taken for a variable
  Functions,  \* texts taken for a support function
  Regions,    \* texts taken for a block
  None,       \* no text: the delimiter before it, or the text, is missing
  NoEnd       \* the delimiter behind it is missing

ASSUME NamesAssumption ==
  /\ None \notin Texts \cup Functions \cup Regions
  /\ NoEnd \notin Texts \cup Functions \cup Regions \cup {None}

LinesOf(kinds, firsts, seconds, functions) ==
  [kind : kinds, first : firsts, second : seconds, function : functions,
   comment : {"none", "slashes", "inline", "url", "open"}]

\* first is the text the first pass takes for the line's variable or region,
\* second the one of the second pass; function what the first pass finds
\* before the "(", in a #trigger line or in a line it takes for the head of a
\* support function.  A line with an "=" and no pragma is an "assign" line,
\* whatever it does.  A "blank" line has blanks only and no line feed.
Lines ==
  LinesOf({"trigger"}, Texts \cup {None, NoEnd}, {None}, Functions \cup {None})
  \cup LinesOf({"block"}, Regions \cup {None, NoEnd}, Regions \cup {None}, {None})
  \cup LinesOf({"DTT"}, Regions \cup {None, NoEnd}, {None}, {None})
  \cup LinesOf({"assign"}, {None}, Texts \cup {None}, Functions \cup {None})
  \cup LinesOf({"main", "plain"}, {None}, {None}, Functions \cup {None})
  \cup LinesOf({"end_block", "include"}, {None}, {None}, {None})
  \cup [kind : {"plain"}, first : {None}, second : {None}, function : {None},
        comment : {"close"}]
  \cup [kind : {"blank"}, first : {None}, second : {None}, function : {None},
        comment : {"none"}]

VARIABLES
  source,            \* the input files read so far, each a sequence of lines
  phase,             \* "tables", "link", "code" or "done"
  triggers,          \* name, support_thread and state_variable (0 for NULL)
  blocks,            \* the names of the regions
  threads,           \* name and skippable_region
  skippable_region,  \* that of the thread entry being filled
  parse_next_line,   \* the next line has the name of a support function
  inside_comment,    \* of either pass
  file, pos,         \* the line the second pass has read last
  in_main, dtt_initialized, variable_declared,  \* of preprocess
  output,            \* the output files: copied and generated lines
  crashed            \* a NULL pointer was followed

tables == <<triggers, blocks, threads, skippable_region, parse_next_line>>
writer == <<file, pos, in_main, dtt_initialized, variable_declared, output>>
vars == <<source, phase, tables, inside_comment, writer, crashed>>

Init ==
  /\ source = <<>> /\ phase = "tables" /\ crashed = FALSE
  /\ triggers = <<>> /\ blocks = <<>> /\ threads = <<>>
  /\ skippable_region = None /\ parse_next_line = FALSE /\ inside_comment = FALSE
  /\ file = 0 /\ pos = 0 /\ output = <<>>
  /\ in_main = FALSE /\ dtt_initialized = FALSE /\ variable_declared = FALSE

\* Wrong variant: an end on the line of the beginning is not looked for.
InsideAfterMissed(l) ==
  CASE l.comment \in {"open", "url", "inline"} -> TRUE
    [] l.comment = "close"                    -> FALSE
    [] OTHER                                  -> inside_comment

\* "//" is looked for first and cuts the line, then the other two delimiters.
InsideAfter(l) ==
  CASE l.comment \in {"open", "url"}     -> TRUE
    [] l.comment \in {"inline", "close"} -> FALSE
    [] OTHER                             -> inside_comment

-----------------------------------------------------------------------------
(* create_tables, called for each file.                                    *)

OpenFile ==
  /\ phase = "tables"
  /\ source' = Append(source, <<>>)
  /\ parse_next_line' = FALSE /\ inside_comment' = FALSE
  /\ UNCHANGED <<phase, triggers, blocks, threads, skippable_region, writer, crashed>>

\* A comment that begins and ends on the line leaves only its end, for this
\* pass: the code before it is lost.
CodeSeen(l) == l.comment \in {"none", "slashes"}

\* A #block or #DTT line is looked through for its line feed.  A // comment
\* cuts it off; the last line of a file may have none.
LineFeedMissing(l) == l.comment = "slashes" \/ l.first = NoEnd

LastLine(l) == l.kind = "blank" \/ (l.kind \in {"block", "DTT"} /\ l.first = NoEnd)

\* The line is read; it has text left for this pass when `seen' is true.
ReadLine(l, seen) ==
  /\ phase = "tables" /\ source # <<>>
  /\ LET read == source[Len(source)] IN read # <<>> => ~LastLine(read[Len(read)])
  /\ seen = ~InsideAfter(l)
  /\ source' = [source EXCEPT ![Len(source)] = Append(@, l)]
  /\ inside_comment' = InsideAfter(l)
  /\ UNCHANGED <<phase, writer>>

Pragma(l) == l.kind \in {"trigger", "block", "end_block", "DTT"} /\ CodeSeen(l)

\* eliminate_redundant_characters returns NULL for a blank line, in or out of
\* a comment; in other lines a delimiter that is missing is a NULL pointer.
FollowsNull(l) ==
  \/ l.kind = "blank"
  \/ /\ ~InsideAfter(l) /\ Pragma(l)
     /\ \/ l.kind = "trigger" /\ (l.function = None \/ l.first \in {None, NoEnd})
        \/ l.kind \in {"block", "DTT"} /\ (LineFeedMissing(l) \/ l.first = None)
  \/ /\ ~InsideAfter(l) /\ ~Pragma(l)
     /\ parse_next_line /\ ~(CodeSeen(l) /\ l.function # None)

CrashReading(l) ==
  /\ ReadLine(l, ~InsideAfter(l))
  /\ crashed' = TRUE
  /\ UNCHANGED tables

\* In a comment that goes on: nothing else is looked at.
SkipLine(l) ==
  /\ ReadLine(l, FALSE)
  /\ UNCHANGED <<tables, crashed>>

\* The text between the last blank before "=" or ";" and that delimiter.
AddTrigger(l) ==
  /\ l.kind = "trigger" /\ CodeSeen(l) /\ ReadLine(l, TRUE)
  /\ triggers' = Append(triggers,
       [name |-> l.first, support_thread |-> l.function, state_variable |-> 0])
  /\ UNCHANGED <<blocks, threads, skippable_region, parse_next_line, crashed>>

AddBlock(l) ==
  /\ l.kind = "block" /\ CodeSeen(l) /\ ReadLine(l, TRUE)
  /\ blocks' = Append(blocks, l.first)
  /\ UNCHANGED <<triggers, threads, skippable_region, parse_next_line, crashed>>

\* Wrong variant: the region is not stored.
ReadDTTForgets(l) ==
  /\ l.kind = "DTT" /\ CodeSeen(l) /\ ReadLine(l, TRUE)
  /\ parse_next_line' = TRUE
  /\ UNCHANGED <<triggers, blocks, threads, skippable_region, crashed>>

ReadDTT(l) ==
  /\ l.kind = "DTT" /\ CodeSeen(l) /\ ReadLine(l, TRUE)
  /\ skippable_region' = l.first /\ parse_next_line' = TRUE
  /\ UNCHANGED <<triggers, blocks, threads, crashed>>

\* Any line without a pragma is taken for the head of the support function.
AddThread(l) ==
  /\ parse_next_line /\ ~Pragma(l) /\ ReadLine(l, TRUE)
  /\ threads' = Append(threads,
       [name |-> l.function, skippable_region |-> skippable_region])
  /\ parse_next_line' = FALSE
  /\ UNCHANGED <<triggers, blocks, skippable_region, crashed>>

OtherLine(l) ==
  /\ IF Pragma(l) THEN l.kind = "end_block" ELSE ~parse_next_line
  /\ ReadLine(l, TRUE)
  /\ UNCHANGED <<tables, crashed>>

CreateTables(l) ==
  IF FollowsNull(l) THEN CrashReading(l)
  ELSE SkipLine(l) \/ AddTrigger(l) \/ AddBlock(l) \/ ReadDTT(l) \/ AddThread(l) \/ OtherLine(l)

AllFilesRead ==
  /\ phase = "tables" /\ phase' = "link"
  /\ parse_next_line' = FALSE /\ inside_comment' = FALSE
  /\ UNCHANGED <<source, triggers, blocks, threads, skippable_region, writer, crashed>>

-----------------------------------------------------------------------------
(* main, between the passes.                                               *)

\* Wrong variant: the loop is not left at the first match.
LookupLast(table, n) ==
  IF \E k \in DOMAIN table : table[k].name = n
  THEN CHOOSE k \in DOMAIN table :
         table[k].name = n /\ \A j \in k + 1 .. Len(table) : table[j].name # n
  ELSE 0

\* The first entry of a table whose name is n, or 0.
Lookup(table, n) ==
  IF \E k \in DOMAIN table : table[k].name = n
  THEN CHOOSE k \in DOMAIN table :
         table[k].name = n /\ \A j \in 1 .. k - 1 : table[j].name # n
  ELSE 0

\* Wrong variant: the last trigger is left out.
LinkShort ==
  /\ phase = "link" /\ phase' = "code"
  /\ triggers' = [k \in DOMAIN triggers |->
       IF k = Len(triggers) THEN triggers[k]
       ELSE [triggers[k] EXCEPT !.state_variable = Lookup(threads, triggers[k].support_thread)]]
  /\ UNCHANGED <<source, blocks, threads, skippable_region, parse_next_line,
                 inside_comment, writer, crashed>>

Link ==
  /\ phase = "link" /\ phase' = "code"
  /\ triggers' = [k \in DOMAIN triggers |->
       [triggers[k] EXCEPT !.state_variable = Lookup(threads, triggers[k].support_thread)]]
  /\ UNCHANGED <<source, blocks, threads, skippable_region, parse_next_line,
                 inside_comment, writer, crashed>>

-----------------------------------------------------------------------------
(* preprocess, called for each file.                                       *)

\* A line of output: a copy of line k of the file, or a generated one.
Copy(k) ==
  [op |-> "copy", line |-> k, name |-> None, function |-> None, region |-> None]
Generate(op, name, function, region) ==
  [op |-> op, line |-> 0, name |-> name, function |-> function, region |-> region]

AtEnd == pos = IF file = 0 THEN 0 ELSE Len(source[file])

\* Wrong variant: the flags are not those of a file.
NextFileKeepsFlags ==
  /\ phase = "code" /\ AtEnd /\ file < Len(source)
  /\ file' = file + 1 /\ pos' = 0
  /\ output' = Append(output, <<>>)
  /\ inside_comment' = FALSE
  /\ UNCHANGED <<source, phase, tables, in_main, dtt_initialized, variable_declared, crashed>>

NextFile ==
  /\ phase = "code" /\ AtEnd /\ file < Len(source)
  /\ file' = file + 1 /\ pos' = 0
  /\ output' = Append(output, <<>>)
  /\ inside_comment' = FALSE /\ in_main' = FALSE
  /\ dtt_initialized' = FALSE /\ variable_declared' = FALSE
  /\ UNCHANGED <<source, phase, tables, crashed>>

Finish ==
  /\ phase = "code" /\ AtEnd /\ file = Len(source)
  /\ phase' = "done"
  /\ UNCHANGED <<source, tables, inside_comment, writer, crashed>>

\* The save and the tstore for an assign line whose left side begins with a
\* trigger, on the state of the region of the trigger's support function.
\* What begins it is its first token between the characters ")*& ".
StateOf(text) ==
  LET k == Lookup(triggers, text) IN IF k = 0 THEN 0 ELSE triggers[k].state_variable

Stores(l) ==
  LET k == Lookup(triggers, l.second)
  IN  IF k = 0 THEN <<>>
      ELSE <<Generate("save", l.second, None, None),
             Generate("tstore", l.second, triggers[k].support_thread,
                      threads[StateOf(l.second)].skippable_region)>>

\* This pass has NULL pointers of its own: the end of the declaration or of
\* the #block line (of lines the first pass has not looked at), a left side
\* without a token, and the state of a trigger whose function is in no table.
FollowsNullInCode(l) ==
  /\ ~InsideAfter(l)
  /\ \/ l.kind = "trigger" /\ l.first = NoEnd
     \/ l.kind = "block" /\ LineFeedMissing(l)
     \/ /\ l.kind = "assign" /\ triggers # <<>>
        /\ l.second = None \/ (Lookup(triggers, l.second) # 0 /\ StateOf(l.second) = 0)

CrashWriting ==
  /\ crashed' = TRUE
  /\ UNCHANGED <<source, phase, tables, inside_comment, writer>>

\* A line, whose text is `left' unless a comment that goes on erased it; a
\* comment on one line only is taken out.  Its translation is written.
Translate(l, left, lines) ==
  /\ left = ~InsideAfter(l)
  /\ pos' = pos + 1
  /\ inside_comment' = InsideAfter(l)
  /\ output' = [output EXCEPT ![file] = @ \o lines]
  /\ UNCHANGED <<source, phase, tables, file>>

EraseLine(l) ==
  /\ Translate(l, FALSE, <<>>)
  /\ UNCHANGED <<in_main, dtt_initialized, variable_declared, crashed>>

\* The old value of the trigger is declared, then the trigger itself.
TranslateTrigger(l) ==
  /\ l.kind = "trigger"
  /\ Translate(l, TRUE, <<Generate("old", None, None, None), Copy(pos + 1)>>)
  /\ UNCHANGED <<in_main, dtt_initialized, variable_declared, crashed>>

\* The test of the region's state opens a block, #end_block closes it.
TranslateBlock(l) ==
  /\ l.kind \in {"block", "end_block"}
  /\ Translate(l, TRUE, <<IF l.kind = "block" THEN Generate("test", None, None, l.second)
                          ELSE Generate("end", None, None, None),
                          Copy(pos + 1)>>)
  /\ UNCHANGED <<in_main, dtt_initialized, variable_declared, crashed>>

\* Wrong variant: the flags are left alone.
TranslateAssignmentForgets(l) ==
  LET first == in_main /\ ~dtt_initialized
      call == IF first THEN <<Generate("init", None, None, None)>> ELSE <<>>
  IN  /\ l.kind = "assign"
      /\ Translate(l, TRUE, call \o Stores(l) \o <<Copy(pos + 1)>>)
      /\ UNCHANGED <<in_main, dtt_initialized, variable_declared, crashed>>

\* The first one after a line with " main(" is preceded by the call of
\* dtt_init.
TranslateAssignment(l) ==
  LET first == in_main /\ ~dtt_initialized
      call == IF first THEN <<Generate("init", None, None, None)>> ELSE <<>>
  IN  /\ l.kind = "assign"
      /\ Translate(l, TRUE, call \o Stores(l) \o <<Copy(pos + 1)>>)
      /\ in_main' = (in_main /\ ~first) /\ dtt_initialized' = (dtt_initialized \/ first)
      /\ UNCHANGED <<variable_declared, crashed>>

\* The first #include is followed by that of dtt.h and the states of all
\* regions of all files.
TranslateInclude(l) ==
  LET states == [k \in DOMAIN blocks |-> Generate("state", None, None, blocks[k])]
  IN  /\ l.kind = "include"
      /\ Translate(l, TRUE,
           IF variable_declared THEN <<Copy(pos + 1)>>
           ELSE <<Copy(pos + 1), Generate("header", None, None, None)>> \o states)
      /\ variable_declared' = TRUE
      /\ UNCHANGED <<in_main, dtt_initialized, crashed>>

CopyLine(l) ==
  /\ l.kind \in {"DTT", "main", "plain", "blank"}
  /\ Translate(l, TRUE, <<Copy(pos + 1)>>)
  /\ in_main' = (in_main \/ (l.kind = "main" /\ ~dtt_initialized))
  /\ UNCHANGED <<dtt_initialized, variable_declared, crashed>>

NextLine(l) ==
  \/ EraseLine(l) \/ TranslateTrigger(l) \/ TranslateBlock(l) \/ TranslateAssignment(l)
  \/ TranslateInclude(l) \/ CopyLine(l)

Preprocess ==
  /\ phase = "code" /\ ~AtEnd
  /\ LET l == source[file][pos + 1]
     IN  IF FollowsNullInCode(l) THEN CrashWriting ELSE NextLine(l)

-----------------------------------------------------------------------------

\* Every step that takes no line from the input.
WholeFileStep == AllFilesRead \/ Link \/ NextFile \/ Preprocess \/ Finish

Next ==
  /\ ~crashed
  /\ \/ OpenFile \/ WholeFileStep
     \/ \E l \in Lines : CreateTables(l)

Spec == Init /\ [][Next]_vars

-----------------------------------------------------------------------------

\* Types of the tables, the flags and the output.
TypeOK ==
  /\ phase \in {"tables", "link", "code", "done"}
  /\ source \in Seq(Seq(Lines))
  /\ triggers \in Seq([name : Texts, support_thread : Functions, state_variable : Nat])
  /\ blocks \in Seq(Regions)
  /\ threads \in Seq([name : Functions, skippable_region : Regions])
  /\ skippable_region \in Regions \cup {None}
  /\ file \in 0 .. Len(source) /\ pos \in Nat
  /\ {parse_next_line, inside_comment, in_main, dtt_initialized, variable_declared, crashed}
       \subseteq BOOLEAN
  /\ output \in Seq(Seq([op : {"copy", "old", "test", "end", "init", "save", "tstore",
                               "header", "state"},
                         line : Nat, name : Texts \cup {None},
                         function : Functions \cup {None}, region : Regions \cup {None}]))

=============================================================================
