---------------------------- MODULE DttcStepProofs ----------------------------
(***************************************************************************)
(* What a step of dttc reads and writes, for programs with any names, any  *)
(* number of files and any lines: the invariants of the two passes, the    *)
(* meaning of a line in terms of the lines before it, the lines that each  *)
(* branch of preprocess writes, and that the types, the place of the       *)
(* second pass, the comment flag and the links of the triggers are kept.   *)
(***************************************************************************)
EXTENDS DttcProperties, TLAPS, SequenceTheorems, NaturalsInduction, WellFoundedInduction

\* The lines of output.
OutputLines ==
  [op : {"copy", "old", "test", "end", "init", "save", "tstore", "header", "state"},
   line : Nat, name : Texts \cup {None},
   function : Functions \cup {None}, region : Regions \cup {None}]

\* Where the second pass is.
Cursor ==
  /\ phase \in {"tables", "link"} => file = 0
  /\ file = 0 => pos = 0 /\ ~in_main /\ ~dtt_initialized /\ ~variable_declared
  /\ file # 0 => pos <= Len(source[file])
  /\ Len(output) = file
  /\ phase = "done" => file = Len(source) /\ AtEnd

\* The flag of the pass says what the source says of the line it has read last.
Scan ==
  inside_comment <=>
    IF phase = "tables" THEN source # <<>> /\ Erased(Len(source), Len(source[Len(source)]))
    ELSE file # 0 /\ Erased(file, pos)

\* The #DTT line j of file f is read, and only other pragmas behind it.
Waiting(f, j) ==
  /\ source[f][j].kind = "DTT" /\ Read(f, j)
  /\ \A m \in j + 1 .. Len(source[f]) :
       source[f][m].kind \in {"trigger", "block", "end_block"} /\ Read(f, m)

\* No line behind the #DTT line j of file f answers it.
Unanswered(f, j) ==
  /\ source[f][j].kind = "DTT" /\ Read(f, j)
  /\ \A m \in j + 1 .. Len(source[f]) : ~Answers(f, j, m)

\* While the name of a support function is looked for, the file being read
\* has a #DTT line without an answer: the pragmas behind it, or a comment,
\* reach the end of what was read.  A #DTT line that waits is the last one.
Pending ==
  /\ parse_next_line /\ ~crashed =>
       /\ phase = "tables" /\ source # <<>> /\ skippable_region \in Regions
       /\ \E j \in DOMAIN source[Len(source)] :
            \/ Waiting(Len(source), j)
            \/ inside_comment /\ Unanswered(Len(source), j)
  /\ phase = "tables" /\ ~crashed =>
       \A f \in DOMAIN source : f = Len(source) =>
         \A j \in DOMAIN source[f] :
           Waiting(f, j) => parse_next_line /\ skippable_region = source[f][j].first

\* fn is the function of the first #trigger of v: the first half of Meant.
FirstTrigger(v, fn) ==
  \E f \in DOMAIN source : \E k \in DOMAIN source[f] :
    /\ IsTrigger(v, f, k) /\ source[f][k].function = fn
    /\ \A j \in 1 .. k - 1 : ~IsTrigger(v, f, j)
    /\ \A g \in 1 .. f - 1 : \A j \in DOMAIN source[g] : ~IsTrigger(v, g, j)

\* r is the region of the first support function fn: the second half.
FirstSupport(fn, r) ==
  \E f \in DOMAIN source : \E k \in DOMAIN source[f] :
    /\ IsSupport(fn, f, k) /\ Recomputes(r, f, k)
    /\ \A j \in 1 .. k - 1 : ~IsSupport(fn, f, j)
    /\ \A g \in 1 .. f - 1 : \A j \in DOMAIN source[g] : ~IsSupport(fn, g, j)

\* Entry i is the first one with its name.
First(table, i) == \A j \in 1 .. i - 1 : table[j].name # table[i].name

\* The first entry of a text is its first line in the source, and every line
\* that was read has an entry, unless the first pass has crashed.
TriggersTable ==
  /\ \A i \in DOMAIN triggers :
       First(triggers, i) => FirstTrigger(triggers[i].name, triggers[i].support_thread)
  /\ ~crashed \/ phase # "tables" =>
       \A f \in DOMAIN source : \A k \in DOMAIN source[f] :
         source[f][k].kind = "trigger" /\ Read(f, k) =>
           \E i \in DOMAIN triggers : triggers[i].name = source[f][k].first

\* The same of the support functions,
ThreadsTable ==
  /\ \A i \in DOMAIN threads :
       First(threads, i) => FirstSupport(threads[i].name, threads[i].skippable_region)
  /\ ~crashed \/ phase # "tables" =>
       \A f \in DOMAIN source : \A k \in DOMAIN source[f] :
         IsSupport(source[f][k].function, f, k) =>
           \E i \in DOMAIN threads : threads[i].name = source[f][k].function

\* and of the blocks.
BlocksTable ==
  ~crashed \/ phase # "tables" =>
    \A f \in DOMAIN source : \A k \in DOMAIN source[f] :
      source[f][k].kind = "block" /\ Read(f, k) =>
        \E i \in DOMAIN blocks : blocks[i] = source[f][k].first

\* The loop between the passes has given each trigger its support function.
Linked ==
  phase \in {"code", "done"} =>
    \A i \in DOMAIN triggers :
      triggers[i].state_variable = Lookup(threads, triggers[i].support_thread)

\* The copies in the output of file f are those of its first p lines.
CopiesOf(f, p) ==
  /\ \A n \in DOMAIN output[f] : output[f][n].op = "copy" =>
       output[f][n].line \in 1 .. p /\ ~Erased(f, output[f][n].line)
  /\ \A k \in 1 .. p : ~Erased(f, k) =>
       \E n \in DOMAIN output[f] : output[f][n].op = "copy" /\ output[f][n].line = k
  /\ \A m \in DOMAIN output[f] : \A n \in DOMAIN output[f] :
       output[f][m].op = "copy" /\ output[f][n].op = "copy" /\ m < n =>
         output[f][m].line < output[f][n].line

\* The files behind the cursor are copied as a whole.
Copies ==
  \A f \in DOMAIN output : \A p :
    p = (IF f = file THEN pos ELSE Len(source[f])) => CopiesOf(f, p)

\* The flags of preprocess and the output of its file.
Flags ==
  file # 0 =>
    /\ dtt_initialized <=> \E n \in DOMAIN output[file] : output[file][n].op = "init"
    /\ ~in_main /\ ~dtt_initialized =>
         \A n \in DOMAIN output[file] : output[file][n].op = "copy" =>
            source[file][output[file][n].line].kind # "main"
    /\ variable_declared =>
         \A i \in DOMAIN blocks : \E n \in DOMAIN output[file] :
           output[file][n].op = "state" /\ output[file][n].region = blocks[i]
    /\ ~variable_declared =>
         \A n \in DOMAIN output[file] : output[file][n].op = "copy" =>
            source[file][output[file][n].line].kind # "include"


\* What a step of the first pass leaves of the source.
Kept ==
  /\ DOMAIN source \subseteq DOMAIN source'
  /\ \A f \in DOMAIN source :
       /\ DOMAIN source[f] \subseteq DOMAIN source'[f]
       /\ \A k \in DOMAIN source[f] : source'[f][k] = source[f][k]
       /\ f < Len(source) => source'[f] = source[f]

-----------------------------------------------------------------------------

\* What the fields of a line can hold.
LEMMA LineFacts ==
  ASSUME NEW l \in Lines
  PROVE  /\ l.comment \in {"none", "slashes", "inline", "url", "open", "close"}
         /\ l.kind \in {"trigger", "assign", "block", "DTT", "end_block", "main", "include",
                        "plain", "blank"}
         /\ l.kind = "trigger" => l.first \in Texts \cup {None, NoEnd}
         /\ l.kind \in {"block", "DTT"} => l.first \in Regions \cup {None, NoEnd}
         /\ l.kind = "block" => l.second \in Regions \cup {None}
         /\ l.kind = "assign" => l.second \in Texts \cup {None}
         /\ l.function \in Functions \cup {None}
BY DEF Lines, LinesOf

\* When a line is not the cause of a crash, the first pass finds the names it
\* puts in its tables.
LEMMA NamesFound ==
  ASSUME NEW l \in Lines, ~FollowsNull(l)
  PROVE  /\ AddTrigger(l) => l.first \in Texts /\ l.function \in Functions
         /\ AddBlock(l) => l.first \in Regions
         /\ ReadDTT(l) => l.first \in Regions
         /\ AddThread(l) => l.function \in Functions /\ CodeSeen(l)
<1>1. ASSUME ReadLine(l, TRUE)
      PROVE  ~InsideAfter(l)
  BY <1>1 DEF ReadLine
<1>2. ASSUME AddTrigger(l)
      PROVE  l.first \in Texts /\ l.function \in Functions
  BY <1>1, <1>2, LineFacts DEF AddTrigger, FollowsNull, Pragma
<1>3. ASSUME AddBlock(l)
      PROVE  l.first \in Regions
  BY <1>1, <1>3, LineFacts DEF AddBlock, FollowsNull, Pragma, LineFeedMissing
<1>4. ASSUME ReadDTT(l)
      PROVE  l.first \in Regions
  BY <1>1, <1>4, LineFacts DEF ReadDTT, FollowsNull, Pragma, LineFeedMissing
<1>5. ASSUME AddThread(l)
      PROVE  l.function \in Functions /\ CodeSeen(l)
  BY <1>1, <1>5, LineFacts DEF AddThread, FollowsNull
<1> QED  BY <1>2, <1>3, <1>4, <1>5

\* What the first pass may do with a line.
LEMMA ReadingCases ==
  ASSUME NEW l \in Lines, CreateTables(l)
  PROVE  /\ ReadLine(l, TRUE) \/ ReadLine(l, FALSE)
         /\ \/ FollowsNull(l) /\ CrashReading(l)
            \/ /\ ~FollowsNull(l)
               /\ \/ SkipLine(l) \/ AddTrigger(l) \/ AddBlock(l)
                  \/ ReadDTT(l) \/ AddThread(l) \/ OtherLine(l)
<1>1. \/ FollowsNull(l) /\ CrashReading(l)
      \/ /\ ~FollowsNull(l)
         /\ \/ SkipLine(l) \/ AddTrigger(l) \/ AddBlock(l)
            \/ ReadDTT(l) \/ AddThread(l) \/ OtherLine(l)
  BY DEF CreateTables
<1>2. CrashReading(l) => ReadLine(l, TRUE) \/ ReadLine(l, FALSE)
  <2>1. (~InsideAfter(l)) = TRUE \/ (~InsideAfter(l)) = FALSE
    OBVIOUS
  <2> QED  BY <2>1 DEF CrashReading
<1>3. \/ SkipLine(l) \/ AddTrigger(l) \/ AddBlock(l) \/ ReadDTT(l) \/ AddThread(l)
      \/ OtherLine(l)
      => ReadLine(l, TRUE) \/ ReadLine(l, FALSE)
  BY DEF SkipLine, AddTrigger, AddBlock, ReadDTT, AddThread, OtherLine
<1> QED  BY <1>1, <1>2, <1>3

\* A set of numbers has a smallest one.
LEMMA SmallestIndex ==
  ASSUME NEW T \in SUBSET Nat, T # {}
  PROVE  \E i \in T : \A j \in T : ~(j < i)
<1>1. IsWellFoundedOn(OpToRel(<, Nat), Nat)
  BY NatLessThanWellFounded
<1>2. PICK i \in T : \A j \in T : ~(<<j, i>> \in OpToRel(<, Nat))
  BY <1>1, WFMin
<1>3. \A j \in T : ~(j < i)
  BY <1>2 DEF OpToRel
<1> QED  BY <1>3

\* The two halves of Meant.
LEMMA MeantIsFirst ==
  ASSUME NEW v, NEW fn, NEW r
  PROVE  Meant(v, fn, r) <=> FirstTrigger(v, fn) /\ FirstSupport(fn, r)
BY DEF Meant, FirstLine, FirstTrigger, FirstSupport

\* Lookup finds the first entry of a name, or there is none.
LEMMA LookupIsFirst ==
  ASSUME NEW S, NEW table \in Seq(S), NEW n
  PROVE  \/ Lookup(table, n) = 0 /\ \A k \in DOMAIN table : table[k].name # n
         \/ /\ Lookup(table, n) \in DOMAIN table /\ table[Lookup(table, n)].name = n
            /\ First(table, Lookup(table, n))
<1>1. CASE ~\E k \in DOMAIN table : table[k].name = n
  BY <1>1 DEF Lookup
<1>2. CASE \E k \in DOMAIN table : table[k].name = n
  <2> DEFINE T == {k \in DOMAIN table : table[k].name = n}
  <2>1. DOMAIN table = 1 .. Len(table) /\ Len(table) \in Nat
    BY LenProperties
  <2>2. T \in SUBSET Nat /\ T # {}
    BY <1>2, <2>1
  <2>3. PICK i \in T : \A j \in T : ~(j < i)
    BY <2>2, SmallestIndex
  <2>4. i \in DOMAIN table /\ table[i].name = n /\ \A j \in 1 .. i - 1 : table[j].name # n
    BY <2>3, <2>1
  <2>5. Lookup(table, n) = CHOOSE k \in DOMAIN table :
          table[k].name = n /\ \A j \in 1 .. k - 1 : table[j].name # n
    BY <1>2 DEF Lookup
  <2>6. /\ Lookup(table, n) \in DOMAIN table /\ table[Lookup(table, n)].name = n
        /\ \A j \in 1 .. Lookup(table, n) - 1 : table[j].name # n
    BY <2>4, <2>5
  <2> QED  BY <2>6 DEF First
<1> QED  BY <1>1, <1>2

\* Types and domains of the source.
LEMMA Shape ==
  ASSUME TypeOK
  PROVE  /\ source \in Seq(Seq(Lines))
         /\ Len(source) \in Nat /\ DOMAIN source = 1 .. Len(source)
         /\ \A f \in DOMAIN source :
              /\ source[f] \in Seq(Lines)
              /\ Len(source[f]) \in Nat /\ DOMAIN source[f] = 1 .. Len(source[f])
              /\ \A k \in DOMAIN source[f] : source[f][k] \in Lines
<1>1. source \in Seq(Seq(Lines))
  BY DEF TypeOK
<1>2. Len(source) \in Nat /\ DOMAIN source = 1 .. Len(source)
  BY <1>1, LenProperties
<1>3. ASSUME NEW f \in DOMAIN source
      PROVE  /\ source[f] \in Seq(Lines)
             /\ Len(source[f]) \in Nat /\ DOMAIN source[f] = 1 .. Len(source[f])
             /\ \A k \in DOMAIN source[f] : source[f][k] \in Lines
  <2>1. source[f] \in Seq(Lines)
    BY <1>1, <1>2, ElementOfSeq
  <2>2. Len(source[f]) \in Nat /\ DOMAIN source[f] = 1 .. Len(source[f])
    BY <2>1, LenProperties
  <2>3. ASSUME NEW k \in DOMAIN source[f]
        PROVE  source[f][k] \in Lines
    BY <2>1, <2>2, ElementOfSeq
  <2> QED  BY <2>1, <2>2, <2>3
<1> QED  BY <1>1, <1>2, <1>3

\* What opening a file does to the source,
LEMMA OpenedFile ==
  ASSUME TypeOK, source' = Append(source, <<>>)
  PROVE  /\ source' \in Seq(Seq(Lines)) /\ Kept
         /\ Len(source') = Len(source) + 1
         /\ source'[Len(source) + 1] = <<>>
<1>1. source \in Seq(Seq(Lines)) /\ Len(source) \in Nat /\ DOMAIN source = 1 .. Len(source)
  BY Shape
<1>2. <<>> \in Seq(Lines)
  BY EmptySeq
<1>3. /\ source' \in Seq(Seq(Lines)) /\ Len(source') = Len(source) + 1
      /\ \A i \in 1 .. Len(source) : source'[i] = source[i]
      /\ source'[Len(source) + 1] = <<>>
  BY <1>1, <1>2, AppendProperties
<1>4. DOMAIN source' = 1 .. Len(source')
  BY <1>3, LenProperties
<1> QED  BY <1>1, <1>3, <1>4 DEF Kept

\* and what reading a line does.
LEMMA ReadALine ==
  ASSUME TypeOK, source # <<>>, NEW l \in Lines,
         source' = [source EXCEPT ![Len(source)] = Append(@, l)]
  PROVE  /\ source' \in Seq(Seq(Lines)) /\ Kept
         /\ Len(source) \in DOMAIN source
         /\ Len(source') = Len(source) /\ DOMAIN source' = DOMAIN source
         /\ Len(source'[Len(source)]) = Len(source[Len(source)]) + 1
         /\ DOMAIN source'[Len(source)] = 1 .. Len(source[Len(source)]) + 1
         /\ source'[Len(source)][Len(source[Len(source)]) + 1] = l
<1> DEFINE f == Len(source)
<1>1. /\ source \in Seq(Seq(Lines)) /\ Len(source) \in Nat /\ DOMAIN source = 1 .. Len(source)
      /\ \A g \in DOMAIN source : source[g] \in Seq(Lines)
      /\ \A g \in DOMAIN source : DOMAIN source[g] = 1 .. Len(source[g])
  BY Shape
<1>2. f \in 1 .. Len(source)
  BY <1>1, EmptySeq
<1> DEFINE new == Append(source[f], l)
<1>3. /\ new \in Seq(Lines) /\ Len(new) = Len(source[f]) + 1
      /\ \A i \in 1 .. Len(source[f]) : new[i] = source[f][i]
      /\ new[Len(source[f]) + 1] = l
  BY <1>1, <1>2, AppendProperties
<1>4. DOMAIN new = 1 .. Len(source[f]) + 1
  BY <1>3, LenProperties
<1>5. source' = [source EXCEPT ![f] = new]
  OBVIOUS
<1> HIDE DEF new
<1>6. /\ source' \in Seq(Seq(Lines)) /\ Len(source') = Len(source)
      /\ \A g \in 1 .. Len(source) : source'[g] = IF g = f THEN new ELSE source[g]
  <2>1. source \in Seq(Seq(Lines)) /\ new \in Seq(Lines) /\ f \in 1 .. Len(source)
    BY <1>1, <1>2, <1>3
  <2>2. /\ [source EXCEPT ![f] = new] \in Seq(Seq(Lines))
        /\ Len([source EXCEPT ![f] = new]) = Len(source)
        /\ \A g \in 1 .. Len(source) :
             [source EXCEPT ![f] = new][g] = IF g = f THEN new ELSE source[g]
    BY <2>1, ExceptSeq
  <2> QED  BY <2>2, <1>5
<1>7. DOMAIN source' = 1 .. Len(source')
  BY <1>6, LenProperties
<1>8. source'[f] = new
  BY <1>2, <1>6
<1>9. ASSUME NEW g \in DOMAIN source
      PROVE  /\ DOMAIN source[g] \subseteq DOMAIN source'[g]
             /\ \A k \in DOMAIN source[g] : source'[g][k] = source[g][k]
             /\ g < Len(source) => source'[g] = source[g]
  <2>1. CASE g = f
    <3>1. DOMAIN source[f] = 1 .. Len(source[f]) /\ Len(source[f]) \in Nat
      BY <1>1, <1>2, LenProperties
    <3> QED  BY <2>1, <3>1, <1>8, <1>4, <1>3, <1>1
  <2>2. CASE g # f
    BY <2>2, <1>1, <1>6
  <2> QED  BY <2>1, <2>2
<1>10. Kept
  BY <1>1, <1>6, <1>7, <1>9 DEF Kept
<1> QED  BY <1>1, <1>2, <1>3, <1>4, <1>6, <1>7, <1>8, <1>10

\* What the lines of the source mean does not change when more is read.
LEMMA ErasedKept ==
  ASSUME TypeOK, Kept, NEW f \in DOMAIN source, NEW k \in DOMAIN source[f]
  PROVE  /\ Erased(f, k)' <=> Erased(f, k)
         /\ Read(f, k)' <=> Read(f, k)
<1>1. /\ DOMAIN source[f] = 1 .. Len(source[f]) /\ Len(source[f]) \in Nat
      /\ \A j \in 1 .. k : source'[f][j] = source[f][j]
  BY Shape DEF Kept
<1>2. Erased(f, k)' <=> Erased(f, k)
  BY <1>1 DEF Erased
<1>3. Read(f, k)' <=> Read(f, k)
  BY <1>1, <1>2 DEF Read, CodeSeen
<1> QED  BY <1>2, <1>3

\* So is what a function answers,
LEMMA AnswersKept ==
  ASSUME TypeOK, Kept, NEW f \in DOMAIN source, NEW k \in DOMAIN source[f], NEW j \in 1 .. k - 1
  PROVE  Answers(f, j, k)' <=> Answers(f, j, k)
<1>1. /\ DOMAIN source[f] = 1 .. Len(source[f]) /\ Len(source[f]) \in Nat
      /\ \A m \in DOMAIN source[f] : source'[f][m] = source[f][m]
  BY Shape DEF Kept
<1>2. \A m \in 1 .. k : m \in DOMAIN source[f]
  BY <1>1
<1>3. \A m \in 1 .. k : Read(f, m)' <=> Read(f, m)
  BY <1>2, ErasedKept
<1>4. k \in Nat /\ j \in 1 .. k /\ k \in 1 .. k /\ \A m \in j + 1 .. k - 1 : m \in 1 .. k
  BY <1>1
<1> QED  BY <1>1, <1>2, <1>3, <1>4 DEF Answers

\* and what a line means.
LEMMA MeaningKept ==
  ASSUME TypeOK, Kept, NEW f \in DOMAIN source, NEW k \in DOMAIN source[f], NEW n
  PROVE  /\ IsTrigger(n, f, k)' <=> IsTrigger(n, f, k)
         /\ IsSupport(n, f, k)' <=> IsSupport(n, f, k)
         /\ Recomputes(n, f, k)' <=> Recomputes(n, f, k)
         /\ IsBlock(n, f, k)' <=> IsBlock(n, f, k)
<1>1. /\ DOMAIN source[f] = 1 .. Len(source[f]) /\ Len(source[f]) \in Nat
      /\ \A m \in DOMAIN source[f] : source'[f][m] = source[f][m]
  BY Shape DEF Kept
<1>2. Read(f, k)' <=> Read(f, k)
  BY ErasedKept
<1>3. \A j \in 1 .. k - 1 : Answers(f, j, k)' <=> Answers(f, j, k)
  BY AnswersKept
<1>4. \A j \in 1 .. k - 1 : source'[f][j] = source[f][j]
  BY <1>1
<1> QED  BY <1>1, <1>2, <1>3, <1>4 DEF IsTrigger, IsSupport, Recomputes, IsBlock

\* The comment that a line begins or ends.
ErasedIn(lines, k) ==
  \E j \in 1 .. k :
    /\ lines[j].comment \in {"open", "url"}
    /\ \A m \in j + 1 .. k : lines[m].comment \notin {"inline", "close"}

\* InsideAfter in terms of the lines: a comment that goes on is one begun on
\* the line, or one begun before it that the line does not end.
LEMMA ErasedStep ==
  ASSUME NEW lines, NEW k \in Nat
  PROVE  ErasedIn(lines, k + 1) <=>
           \/ lines[k + 1].comment \in {"open", "url"}
           \/ ErasedIn(lines, k) /\ lines[k + 1].comment \notin {"inline", "close"}
<1>1. ASSUME NEW j \in 1 .. k + 1, lines[j].comment \in {"open", "url"},
             \A m \in j + 1 .. k + 1 : lines[m].comment \notin {"inline", "close"}
      PROVE  \/ lines[k + 1].comment \in {"open", "url"}
             \/ ErasedIn(lines, k) /\ lines[k + 1].comment \notin {"inline", "close"}
  <2>1. CASE j = k + 1
    BY <1>1, <2>1
  <2>2. CASE j # k + 1
    BY <1>1, <2>2 DEF ErasedIn
  <2> QED  BY <2>1, <2>2
<1>2. ASSUME lines[k + 1].comment \in {"open", "url"}
      PROVE  ErasedIn(lines, k + 1)
  <2>1. k + 1 \in 1 .. k + 1 /\ \A m \in (k + 1) + 1 .. k + 1 : FALSE
    OBVIOUS
  <2> QED  BY <1>2, <2>1 DEF ErasedIn
<1>3. ASSUME ErasedIn(lines, k), lines[k + 1].comment \notin {"inline", "close"}
      PROVE  ErasedIn(lines, k + 1)
  <2>1. PICK j \in 1 .. k :
          /\ lines[j].comment \in {"open", "url"}
          /\ \A m \in j + 1 .. k : lines[m].comment \notin {"inline", "close"}
    BY <1>3 DEF ErasedIn
  <2>2. j \in 1 .. k + 1 /\ \A m \in j + 1 .. k + 1 : m \in j + 1 .. k \/ m = k + 1
    OBVIOUS
  <2> QED  BY <1>3, <2>1, <2>2 DEF ErasedIn
<1> QED  BY <1>1, <1>2, <1>3 DEF ErasedIn

\* It depends on the lines so far alone.
LEMMA ErasedSame ==
  ASSUME NEW lines, NEW new, NEW k \in Nat, \A j \in 1 .. k : new[j] = lines[j]
  PROVE  ErasedIn(new, k) <=> ErasedIn(lines, k)
<1>1. ASSUME NEW j \in 1 .. k
      PROVE  \A m \in j + 1 .. k : m \in 1 .. k
  OBVIOUS
<1> QED  BY <1>1 DEF ErasedIn

\* Nothing is erased in front of the first line.
LEMMA ErasedNone ==
  ASSUME NEW lines
  PROVE  ~ErasedIn(lines, 0)
BY DEF ErasedIn

-----------------------------------------------------------------------------

\* A line of output that the program can write.
LEMMA WrittenLines ==
  ASSUME TypeOK
  PROVE  /\ \A k \in Nat : Copy(k) \in OutputLines
         /\ \A op \in {"old", "test", "end", "init", "save", "tstore", "header", "state"},
               name \in Texts \cup {None}, function \in Functions \cup {None},
               region \in Regions \cup {None} :
              Generate(op, name, function, region) \in OutputLines
BY DEF Copy, Generate, OutputLines

\* Types and domains of the tables,
LEMMA TableShape ==
  ASSUME TypeOK
  PROVE  /\ Len(triggers) \in Nat /\ DOMAIN triggers = 1 .. Len(triggers)
         /\ \A i \in DOMAIN triggers :
              /\ triggers[i].name \in Texts /\ triggers[i].support_thread \in Functions
              /\ triggers[i].state_variable \in Nat
         /\ Len(threads) \in Nat /\ DOMAIN threads = 1 .. Len(threads)
         /\ \A i \in DOMAIN threads :
              threads[i].name \in Functions /\ threads[i].skippable_region \in Regions
         /\ Len(blocks) \in Nat /\ DOMAIN blocks = 1 .. Len(blocks)
         /\ \A i \in DOMAIN blocks : blocks[i] \in Regions
<1>1. /\ triggers \in Seq([name : Texts, support_thread : Functions, state_variable : Nat])
      /\ threads \in Seq([name : Functions, skippable_region : Regions])
      /\ blocks \in Seq(Regions)
  BY DEF TypeOK
<1>2. Len(triggers) \in Nat /\ DOMAIN triggers = 1 .. Len(triggers)
  BY <1>1, LenProperties
<1>3. Len(threads) \in Nat /\ DOMAIN threads = 1 .. Len(threads)
  BY <1>1, LenProperties
<1>4. Len(blocks) \in Nat /\ DOMAIN blocks = 1 .. Len(blocks)
  BY <1>1, LenProperties
<1>5. ASSUME NEW i \in DOMAIN triggers
      PROVE  triggers[i] \in [name : Texts, support_thread : Functions, state_variable : Nat]
  BY <1>1, <1>2, ElementOfSeq
<1>6. ASSUME NEW i \in DOMAIN threads
      PROVE  threads[i] \in [name : Functions, skippable_region : Regions]
  BY <1>1, <1>3, ElementOfSeq
<1>7. ASSUME NEW i \in DOMAIN blocks
      PROVE  blocks[i] \in Regions
  BY <1>1, <1>4, ElementOfSeq
<1> QED  BY <1>2, <1>3, <1>4, <1>5, <1>6, <1>7

\* and of the output.
LEMMA OutputShape ==
  ASSUME TypeOK
  PROVE  /\ output \in Seq(Seq(OutputLines))
         /\ Len(output) \in Nat /\ DOMAIN output = 1 .. Len(output)
         /\ \A f \in DOMAIN output :
              /\ output[f] \in Seq(OutputLines)
              /\ Len(output[f]) \in Nat /\ DOMAIN output[f] = 1 .. Len(output[f])
              /\ \A n \in DOMAIN output[f] : output[f][n] \in OutputLines
<1>1. output \in Seq(Seq(OutputLines))
  BY DEF TypeOK, OutputLines
<1>2. Len(output) \in Nat /\ DOMAIN output = 1 .. Len(output)
  BY <1>1, LenProperties
<1>3. ASSUME NEW f \in DOMAIN output
      PROVE  /\ output[f] \in Seq(OutputLines)
             /\ Len(output[f]) \in Nat /\ DOMAIN output[f] = 1 .. Len(output[f])
             /\ \A n \in DOMAIN output[f] : output[f][n] \in OutputLines
  <2>1. output[f] \in Seq(OutputLines)
    BY <1>1, <1>2, ElementOfSeq
  <2>2. Len(output[f]) \in Nat /\ DOMAIN output[f] = 1 .. Len(output[f])
    BY <2>1, LenProperties
  <2>3. ASSUME NEW n \in DOMAIN output[f]
        PROVE  output[f][n] \in OutputLines
    BY <2>1, <2>2, ElementOfSeq
  <2> QED  BY <2>1, <2>2, <2>3
<1> QED  BY <1>1, <1>2, <1>3

\* The line that preprocess reads.
LEMMA LineRead ==
  ASSUME TypeOK, Cursor, phase = "code", ~AtEnd
  PROVE  /\ file \in DOMAIN source /\ file \in Nat /\ file # 0 /\ pos \in Nat
         /\ pos + 1 \in DOMAIN source[file] /\ pos + 1 <= Len(source[file])
         /\ source[file][pos + 1] \in Lines
         /\ file = Len(output) /\ file \in DOMAIN output
<1>1. /\ DOMAIN source = 1 .. Len(source) /\ Len(source) \in Nat
      /\ file \in 0 .. Len(source) /\ pos \in Nat
  BY Shape DEF TypeOK
<1>2. file # 0
  BY DEF AtEnd, Cursor
<1>3. file \in DOMAIN source
  BY <1>1, <1>2
<1>4. /\ Len(source[file]) \in Nat /\ DOMAIN source[file] = 1 .. Len(source[file])
      /\ \A k \in DOMAIN source[file] : source[file][k] \in Lines
  BY <1>3, Shape
<1>5. pos <= Len(source[file]) /\ pos # Len(source[file])
  BY <1>2 DEF AtEnd, Cursor
<1>6. pos + 1 \in DOMAIN source[file] /\ pos + 1 <= Len(source[file])
  BY <1>1, <1>4, <1>5
<1>7. file = Len(output) /\ file \in DOMAIN output
  BY <1>1, <1>2, OutputShape DEF Cursor
<1> QED  BY <1>1, <1>2, <1>3, <1>4, <1>6, <1>7

\* The translation of a line comes behind what is in the output file.
LEMMA Written ==
  ASSUME TypeOK, Cursor, phase = "code", ~AtEnd, NEW l, NEW left, NEW lines \in Seq(OutputLines),
         Translate(l, left, lines)
  PROVE  /\ output' \in Seq(Seq(OutputLines))
         /\ Len(output') = Len(output) /\ DOMAIN output' = DOMAIN output
         /\ \A g \in DOMAIN output : g # file => output'[g] = output[g]
         /\ DOMAIN output'[file] = 1 .. Len(output[file]) + Len(lines)
         /\ Len(output'[file]) = Len(output[file]) + Len(lines)
         /\ \A n \in DOMAIN output[file] :
              n \in DOMAIN output'[file] /\ output'[file][n] = output[file][n]
         /\ \A n \in DOMAIN lines :
              /\ Len(output[file]) + n \in DOMAIN output'[file]
              /\ output'[file][Len(output[file]) + n] = lines[n]
         /\ \A n \in DOMAIN output'[file] :
              n \in DOMAIN output[file] \/ n - Len(output[file]) \in DOMAIN lines
<1> DEFINE old == output[file]
           new == old \o lines
<1>1. file \in DOMAIN output
  BY LineRead
<1>2. /\ output \in Seq(Seq(OutputLines)) /\ DOMAIN output = 1 .. Len(output)
      /\ old \in Seq(OutputLines) /\ Len(old) \in Nat /\ DOMAIN old = 1 .. Len(old)
  BY <1>1, OutputShape
<1>3. Len(lines) \in Nat /\ DOMAIN lines = 1 .. Len(lines)
  BY LenProperties
<1>4. /\ new \in Seq(OutputLines) /\ Len(new) = Len(old) + Len(lines)
      /\ \A i \in 1 .. Len(old) + Len(lines) :
           new[i] = IF i <= Len(old) THEN old[i] ELSE lines[i - Len(old)]
  BY <1>2, ConcatProperties
<1>5. DOMAIN new = 1 .. Len(old) + Len(lines)
  BY <1>4, LenProperties
<1>6. output' = [output EXCEPT ![file] = new]
  BY DEF Translate
<1>7. \A i \in 1 .. Len(old) : i \in DOMAIN new /\ new[i] = old[i]
  BY <1>2, <1>3, <1>4, <1>5
<1>8. \A i \in 1 .. Len(lines) : Len(old) + i \in DOMAIN new /\ new[Len(old) + i] = lines[i]
  BY <1>2, <1>3, <1>4, <1>5
<1>8a. \A n \in DOMAIN new : n \in DOMAIN old \/ n - Len(old) \in DOMAIN lines
  BY <1>2, <1>3, <1>5
<1> HIDE DEF new
<1>9. file \in 1 .. Len(output) /\ new \in Seq(OutputLines)
  BY <1>1, <1>2, <1>4
<1>10. /\ [output EXCEPT ![file] = new] \in Seq(Seq(OutputLines))
       /\ Len([output EXCEPT ![file] = new]) = Len(output)
       /\ \A g \in 1 .. Len(output) :
            [output EXCEPT ![file] = new][g] = IF g = file THEN new ELSE output[g]
  BY <1>2, <1>9, ExceptSeq
<1>11. /\ output' \in Seq(Seq(OutputLines)) /\ Len(output') = Len(output)
       /\ \A g \in 1 .. Len(output) : output'[g] = IF g = file THEN new ELSE output[g]
  BY <1>6, <1>10
<1>12. DOMAIN output' = 1 .. Len(output')
  BY <1>11, LenProperties
<1>13. output'[file] = new
  BY <1>9, <1>11
<1> QED  BY <1>2, <1>3, <1>4, <1>5, <1>7, <1>8, <1>8a, <1>11, <1>12, <1>13

\* The entries that an assignment looks up.
LEMMA Entries ==
  ASSUME TypeOK, Linked, phase = "code", NEW l
  PROVE  /\ StateOf(l.second) \in Nat
         /\ StateOf(l.second) # 0 =>
              LET k == Lookup(triggers, l.second) IN
              /\ k \in DOMAIN triggers /\ triggers[k].name = l.second /\ First(triggers, k)
              /\ StateOf(l.second) \in DOMAIN threads
              /\ threads[StateOf(l.second)].name = triggers[k].support_thread
              /\ First(threads, StateOf(l.second))
<1>1. /\ triggers \in Seq([name : Texts, support_thread : Functions, state_variable : Nat])
      /\ threads \in Seq([name : Functions, skippable_region : Regions])
  BY DEF TypeOK
<1> DEFINE k == Lookup(triggers, l.second)
<1>2. \/ k = 0
      \/ k \in DOMAIN triggers /\ triggers[k].name = l.second /\ First(triggers, k)
  BY <1>1, LookupIsFirst
<1>3. CASE k = 0
  BY <1>3 DEF StateOf
<1>4. CASE k # 0
  <2>1. k \in DOMAIN triggers /\ triggers[k].name = l.second /\ First(triggers, k)
    BY <1>2, <1>4
  <2>2. StateOf(l.second) = Lookup(threads, triggers[k].support_thread)
    BY <1>4, <2>1 DEF StateOf, Linked
  <2> DEFINE i == Lookup(threads, triggers[k].support_thread)
  <2>3. \/ i = 0
        \/ /\ i \in DOMAIN threads /\ threads[i].name = triggers[k].support_thread
           /\ First(threads, i)
    BY <1>1, LookupIsFirst
  <2>4. DOMAIN threads = 1 .. Len(threads) /\ Len(threads) \in Nat
    BY TableShape
  <2> QED  BY <2>1, <2>2, <2>3, <2>4
<1> QED  BY <1>3, <1>4

\* What is written for an assignment: the call, when it is the first one of
\* main, the save and the tstore of a trigger, and the line.
CallOf == IF in_main /\ ~dtt_initialized THEN <<Generate("init", None, None, None)>> ELSE <<>>

\* The call of dtt_init, the save and the tstore, and the line itself.
AssignmentLines(l) == CallOf \o Stores(l) \o <<Copy(pos + 1)>>

\* A state is found for a trigger: without one dttc follows a NULL pointer.
StateFound(l) == Lookup(triggers, l.second) # 0 => StateOf(l.second) # 0

\* The save and the tstore, of a trigger that is linked.
LEMMA StoresShape ==
  ASSUME TypeOK, Linked, phase = "code", NEW l \in Lines, StateFound(l)
  PROVE  /\ Stores(l) \in Seq(OutputLines)
         /\ StateOf(l.second) = 0 => Len(Stores(l)) = 0
         /\ StateOf(l.second) # 0 =>
              LET k == Lookup(triggers, l.second) IN
              /\ Len(Stores(l)) = 2
              /\ Stores(l)[1] = Generate("save", l.second, None, None)
              /\ Stores(l)[2] = Generate("tstore", l.second, triggers[k].support_thread,
                                         threads[StateOf(l.second)].skippable_region)
<1> DEFINE k == Lookup(triggers, l.second)
<1>1. CASE StateOf(l.second) = 0
  <2>1. Stores(l) = <<>>
    BY <1>1 DEF Stores, StateFound
  <2> QED  BY <1>1, <2>1, EmptySeq
<1>2. CASE StateOf(l.second) # 0
  <2> DEFINE save == Generate("save", l.second, None, None)
             store == Generate("tstore", l.second, triggers[k].support_thread,
                               threads[StateOf(l.second)].skippable_region)
  <2>1. /\ k \in DOMAIN triggers /\ triggers[k].name = l.second
        /\ StateOf(l.second) \in DOMAIN threads
    BY <1>2, Entries
  <2>2. /\ l.second \in Texts /\ triggers[k].support_thread \in Functions
        /\ threads[StateOf(l.second)].skippable_region \in Regions
    BY <2>1, TableShape
  <2>3. save \in OutputLines /\ store \in OutputLines
    BY <2>2, WrittenLines
  <2>4. Stores(l) = <<save, store>>
    <3>1. k # 0
      BY <1>2 DEF StateOf
    <3> QED  BY <3>1 DEF Stores
  <2> HIDE DEF save, store
  <2>5. <<save, store>> \in Seq(OutputLines) /\ Len(<<save, store>>) = 2
    BY <2>3
  <2>6. Stores(l)[1] = save /\ Stores(l)[2] = store
    BY <2>4
  <2> QED  BY <1>2, <2>4, <2>5, <2>6 DEF save, store
<1> QED  BY <1>1, <1>2

\* The call of dtt_init, or nothing.
LEMMA CallShape ==
  /\ CallOf \in Seq(OutputLines)
  /\ in_main /\ ~dtt_initialized =>
       Len(CallOf) = 1 /\ CallOf[1] = Generate("init", None, None, None)
  /\ ~(in_main /\ ~dtt_initialized) => Len(CallOf) = 0
<1> DEFINE call == Generate("init", None, None, None)
<1>1. call \in OutputLines
  BY DEF OutputLines, Generate
<1> HIDE DEF call
<1>2. CASE in_main /\ ~dtt_initialized
  <2>1. CallOf = <<call>>
    BY <1>2 DEF CallOf, call
  <2>2. <<call>> \in Seq(OutputLines) /\ Len(<<call>>) = 1 /\ <<call>>[1] = call
    BY <1>1
  <2> QED  BY <1>2, <2>1, <2>2 DEF call
<1>3. CASE ~(in_main /\ ~dtt_initialized)
  <2>1. CallOf = <<>>
    BY <1>3 DEF CallOf
  <2> QED  BY <1>3, <2>1, EmptySeq
<1> QED  BY <1>2, <1>3

\* The lines of an assignment, by their place.
LEMMA AssignmentShape ==
  ASSUME TypeOK, Linked, phase = "code", NEW l \in Lines, StateFound(l)
  PROVE  LET lines == AssignmentLines(l)
             c == Len(CallOf)
             s == Len(Stores(l))
         IN  /\ lines \in Seq(OutputLines)
             /\ c \in {0, 1} /\ s \in {0, 2}
             /\ Len(lines) = c + s + 1 /\ DOMAIN lines = 1 .. c + s + 1
             /\ c = 1 => lines[1] = CallOf[1]
             /\ s = 2 => lines[c + 1] = Stores(l)[1] /\ lines[c + 2] = Stores(l)[2]
             /\ lines[c + s + 1] = Copy(pos + 1)
<1> DEFINE c == Len(CallOf)
           s == Len(Stores(l))
           head == CallOf \o Stores(l)
           copy == <<Copy(pos + 1)>>
           lines == AssignmentLines(l)
<1>1. CallOf \in Seq(OutputLines) /\ Stores(l) \in Seq(OutputLines)
  BY CallShape, StoresShape
<1>2. c \in {0, 1} /\ s \in {0, 2}
  BY CallShape, StoresShape
<1>3. /\ head \in Seq(OutputLines) /\ Len(head) = c + s
      /\ \A i \in 1 .. c + s : head[i] = IF i <= c THEN CallOf[i] ELSE Stores(l)[i - c]
  BY <1>1, ConcatProperties
<1>4. Copy(pos + 1) \in OutputLines
  <2>1. pos + 1 \in Nat
    BY DEF TypeOK
  <2> QED  BY <2>1, WrittenLines
<1>5. copy \in Seq(OutputLines) /\ Len(copy) = 1 /\ copy[1] = Copy(pos + 1)
  BY <1>4
<1>6. lines = head \o copy
  BY DEF AssignmentLines
<1> HIDE DEF head, copy, lines
<1>7. /\ lines \in Seq(OutputLines) /\ Len(lines) = Len(head) + Len(copy)
      /\ \A i \in 1 .. Len(head) + Len(copy) :
           lines[i] = IF i <= Len(head) THEN head[i] ELSE copy[i - Len(head)]
  <2>1. head \in Seq(OutputLines) /\ copy \in Seq(OutputLines)
    BY <1>3, <1>5
  <2>2. /\ head \o copy \in Seq(OutputLines) /\ Len(head \o copy) = Len(head) + Len(copy)
        /\ \A i \in 1 .. Len(head) + Len(copy) :
             (head \o copy)[i] = IF i <= Len(head) THEN head[i] ELSE copy[i - Len(head)]
    BY <2>1, ConcatProperties
  <2> QED  BY <2>2, <1>6
<1>8. DOMAIN lines = 1 .. Len(lines)
  BY <1>7, LenProperties
<1> HIDE DEF c, s
<1>9. Len(lines) = c + s + 1 /\ lines[c + s + 1] = Copy(pos + 1)
  BY <1>2, <1>3, <1>5, <1>7
<1>10. c = 1 => lines[1] = CallOf[1]
  BY <1>2, <1>3, <1>5, <1>7
<1>11. s = 2 => lines[c + 1] = Stores(l)[1] /\ lines[c + 2] = Stores(l)[2]
  BY <1>2, <1>3, <1>5, <1>7
<1> QED  BY <1>2, <1>7, <1>8, <1>9, <1>10, <1>11 DEF c, s, lines

\* What is written for an #include: the line, and behind the first one the
\* header and the states.
StateLines == [k \in DOMAIN blocks |-> Generate("state", None, None, blocks[k])]

\* The first #include has the header and the states behind it.
IncludeLines ==
  IF variable_declared THEN <<Copy(pos + 1)>>
  ELSE <<Copy(pos + 1), Generate("header", None, None, None)>> \o StateLines

\* The lines of an #include, by their place.
LEMMA IncludeShape ==
  ASSUME TypeOK
  PROVE  /\ IncludeLines \in Seq(OutputLines)
         /\ 1 \in DOMAIN IncludeLines /\ IncludeLines[1] = Copy(pos + 1)
         /\ \A n \in DOMAIN IncludeLines : n # 1 => IncludeLines[n].op \in {"header", "state"}
         /\ ~variable_declared =>
              \A i \in DOMAIN blocks :
                /\ i + 2 \in DOMAIN IncludeLines
                /\ IncludeLines[i + 2].op = "state" /\ IncludeLines[i + 2].region = blocks[i]
<1> DEFINE header == Generate("header", None, None, None)
<1>1. Copy(pos + 1) \in OutputLines /\ header \in OutputLines
  <2>1. pos + 1 \in Nat
    BY DEF TypeOK
  <2>2. header \in OutputLines
    BY DEF OutputLines, Generate
  <2> QED  BY <2>1, <2>2, WrittenLines
<1>2. CASE variable_declared
  <2>1. IncludeLines = <<Copy(pos + 1)>>
    BY <1>2 DEF IncludeLines
  <2>2. /\ <<Copy(pos + 1)>> \in Seq(OutputLines) /\ DOMAIN <<Copy(pos + 1)>> = {1}
        /\ <<Copy(pos + 1)>>[1] = Copy(pos + 1)
    BY <1>1
  <2> QED  BY <1>2, <2>1, <2>2
<1>3. CASE ~variable_declared
  <2> DEFINE top == <<Copy(pos + 1), header>>
  <2>1. IncludeLines = top \o StateLines
    BY <1>3 DEF IncludeLines
  <2>2. /\ top \in Seq(OutputLines) /\ Len(top) = 2
        /\ top[1] = Copy(pos + 1) /\ top[2] = header
    BY <1>1
  <2>3. /\ Len(blocks) \in Nat /\ DOMAIN blocks = 1 .. Len(blocks)
        /\ \A i \in 1 .. Len(blocks) : blocks[i] \in Regions
    BY TableShape
  <2>4. \A i \in 1 .. Len(blocks) : Generate("state", None, None, blocks[i]) \in OutputLines
    BY <2>3, WrittenLines
  <2>5. /\ StateLines \in Seq(OutputLines) /\ Len(StateLines) = Len(blocks)
        /\ \A i \in 1 .. Len(blocks) : StateLines[i] = Generate("state", None, None, blocks[i])
    <3>1. StateLines \in [1 .. Len(blocks) -> OutputLines]
      BY <2>3, <2>4 DEF StateLines
    <3>2. StateLines \in Seq(OutputLines)
      BY <2>3, <3>1, SeqDef
    <3>3. DOMAIN StateLines = 1 .. Len(blocks)
      BY <3>1
    <3>4. Len(StateLines) = Len(blocks)
      BY <2>3, <3>2, <3>3, LenProperties
    <3> QED  BY <2>3, <3>2, <3>4 DEF StateLines
  <2> HIDE DEF top
  <2>6. /\ IncludeLines \in Seq(OutputLines) /\ Len(IncludeLines) = 2 + Len(blocks)
        /\ \A i \in 1 .. 2 + Len(blocks) :
             IncludeLines[i] = IF i <= 2 THEN top[i] ELSE StateLines[i - 2]
    <3>1. top \in Seq(OutputLines) /\ StateLines \in Seq(OutputLines)
      BY <2>2, <2>5
    <3>2. /\ top \o StateLines \in Seq(OutputLines)
          /\ Len(top \o StateLines) = Len(top) + Len(StateLines)
          /\ \A i \in 1 .. Len(top) + Len(StateLines) :
               (top \o StateLines)[i] = IF i <= Len(top) THEN top[i] ELSE StateLines[i - Len(top)]
      BY <3>1, ConcatProperties
    <3> QED  BY <2>1, <2>2, <2>5, <3>2
  <2>7. DOMAIN IncludeLines = 1 .. 2 + Len(blocks)
    BY <2>6, LenProperties
  <2>8. 1 \in DOMAIN IncludeLines /\ IncludeLines[1] = Copy(pos + 1)
    BY <2>2, <2>3, <2>6, <2>7
  <2>9. ASSUME NEW n \in DOMAIN IncludeLines, n # 1
        PROVE  IncludeLines[n].op \in {"header", "state"}
    <3>1. CASE n = 2
      BY <2>2, <2>3, <2>6, <2>7, <3>1 DEF Generate
    <3>2. CASE n # 2
      <4>1. n - 2 \in 1 .. Len(blocks) /\ ~(n <= 2)
        BY <2>3, <2>7, <2>9, <3>2
      <4>2. IncludeLines[n] = Generate("state", None, None, blocks[n - 2])
        BY <2>5, <2>6, <2>7, <4>1
      <4> QED  BY <4>2 DEF Generate
    <3> QED  BY <3>1, <3>2
  <2>10. ASSUME NEW i \in DOMAIN blocks
         PROVE  /\ i + 2 \in DOMAIN IncludeLines
                /\ IncludeLines[i + 2].op = "state" /\ IncludeLines[i + 2].region = blocks[i]
    <3>1. i + 2 \in 1 .. 2 + Len(blocks) /\ ~(i + 2 <= 2) /\ (i + 2) - 2 = i /\ i \in 1 .. Len(blocks)
      BY <2>3
    <3>2. IncludeLines[i + 2] = Generate("state", None, None, blocks[i])
      BY <2>5, <2>6, <3>1
    <3> QED  BY <2>7, <3>1, <3>2 DEF Generate
  <2> QED  BY <1>3, <2>6, <2>8, <2>9, <2>10
<1> QED  BY <1>2, <1>3

\* The comment flag stays a flag.
LEMMA InsideIsBoolean ==
  ASSUME TypeOK, NEW l
  PROVE  InsideAfter(l) \in BOOLEAN
BY DEF TypeOK, InsideAfter

\* Types of what the steps of the first pass and the linking leave alone.
LEMMA TypeFirst ==
  TypeOK <=>
    /\ phase \in {"tables", "link", "code", "done"}
    /\ source \in Seq(Seq(Lines))
    /\ triggers \in Seq([name : Texts, support_thread : Functions, state_variable : Nat])
    /\ blocks \in Seq(Regions)
    /\ threads \in Seq([name : Functions, skippable_region : Regions])
    /\ skippable_region \in Regions \cup {None}
    /\ file \in 0 .. Len(source) /\ pos \in Nat
    /\ parse_next_line \in BOOLEAN /\ inside_comment \in BOOLEAN /\ in_main \in BOOLEAN
    /\ dtt_initialized \in BOOLEAN /\ variable_declared \in BOOLEAN /\ crashed \in BOOLEAN
    /\ output \in Seq(Seq(OutputLines))
BY DEF TypeOK, OutputLines

\* A sequence with one more element.
LEMMA Appended ==
  ASSUME NEW S, NEW s \in Seq(S), NEW e \in S
  PROVE  Append(s, e) \in Seq(S)
OBVIOUS

\* A line of the first pass keeps the types: the region of an entry is that of
\* the #DTT line that waits for it.
LEMMA TypeReading ==
  ASSUME TypeOK, Pending, ~crashed, NEW l \in Lines, CreateTables(l)
  PROVE  TypeOK'
<1>1. PICK seen : ReadLine(l, seen)
  BY ReadingCases
<1>2. source' \in Seq(Seq(Lines)) /\ Len(source') = Len(source)
  BY <1>1, ReadALine DEF ReadLine
<1>3. /\ phase' = phase /\ file' = file /\ pos' = pos /\ output' = output
      /\ in_main' = in_main /\ dtt_initialized' = dtt_initialized
      /\ variable_declared' = variable_declared /\ inside_comment' \in BOOLEAN
  BY <1>1, InsideIsBoolean DEF ReadLine, writer
<1>4. /\ triggers' \in Seq([name : Texts, support_thread : Functions, state_variable : Nat])
      /\ blocks' \in Seq(Regions)
      /\ threads' \in Seq([name : Functions, skippable_region : Regions])
      /\ skippable_region' \in Regions \cup {None}
      /\ parse_next_line' \in BOOLEAN /\ crashed' \in BOOLEAN
  <2>0. CASE CrashReading(l)
    BY <2>0, TypeFirst DEF CrashReading, tables
  <2>1. CASE SkipLine(l)
    BY <2>1, TypeFirst DEF SkipLine, tables
  <2>2. CASE ~FollowsNull(l) /\ AddTrigger(l)
    <3>1. [name |-> l.first, support_thread |-> l.function, state_variable |-> 0]
            \in [name : Texts, support_thread : Functions, state_variable : Nat]
      BY <2>2, NamesFound
    <3>2. triggers' \in Seq([name : Texts, support_thread : Functions, state_variable : Nat])
      BY <2>2, <3>1, TypeFirst, Appended DEF AddTrigger
    <3> QED  BY <2>2, <3>2, TypeFirst DEF AddTrigger
  <2>3. CASE ~FollowsNull(l) /\ AddBlock(l)
    <3>1. l.first \in Regions
      BY <2>3, NamesFound
    <3>2. Append(blocks, l.first) \in Seq(Regions)
      BY <3>1, TypeFirst, Appended
    <3> QED  BY <2>3, <3>2, TypeFirst DEF AddBlock
  <2>4. CASE ~FollowsNull(l) /\ ReadDTT(l)
    <3>1. l.first \in Regions
      BY <2>4, NamesFound
    <3> QED  BY <2>4, <3>1, TypeFirst DEF ReadDTT
  <2>5. CASE ~FollowsNull(l) /\ AddThread(l)
    <3>1. l.function \in Functions
      BY <2>5, NamesFound
    <3>2. skippable_region \in Regions
      <4>1. parse_next_line
        BY <2>5 DEF AddThread
      <4> QED  BY <4>1 DEF Pending
    <3>3. [name |-> l.function, skippable_region |-> skippable_region]
            \in [name : Functions, skippable_region : Regions]
      BY <3>1, <3>2
    <3>4. threads' \in Seq([name : Functions, skippable_region : Regions])
      <4>1. threads \in Seq([name : Functions, skippable_region : Regions])
        BY TypeFirst
      <4>2. Append(threads, [name |-> l.function, skippable_region |-> skippable_region])
              \in Seq([name : Functions, skippable_region : Regions])
        BY <3>3, <4>1, Appended
      <4> QED  BY <2>5, <4>2 DEF AddThread
    <3> QED  BY <2>5, <3>4, TypeFirst DEF AddThread
  <2>6. CASE OtherLine(l)
    BY <2>6, TypeFirst DEF OtherLine, tables
  <2> QED  BY <2>0, <2>1, <2>2, <2>3, <2>4, <2>5, <2>6, ReadingCases
<1>5. file' \in 0 .. Len(source')
  BY <1>2, <1>3, TypeFirst
<1>6. output' \in Seq(Seq(OutputLines))
  BY <1>3, TypeFirst
<1> QED  BY <1>2, <1>3, <1>4, <1>5, <1>6, TypeFirst DEF TypeOK, OutputLines

\* What a line that is left is translated into has one copy of it.
OneCopy(left, lines) ==
  /\ left = FALSE => lines = <<>>
  /\ left = TRUE => \E c \in DOMAIN lines :
       lines[c] = Copy(pos + 1) /\ \A n \in DOMAIN lines : n # c => lines[n].op # "copy"

\* A generated line and the copy under it,
LEMMA TwoLines ==
  ASSUME TypeOK, NEW top \in OutputLines, top.op # "copy",
         NEW lines, lines = <<top, Copy(pos + 1)>>
  PROVE  /\ lines \in Seq(OutputLines) /\ DOMAIN lines = 1 .. 2
         /\ lines[1] = top /\ lines[2] = Copy(pos + 1)
         /\ OneCopy(TRUE, lines)
<1>1. Copy(pos + 1) \in OutputLines
  <2>1. pos + 1 \in Nat
    BY DEF TypeOK
  <2> QED  BY <2>1, WrittenLines
<1>2. lines \in Seq(OutputLines) /\ Len(lines) = 2 /\ lines[1] = top /\ lines[2] = Copy(pos + 1)
  BY <1>1
<1>3. DOMAIN lines = 1 .. 2
  BY <1>2, LenProperties
<1>4. OneCopy(TRUE, lines)
  BY <1>2, <1>3 DEF OneCopy
<1> QED  BY <1>2, <1>3, <1>4

\* the copy alone,
LEMMA OneLine ==
  ASSUME TypeOK
  PROVE  /\ <<Copy(pos + 1)>> \in Seq(OutputLines)
         /\ DOMAIN <<Copy(pos + 1)>> = 1 .. 1 /\ <<Copy(pos + 1)>>[1] = Copy(pos + 1)
         /\ OneCopy(TRUE, <<Copy(pos + 1)>>)
<1> DEFINE lines == <<Copy(pos + 1)>>
<1>1. Copy(pos + 1) \in OutputLines
  <2>1. pos + 1 \in Nat
    BY DEF TypeOK
  <2> QED  BY <2>1, WrittenLines
<1>2. lines \in Seq(OutputLines) /\ Len(lines) = 1 /\ lines[1] = Copy(pos + 1)
  BY <1>1
<1>3. DOMAIN lines = 1 .. 1
  BY <1>2, LenProperties
<1>4. OneCopy(TRUE, lines)
  BY <1>2, <1>3 DEF OneCopy
<1> QED  BY <1>2, <1>3, <1>4

\* and nothing.
LEMMA NoLines ==
  <<>> \in Seq(OutputLines) /\ DOMAIN <<>> = {} /\ OneCopy(FALSE, <<>>)
<1>1. <<>> \in Seq(OutputLines) /\ Len(<<>>) = 0
  BY EmptySeq
<1>2. DOMAIN <<>> = 1 .. 0
  BY <1>1, LenProperties
<1> QED  BY <1>1, <1>2 DEF OneCopy

\* The lines of an assignment end in its copy,
LEMMA AssignmentCopy ==
  ASSUME TypeOK, Linked, phase = "code", NEW l \in Lines, StateFound(l)
  PROVE  OneCopy(TRUE, AssignmentLines(l))
<1> DEFINE c == Len(CallOf)
           s == Len(Stores(l))
           lines == AssignmentLines(l)
<1>1. /\ c \in {0, 1} /\ s \in {0, 2} /\ DOMAIN lines = 1 .. c + s + 1
      /\ c = 1 => lines[1] = CallOf[1]
      /\ s = 2 => lines[c + 1] = Stores(l)[1] /\ lines[c + 2] = Stores(l)[2]
      /\ lines[c + s + 1] = Copy(pos + 1)
  BY AssignmentShape
<1>2. c = 1 => CallOf[1].op = "init"
  BY CallShape DEF Generate
<1>3. s = 2 => Stores(l)[1].op = "save" /\ Stores(l)[2].op = "tstore"
  <2>1. s = 2 => StateOf(l.second) # 0
    BY StoresShape
  <2>2. StateOf(l.second) # 0 => Stores(l)[1] = Generate("save", l.second, None, None)
    BY StoresShape
  <2>3. StateOf(l.second) # 0 =>
          Stores(l)[2] = Generate("tstore", l.second,
                                  triggers[Lookup(triggers, l.second)].support_thread,
                                  threads[StateOf(l.second)].skippable_region)
    BY StoresShape
  <2>4. \A name, function, region : /\ Generate("save", name, function, region).op = "save"
                                   /\ Generate("tstore", name, function, region).op = "tstore"
    BY DEF Generate
  <2> QED  BY <2>1, <2>2, <2>3, <2>4
<1> HIDE DEF c, s, lines
<1>4. ASSUME NEW n \in DOMAIN lines, n # c + s + 1
      PROVE  lines[n].op # "copy"
  <2>1. CASE c = 1 /\ n = 1
    BY <1>1, <1>2, <2>1
  <2>2. CASE s = 2 /\ n = c + 1
    BY <1>1, <1>3, <2>2
  <2>3. CASE s = 2 /\ n = c + 2
    BY <1>1, <1>3, <2>3
  <2> QED  BY <1>1, <1>4, <2>1, <2>2, <2>3
<1>5. c + s + 1 \in DOMAIN lines
  BY <1>1
<1>6. OneCopy(TRUE, lines)
  BY <1>1, <1>4, <1>5 DEF OneCopy
<1> QED  BY <1>6 DEF lines

\* those of an #include begin with it.
LEMMA IncludeCopy ==
  ASSUME TypeOK
  PROVE  OneCopy(TRUE, IncludeLines)
BY IncludeShape DEF OneCopy

\* The first assignment of main that is left.
Starts(l, left) == left /\ l.kind = "assign" /\ in_main /\ ~dtt_initialized

\* The tstore of an assignment to a trigger.
StoreOf(l) ==
  Generate("tstore", l.second, triggers[Lookup(triggers, l.second)].support_thread,
           threads[StateOf(l.second)].skippable_region)

\* What a step of preprocess writes for a line, and what it does to the flags.
Effect(l, left, lines) ==
  /\ OneCopy(left, lines)
  /\ \A n \in DOMAIN lines :
       /\ n \in Nat /\ n > 0
       /\ lines[n].op = "init" => Starts(l, left) /\ n = 1
       /\ lines[n].op = "test" => l.kind = "block"
       /\ lines[n].op = "tstore" =>
            /\ l.kind = "assign" /\ StateOf(l.second) # 0 /\ lines[n] = StoreOf(l)
            /\ n + 1 \in DOMAIN lines /\ lines[n + 1] = Copy(pos + 1)
       /\ lines[n].op = "copy" /\ l.kind = "assign" /\ StateOf(l.second) # 0 =>
            /\ n - 1 \in DOMAIN lines /\ lines[n - 1].op = "tstore"
            /\ n - 2 \in DOMAIN lines /\ lines[n - 2].op = "save"
  /\ Starts(l, left) => 1 \in DOMAIN lines /\ lines[1].op = "init"
  /\ left /\ l.kind = "include" /\ ~variable_declared =>
       \A i \in DOMAIN blocks : \E n \in DOMAIN lines :
         lines[n].op = "state" /\ lines[n].region = blocks[i]
  /\ dtt_initialized' <=> (dtt_initialized \/ Starts(l, left))
  /\ in_main' <=> \/ in_main /\ ~Starts(l, left)
                  \/ left /\ l.kind = "main" /\ ~dtt_initialized
  /\ variable_declared' <=> (variable_declared \/ (left /\ l.kind = "include"))
  /\ crashed' = crashed
  /\ left /\ l.kind = "assign" => StateFound(l)

\* The effect of a line that starts, stores and declares nothing.
LEMMA PlainEffect ==
  ASSUME NEW l, l.kind \notin {"assign", "include"}, NEW lines, OneCopy(TRUE, lines),
         NEW d, d \in Nat, DOMAIN lines = 1 .. d,
         \A n \in 1 .. d : lines[n].op \in {"copy", "old", "test", "end"},
         \A n \in 1 .. d : lines[n].op = "test" => l.kind = "block",
         dtt_initialized' = dtt_initialized, variable_declared' = variable_declared,
         crashed' = crashed,
         in_main' <=> (in_main \/ (l.kind = "main" /\ ~dtt_initialized))
  PROVE  Effect(l, TRUE, lines)
<1>1. ~Starts(l, TRUE)
  BY DEF Starts
<1>2. \A n \in DOMAIN lines :
        /\ n \in Nat /\ n > 0
        /\ lines[n].op # "init" /\ lines[n].op # "tstore"
        /\ lines[n].op = "test" => l.kind = "block"
  OBVIOUS
<1> QED  BY <1>1, <1>2 DEF Effect

\* Every line of preprocess has its effect, case by case.
LEMMA Effects ==
  ASSUME TypeOK, Linked, phase = "code", NEW l \in Lines, ~FollowsNullInCode(l), NextLine(l)
  PROVE  \E left \in BOOLEAN, lines \in Seq(OutputLines) :
           Translate(l, left, lines) /\ Effect(l, left, lines)
<1>0. \A k : Copy(k).op = "copy"
  BY DEF Copy
<1>00. \A op, name, function, region : Generate(op, name, function, region).op = op
  BY DEF Generate
<1>1. CASE EraseLine(l)
  BY <1>1, NoLines DEF EraseLine, Effect, Starts
<1>2. CASE TranslateTrigger(l)
  <2>1. l.kind = "trigger"
    BY <1>2 DEF TranslateTrigger
  <2> PICK top : top = Generate("old", None, None, None)
    OBVIOUS
  <2> PICK lines : lines = <<top, Copy(pos + 1)>>
    OBVIOUS
  <2>2. Translate(l, TRUE, lines)
    BY <1>2 DEF TranslateTrigger
  <2>3. top \in OutputLines /\ top.op = "old"
    BY <1>00, WrittenLines
  <2>4. \A n \in 1 .. 2 : lines[n].op \in {"copy", "old"}
    <3>1. \A n \in 1 .. 2 : n = 1 \/ n = 2
      OBVIOUS
    <3> QED  BY <1>0, <2>3, <3>1, TwoLines
  <2>5. /\ dtt_initialized' = dtt_initialized /\ variable_declared' = variable_declared
        /\ crashed' = crashed /\ in_main' = in_main
    BY <1>2 DEF TranslateTrigger
  <2>6. lines \in Seq(OutputLines) /\ OneCopy(TRUE, lines) /\ DOMAIN lines = 1 .. 2
    BY <2>3, TwoLines
  <2>7. Effect(l, TRUE, lines)
    BY <2>1, <2>4, <2>5, <2>6, PlainEffect
  <2> QED  BY <2>2, <2>6, <2>7
<1>3. CASE TranslateBlock(l)
  <2>1. PICK op, region : \/ op = "test" /\ region = l.second /\ l.kind = "block"
                          \/ op = "end" /\ region = None /\ l.kind = "end_block"
    BY <1>3 DEF TranslateBlock
  <2> PICK top : top = Generate(op, None, None, region)
    OBVIOUS
  <2> PICK lines : lines = <<top, Copy(pos + 1)>>
    OBVIOUS
  <2>2. Translate(l, TRUE, lines)
    <3>1. CASE l.kind = "block"
      BY <1>3, <2>1, <3>1 DEF TranslateBlock
    <3>2. CASE l.kind # "block"
      BY <1>3, <2>1, <3>2 DEF TranslateBlock
    <3> QED  BY <3>1, <3>2
  <2>3. top \in OutputLines /\ top.op = op
    <3>1. region \in Regions \cup {None} /\ op \in {"test", "end"}
      BY <2>1, LineFacts
    <3> QED  BY <1>00, <3>1, WrittenLines
  <2>4. /\ \A n \in 1 .. 2 : lines[n].op \in {"copy", "test", "end"}
        /\ \A n \in 1 .. 2 : lines[n].op = "test" => l.kind = "block"
    <3>1. \A n \in 1 .. 2 : n = 1 \/ n = 2
      OBVIOUS
    <3> QED  BY <1>0, <2>1, <2>3, <3>1, TwoLines
  <2>5. /\ dtt_initialized' = dtt_initialized /\ variable_declared' = variable_declared
        /\ crashed' = crashed /\ in_main' = in_main
    BY <1>3 DEF TranslateBlock
  <2>6. lines \in Seq(OutputLines) /\ OneCopy(TRUE, lines) /\ DOMAIN lines = 1 .. 2
    <3>1. top.op # "copy"
      BY <2>1, <2>3
    <3> QED  BY <2>3, <3>1, TwoLines
  <2>7. Effect(l, TRUE, lines)
    BY <2>1, <2>4, <2>5, <2>6, PlainEffect
  <2> QED  BY <2>2, <2>6, <2>7
<1>4. CASE TranslateAssignment(l)
  <2> DEFINE lines == AssignmentLines(l)
             c == Len(CallOf)
             s == Len(Stores(l))
             first == in_main /\ ~dtt_initialized
  <2>0. StateFound(l)
    <3>1. ~InsideAfter(l) /\ l.kind = "assign"
      BY <1>4 DEF TranslateAssignment, Translate
    <3>2. Lookup(triggers, l.second) # 0 => triggers # <<>>
      BY DEF Lookup
    <3> QED  BY <3>1, <3>2 DEF FollowsNullInCode, StateFound
  <2>1. l.kind = "assign" /\ Translate(l, TRUE, lines)
    BY <1>4 DEF TranslateAssignment, AssignmentLines, CallOf
  <2>2. /\ lines \in Seq(OutputLines) /\ c \in {0, 1} /\ s \in {0, 2}
        /\ DOMAIN lines = 1 .. c + s + 1
        /\ c = 1 => lines[1] = CallOf[1]
        /\ s = 2 => lines[c + 1] = Stores(l)[1] /\ lines[c + 2] = Stores(l)[2]
        /\ lines[c + s + 1] = Copy(pos + 1)
    BY <2>0, AssignmentShape
  <2>3. /\ first => c = 1 /\ CallOf[1] = Generate("init", None, None, None)
        /\ ~first => c = 0
    BY CallShape
  <2>4. /\ StateOf(l.second) = 0 => s = 0
        /\ StateOf(l.second) # 0 => s = 2
        /\ StateOf(l.second) # 0 => Stores(l)[1] = Generate("save", l.second, None, None)
        /\ StateOf(l.second) # 0 => Stores(l)[2] = StoreOf(l)
    <3>1. StateOf(l.second) = 0 => s = 0
      BY <2>0, StoresShape
    <3>2. StateOf(l.second) # 0 => s = 2
      BY <2>0, StoresShape
    <3>3. StateOf(l.second) # 0 => Stores(l)[1] = Generate("save", l.second, None, None)
      BY <2>0, StoresShape
    <3>4. StateOf(l.second) # 0 => Stores(l)[2] = StoreOf(l)
      BY <2>0, StoresShape DEF StoreOf
    <3> QED  BY <3>1, <3>2, <3>3, <3>4
  <2>5. OneCopy(TRUE, lines)
    BY <2>0, AssignmentCopy
  <2>6. StoreOf(l).op = "tstore"
    BY <1>00 DEF StoreOf
  <2>7. Starts(l, TRUE) <=> first
    BY <2>1 DEF Starts
  <2>8. /\ in_main' <=> (in_main /\ ~first)
        /\ dtt_initialized' <=> (dtt_initialized \/ first)
        /\ variable_declared' = variable_declared
        /\ crashed' = crashed
    BY <1>4, TypeFirst DEF TranslateAssignment
  <2> HIDE DEF lines, c, s, first
  <2>9. ASSUME NEW n \in DOMAIN lines
        PROVE  \/ n = 1 /\ first /\ lines[n].op = "init"
               \/ /\ n = c + 1 /\ StateOf(l.second) # 0 /\ lines[n].op = "save"
               \/ /\ n = c + 2 /\ StateOf(l.second) # 0 /\ lines[n] = StoreOf(l) /\ lines[n].op = "tstore"
                  /\ n + 1 \in DOMAIN lines /\ lines[n + 1] = Copy(pos + 1)
               \/ /\ n = c + s + 1 /\ lines[n].op = "copy"
                  /\ StateOf(l.second) # 0 =>
                       /\ n - 1 \in DOMAIN lines /\ lines[n - 1].op = "tstore"
                       /\ n - 2 \in DOMAIN lines /\ lines[n - 2].op = "save"
    <3>1. CASE n = 1 /\ c = 1
      BY <1>00, <2>2, <2>3, <3>1
    <3>2. CASE n = c + 1 /\ s = 2
      BY <1>00, <2>2, <2>4, <3>2
    <3>3. CASE n = c + 2 /\ s = 2
      BY <2>2, <2>4, <2>6, <3>3
    <3>4. CASE n = c + s + 1
      <4>1. lines[n].op = "copy"
        BY <1>0, <2>2, <3>4
      <4>2. CASE StateOf(l.second) = 0
        BY <3>4, <4>1, <4>2
      <4>3. CASE StateOf(l.second) # 0
        <5>1. n = c + 3 /\ n - 1 = c + 2 /\ n - 2 = c + 1 /\ s = 2
          BY <2>2, <2>4, <3>4, <4>3
        <5>2. c + 2 \in DOMAIN lines /\ c + 1 \in DOMAIN lines
          BY <2>2, <5>1
        <5>3. lines[c + 2].op = "tstore" /\ lines[c + 1].op = "save"
          BY <1>00, <2>2, <2>4, <2>6, <4>3, <5>1
        <5> QED  BY <3>4, <4>1, <5>1, <5>2, <5>3
      <4> QED  BY <4>2, <4>3
    <3> QED  BY <2>2, <3>1, <3>2, <3>3, <3>4
  <2>10. \A n \in DOMAIN lines : n \in Nat /\ n > 0
    BY <2>2
  <2>11. first => 1 \in DOMAIN lines /\ lines[1].op = "init"
    BY <1>00, <2>2, <2>3
  <2>12. Effect(l, TRUE, lines)
    BY <2>0, <2>1, <2>5, <2>7, <2>8, <2>9, <2>10, <2>11 DEF Effect
  <2> QED  BY <2>1, <2>2, <2>12
<1>5. CASE TranslateInclude(l)
  <2> DEFINE lines == IncludeLines
  <2>1. Translate(l, TRUE, lines) /\ l.kind = "include"
    BY <1>5 DEF TranslateInclude, IncludeLines, StateLines
  <2>2. /\ lines \in Seq(OutputLines)
        /\ 1 \in DOMAIN lines /\ lines[1] = Copy(pos + 1)
        /\ \A n \in DOMAIN lines : n # 1 => lines[n].op \in {"header", "state"}
        /\ ~variable_declared =>
             \A i \in DOMAIN blocks :
               /\ i + 2 \in DOMAIN lines
               /\ lines[i + 2].op = "state" /\ lines[i + 2].region = blocks[i]
    BY IncludeShape
  <2>3. OneCopy(TRUE, lines)
    BY IncludeCopy
  <2>4. DOMAIN lines = 1 .. Len(lines) /\ Len(lines) \in Nat
    BY <2>2, LenProperties
  <2> HIDE DEF lines
  <2>5. \A n \in DOMAIN lines : /\ n \in Nat /\ n > 0
                                /\ lines[n].op \in {"copy", "header", "state"}
    BY <1>0, <2>2, <2>4
  <2>6. Effect(l, TRUE, lines)
    BY <1>5, <2>1, <2>2, <2>3, <2>5, TypeFirst DEF TranslateInclude, Effect, Starts
  <2> QED  BY <2>1, <2>2, <2>6
<1>6. CASE CopyLine(l)
  <2> DEFINE lines == <<Copy(pos + 1)>>
  <2>1. Translate(l, TRUE, lines) /\ l.kind \in {"DTT", "main", "plain", "blank"}
    BY <1>6 DEF CopyLine
  <2>2. /\ lines \in Seq(OutputLines) /\ OneCopy(TRUE, lines) /\ DOMAIN lines = 1 .. 1
        /\ lines[1] = Copy(pos + 1)
    BY OneLine
  <2> HIDE DEF lines
  <2>3. Effect(l, TRUE, lines)
    <3>1. \A n \in 1 .. 1 : lines[n].op = "copy"
      BY <1>0, <2>2
    <3>2. /\ dtt_initialized' = dtt_initialized /\ variable_declared' = variable_declared
          /\ crashed' = crashed
          /\ in_main' <=> (in_main \/ (l.kind = "main" /\ ~dtt_initialized))
      BY <1>6, TypeFirst DEF CopyLine
    <3> QED  BY <2>1, <2>2, <3>1, <3>2, PlainEffect
  <2> QED  BY <2>1, <2>2, <2>3
<1> QED  BY <1>1, <1>2, <1>3, <1>4, <1>5, <1>6 DEF NextLine

\* Preprocess translates the next line, or crashes on it.
LEMMA PreprocessCases ==
  ASSUME TypeOK, Cursor, Preprocess, NEW l, l = source[file][pos + 1]
  PROVE  /\ phase = "code" /\ ~AtEnd /\ l \in Lines
         /\ \/ FollowsNullInCode(l) /\ CrashWriting
            \/ ~FollowsNullInCode(l) /\ NextLine(l)
BY LineRead DEF Preprocess

\* A line of preprocess keeps the types,
LEMMA TypeWriting ==
  ASSUME TypeOK, Cursor, Linked, Preprocess, ~CrashWriting
  PROVE  TypeOK'
<1> PICK l : l = source[file][pos + 1]
  OBVIOUS
<1>1. phase = "code" /\ ~AtEnd /\ ~FollowsNullInCode(l) /\ NextLine(l) /\ l \in Lines
  BY PreprocessCases
<1>2. PICK left \in BOOLEAN, lines \in Seq(OutputLines) : Translate(l, left, lines)
  BY <1>1, Effects
<1>3. output' \in Seq(Seq(OutputLines))
  BY <1>1, <1>2, Written
<1>4. /\ source' = source /\ phase' = phase /\ triggers' = triggers /\ blocks' = blocks
      /\ threads' = threads /\ skippable_region' = skippable_region
      /\ parse_next_line' = parse_next_line /\ file' = file
      /\ pos' \in Nat /\ inside_comment' \in BOOLEAN
  BY <1>2, InsideIsBoolean DEF Translate, tables, TypeOK
<1>5. /\ in_main' \in BOOLEAN /\ dtt_initialized' \in BOOLEAN
      /\ variable_declared' \in BOOLEAN /\ crashed' \in BOOLEAN
  BY <1>1, TypeFirst DEF NextLine, EraseLine, TranslateTrigger, TranslateBlock,
     TranslateAssignment, TranslateInclude, CopyLine
<1> QED  BY <1>3, <1>4, <1>5, TypeFirst DEF TypeOK, OutputLines

\* and so does every step.
LEMMA TypeNext ==
  ASSUME TypeOK, Cursor, Linked, Pending, [Next]_vars
  PROVE  TypeOK'
<1>1. CASE OpenFile
  <2>1. source' \in Seq(Seq(Lines)) /\ Len(source') = Len(source) + 1 /\ Len(source) \in Nat
    BY <1>1, OpenedFile, Shape DEF OpenFile
  <2>2. file' \in 0 .. Len(source')
    BY <1>1, <2>1 DEF OpenFile, writer, TypeOK
  <2>3. output' \in Seq(Seq(OutputLines)) /\ pos' \in Nat
    BY <1>1, TypeFirst DEF OpenFile, writer
  <2>4. /\ in_main' \in BOOLEAN /\ dtt_initialized' \in BOOLEAN
        /\ variable_declared' \in BOOLEAN /\ crashed' \in BOOLEAN
        /\ parse_next_line' \in BOOLEAN /\ inside_comment' \in BOOLEAN
    BY <1>1, TypeFirst DEF OpenFile, writer
  <2>5. /\ phase' = phase /\ triggers' = triggers /\ blocks' = blocks
        /\ threads' = threads /\ skippable_region' = skippable_region
    BY <1>1 DEF OpenFile
  <2> QED  BY <2>1, <2>2, <2>3, <2>4, <2>5, TypeFirst DEF TypeOK, OutputLines
<1>2. ASSUME NEW l \in Lines, CreateTables(l), ~crashed
      PROVE  TypeOK'
  BY <1>2, TypeReading
<1>3. CASE AllFilesRead
  BY <1>3 DEF AllFilesRead, writer, TypeOK
<1>4. CASE Link
  <2> DEFINE Entry == [name : Texts, support_thread : Functions, state_variable : Nat]
  <2>1. triggers \in Seq(Entry) /\ Len(triggers) \in Nat /\ DOMAIN triggers = 1 .. Len(triggers)
    BY TypeFirst, LenProperties
  <2>2. ASSUME NEW k \in 1 .. Len(triggers)
        PROVE  [triggers[k] EXCEPT !.state_variable
                  = Lookup(threads, triggers[k].support_thread)] \in Entry
    <3>1. triggers[k] \in Entry
      BY <2>1, ElementOfSeq
    <3>2. Lookup(threads, triggers[k].support_thread) \in Nat
      <4>1. \/ Lookup(threads, triggers[k].support_thread) = 0
            \/ Lookup(threads, triggers[k].support_thread) \in DOMAIN threads
        BY TypeFirst, LookupIsFirst
      <4> QED  BY <4>1, TableShape
    <3> QED  BY <3>1, <3>2
  <2>3. triggers' \in [1 .. Len(triggers) -> Entry]
    BY <1>4, <2>1, <2>2 DEF Link
  <2> HIDE DEF Entry
  <2>4. triggers' \in Seq(Entry)
    BY <2>1, <2>3, SeqDef
  <2> USE DEF Entry
  <2> QED  BY <1>4, <2>4 DEF Link, writer, TypeOK
<1>5. CASE NextFile
  <2>1. <<>> \in Seq(OutputLines)
    BY EmptySeq
  <2>2. output' \in Seq(Seq(OutputLines))
    BY <1>5, <2>1, TypeFirst, Appended DEF NextFile
  <2>3. file' \in 0 .. Len(source)
    BY <1>5, Shape DEF NextFile, TypeOK
  <2> QED  BY <1>5, <2>2, <2>3, TypeFirst DEF NextFile, tables, TypeOK, OutputLines
<1>6. CASE Preprocess
  <2>1. CASE CrashWriting
    BY <2>1 DEF CrashWriting, tables, writer, TypeOK
  <2> QED  BY <1>6, <2>1, TypeWriting
<1>7. CASE Finish
  BY <1>7 DEF Finish, tables, writer, TypeOK
<1>8. CASE UNCHANGED vars
  BY <1>8 DEF vars, tables, writer, TypeOK
<1> QED  BY <1>1, <1>2, <1>3, <1>4, <1>5, <1>6, <1>7, <1>8 DEF Next, WholeFileStep

-----------------------------------------------------------------------------

\* Every step keeps the place of the second pass.
LEMMA CursorNext ==
  ASSUME TypeOK, Cursor, Linked, [Next]_vars
  PROVE  Cursor'
<1>1. CASE OpenFile
  BY <1>1 DEF OpenFile, writer, Cursor
<1>2. ASSUME NEW l \in Lines, CreateTables(l)
      PROVE  Cursor'
  <2>1. PICK seen : ReadLine(l, seen)
    BY <1>2, ReadingCases
  <2> QED  BY <2>1 DEF ReadLine, writer, Cursor
<1>3. CASE AllFilesRead
  BY <1>3 DEF AllFilesRead, writer, Cursor
<1>4. CASE Link
  BY <1>4 DEF Link, writer, Cursor
<1>5. CASE NextFile
  <2>1. /\ file \in 0 .. Len(source) /\ Len(source) \in Nat /\ file < Len(source)
        /\ file' = file + 1 /\ source' = source
    BY <1>5, Shape DEF NextFile, TypeOK
  <2>2. file' \in DOMAIN source
    BY <2>1, Shape
  <2>3. Len(source[file']) \in Nat
    BY <2>2, Shape
  <2>4. Len(output') = file'
    <3>1. output \in Seq(Seq(OutputLines)) /\ <<>> \in Seq(OutputLines) /\ Len(output) = file
      BY TypeFirst, EmptySeq DEF Cursor
    <3>2. Len(Append(output, <<>>)) = Len(output) + 1
      BY <3>1, AppendProperties
    <3> QED  BY <1>5, <2>1, <3>1, <3>2 DEF NextFile
  <2>5. phase' = "code" /\ pos' = 0 /\ file' # 0
    BY <1>5, <2>1 DEF NextFile
  <2> QED  BY <2>1, <2>3, <2>4, <2>5 DEF Cursor
<1>6a. CASE CrashWriting
  BY <1>6a DEF CrashWriting, writer, Cursor, AtEnd
<1>6. CASE Preprocess /\ ~CrashWriting
  <2> PICK l : l = source[file][pos + 1]
    OBVIOUS
  <2>1. phase = "code" /\ ~AtEnd /\ ~FollowsNullInCode(l) /\ NextLine(l) /\ l \in Lines
    BY <1>6, PreprocessCases
  <2>2. PICK left \in BOOLEAN, lines \in Seq(OutputLines) : Translate(l, left, lines)
    BY <2>1, Effects
  <2>3. Len(output') = Len(output)
    BY <2>1, <2>2, Written
  <2>4. pos' = pos + 1 /\ file' = file /\ source' = source /\ phase' = phase
    BY <2>2 DEF Translate
  <2>5. file # 0 /\ pos + 1 <= Len(source[file])
    BY <2>1, LineRead
  <2> QED  BY <2>1, <2>3, <2>4, <2>5 DEF Cursor
<1>7. CASE Finish
  BY <1>7 DEF Finish, tables, writer, Cursor, AtEnd
<1>8. CASE UNCHANGED vars
  BY <1>8 DEF vars, tables, writer, Cursor, AtEnd
<1> QED  BY <1>1, <1>2, <1>3, <1>4, <1>5, <1>6a, <1>6, <1>7, <1>8 DEF Next, WholeFileStep

\* Erased in terms of the lines of the file, before and after a step.
LEMMA ErasedIs ==
  ASSUME NEW f, NEW k
  PROVE  /\ Erased(f, k) <=> ErasedIn(source[f], k)
         /\ Erased(f, k)' <=> ErasedIn(source'[f], k)
BY DEF Erased, ErasedIn

\* The line just read, as the first pass sees it.
LEMMA Scanned ==
  ASSUME TypeOK, Scan, NEW l \in Lines, NEW seen \in BOOLEAN, ReadLine(l, seen),
         NEW f, f = Len(source), NEW m, m = Len(source[f])
  PROVE  /\ Kept /\ m \in Nat
         /\ f \in DOMAIN source /\ DOMAIN source[f] = 1 .. m
         /\ f \in DOMAIN source' /\ f = Len(source') /\ DOMAIN source' = DOMAIN source
         /\ DOMAIN source'[f] = 1 .. m + 1 /\ Len(source'[f]) = m + 1
         /\ source'[f][m + 1] = l
         /\ Erased(f, m + 1)' <=> InsideAfter(l)
         /\ Erased(f, m + 1)' <=> ~seen
         /\ Read(f, m + 1)' <=> seen /\ CodeSeen(l)
<1>1. /\ source # <<>> /\ phase = "tables" /\ (seen <=> ~InsideAfter(l))
      /\ source' = [source EXCEPT ![Len(source)] = Append(@, l)]
  BY InsideIsBoolean DEF ReadLine
<1>2. /\ Kept /\ f \in DOMAIN source /\ f \in DOMAIN source' /\ Len(source') = f
      /\ DOMAIN source' = DOMAIN source /\ Len(source'[f]) = m + 1
      /\ DOMAIN source'[f] = 1 .. m + 1 /\ source'[f][m + 1] = l
  BY <1>1, ReadALine
<1>3. m \in Nat /\ DOMAIN source[f] = 1 .. m
  BY <1>2, Shape
<1>4. inside_comment <=> Erased(f, m)
  BY <1>1 DEF Scan
<1>5. \A j \in 1 .. m : source'[f][j] = source[f][j]
  BY <1>2, <1>3 DEF Kept
<1>6. ErasedIn(source'[f], m) <=> ErasedIn(source[f], m)
  BY <1>3, <1>5, ErasedSame
<1>7. ErasedIn(source'[f], m + 1) <=>
        \/ l.comment \in {"open", "url"}
        \/ ErasedIn(source'[f], m) /\ l.comment \notin {"inline", "close"}
  BY <1>2, <1>3, ErasedStep
<1>8. ErasedIn(source'[f], m + 1) <=>
        \/ l.comment \in {"open", "url"}
        \/ inside_comment /\ l.comment \notin {"inline", "close"}
  BY <1>4, <1>6, <1>7, ErasedIs
<1>9. Erased(f, m + 1)' <=> InsideAfter(l)
  <2>1. Erased(f, m + 1)' <=> ErasedIn(source'[f], m + 1)
    BY DEF Erased, ErasedIn
  <2> QED  BY <1>8, <2>1, LineFacts DEF InsideAfter
<1>10. Read(f, m + 1)' <=> seen /\ CodeSeen(l)
  <2>1. Read(f, m + 1)' <=> ~Erased(f, m + 1)' /\ CodeSeen(source'[f][m + 1])
    BY DEF Read, CodeSeen
  <2> QED  BY <1>1, <1>2, <1>9, <2>1
<1> QED  BY <1>1, <1>2, <1>3, <1>9, <1>10

\* The comment flag is what the lines say.
LEMMA ScanNext ==
  ASSUME TypeOK, Cursor, Scan, Linked, [Next]_vars
  PROVE  Scan'
<1>1. CASE OpenFile
  <2>1. /\ inside_comment' = FALSE /\ phase' = "tables"
        /\ Len(source') = Len(source) + 1 /\ source'[Len(source) + 1] = <<>>
    BY <1>1, OpenedFile DEF OpenFile
  <2>2. ~ErasedIn(source'[Len(source')], 0)
    BY ErasedNone
  <2>3. Len(source'[Len(source')]) = 0
    BY <2>1, EmptySeq
  <2>4. ~Erased(Len(source), Len(source[Len(source)]))'
    BY <2>2, <2>3 DEF Erased, ErasedIn
  <2> QED  BY <2>1, <2>4 DEF Scan
<1>2. ASSUME NEW l \in Lines, CreateTables(l)
      PROVE  Scan'
  <2>1. PICK seen \in BOOLEAN : ReadLine(l, seen)
    BY <1>2, ReadingCases
  <2>2. /\ inside_comment' = InsideAfter(l) /\ phase' = "tables" /\ source # <<>>
        /\ source' = [source EXCEPT ![Len(source)] = Append(@, l)]
    BY <2>1 DEF ReadLine
  <2>3. /\ Len(source') = Len(source) /\ Len(source'[Len(source)]) = Len(source[Len(source)]) + 1
        /\ Len(source) \in Nat /\ Len(source) # 0
    <3>1. Len(source) \in DOMAIN source /\ DOMAIN source = 1 .. Len(source) /\ Len(source) \in Nat
      BY <2>2, ReadALine, Shape
    <3> QED  BY <2>2, <3>1, ReadALine
  <2>4. source' # <<>>
    BY <2>3, EmptySeq
  <2>5. PICK f, m : f = Len(source) /\ m = Len(source[f])
    OBVIOUS
  <2>6. Erased(f, m + 1)' <=> InsideAfter(l)
    BY <2>1, <2>5, Scanned
  <2>7. Len(source') = f /\ Len(source'[Len(source')]) = m + 1
    BY <2>3, <2>5
  <2>8. Erased(Len(source), Len(source[Len(source)]))' <=> InsideAfter(l)
    BY <2>6, <2>7 DEF Erased
  <2> QED  BY <2>2, <2>4, <2>8 DEF Scan
<1>3. CASE AllFilesRead
  BY <1>3 DEF AllFilesRead, writer, Cursor, Scan
<1>4. CASE Link
  BY <1>4 DEF Link, writer, Cursor, Scan
<1>5. CASE NextFile
  <2>1. inside_comment' = FALSE /\ phase' = "code" /\ pos' = 0
    BY <1>5 DEF NextFile
  <2>2. ~Erased(file, pos)'
    BY <2>1 DEF Erased
  <2> QED  BY <2>1, <2>2 DEF Scan
<1>6a. CASE CrashWriting
  BY <1>6a DEF CrashWriting, writer, Scan, Erased
<1>6. CASE Preprocess /\ ~CrashWriting
  <2> PICK l : l = source[file][pos + 1]
    OBVIOUS
  <2>1. /\ phase = "code" /\ ~AtEnd /\ ~FollowsNullInCode(l) /\ NextLine(l) /\ l \in Lines
        /\ file # 0 /\ pos \in Nat
    BY <1>6, PreprocessCases, LineRead
  <2>2. PICK left \in BOOLEAN, lines \in Seq(OutputLines) : Translate(l, left, lines)
    BY <2>1, Effects
  <2>3. /\ pos' = pos + 1 /\ file' = file /\ source' = source /\ phase' = "code"
        /\ inside_comment' = InsideAfter(l)
    BY <2>1, <2>2 DEF Translate
  <2>4. ErasedIn(source[file], pos + 1) <=>
          \/ l.comment \in {"open", "url"}
          \/ ErasedIn(source[file], pos) /\ l.comment \notin {"inline", "close"}
    BY <2>1, ErasedStep
  <2>5. inside_comment <=> ErasedIn(source[file], pos)
    BY <2>1, ErasedIs DEF Scan
  <2>6. ErasedIn(source[file], pos + 1) <=> InsideAfter(l)
    BY <2>1, <2>4, <2>5, LineFacts DEF InsideAfter
  <2>7. Erased(file, pos)' <=> InsideAfter(l)
    BY <2>3, <2>6 DEF Erased, ErasedIn
  <2> QED  BY <2>1, <2>3, <2>7 DEF Scan
<1>7. CASE Finish
  BY <1>7 DEF Finish, tables, writer, Scan, Erased
<1>8. CASE UNCHANGED vars
  BY <1>8 DEF vars, tables, writer, Scan, Erased
<1> QED  BY <1>1, <1>2, <1>3, <1>4, <1>5, <1>6a, <1>6, <1>7, <1>8 DEF Next, WholeFileStep

\* The links stay.
LEMMA LinkedNext ==
  ASSUME TypeOK, Linked, [Next]_vars
  PROVE  Linked'
<1>1. CASE Link
  <2>1. DOMAIN triggers' = DOMAIN triggers /\ threads' = threads
    BY <1>1 DEF Link
  <2>2. ASSUME NEW i \in DOMAIN triggers
        PROVE  /\ triggers'[i].support_thread = triggers[i].support_thread
               /\ triggers'[i].state_variable = Lookup(threads, triggers[i].support_thread)
    <3>1. triggers \in Seq([name : Texts, support_thread : Functions, state_variable : Nat])
      BY TypeFirst
    <3>2. triggers[i] \in [name : Texts, support_thread : Functions, state_variable : Nat]
      BY <3>1, TableShape, ElementOfSeq
    <3>3. triggers'[i] = [triggers[i] EXCEPT !.state_variable
                            = Lookup(threads, triggers[i].support_thread)]
      BY <1>1 DEF Link
    <3> QED  BY <3>2, <3>3
  <2> QED  BY <2>1, <2>2 DEF Linked, Lookup
<1>2. CASE phase' \in {"tables", "link"}
  BY <1>2 DEF Linked
<1>3. CASE phase' \notin {"tables", "link"} /\ ~Link
  <2>1. ASSUME NEW l \in Lines
        PROVE  ~CreateTables(l)
    BY <1>3, ReadingCases DEF ReadLine
  <2>2. ~OpenFile /\ ~AllFilesRead
    BY <1>3 DEF OpenFile, AllFilesRead
  <2>3. triggers' = triggers /\ threads' = threads /\ (phase' = phase \/ phase = "code")
    <3>1. CASE NextFile
      BY <3>1 DEF NextFile, tables
    <3>2. CASE Preprocess
      <4>1. CrashWriting \/ NextLine(source[file][pos + 1])
        BY <3>2 DEF Preprocess
      <4> QED  BY <4>1 DEF CrashWriting, NextLine, EraseLine, TranslateTrigger, TranslateBlock,
               TranslateAssignment, TranslateInclude, CopyLine, Translate, tables
    <3>3. CASE Finish
      BY <3>3 DEF Finish, tables
    <3>4. CASE UNCHANGED vars
      BY <3>4 DEF vars, tables
    <3> QED  BY <1>3, <2>1, <2>2, <3>1, <3>2, <3>3, <3>4 DEF Next, WholeFileStep
  <2> QED  BY <1>3, <2>3 DEF Linked, Lookup
<1> QED  BY <1>1, <1>2, <1>3

=============================================================================
