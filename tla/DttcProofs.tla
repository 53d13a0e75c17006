------------------------------ MODULE DttcProofs ------------------------------
(***************************************************************************)
(* The correctness of dttc, for programs with any names, any number of     *)
(* files and any lines.  The tables of the first pass hold what the source *)
(* says, the output of the second pass holds the lines that were read and  *)
(* the flags of preprocess say what is above: from these the properties of *)
(* the output and the causes of a crash follow.                            *)
(***************************************************************************)
EXTENDS DttcStepProofs

\* Lines that leave the search for a support function as it is.
OtherPragma(l) == l.kind \in {"trigger", "block", "end_block"}

\* What the line just read is to a #DTT line before it.
LEMMA Answered ==
  ASSUME TypeOK, Scan, NEW l \in Lines, NEW seen \in BOOLEAN, ReadLine(l, seen),
         NEW f, f = Len(source), NEW m, m = Len(source[f]), NEW j \in 1 .. m
  PROVE  /\ Waiting(f, j)' <=> Waiting(f, j) /\ OtherPragma(l) /\ seen /\ CodeSeen(l)
         /\ Answers(f, j, m + 1)' <=>
              Waiting(f, j) /\ ~Pragma(l) /\ l.function # None /\ seen /\ CodeSeen(l)
         /\ Unanswered(f, j)' <=> Unanswered(f, j) /\ ~Answers(f, j, m + 1)'
         /\ Waiting(f, j) => Unanswered(f, j)
<1>1. /\ Kept /\ m \in Nat /\ f \in DOMAIN source /\ DOMAIN source[f] = 1 .. m
      /\ Len(source'[f]) = m + 1 /\ source'[f][m + 1] = l
      /\ Read(f, m + 1)' <=> seen /\ CodeSeen(l)
  BY Scanned
<1>2. \A k \in 1 .. m : source'[f][k] = source[f][k] /\ (Read(f, k)' <=> Read(f, k))
  BY <1>1, ErasedKept DEF Kept
<1>3. \A k \in j + 1 .. m + 1 : k \in 1 .. m \/ k = m + 1
  BY <1>1
<1>4. \A k \in j + 1 .. m : k \in 1 .. m
  BY <1>1
<1>5. m + 1 \in j + 1 .. m + 1 /\ \A k \in j + 1 .. m : k \in j + 1 .. m + 1
  BY <1>1
<1>6. Waiting(f, j)' <=> Waiting(f, j) /\ OtherPragma(l) /\ seen /\ CodeSeen(l)
  <2>1. Waiting(f, j)' <=>
          /\ source'[f][j].kind = "DTT" /\ Read(f, j)'
          /\ \A k \in j + 1 .. m + 1 :
               source'[f][k].kind \in {"trigger", "block", "end_block"} /\ Read(f, k)'
    BY <1>1 DEF Waiting
  <2>2. Waiting(f, j) <=>
          /\ source[f][j].kind = "DTT" /\ Read(f, j)
          /\ \A k \in j + 1 .. m :
               source[f][k].kind \in {"trigger", "block", "end_block"} /\ Read(f, k)
    BY DEF Waiting
  <2>3. \A k \in j + 1 .. m + 1 : k \in j + 1 .. m \/ k = m + 1
    BY <1>1
  <2> DEFINE P(k) == source'[f][k].kind \in {"trigger", "block", "end_block"} /\ Read(f, k)'
             Q(k) == source[f][k].kind \in {"trigger", "block", "end_block"} /\ Read(f, k)
  <2>4. \A k \in j + 1 .. m : P(k) <=> Q(k)
    BY <1>2, <1>3, <1>4
  <2>5. P(m + 1) <=> OtherPragma(l) /\ seen /\ CodeSeen(l)
    BY <1>1 DEF OtherPragma
  <2>6. (\A k \in j + 1 .. m + 1 : P(k)) <=> (\A k \in j + 1 .. m : Q(k)) /\ P(m + 1)
    BY <1>5, <2>3, <2>4
  <2>7. (source'[f][j].kind = "DTT" /\ Read(f, j)') <=> (source[f][j].kind = "DTT" /\ Read(f, j))
    BY <1>2, <1>3
  <2> QED  BY <2>1, <2>2, <2>5, <2>6, <2>7
<1>7. Answers(f, j, m + 1)' <=>
        Waiting(f, j) /\ ~Pragma(l) /\ l.function # None /\ seen /\ CodeSeen(l)
  <2>1. Answers(f, j, m + 1)' <=>
          /\ source'[f][j].kind = "DTT" /\ Read(f, j)'
          /\ ~Pragma(source'[f][m + 1]) /\ source'[f][m + 1].function # None
          /\ Read(f, m + 1)'
          /\ \A k \in j + 1 .. m :
               source'[f][k].kind \in {"trigger", "block", "end_block"} /\ Read(f, k)'
    <3>1. (m + 1) - 1 = m
      BY <1>1
    <3> QED  BY <3>1 DEF Answers, Pragma, CodeSeen
  <2>2. Waiting(f, j) <=>
          /\ source[f][j].kind = "DTT" /\ Read(f, j)
          /\ \A k \in j + 1 .. m :
               source[f][k].kind \in {"trigger", "block", "end_block"} /\ Read(f, k)
    BY DEF Waiting
  <2> QED  BY <1>1, <1>2, <1>4, <2>1, <2>2
<1>8. Unanswered(f, j)' <=> Unanswered(f, j) /\ ~Answers(f, j, m + 1)'
  <2>1. \A k \in j + 1 .. m : Answers(f, j, k)' <=> Answers(f, j, k)
    <3>1. ASSUME NEW k \in j + 1 .. m
          PROVE  Answers(f, j, k)' <=> Answers(f, j, k)
      <4>1. k \in DOMAIN source[f] /\ j \in 1 .. k - 1
        BY <1>1
      <4> QED  BY <1>1, <4>1, AnswersKept
    <3> QED  BY <3>1
  <2>2. Unanswered(f, j)' <=>
          /\ source'[f][j].kind = "DTT" /\ Read(f, j)'
          /\ \A k \in j + 1 .. m + 1 : ~Answers(f, j, k)'
    BY <1>1 DEF Unanswered
  <2>3. Unanswered(f, j) <=>
          /\ source[f][j].kind = "DTT" /\ Read(f, j)
          /\ \A k \in j + 1 .. m : ~Answers(f, j, k)
    BY DEF Unanswered
  <2>4. \A k \in j + 1 .. m + 1 : k \in j + 1 .. m \/ k = m + 1
    BY <1>1
  <2> QED  BY <1>1, <1>2, <1>5, <2>1, <2>2, <2>3, <2>4
<1>9. Waiting(f, j) => Unanswered(f, j)
  BY DEF Waiting, Unanswered, Answers, Pragma, Read
<1> QED  BY <1>6, <1>7, <1>8, <1>9

\* A line with its code seen leaves a comment as it was.
LEMMA SeenCode ==
  ASSUME Scan, TypeOK, NEW l \in Lines, ReadLine(l, TRUE), CodeSeen(l)
  PROVE  ~inside_comment /\ ~inside_comment'
BY DEF ReadLine, InsideAfter, CodeSeen, TypeOK

\* A line of the first pass keeps Pending: a line that is neither a function
\* nor a pragma is followed by a NULL pointer, so a search goes on only behind
\* pragmas and comments.
LEMMA PendingReading ==
  ASSUME TypeOK, Cursor, Scan, Pending, ~crashed, NEW l \in Lines, CreateTables(l)
  PROVE  Pending'
<1> PICK f, m : f = Len(source) /\ m = Len(source[f])
  OBVIOUS
<1>1. PICK seen \in BOOLEAN : ReadLine(l, seen)
  BY ReadingCases
<1>2. /\ m \in Nat /\ f \in DOMAIN source /\ DOMAIN source[f] = 1 .. m
      /\ f = Len(source') /\ f \in DOMAIN source' /\ DOMAIN source' = DOMAIN source
      /\ DOMAIN source'[f] = 1 .. m + 1 /\ Len(source'[f]) = m + 1 /\ source'[f][m + 1] = l
      /\ Kept
  BY <1>1, Scanned
<1>3. source # <<>> /\ phase = "tables" /\ phase' = "tables" /\ f # 0
  BY <1>1, <1>2, Shape DEF ReadLine
<1>4. source' # <<>>
  BY <1>2, <1>3, EmptySeq
<1>5. Waiting(f, m + 1)' <=> (l.kind = "DTT" /\ Read(f, m + 1)')
  <2>1. \A k \in (m + 1) + 1 .. m + 1 : FALSE
    BY <1>2
  <2>2. Waiting(f, m + 1)' <=>
          /\ source'[f][m + 1].kind = "DTT" /\ Read(f, m + 1)'
          /\ \A k \in (m + 1) + 1 .. m + 1 :
               source'[f][k].kind \in {"trigger", "block", "end_block"} /\ Read(f, k)'
    BY <1>2 DEF Waiting
  <2> QED  BY <1>2, <2>1, <2>2
<1>6. Read(f, m + 1)' <=> (seen /\ CodeSeen(l))
  BY <1>1, Scanned
<1>7. ASSUME parse_next_line', ~crashed'
      PROVE  /\ skippable_region' \in Regions
             /\ \E j \in 1 .. m + 1 :
                  \/ Waiting(f, j)'
                  \/ inside_comment' /\ Unanswered(f, j)'
  <2>0. ~CrashReading(l)
    BY <1>7 DEF CrashReading
  <2>1. CASE SkipLine(l)
    <3>1. ReadLine(l, FALSE) /\ parse_next_line /\ skippable_region' = skippable_region
      BY <1>7, <2>1 DEF SkipLine, tables
    <3>2. inside_comment'
      BY <3>1, InsideIsBoolean DEF ReadLine
    <3>3. PICK j \in 1 .. m : Waiting(f, j) \/ Unanswered(f, j)
      BY <1>2, <3>1 DEF Pending
    <3>4. Unanswered(f, j)'
      BY <1>2, <3>1, <3>3, Answered
    <3>5. skippable_region \in Regions
      BY <3>1 DEF Pending
    <3> QED  BY <1>2, <3>1, <3>2, <3>4, <3>5
  <2>2. CASE AddTrigger(l) \/ AddBlock(l) \/ (OtherLine(l) /\ Pragma(l))
    <3>1. /\ ReadLine(l, TRUE) /\ parse_next_line /\ skippable_region' = skippable_region
          /\ OtherPragma(l) /\ CodeSeen(l)
      BY <1>7, <2>2 DEF AddTrigger, AddBlock, OtherLine, Pragma, OtherPragma, tables
    <3>2. ~inside_comment
      BY <3>1, SeenCode
    <3>3. PICK j \in 1 .. m : Waiting(f, j)
      BY <1>2, <3>1, <3>2 DEF Pending
    <3>4. Waiting(f, j)'
      BY <1>2, <3>1, <3>3, Answered
    <3>5. skippable_region \in Regions
      BY <3>1 DEF Pending
    <3> QED  BY <1>2, <3>1, <3>4, <3>5
  <2>3. CASE ~FollowsNull(l) /\ ReadDTT(l)
    <3>1. /\ ReadLine(l, TRUE) /\ l.kind = "DTT" /\ CodeSeen(l)
          /\ skippable_region' = l.first
      BY <2>3 DEF ReadDTT
    <3>2. Read(f, m + 1)'
      BY <3>1, Scanned
    <3>3. l.first \in Regions
      BY <2>3, NamesFound
    <3> QED  BY <1>2, <1>5, <1>7, <3>1, <3>2, <3>3
  <2>4. CASE AddThread(l)
    BY <1>7, <2>4 DEF AddThread
  <2>5. CASE OtherLine(l) /\ ~Pragma(l)
    BY <1>7, <2>5 DEF OtherLine, tables
  <2> QED  BY <2>0, <2>1, <2>2, <2>3, <2>4, <2>5, ReadingCases
<1>8. ASSUME NEW j \in 1 .. m + 1, Waiting(f, j)', ~crashed'
      PROVE  parse_next_line' /\ skippable_region' = source'[f][j].first
  <2>0. ~CrashReading(l)
    BY <1>8 DEF CrashReading
  <2>1. CASE j = m + 1
    <3>1. l.kind = "DTT" /\ CodeSeen(l) /\ Read(f, m + 1)'
      BY <1>5, <1>6, <1>8, <2>1
    <3>2. ~ReadLine(l, FALSE)
      BY <3>1, Scanned
    <3>3. ReadDTT(l)
      BY <2>0, <3>1, <3>2, ReadingCases DEF SkipLine, AddTrigger, AddBlock, AddThread, OtherLine, Pragma
    <3> QED  BY <1>2, <1>8, <2>1, <3>3 DEF ReadDTT
  <2>2. CASE j # m + 1
    <3>1. j \in 1 .. m
      BY <1>2, <2>2
    <3>2. Waiting(f, j) /\ OtherPragma(l) /\ seen /\ CodeSeen(l)
      BY <1>1, <1>8, <3>1, Answered
    <3>3. parse_next_line /\ skippable_region = source[f][j].first
      BY <1>2, <1>3, <3>1, <3>2 DEF Pending
    <3>4. ReadLine(l, TRUE)
      BY <1>1, <3>2
    <3>5. ~ReadLine(l, FALSE)
      BY <3>4 DEF ReadLine
    <3>6. AddTrigger(l) \/ AddBlock(l) \/ (OtherLine(l) /\ Pragma(l))
      BY <2>0, <3>2, <3>5, ReadingCases
         DEF SkipLine, ReadDTT, AddThread, OtherLine, Pragma, OtherPragma
    <3>7. parse_next_line' = parse_next_line /\ skippable_region' = skippable_region
      BY <3>6 DEF AddTrigger, AddBlock, OtherLine, tables
    <3>8. source'[f][j] = source[f][j]
      BY <1>2, <3>1 DEF Kept
    <3> QED  BY <3>3, <3>7, <3>8
  <2> QED  BY <2>1, <2>2
<1>9. parse_next_line' /\ ~crashed' =>
        /\ phase' = "tables" /\ source' # <<>> /\ skippable_region' \in Regions
        /\ \E j \in DOMAIN source'[Len(source')] :
             \/ Waiting(Len(source), j)'
             \/ inside_comment' /\ Unanswered(Len(source), j)'
  <2>1. ASSUME NEW j
        PROVE  /\ Waiting(Len(source), j)' <=> Waiting(f, j)'
               /\ Unanswered(Len(source), j)' <=> Unanswered(f, j)'
    BY <1>2 DEF Waiting, Unanswered, Read, Erased, CodeSeen, Answers, Pragma
  <2> QED  BY <1>2, <1>3, <1>4, <1>7, <2>1
<1>10. phase' = "tables" /\ ~crashed' =>
         \A g \in DOMAIN source' : g = Len(source') =>
           \A j \in DOMAIN source'[g] :
             Waiting(g, j)' => parse_next_line' /\ skippable_region' = source'[g][j].first
  BY <1>2, <1>8
<1> QED  BY <1>9, <1>10 DEF Pending

\* Every step keeps Pending.
LEMMA PendingNext ==
  ASSUME TypeOK, Cursor, Scan, Pending, [Next]_vars
  PROVE  Pending'
<1>1. CASE OpenFile
  <2>1. /\ Len(source') = Len(source) + 1 /\ source'[Len(source) + 1] = <<>>
        /\ ~parse_next_line'
    BY <1>1, OpenedFile DEF OpenFile
  <2>2. \A j \in DOMAIN source'[Len(source')] : FALSE
    <3>1. DOMAIN source'[Len(source')] = {}
      BY <2>1, NoLines
    <3> QED  BY <3>1
  <2> QED  BY <2>1, <2>2 DEF Pending
<1>2. ASSUME NEW l \in Lines, CreateTables(l), ~crashed
      PROVE  Pending'
  BY <1>2, PendingReading
<1>3. CASE AllFilesRead
  BY <1>3 DEF AllFilesRead, Pending
<1>4. CASE ~crashed /\ (Link \/ NextFile \/ Preprocess \/ Finish)
  <2>1. phase # "tables" /\ phase' # "tables" /\ parse_next_line' = parse_next_line
    <3>1. CASE Preprocess
      <4>1. phase = "code" /\ (CrashWriting \/ NextLine(source[file][pos + 1]))
        BY <3>1 DEF Preprocess
      <4> QED  BY <4>1 DEF CrashWriting, NextLine, EraseLine, TranslateTrigger, TranslateBlock,
               TranslateAssignment, TranslateInclude, CopyLine, Translate, tables
    <3> QED  BY <1>4, <3>1 DEF Link, NextFile, Finish, tables
  <2>2. ~parse_next_line
    BY <1>4, <2>1 DEF Pending
  <2> QED  BY <2>1, <2>2 DEF Pending
<1>5. CASE UNCHANGED vars
  BY <1>5 DEF vars, tables, Pending, Waiting, Unanswered, Answers, Read, Erased,
     CodeSeen, Pragma
<1> QED  BY <1>1, <1>2, <1>3, <1>4, <1>5 DEF Next, WholeFileStep

\* The tables by the lines they were filled from.
LEMMA FirstTriggerKept ==
  ASSUME TypeOK, Kept, NEW v, NEW fn, FirstTrigger(v, fn)
  PROVE  FirstTrigger(v, fn)'
<1>0. PICK f \in DOMAIN source :
        /\ \E k \in DOMAIN source[f] :
             /\ IsTrigger(v, f, k) /\ source[f][k].function = fn
             /\ \A j \in 1 .. k - 1 : ~IsTrigger(v, f, j)
        /\ \A g \in 1 .. f - 1 : \A j \in DOMAIN source[g] : ~IsTrigger(v, g, j)
  BY DEF FirstTrigger
<1>1. PICK k \in DOMAIN source[f] :
        /\ IsTrigger(v, f, k) /\ source[f][k].function = fn
        /\ \A j \in 1 .. k - 1 : ~IsTrigger(v, f, j)
  BY <1>0
<1>2. /\ DOMAIN source = 1 .. Len(source) /\ Len(source) \in Nat
      /\ DOMAIN source[f] = 1 .. Len(source[f]) /\ Len(source[f]) \in Nat
      /\ \A g \in 1 .. f - 1 : g \in DOMAIN source /\ g < Len(source)
      /\ \A j \in 1 .. k - 1 : j \in DOMAIN source[f]
  BY Shape
<1>3. f \in DOMAIN source' /\ k \in DOMAIN source'[f] /\ source'[f][k] = source[f][k]
  BY DEF Kept
<1>4. \A j \in 1 .. k - 1 : ~IsTrigger(v, f, j)'
  BY <1>1, <1>2, MeaningKept
<1>5. \A g \in 1 .. f - 1 : \A j \in DOMAIN source'[g] : ~IsTrigger(v, g, j)'
  BY <1>0, <1>2, MeaningKept DEF Kept
<1>6. IsTrigger(v, f, k)'
  BY <1>1, MeaningKept
<1> QED  BY <1>1, <1>3, <1>4, <1>5, <1>6 DEF FirstTrigger

\* A step of the first pass changes no first support function.
LEMMA FirstSupportKept ==
  ASSUME TypeOK, Kept, NEW fn, NEW r, FirstSupport(fn, r)
  PROVE  FirstSupport(fn, r)'
<1>0. PICK f \in DOMAIN source :
        /\ \E k \in DOMAIN source[f] :
             /\ IsSupport(fn, f, k) /\ Recomputes(r, f, k)
             /\ \A j \in 1 .. k - 1 : ~IsSupport(fn, f, j)
        /\ \A g \in 1 .. f - 1 : \A j \in DOMAIN source[g] : ~IsSupport(fn, g, j)
  BY DEF FirstSupport
<1>1. PICK k \in DOMAIN source[f] :
        /\ IsSupport(fn, f, k) /\ Recomputes(r, f, k)
        /\ \A j \in 1 .. k - 1 : ~IsSupport(fn, f, j)
  BY <1>0
<1>2. /\ DOMAIN source = 1 .. Len(source) /\ Len(source) \in Nat
      /\ DOMAIN source[f] = 1 .. Len(source[f]) /\ Len(source[f]) \in Nat
      /\ \A g \in 1 .. f - 1 : g \in DOMAIN source /\ g < Len(source)
      /\ \A j \in 1 .. k - 1 : j \in DOMAIN source[f]
  BY Shape
<1>3. f \in DOMAIN source' /\ k \in DOMAIN source'[f]
  BY DEF Kept
<1>4. \A j \in 1 .. k - 1 : ~IsSupport(fn, f, j)'
  BY <1>1, <1>2, MeaningKept
<1>5. \A g \in 1 .. f - 1 : \A j \in DOMAIN source'[g] : ~IsSupport(fn, g, j)'
  BY <1>0, <1>2, MeaningKept DEF Kept
<1>6. IsSupport(fn, f, k)' /\ Recomputes(r, f, k)'
  BY <1>1, MeaningKept
<1> QED  BY <1>1, <1>3, <1>4, <1>5, <1>6 DEF FirstSupport

\* Adding an entry leaves the first entries what they are.
LEMMA FirstExtends ==
  ASSUME NEW table, NEW new, NEW n \in Nat, \A i \in 1 .. n : new[i] = table[i]
  PROVE  /\ \A i \in 1 .. n : First(new, i) => First(table, i)
         /\ First(new, n + 1) => \A i \in 1 .. n : table[i].name # new[n + 1].name
<1>1. ASSUME NEW i \in 1 .. n, First(new, i)
      PROVE  First(table, i)
  BY <1>1 DEF First
<1>2. ASSUME First(new, n + 1)
      PROVE  \A i \in 1 .. n : table[i].name # new[n + 1].name
  <2>1. (n + 1) - 1 = n
    OBVIOUS
  <2> QED  BY <1>2, <2>1 DEF First
<1> QED  BY <1>1, <1>2

\* A line of the first pass keeps the table of the triggers,
LEMMA TriggersReading ==
  ASSUME TypeOK, Cursor, Scan, TriggersTable, ~crashed, NEW l \in Lines, CreateTables(l)
  PROVE  TriggersTable'
<1> PICK f, m : f = Len(source) /\ m = Len(source[f])
  OBVIOUS
<1>1. PICK seen \in BOOLEAN : ReadLine(l, seen)
  BY ReadingCases
<1>2. /\ m \in Nat /\ f \in DOMAIN source /\ DOMAIN source[f] = 1 .. m
      /\ f = Len(source') /\ f \in DOMAIN source' /\ DOMAIN source' = DOMAIN source
      /\ DOMAIN source'[f] = 1 .. m + 1 /\ Len(source'[f]) = m + 1 /\ source'[f][m + 1] = l
      /\ Kept /\ (Read(f, m + 1)' <=> seen /\ CodeSeen(l))
  BY <1>1, Scanned
<1>3. DOMAIN source = 1 .. f /\ f \in Nat
  BY <1>2, Shape
<1>4. ASSUME NEW g \in DOMAIN source', NEW k \in DOMAIN source'[g]
      PROVE  \/ g = f /\ k = m + 1
             \/ g \in DOMAIN source /\ k \in DOMAIN source[g]
  <2>1. CASE g = f
    BY <1>2, <1>4, <2>1
  <2>2. CASE g # f
    BY <1>2, <1>3, <1>4, <2>2 DEF Kept
  <2> QED  BY <2>1, <2>2
<1>5. CASE ~FollowsNull(l) /\ AddTrigger(l)
  <2> DEFINE Entry == [name : Texts, support_thread : Functions, state_variable : Nat]
             e == [name |-> l.first, support_thread |-> l.function, state_variable |-> 0]
             n == Len(triggers)
  <2>1. /\ triggers \in Seq(Entry) /\ e \in Entry /\ triggers' = Append(triggers, e)
    <3>1. e \in Entry
      BY <1>5, NamesFound
    <3> QED  BY <1>5, <3>1, TypeFirst DEF AddTrigger
  <2>2. e.name = l.first /\ e.support_thread = l.function
    OBVIOUS
  <2> HIDE DEF Entry, e
  <2>3. /\ n \in Nat /\ DOMAIN triggers = 1 .. n
        /\ DOMAIN triggers' = 1 .. n + 1 /\ triggers'[n + 1] = e
        /\ \A i \in DOMAIN triggers : triggers'[i] = triggers[i]
        /\ \A i \in DOMAIN triggers : First(triggers', i) => First(triggers, i)
        /\ First(triggers', n + 1) => \A i \in DOMAIN triggers : triggers[i].name # e.name
    <3>1. n \in Nat /\ DOMAIN triggers = 1 .. n
      BY <2>1, LenProperties
    <3>2. /\ Append(triggers, e) \in Seq(Entry) /\ Len(Append(triggers, e)) = n + 1
          /\ \A i \in 1 .. n : Append(triggers, e)[i] = triggers[i]
          /\ Append(triggers, e)[n + 1] = e
      BY <2>1, AppendProperties
    <3>3. DOMAIN triggers' = 1 .. n + 1
      BY <2>1, <3>2, LenProperties
    <3>4. triggers'[n + 1] = e /\ \A i \in 1 .. n : triggers'[i] = triggers[i]
      BY <2>1, <3>2
    <3>5. /\ \A i \in 1 .. n : First(triggers', i) => First(triggers, i)
          /\ First(triggers', n + 1) => \A i \in 1 .. n : triggers[i].name # triggers'[n + 1].name
      BY <3>1, <3>4, FirstExtends
    <3> QED  BY <3>1, <3>3, <3>4, <3>5
  <2>4. ReadLine(l, TRUE) /\ l.kind = "trigger" /\ CodeSeen(l)
    BY <1>5 DEF AddTrigger
  <2>5. Read(f, m + 1)'
    BY <2>4, Scanned
  <2>6. ASSUME NEW i \in DOMAIN triggers', First(triggers', i)
        PROVE  FirstTrigger(triggers[i].name, triggers[i].support_thread)'
    <3>1. CASE i \in DOMAIN triggers
      <4>1. FirstTrigger(triggers[i].name, triggers[i].support_thread)
        BY <2>3, <2>6, <3>1 DEF TriggersTable
      <4>2. PICK v, fn : v = triggers[i].name /\ fn = triggers[i].support_thread
        OBVIOUS
      <4>3. FirstTrigger(v, fn)'
        BY <1>2, <4>1, <4>2, FirstTriggerKept
      <4> QED  BY <2>3, <3>1, <4>2, <4>3 DEF FirstTrigger, IsTrigger
    <3>2. CASE i \notin DOMAIN triggers
      <4>1. i = n + 1 /\ triggers'[i] = e
        BY <2>3, <2>6, <3>2
      <4>2. \A j \in DOMAIN triggers : triggers[j].name # l.first
        BY <2>2, <2>3, <2>6, <4>1
      <4>3. ASSUME NEW g \in DOMAIN source, NEW k \in DOMAIN source[g]
            PROVE  ~IsTrigger(l.first, g, k)'
        <5>1. ~IsTrigger(l.first, g, k)
          BY <4>2 DEF TriggersTable, IsTrigger
        <5> QED  BY <1>2, <5>1, MeaningKept
      <4>4. IsTrigger(l.first, f, m + 1)' /\ source'[f][m + 1].function = l.function
        BY <1>2, <2>4, <2>5 DEF IsTrigger
      <4>5. \A j \in 1 .. (m + 1) - 1 : ~IsTrigger(l.first, f, j)'
        BY <1>2, <4>3
      <4>6. \A g \in 1 .. f - 1 : \A j \in DOMAIN source'[g] : ~IsTrigger(l.first, g, j)'
        BY <1>2, <1>3, <4>3 DEF Kept
      <4>7. m + 1 \in DOMAIN source'[f]
        BY <1>2
      <4>8. FirstTrigger(l.first, l.function)'
        BY <1>2, <4>4, <4>5, <4>6, <4>7 DEF FirstTrigger
      <4> QED  BY <2>2, <4>1, <4>8 DEF FirstTrigger, IsTrigger
    <3> QED  BY <3>1, <3>2
  <2>7. ASSUME NEW g \in DOMAIN source', NEW k \in DOMAIN source'[g],
               source'[g][k].kind = "trigger", Read(g, k)'
        PROVE  \E i \in DOMAIN triggers' : triggers'[i].name = source'[g][k].first
    <3>1. CASE g = f /\ k = m + 1
      <4>1. n + 1 \in DOMAIN triggers' /\ triggers'[n + 1].name = l.first
        BY <2>2, <2>3
      <4> QED  BY <1>2, <3>1, <4>1
    <3>2. CASE g \in DOMAIN source /\ k \in DOMAIN source[g]
      <4>1. source'[g][k] = source[g][k] /\ Read(g, k)
        BY <1>2, <2>7, <3>2, ErasedKept DEF Kept
      <4>2. PICK i \in DOMAIN triggers : triggers[i].name = source[g][k].first
        BY <2>7, <3>2, <4>1 DEF TriggersTable
      <4> QED  BY <2>3, <4>1, <4>2
    <3> QED  BY <1>4, <3>1, <3>2
  <2> QED  BY <2>6, <2>7 DEF TriggersTable
<1>6. CASE ~(~FollowsNull(l) /\ AddTrigger(l))
  <2>1. triggers' = triggers
    BY <1>6, ReadingCases
       DEF CrashReading, SkipLine, AddBlock, ReadDTT, AddThread, OtherLine, tables
  <2>2. ~crashed' => ~(l.kind = "trigger" /\ Read(f, m + 1)')
    <3>1. ASSUME ~crashed', l.kind = "trigger", Read(f, m + 1)'
          PROVE  FALSE
      <4>1. seen /\ CodeSeen(l) /\ ~ReadLine(l, FALSE)
        BY <1>1, <1>2, <3>1 DEF ReadLine
      <4> QED  BY <1>6, <3>1, <4>1, ReadingCases
               DEF CrashReading, SkipLine, AddBlock, ReadDTT, AddThread, OtherLine, Pragma
    <3> QED  BY <3>1
  <2>3. ASSUME NEW i \in DOMAIN triggers', First(triggers', i)
        PROVE  FirstTrigger(triggers[i].name, triggers[i].support_thread)'
    <3>1. FirstTrigger(triggers[i].name, triggers[i].support_thread)
      BY <2>1, <2>3 DEF TriggersTable
    <3>2. PICK v, fn : v = triggers[i].name /\ fn = triggers[i].support_thread
      OBVIOUS
    <3>3. FirstTrigger(v, fn)'
      BY <1>2, <3>1, <3>2, FirstTriggerKept
    <3> QED  BY <2>1, <3>2, <3>3 DEF FirstTrigger, IsTrigger
  <2>4. ASSUME ~crashed', NEW g \in DOMAIN source', NEW k \in DOMAIN source'[g],
               source'[g][k].kind = "trigger", Read(g, k)'
        PROVE  \E i \in DOMAIN triggers' : triggers'[i].name = source'[g][k].first
    <3>1. g \in DOMAIN source /\ k \in DOMAIN source[g]
      BY <1>2, <1>4, <2>2, <2>4
    <3>2. source'[g][k] = source[g][k] /\ Read(g, k)
      BY <1>2, <2>4, <3>1, ErasedKept DEF Kept
    <3> QED  BY <2>1, <2>4, <3>1, <3>2 DEF TriggersTable
  <2>5. phase' = "tables"
    BY <1>1 DEF ReadLine
  <2> QED  BY <2>3, <2>4, <2>5 DEF TriggersTable
<1> QED  BY <1>5, <1>6

\* that of the support functions,
LEMMA ThreadsReading ==
  ASSUME TypeOK, Cursor, Scan, Pending, ThreadsTable, ~crashed, NEW l \in Lines, CreateTables(l)
  PROVE  ThreadsTable'
<1> PICK f, m : f = Len(source) /\ m = Len(source[f])
  OBVIOUS
<1>1. PICK seen \in BOOLEAN : ReadLine(l, seen)
  BY ReadingCases
<1>2. /\ m \in Nat /\ f \in DOMAIN source /\ DOMAIN source[f] = 1 .. m
      /\ f = Len(source') /\ f \in DOMAIN source' /\ DOMAIN source' = DOMAIN source
      /\ DOMAIN source'[f] = 1 .. m + 1 /\ Len(source'[f]) = m + 1 /\ source'[f][m + 1] = l
      /\ Kept /\ (Read(f, m + 1)' <=> seen /\ CodeSeen(l))
  BY <1>1, Scanned
<1>3. DOMAIN source = 1 .. f /\ f \in Nat
  BY <1>2, Shape
<1>4. ASSUME NEW g \in DOMAIN source', NEW k \in DOMAIN source'[g]
      PROVE  \/ g = f /\ k = m + 1
             \/ g \in DOMAIN source /\ k \in DOMAIN source[g]
  <2>1. CASE g = f
    BY <1>2, <1>4, <2>1
  <2>2. CASE g # f
    BY <1>2, <1>3, <1>4, <2>2 DEF Kept
  <2> QED  BY <2>1, <2>2
<1> DEFINE Adds == ~FollowsNull(l) /\ AddThread(l)
<1>5. ASSUME NEW fn
      PROVE  IsSupport(fn, f, m + 1)' <=>
               fn = l.function /\ \E j \in 1 .. m : Answers(f, j, m + 1)'
  <2>1. (m + 1) - 1 = m
    BY <1>2
  <2> QED  BY <1>2, <2>1 DEF IsSupport
<1>6. ASSUME NEW i \in DOMAIN threads, First(threads, i)
      PROVE  \E fn, r : /\ fn = threads[i].name /\ r = threads[i].skippable_region
                        /\ FirstSupport(fn, r)'
  <2>1. PICK fn, r : fn = threads[i].name /\ r = threads[i].skippable_region
    OBVIOUS
  <2>2. FirstSupport(fn, r)
    BY <1>6, <2>1 DEF ThreadsTable
  <2>3. FirstSupport(fn, r)'
    BY <1>2, <2>2, FirstSupportKept
  <2> QED  BY <2>1, <2>3
<1>7. CASE Adds
  <2> DEFINE Entry == [name : Functions, skippable_region : Regions]
             e == [name |-> l.function, skippable_region |-> skippable_region]
             n == Len(threads)
  <2>0. l.function \in Functions /\ CodeSeen(l)
    BY <1>7, NamesFound
  <2>1. /\ ReadLine(l, TRUE) /\ ~Pragma(l) /\ l.function # None
        /\ CodeSeen(l) /\ parse_next_line
    BY <1>7, <2>0, NamesAssumption DEF AddThread
  <2>2. ~inside_comment
    BY <2>1, SeenCode
  <2>3. skippable_region \in Regions /\ \E j \in 1 .. m : Waiting(f, j)
    BY <1>2, <2>1, <2>2 DEF Pending
  <2>4. PICK j \in 1 .. m : Waiting(f, j)
    BY <2>3
  <2>5. source[f][j].first = skippable_region
    <3>1. phase = "tables"
      BY <2>1 DEF ReadLine
    <3> QED  BY <1>2, <2>4, <3>1 DEF Pending
  <2>6. Answers(f, j, m + 1)'
    BY <2>1, <2>4, Answered
  <2>7. IsSupport(l.function, f, m + 1)' /\ Recomputes(skippable_region, f, m + 1)'
    <3>1. PICK r : r = skippable_region
      OBVIOUS
    <3>2. source'[f][j].first = r
      BY <1>2, <2>4, <2>5, <3>1 DEF Kept
    <3>3. \E i \in 1 .. m : Answers(f, i, m + 1)' /\ source'[f][i].first = r
      BY <2>4, <2>6, <3>2
    <3>4. skippable_region' = r
      BY <1>7, <3>1 DEF AddThread
    <3>5. (m + 1) - 1 = m
      BY <1>2
    <3> QED  BY <1>5, <2>4, <2>6, <3>3, <3>4, <3>5 DEF Recomputes
  <2>8. threads \in Seq(Entry) /\ e \in Entry /\ threads' = Append(threads, e)
    <3>1. e \in Entry
      BY <2>0, <2>3
    <3> QED  BY <1>7, <3>1, TypeFirst DEF AddThread
  <2>9. e.name = l.function /\ e.skippable_region = skippable_region
    OBVIOUS
  <2> HIDE DEF Entry, e
  <2>10. /\ n \in Nat /\ DOMAIN threads = 1 .. n
         /\ DOMAIN threads' = 1 .. n + 1 /\ threads'[n + 1] = e
         /\ \A i \in DOMAIN threads : threads'[i] = threads[i]
         /\ \A i \in DOMAIN threads : First(threads', i) => First(threads, i)
         /\ First(threads', n + 1) => \A i \in DOMAIN threads : threads[i].name # e.name
    <3>1. n \in Nat /\ DOMAIN threads = 1 .. n
      BY <2>8, LenProperties
    <3>2. /\ Append(threads, e) \in Seq(Entry) /\ Len(Append(threads, e)) = n + 1
          /\ \A i \in 1 .. n : Append(threads, e)[i] = threads[i]
          /\ Append(threads, e)[n + 1] = e
      BY <2>8, AppendProperties
    <3>3. DOMAIN threads' = 1 .. n + 1
      BY <2>8, <3>2, LenProperties
    <3>4. threads'[n + 1] = e /\ \A i \in 1 .. n : threads'[i] = threads[i]
      BY <2>8, <3>2
    <3>5. /\ \A i \in 1 .. n : First(threads', i) => First(threads, i)
          /\ First(threads', n + 1) => \A i \in 1 .. n : threads[i].name # threads'[n + 1].name
      BY <3>1, <3>4, FirstExtends
    <3> QED  BY <3>1, <3>3, <3>4, <3>5
  <2>11. ASSUME NEW i \in DOMAIN threads', First(threads', i)
         PROVE  \E fn, r : /\ fn = threads'[i].name /\ r = threads'[i].skippable_region
                           /\ FirstSupport(fn, r)'
    <3>1. CASE i \in DOMAIN threads
      BY <1>6, <2>10, <2>11, <3>1
    <3>2. CASE i \notin DOMAIN threads
      <4>1. i = n + 1 /\ threads'[i] = e
        BY <2>10, <2>11, <3>2
      <4>2. \A k \in DOMAIN threads : threads[k].name # l.function
        BY <2>9, <2>10, <2>11, <4>1
      <4>3. ASSUME NEW g \in DOMAIN source, NEW k \in DOMAIN source[g]
            PROVE  ~IsSupport(l.function, g, k)'
        <5>1. ASSUME IsSupport(l.function, g, k)
              PROVE  FALSE
          <6>1. source[g][k].function = l.function
            BY <5>1 DEF IsSupport
          <6>2. IsSupport(source[g][k].function, g, k)
            BY <5>1, <6>1
          <6> QED  BY <4>2, <6>1, <6>2 DEF ThreadsTable
        <5> QED  BY <1>2, <5>1, MeaningKept
      <4>4. PICK fn, r : fn = l.function /\ r = skippable_region
        OBVIOUS
      <4>5. IsSupport(fn, f, m + 1)' /\ Recomputes(r, f, m + 1)'
        <5>1. skippable_region' = skippable_region
          BY <1>7 DEF AddThread
        <5> QED  BY <2>7, <4>4, <5>1 DEF IsSupport, Recomputes
      <4>6. \A k \in 1 .. (m + 1) - 1 : ~IsSupport(fn, f, k)'
        BY <1>2, <4>3, <4>4
      <4>7. \A g \in 1 .. f - 1 : \A k \in DOMAIN source'[g] : ~IsSupport(fn, g, k)'
        <5>1. \A g \in 1 .. f - 1 : g \in DOMAIN source /\ DOMAIN source'[g] = DOMAIN source[g]
          <6>1. ASSUME NEW g \in 1 .. f - 1
                PROVE  g \in DOMAIN source /\ g < Len(source)
            BY <1>3
          <6>2. ASSUME NEW g \in 1 .. f - 1
                PROVE  source'[g] = source[g]
            BY <1>2, <6>1 DEF Kept
          <6> QED  BY <6>1, <6>2
        <5>2. ASSUME NEW g \in 1 .. f - 1, NEW k \in DOMAIN source'[g]
              PROVE  ~IsSupport(fn, g, k)'
          <6>1. ~IsSupport(l.function, g, k)'
            BY <4>3, <5>1
          <6>2. fn = l.function
            BY <4>4
          <6> QED  BY <6>1, <6>2 DEF IsSupport
        <5> QED  BY <5>2
      <4>8. m + 1 \in DOMAIN source'[f]
        BY <1>2
      <4>9. FirstSupport(fn, r)'
        BY <1>2, <4>5, <4>6, <4>7, <4>8 DEF FirstSupport
      <4> QED  BY <2>9, <4>1, <4>4, <4>9
    <3> QED  BY <3>1, <3>2
  <2>12. ASSUME NEW g \in DOMAIN source', NEW k \in DOMAIN source'[g], NEW fn, IsSupport(fn, g, k)'
         PROVE  \E i \in DOMAIN threads' : threads'[i].name = fn
    <3>1. CASE g = f /\ k = m + 1
      <4>1. n + 1 \in DOMAIN threads' /\ threads'[n + 1].name = l.function
        BY <2>9, <2>10
      <4> QED  BY <1>5, <2>12, <3>1, <4>1
    <3>2. CASE g \in DOMAIN source /\ k \in DOMAIN source[g]
      <4>1. IsSupport(fn, g, k)
        BY <1>2, <2>12, <3>2, MeaningKept
      <4>2. source[g][k].function = fn
        BY <4>1 DEF IsSupport
      <4>3. IsSupport(source[g][k].function, g, k)
        BY <4>1, <4>2
      <4>4. PICK i \in DOMAIN threads : threads[i].name = fn
        BY <3>2, <4>2, <4>3 DEF ThreadsTable
      <4> QED  BY <2>10, <4>4
    <3> QED  BY <1>4, <3>1, <3>2
  <2> QED  BY <2>11, <2>12 DEF ThreadsTable
<1>8. CASE ~Adds
  <2>1. threads' = threads
    BY <1>8, ReadingCases
       DEF CrashReading, SkipLine, AddTrigger, AddBlock, ReadDTT, AddThread, OtherLine, tables
  <2>2. ~crashed' => \A j \in 1 .. m : ~Answers(f, j, m + 1)'
    <3>1. ASSUME ~crashed', NEW j \in 1 .. m, Answers(f, j, m + 1)'
          PROVE  FALSE
      <4>1. Waiting(f, j) /\ ~Pragma(l) /\ seen /\ CodeSeen(l)
        BY <1>1, <3>1, Answered
      <4>2. phase = "tables" /\ ~ReadLine(l, FALSE)
        BY <1>1, <4>1 DEF ReadLine
      <4>3. parse_next_line
        BY <1>2, <4>1, <4>2 DEF Pending
      <4>4. ~CrashReading(l)
        BY <3>1 DEF CrashReading
      <4> QED  BY <1>8, <4>1, <4>2, <4>3, <4>4, ReadingCases
               DEF SkipLine, AddTrigger, AddBlock, ReadDTT, OtherLine, Pragma
    <3> QED  BY <3>1
  <2>3. ASSUME ~crashed', NEW g \in DOMAIN source', NEW k \in DOMAIN source'[g], NEW fn,
               IsSupport(fn, g, k)'
        PROVE  \E i \in DOMAIN threads' : threads'[i].name = fn
    <3>1. g \in DOMAIN source /\ k \in DOMAIN source[g]
      BY <1>4, <1>5, <2>2, <2>3
    <3>2. IsSupport(fn, g, k)
      BY <1>2, <2>3, <3>1, MeaningKept
    <3>3. source[g][k].function = fn
      BY <3>2 DEF IsSupport
    <3>4. IsSupport(source[g][k].function, g, k)
      BY <3>2, <3>3
    <3> QED  BY <2>1, <3>1, <3>3, <3>4 DEF ThreadsTable
  <2>4. phase' = "tables"
    BY <1>1 DEF ReadLine
  <2> QED  BY <1>6, <2>1, <2>3, <2>4 DEF ThreadsTable
<1> QED  BY <1>7, <1>8

\* and that of the blocks.
LEMMA BlocksReading ==
  ASSUME TypeOK, Cursor, Scan, BlocksTable, ~crashed, NEW l \in Lines, CreateTables(l)
  PROVE  BlocksTable'
<1> PICK f, m : f = Len(source) /\ m = Len(source[f])
  OBVIOUS
<1>1. PICK seen \in BOOLEAN : ReadLine(l, seen)
  BY ReadingCases
<1>2. /\ m \in Nat /\ f \in DOMAIN source /\ DOMAIN source[f] = 1 .. m
      /\ f = Len(source') /\ f \in DOMAIN source' /\ DOMAIN source' = DOMAIN source
      /\ DOMAIN source'[f] = 1 .. m + 1 /\ Len(source'[f]) = m + 1 /\ source'[f][m + 1] = l
      /\ Kept /\ (Read(f, m + 1)' <=> seen /\ CodeSeen(l))
  BY <1>1, Scanned
<1>3. /\ phase' = "tables" /\ phase = "tables"
      /\ \A i \in DOMAIN blocks : i \in DOMAIN blocks' /\ blocks'[i] = blocks[i]
  <2>1. CASE ~FollowsNull(l) /\ AddBlock(l)
    <3>1. blocks \in Seq(Regions) /\ l.first \in Regions
      BY <2>1, NamesFound, TypeFirst
    <3>2. /\ Append(blocks, l.first) \in Seq(Regions) /\ Len(Append(blocks, l.first)) = Len(blocks) + 1
          /\ \A i \in 1 .. Len(blocks) : Append(blocks, l.first)[i] = blocks[i]
      BY <3>1, AppendProperties
    <3>3. DOMAIN Append(blocks, l.first) = 1 .. Len(blocks) + 1
      BY <3>2, LenProperties
    <3>4. blocks' = Append(blocks, l.first)
      BY <2>1 DEF AddBlock
    <3> QED  BY <1>1, <3>2, <3>3, <3>4, TableShape DEF ReadLine
  <2>2. CASE ~(~FollowsNull(l) /\ AddBlock(l))
    BY <1>1, <2>2, ReadingCases
       DEF CrashReading, SkipLine, AddTrigger, ReadDTT, AddThread, OtherLine, tables, ReadLine
  <2> QED  BY <2>1, <2>2
<1>4. ASSUME ~crashed', NEW g \in DOMAIN source', NEW k \in DOMAIN source'[g],
             source'[g][k].kind = "block", Read(g, k)'
      PROVE  \E i \in DOMAIN blocks' : blocks'[i] = source'[g][k].first
  <2>1. CASE g \in DOMAIN source /\ k \in DOMAIN source[g]
    <3>1. source'[g][k] = source[g][k] /\ Read(g, k)
      BY <1>2, <1>4, <2>1, ErasedKept DEF Kept
    <3>2. PICK i \in DOMAIN blocks : blocks[i] = source[g][k].first
      BY <1>4, <2>1, <3>1 DEF BlocksTable
    <3> QED  BY <1>3, <3>1, <3>2
  <2>2. CASE ~(g \in DOMAIN source /\ k \in DOMAIN source[g])
    <3>1. g = f /\ k = m + 1
      BY <1>2, <1>4, <2>2, Shape DEF Kept
    <3>2. l.kind = "block" /\ seen /\ CodeSeen(l) /\ ~ReadLine(l, FALSE)
      BY <1>1, <1>2, <1>4, <3>1 DEF ReadLine
    <3>3. ~FollowsNull(l) /\ AddBlock(l)
      BY <1>4, <3>2, ReadingCases
         DEF CrashReading, SkipLine, AddTrigger, ReadDTT, AddThread, OtherLine, Pragma
    <3>4. blocks' = Append(blocks, l.first) /\ l.first \in Regions
      BY <3>3, NamesFound DEF AddBlock
    <3>5. /\ Append(blocks, l.first) \in Seq(Regions) /\ Len(Append(blocks, l.first)) = Len(blocks) + 1
          /\ Append(blocks, l.first)[Len(blocks) + 1] = l.first
      BY <3>4, TypeFirst, AppendProperties
    <3>6. Len(blocks) + 1 \in DOMAIN blocks'
      BY <3>4, <3>5, LenProperties, TableShape
    <3> QED  BY <1>2, <3>1, <3>4, <3>5, <3>6
  <2> QED  BY <2>1, <2>2
<1> QED  BY <1>3, <1>4 DEF BlocksTable

\* The tables hold what the source says.
TablesRight == TriggersTable /\ ThreadsTable /\ BlocksTable

\* Opening a file adds no line.
LEMMA TablesOpening ==
  ASSUME TypeOK, TablesRight, ~crashed, OpenFile
  PROVE  TablesRight'
<1>1. /\ Kept /\ Len(source') = Len(source) + 1 /\ source'[Len(source) + 1] = <<>>
      /\ source' \in Seq(Seq(Lines))
  BY OpenedFile DEF OpenFile
<1>2. /\ triggers' = triggers /\ threads' = threads /\ blocks' = blocks /\ crashed' = crashed
      /\ phase' = phase
  BY DEF OpenFile
<1>3. ASSUME NEW g \in DOMAIN source', NEW k \in DOMAIN source'[g]
      PROVE  /\ g \in DOMAIN source /\ k \in DOMAIN source[g]
             /\ source'[g][k] = source[g][k] /\ (Read(g, k)' <=> Read(g, k))
             /\ \A fn : IsSupport(fn, g, k)' <=> IsSupport(fn, g, k)
  <2>1. DOMAIN source' = 1 .. Len(source) + 1 /\ DOMAIN source = 1 .. Len(source) /\ Len(source) \in Nat
    BY <1>1, Shape, LenProperties
  <2>2. g # Len(source) + 1
    BY <1>1, <1>3, NoLines
  <2>3. g \in DOMAIN source
    BY <2>1, <2>2
  <2>4. source'[g] = source[g]
    <3>1. source' = Append(source, <<>>)
      BY DEF OpenFile
    <3>2. source \in Seq(Seq(Lines)) /\ <<>> \in Seq(Lines)
      BY Shape, EmptySeq
    <3> QED  BY <2>1, <2>3, <3>1, <3>2, AppendProperties
  <2>5. k \in DOMAIN source[g]
    BY <2>4
  <2> QED  BY <1>1, <2>3, <2>4, <2>5, ErasedKept, MeaningKept
<1>4. ASSUME NEW i \in DOMAIN triggers, First(triggers, i)
      PROVE  \E v, fn : /\ v = triggers[i].name /\ fn = triggers[i].support_thread
                        /\ FirstTrigger(v, fn)'
  <2>1. PICK v, fn : v = triggers[i].name /\ fn = triggers[i].support_thread
    OBVIOUS
  <2>2. FirstTrigger(v, fn)
    BY <1>4, <2>1 DEF TablesRight, TriggersTable
  <2>3. FirstTrigger(v, fn)'
    BY <1>1, <2>2, FirstTriggerKept
  <2> QED  BY <2>1, <2>3
<1>5. ASSUME NEW i \in DOMAIN threads, First(threads, i)
      PROVE  \E fn, r : /\ fn = threads[i].name /\ r = threads[i].skippable_region
                        /\ FirstSupport(fn, r)'
  <2>1. PICK fn, r : fn = threads[i].name /\ r = threads[i].skippable_region
    OBVIOUS
  <2>2. FirstSupport(fn, r)
    BY <1>5, <2>1 DEF TablesRight, ThreadsTable
  <2>3. FirstSupport(fn, r)'
    BY <1>1, <2>2, FirstSupportKept
  <2> QED  BY <2>1, <2>3
<1>6. TriggersTable'
  BY <1>2, <1>3, <1>4 DEF TablesRight, TriggersTable
<1>7. ThreadsTable'
  <2>1. ASSUME NEW g \in DOMAIN source', NEW k \in DOMAIN source'[g], NEW fn,
               fn = source'[g][k].function, IsSupport(fn, g, k)'
        PROVE  \E i \in DOMAIN threads' : threads'[i].name = fn
    <3>1. IsSupport(source[g][k].function, g, k) /\ fn = source[g][k].function
      BY <1>3, <2>1
    <3> QED  BY <1>2, <1>3, <3>1 DEF TablesRight, ThreadsTable
  <2> QED  BY <1>2, <1>5, <2>1 DEF ThreadsTable
<1>8. BlocksTable'
  BY <1>2, <1>3 DEF TablesRight, BlocksTable
<1> QED  BY <1>6, <1>7, <1>8 DEF TablesRight

\* A step that leaves the lines and the table of the support functions alone keeps
\* it right.
LEMMA ThreadsKept ==
  ASSUME ThreadsTable, source' = source, threads' = threads,
         ~crashed' \/ phase' # "tables" => ~crashed \/ phase # "tables"
  PROVE  ThreadsTable'
<1>1. \A f, k : Read(f, k)' <=> Read(f, k)
  BY DEF Read, Erased, CodeSeen
<1>2. \A f, j, k : Answers(f, j, k)' <=> Answers(f, j, k)
  BY <1>1 DEF Answers, Pragma, CodeSeen
<1>3. \A fn, f, k : IsSupport(fn, f, k)' <=> IsSupport(fn, f, k)
  BY <1>2 DEF IsSupport
<1>4. \A r, f, k : Recomputes(r, f, k)' <=> Recomputes(r, f, k)
  BY <1>2 DEF Recomputes
<1>5. ASSUME NEW i \in DOMAIN threads, First(threads, i)'
      PROVE  FirstSupport(threads[i].name, threads[i].skippable_region)'
  <2>1. First(threads, i)
    BY <1>5 DEF First
  <2>2. FirstSupport(threads[i].name, threads[i].skippable_region)
    BY <2>1 DEF ThreadsTable
  <2> QED  BY <1>3, <1>4, <2>2 DEF FirstSupport
<1>6. ASSUME ~crashed' \/ phase' # "tables",
             NEW f \in DOMAIN source, NEW k \in DOMAIN source[f],
             IsSupport(source[f][k].function, f, k)'
      PROVE  \E i \in DOMAIN threads : threads[i].name = source[f][k].function
  BY <1>3, <1>6 DEF ThreadsTable
<1> QED  BY <1>5, <1>6 DEF ThreadsTable

\* Every step keeps the tables right.
LEMMA TablesNext ==
  ASSUME TypeOK, Cursor, Scan, Pending, TablesRight, [Next]_vars
  PROVE  TablesRight'
<1>1. CASE OpenFile /\ ~crashed
  BY <1>1, TablesOpening
<1>2. ASSUME NEW l \in Lines, CreateTables(l), ~crashed
      PROVE  TablesRight'
  BY <1>2, TriggersReading, ThreadsReading, BlocksReading DEF TablesRight
<1>3. CASE Link /\ ~crashed
  <2>1. /\ DOMAIN triggers' = DOMAIN triggers /\ source' = source /\ threads' = threads
        /\ blocks' = blocks /\ phase = "link" /\ phase' = "code"
    BY <1>3 DEF Link
  <2>2. ASSUME NEW i \in DOMAIN triggers
        PROVE  /\ triggers'[i].name = triggers[i].name
               /\ triggers'[i].support_thread = triggers[i].support_thread
    <3>1. triggers \in Seq([name : Texts, support_thread : Functions, state_variable : Nat])
      BY TypeFirst
    <3>2. triggers[i] \in [name : Texts, support_thread : Functions, state_variable : Nat]
      BY <3>1, TableShape, ElementOfSeq
    <3>3. triggers'[i] = [triggers[i] EXCEPT !.state_variable
                            = Lookup(threads, triggers[i].support_thread)]
      BY <1>3 DEF Link
    <3> QED  BY <3>2, <3>3
  <2>3. TriggersTable'
    <3>1. ASSUME NEW i \in DOMAIN triggers, First(triggers', i)
          PROVE  First(triggers, i)
      <4>1. \A j \in 1 .. i - 1 : j \in DOMAIN triggers
        BY TableShape
      <4> QED  BY <2>2, <3>1, <4>1 DEF First
    <3>2. ASSUME NEW i \in DOMAIN triggers, First(triggers', i)
          PROVE  \E v, fn : /\ v = triggers'[i].name /\ fn = triggers'[i].support_thread
                            /\ FirstTrigger(v, fn)'
      <4>1. PICK v, fn : v = triggers[i].name /\ fn = triggers[i].support_thread
        OBVIOUS
      <4>2. FirstTrigger(v, fn)
        BY <3>1, <3>2, <4>1 DEF TablesRight, TriggersTable
      <4>3. FirstTrigger(v, fn)'
        BY <2>1, <4>2 DEF FirstTrigger, IsTrigger, Read, Erased, CodeSeen
      <4> QED  BY <2>2, <4>1, <4>3
    <3>3. ASSUME NEW g \in DOMAIN source, NEW k \in DOMAIN source[g]
          PROVE  source[g][k].kind = "trigger" /\ Read(g, k) =>
                   \E i \in DOMAIN triggers' : triggers'[i].name = source[g][k].first
      BY <2>1, <2>2 DEF TablesRight, TriggersTable
    <3>4. \A g, k : Read(g, k)' <=> Read(g, k)
      BY <2>1 DEF Read, Erased, CodeSeen
    <3> QED  BY <2>1, <3>2, <3>3, <3>4 DEF TriggersTable
  <2>4. ThreadsTable'
    BY <1>3, <2>1, ThreadsKept DEF TablesRight
  <2>5. BlocksTable'
    BY <1>3, <2>1 DEF TablesRight, BlocksTable, Read, Erased, CodeSeen
  <2> QED  BY <2>3, <2>4, <2>5 DEF TablesRight
<1>4. CASE \/ ~crashed /\ (AllFilesRead \/ NextFile \/ Preprocess \/ Finish)
           \/ UNCHANGED vars
  <2>1. /\ source' = source /\ triggers' = triggers /\ threads' = threads /\ blocks' = blocks
        /\ \/ ~crashed
           \/ crashed' = crashed /\ phase' = phase
    <3>1. CASE Preprocess
      <4>1. CrashWriting \/ NextLine(source[file][pos + 1])
        BY <3>1 DEF Preprocess
      <4> QED  BY <1>4, <3>1, <4>1 DEF CrashWriting, NextLine, EraseLine, TranslateTrigger, TranslateBlock,
               TranslateAssignment, TranslateInclude, CopyLine, Translate, tables, vars
    <3> QED  BY <1>4, <3>1 DEF AllFilesRead, NextFile, Finish, tables, vars
  <2>2. TriggersTable'
    BY <2>1 DEF TablesRight, TriggersTable, FirstTrigger, IsTrigger, Read, Erased, CodeSeen
  <2>4. ThreadsTable'
    BY <2>1, ThreadsKept DEF TablesRight
  <2>3. BlocksTable'
    BY <2>1 DEF TablesRight, BlocksTable, Read, Erased, CodeSeen
  <2> QED  BY <2>2, <2>4, <2>3 DEF TablesRight
<1> QED  BY <1>1, <1>2, <1>3, <1>4 DEF Next, WholeFileStep

-----------------------------------------------------------------------------

\* What one step of preprocess does, line and output: p lines of file g have
\* been read, and its output has n lines.
WriteStep(l, left, lines, p, g, old) ==
  /\ l = source[g][p + 1] /\ Effect(l, left, lines)
  /\ p \in Nat /\ g \in DOMAIN source /\ p + 1 \in DOMAIN source[g]
  /\ Erased(g, p + 1) <=> ~left
  /\ pos' = p + 1 /\ file' = g /\ source' = source /\ phase = "code" /\ phase' = "code"
  /\ triggers' = triggers /\ threads' = threads /\ blocks' = blocks
  /\ g # 0 /\ g \in DOMAIN output /\ DOMAIN output' = DOMAIN output
  /\ \A f \in DOMAIN output : f # g => output'[f] = output[f]
  /\ old \in Nat /\ DOMAIN output[g] = 1 .. old
  /\ \A n \in 1 .. old : n \in DOMAIN output'[g] /\ output'[g][n] = output[g][n]
  /\ \A n \in DOMAIN lines :
       n \in Nat /\ n > 0 /\ old + n \in DOMAIN output'[g] /\ output'[g][old + n] = lines[n]
  /\ \A n \in DOMAIN output'[g] :
       n \in Nat /\ n > 0 /\ (n \in 1 .. old \/ (n > old /\ n - old \in DOMAIN lines))

\* The line that preprocess reads is erased when the comment flag says so.
LEMMA LineErased ==
  ASSUME TypeOK, Cursor, Scan, phase = "code", ~AtEnd, NEW l \in Lines, l = source[file][pos + 1]
  PROVE  Erased(file, pos + 1) <=> InsideAfter(l)
<1>1. file # 0 /\ pos \in Nat
  BY LineRead
<1>2. ErasedIn(source[file], pos + 1) <=>
        \/ l.comment \in {"open", "url"}
        \/ ErasedIn(source[file], pos) /\ l.comment \notin {"inline", "close"}
  BY <1>1, ErasedStep
<1>3. inside_comment <=> ErasedIn(source[file], pos)
  BY <1>1, ErasedIs DEF Scan
<1>4. ErasedIn(source[file], pos + 1) <=> InsideAfter(l)
  BY <1>2, <1>3, LineFacts DEF InsideAfter
<1> QED  BY <1>4, ErasedIs

\* Every line of preprocess is such a step.
LEMMA Writes ==
  ASSUME TypeOK, Cursor, Scan, Linked, Preprocess, ~CrashWriting,
         NEW p, p = pos, NEW g, g = file, NEW old, old = Len(output[g])
  PROVE  \E l \in Lines, left \in BOOLEAN, lines \in Seq(OutputLines) :
           WriteStep(l, left, lines, p, g, old)
<1> PICK l : l = source[file][pos + 1]
  OBVIOUS
<1>1. /\ phase = "code" /\ ~AtEnd /\ ~FollowsNullInCode(l) /\ NextLine(l) /\ l \in Lines
      /\ file # 0 /\ pos \in Nat /\ file \in DOMAIN source /\ pos + 1 \in DOMAIN source[file]
      /\ file \in DOMAIN output
  BY PreprocessCases, LineRead
<1>2. PICK left \in BOOLEAN, lines \in Seq(OutputLines) :
        Translate(l, left, lines) /\ Effect(l, left, lines)
  BY <1>1, Effects
<1>3. /\ pos' = pos + 1 /\ file' = file /\ source' = source /\ phase' = "code"
      /\ triggers' = triggers /\ threads' = threads /\ blocks' = blocks
      /\ left <=> ~InsideAfter(l)
  BY <1>1, <1>2, InsideIsBoolean DEF Translate, tables
<1>4. Erased(file, pos + 1) <=> ~left
  BY <1>1, <1>3, LineErased
<1>5. Len(output[file]) \in Nat /\ DOMAIN output[file] = 1 .. Len(output[file])
  BY <1>1, OutputShape
<1>6. Len(lines) \in Nat /\ DOMAIN lines = 1 .. Len(lines)
  BY LenProperties
<1>7. /\ DOMAIN output' = DOMAIN output
      /\ \A f \in DOMAIN output : f # file => output'[f] = output[f]
      /\ DOMAIN output'[file] = 1 .. Len(output[file]) + Len(lines)
      /\ \A n \in DOMAIN output[file] :
           n \in DOMAIN output'[file] /\ output'[file][n] = output[file][n]
      /\ \A n \in DOMAIN lines :
           /\ Len(output[file]) + n \in DOMAIN output'[file]
           /\ output'[file][Len(output[file]) + n] = lines[n]
      /\ \A n \in DOMAIN output'[file] :
           n \in DOMAIN output[file] \/ n - Len(output[file]) \in DOMAIN lines
  BY <1>1, <1>2, Written
<1>8. \A n \in DOMAIN output'[file] :
        n \in Nat /\ n > 0 /\ (n \in 1 .. Len(output[file])
                               \/ (n > Len(output[file]) /\ n - Len(output[file]) \in DOMAIN lines))
  BY <1>5, <1>6, <1>7
<1>9. \A n \in DOMAIN lines : n \in Nat /\ n > 0
  BY <1>6
<1> QED  BY <1>1, <1>2, <1>3, <1>4, <1>5, <1>7, <1>8, <1>9 DEF WriteStep

\* A line of preprocess is copied once, behind those before it, unless it is
\* erased.
LEMMA CopiesWriting ==
  ASSUME TypeOK, Cursor, Scan, Linked, Copies, Preprocess, ~CrashWriting
  PROVE  Copies'
<1> PICK p, g, old : p = pos /\ g = file /\ old = Len(output[g])
  OBVIOUS
<1>0. PICK l \in Lines, left \in BOOLEAN, lines \in Seq(OutputLines) :
        WriteStep(l, left, lines, p, g, old)
  BY Writes
<1>1. /\ l = source[g][p + 1] /\ Effect(l, left, lines)
      /\ p \in Nat /\ g \in DOMAIN source /\ p + 1 \in DOMAIN source[g]
      /\ Erased(g, p + 1) <=> ~left
      /\ pos' = p + 1 /\ file' = g /\ source' = source /\ phase = "code" /\ phase' = "code"
      /\ triggers' = triggers /\ threads' = threads /\ blocks' = blocks
      /\ g # 0 /\ g \in DOMAIN output /\ DOMAIN output' = DOMAIN output
      /\ \A f \in DOMAIN output : f # g => output'[f] = output[f]
      /\ old \in Nat /\ DOMAIN output[g] = 1 .. old
      /\ \A n \in 1 .. old : n \in DOMAIN output'[g] /\ output'[g][n] = output[g][n]
      /\ \A n \in DOMAIN lines :
           n \in Nat /\ n > 0 /\ old + n \in DOMAIN output'[g] /\ output'[g][old + n] = lines[n]
      /\ \A n \in DOMAIN output'[g] :
           n \in Nat /\ n > 0 /\ (n \in 1 .. old \/ (n > old /\ n - old \in DOMAIN lines))
  BY <1>0 DEF WriteStep
<1>2. \A f, k : Erased(f, k)' <=> Erased(f, k)
  BY <1>1 DEF Erased
<1>3. CopiesOf(g, p)
  BY <1>1 DEF Copies
<1>4. \A k : Copy(k).op = "copy" /\ Copy(k).line = k
  BY DEF Copy
<1>5. OneCopy(left, lines)
  BY <1>1 DEF Effect
<1>6. ASSUME NEW n \in DOMAIN output'[g], output'[g][n].op = "copy"
      PROVE  \/ n \in 1 .. old /\ output'[g][n] = output[g][n]
             \/ /\ n > old /\ left /\ output'[g][n].line = p + 1
                /\ \A c \in DOMAIN lines : lines[c].op = "copy" => n = old + c
  <2>1. CASE n \in 1 .. old
    BY <1>1, <2>1
  <2>2. CASE n > old /\ n - old \in DOMAIN lines
    <3>1. output'[g][n] = lines[n - old]
      <4>1. n = old + (n - old)
        BY <1>1, <2>2
      <4> QED  BY <1>1, <2>2, <4>1
    <3>2. left
      BY <1>5, <2>2 DEF OneCopy
    <3>3. PICK c \in DOMAIN lines :
            lines[c] = Copy(p + 1) /\ \A i \in DOMAIN lines : i # c => lines[i].op # "copy"
      BY <1>5, <3>2 DEF OneCopy
    <3>4. n - old = c
      BY <1>6, <2>2, <3>1, <3>3
    <3>5. n = old + c
      BY <1>1, <2>2, <3>4
    <3> QED  BY <1>4, <2>2, <3>1, <3>2, <3>3, <3>4, <3>5
  <2> QED  BY <1>1, <1>6, <2>1, <2>2
<1>7. ASSUME NEW n \in DOMAIN output'[g], output'[g][n].op = "copy"
      PROVE  output'[g][n].line \in 1 .. p + 1 /\ ~Erased(g, output'[g][n].line)
  <2>1. CASE n \in 1 .. old /\ output'[g][n] = output[g][n]
    <3>1. output[g][n].line \in 1 .. p /\ ~Erased(g, output[g][n].line)
      BY <1>1, <1>3, <1>7, <2>1 DEF CopiesOf
    <3> QED  BY <1>1, <2>1, <3>1
  <2>2. CASE left /\ output'[g][n].line = p + 1
    BY <1>1, <2>2
  <2> QED  BY <1>6, <1>7, <2>1, <2>2
<1>8. ASSUME NEW k \in 1 .. p + 1, ~Erased(g, k)
      PROVE  \E n \in DOMAIN output'[g] : output'[g][n].op = "copy" /\ output'[g][n].line = k
  <2>1. CASE k = p + 1
    <3>1. left
      BY <1>1, <1>8, <2>1
    <3>2. PICK c \in DOMAIN lines : lines[c] = Copy(p + 1)
      BY <1>5, <3>1 DEF OneCopy
    <3>3. old + c \in DOMAIN output'[g] /\ output'[g][old + c] = Copy(p + 1)
      BY <1>1, <3>2
    <3> QED  BY <1>4, <2>1, <3>3
  <2>2. CASE k # p + 1
    <3>1. k \in 1 .. p
      BY <1>1, <2>2
    <3>2. PICK n \in DOMAIN output[g] : output[g][n].op = "copy" /\ output[g][n].line = k
      BY <1>3, <1>8, <3>1 DEF CopiesOf
    <3> QED  BY <1>1, <3>2
  <2> QED  BY <2>1, <2>2
<1>9. ASSUME NEW m \in DOMAIN output'[g], NEW n \in DOMAIN output'[g],
             output'[g][m].op = "copy", output'[g][n].op = "copy", m < n
      PROVE  output'[g][m].line < output'[g][n].line
  <2>1. CASE n \in 1 .. old /\ output'[g][n] = output[g][n]
    <3>1. m \in 1 .. old /\ output'[g][m] = output[g][m]
      BY <1>1, <1>9, <2>1
    <3>2. m \in DOMAIN output[g] /\ n \in DOMAIN output[g]
      BY <1>1, <2>1, <3>1
    <3>3. output[g][m].op = "copy" /\ output[g][n].op = "copy"
      BY <1>9, <2>1, <3>1
    <3>4. output[g][m].line < output[g][n].line
      BY <1>3, <1>9, <3>2, <3>3 DEF CopiesOf
    <3> QED  BY <2>1, <3>1, <3>4
  <2>2. CASE /\ n > old /\ left /\ output'[g][n].line = p + 1
             /\ \A c \in DOMAIN lines : lines[c].op = "copy" => n = old + c
    <3>1. CASE m \in 1 .. old /\ output'[g][m] = output[g][m]
      <4>1. output[g][m].line \in 1 .. p
        BY <1>1, <1>3, <1>9, <3>1 DEF CopiesOf
      <4> QED  BY <1>1, <2>2, <3>1, <4>1
    <3>2. CASE m > old /\ \A c \in DOMAIN lines : lines[c].op = "copy" => m = old + c
      <4>1. PICK c \in DOMAIN lines : lines[c] = Copy(p + 1)
        BY <1>5, <2>2 DEF OneCopy
      <4>2. lines[c].op = "copy"
        BY <1>4, <4>1
      <4>3. m = old + c /\ n = old + c
        BY <2>2, <3>2, <4>2
      <4>4. old + c \in Nat
        BY <1>1
      <4> QED  BY <1>9, <4>3, <4>4
    <3> QED  BY <1>6, <1>9, <3>1, <3>2
  <2> QED  BY <1>6, <1>9, <2>1, <2>2
<1>10. CopiesOf(g, p + 1)'
  <2>1. PICK q : q = p + 1
    OBVIOUS
  <2>2. CopiesOf(g, q)'
    BY <1>1, <1>7, <1>8, <1>9, <2>1 DEF CopiesOf, Erased
  <2> QED  BY <2>1, <2>2 DEF CopiesOf
<1>11. ASSUME NEW f \in DOMAIN output, f # g, NEW q, q = Len(source[f])
       PROVE  CopiesOf(f, q)'
  <2>1. CopiesOf(f, q)
    BY <1>1, <1>11 DEF Copies
  <2>2. output'[f] = output[f] /\ source' = source
    BY <1>1, <1>11
  <2> QED  BY <2>1, <2>2 DEF CopiesOf, Erased
<1>12. ASSUME NEW f \in DOMAIN output', NEW q, q = IF f = file' THEN pos' ELSE Len(source'[f])
       PROVE  CopiesOf(f, q)'
  <2>1. CASE f = g
    <3>1. q = p + 1
      BY <1>1, <1>12, <2>1
    <3> QED  BY <1>10, <2>1, <3>1 DEF CopiesOf
  <2>2. CASE f # g
    BY <1>1, <1>11, <1>12, <2>2
  <2> QED  BY <2>1, <2>2
<1> QED  BY <1>12 DEF Copies

\* What a line of the output was before a step of preprocess, or where it is
\* among the lines the step has written.
LEMMA LineWritten ==
  ASSUME NEW l, NEW left, NEW lines, NEW p, NEW g, NEW old, WriteStep(l, left, lines, p, g, old),
         p = pos, NEW n \in DOMAIN output'[g]
  PROVE  /\ n \in Nat /\ old \in Nat
         /\ \/ n \in 1 .. old /\ output'[g][n] = output[g][n]
            \/ n > old /\ n - old \in DOMAIN lines /\ output'[g][n] = lines[n - old]
         /\ output'[g][n].op = "copy" /\ n > old =>
              left /\ output'[g][n].line = p + 1
<1>1. /\ old \in Nat /\ n \in Nat /\ Effect(l, left, lines)
      /\ n \in 1 .. old => output'[g][n] = output[g][n]
      /\ n \in 1 .. old \/ (n > old /\ n - old \in DOMAIN lines)
  BY DEF WriteStep
<1>2. CASE n \in 1 .. old
  BY <1>1, <1>2
<1>3. CASE n > old /\ n - old \in DOMAIN lines
  <2>1. n = old + (n - old)
    BY <1>1
  <2>2. output'[g][n] = lines[n - old]
    BY <1>3, <2>1 DEF WriteStep
  <2>3. ASSUME lines[n - old].op = "copy"
        PROVE  left /\ lines[n - old].line = p + 1
    <3>1. OneCopy(left, lines) /\ (left = TRUE \/ left = FALSE \/ left \notin BOOLEAN)
      BY <1>1 DEF Effect
    <3>2. left
      BY <1>3, <2>3 DEF WriteStep, Effect, OneCopy
    <3>3. PICK c \in DOMAIN lines :
            lines[c] = Copy(pos + 1) /\ \A i \in DOMAIN lines : i # c => lines[i].op # "copy"
      BY <3>1, <3>2 DEF OneCopy
    <3>4. n - old = c
      BY <1>3, <2>3, <3>3
    <3>5. Copy(pos + 1).line = p + 1
      BY DEF Copy
    <3> QED  BY <3>2, <3>3, <3>4, <3>5
  <2> QED  BY <1>1, <1>3, <2>2, <2>3
<1> QED  BY <1>1, <1>2, <1>3

\* There is no output before the second pass.
LEMMA NoOutput ==
  ASSUME TypeOK, Cursor, file = 0
  PROVE  DOMAIN output = {}
<1>1. Len(output) = 0 /\ DOMAIN output = 1 .. Len(output)
  BY LenProperties DEF TypeOK, Cursor
<1> QED  BY <1>1

\* A new file has an empty output.
LEMMA NewFile ==
  ASSUME TypeOK, Cursor, NextFile, NEW g, g = file
  PROVE  /\ g \in Nat /\ DOMAIN output = 1 .. g /\ DOMAIN output' = 1 .. g + 1
         /\ \A f \in 1 .. g : output'[f] = output[f]
         /\ DOMAIN output'[g + 1] = {} /\ g + 1 \in DOMAIN source
         /\ g # 0 => pos = Len(source[g])
<1>1. output \in Seq(Seq(OutputLines)) /\ Len(output) = g /\ g \in Nat
  BY Shape, TypeFirst DEF Cursor
<1>2. <<>> \in Seq(OutputLines) /\ DOMAIN <<>> = {}
  BY NoLines
<1>3. output' = Append(output, <<>>)
  BY DEF NextFile
<1>4. /\ Len(output') = g + 1 /\ output'[g + 1] = <<>> /\ output' \in Seq(Seq(OutputLines))
      /\ \A f \in 1 .. g : output'[f] = output[f]
  BY <1>1, <1>2, <1>3, AppendProperties
<1>5. DOMAIN output = 1 .. g /\ DOMAIN output' = 1 .. g + 1
  BY <1>1, <1>4, LenProperties
<1>6. g + 1 \in DOMAIN source /\ (g # 0 => pos = Len(source[g]))
  BY <1>1, Shape DEF NextFile, AtEnd
<1> QED  BY <1>1, <1>2, <1>4, <1>5, <1>6

\* Every other step leaves the output alone, and the source when there is any.
LEMMA OtherSteps ==
  ASSUME TypeOK, Cursor, [Next]_vars, ~NextFile, ~Preprocess \/ CrashWriting
  PROVE  /\ output' = output /\ file' = file /\ pos' = pos
         /\ in_main' = in_main /\ dtt_initialized' = dtt_initialized
         /\ variable_declared' = variable_declared
         /\ \/ file = 0
            \/ /\ source' = source /\ triggers' = triggers /\ threads' = threads
               /\ blocks' = blocks /\ (crashed' = crashed \/ CrashWriting)
<1>1. CASE OpenFile
  BY <1>1 DEF OpenFile, writer, Cursor
<1>2. ASSUME NEW l \in Lines, CreateTables(l)
      PROVE  UNCHANGED writer /\ phase = "tables"
  BY <1>2, ReadingCases DEF ReadLine
<1>3. CASE AllFilesRead
  BY <1>3 DEF AllFilesRead, writer, Cursor
<1>4. CASE Link
  BY <1>4 DEF Link, writer, Cursor
<1>5. CASE Finish
  BY <1>5 DEF Finish, writer, tables
<1>6. CASE UNCHANGED vars
  BY <1>6 DEF vars, writer, tables
<1>7. CASE UNCHANGED writer /\ phase = "tables"
  BY <1>7 DEF writer, Cursor
<1>8. CASE CrashWriting
  BY <1>8 DEF CrashWriting, writer, tables
<1> QED  BY <1>1, <1>2, <1>3, <1>4, <1>5, <1>6, <1>7, <1>8 DEF Next, WholeFileStep

\* Every step keeps the copies.
LEMMA CopiesNext ==
  ASSUME TypeOK, Cursor, Scan, Linked, Copies, [Next]_vars
  PROVE  Copies'
<1>1. CASE Preprocess /\ ~CrashWriting
  BY <1>1, CopiesWriting
<1>2. CASE NextFile
  <2> PICK g : g = file
    OBVIOUS
  <2>1. /\ g \in Nat /\ DOMAIN output = 1 .. g /\ DOMAIN output' = 1 .. g + 1
        /\ \A f \in 1 .. g : output'[f] = output[f]
        /\ DOMAIN output'[g + 1] = {} /\ g + 1 \in DOMAIN source
        /\ g # 0 => pos = Len(source[g])
    BY <1>2, NewFile
  <2>2. file' = g + 1 /\ pos' = 0 /\ source' = source
    BY <1>2 DEF NextFile
  <2>3. ASSUME NEW f \in DOMAIN output', NEW q,
               q = IF f = file' THEN pos' ELSE Len(source'[f])
        PROVE  CopiesOf(f, q)'
    <3>1. CASE f = g + 1
      <4>1. q = 0 /\ DOMAIN output'[f] = {}
        BY <2>1, <2>2, <2>3, <3>1
      <4> QED  BY <4>1 DEF CopiesOf
    <3>2. CASE f # g + 1
      <4>1. f \in 1 .. g /\ q = Len(source[f]) /\ output'[f] = output[f]
        BY <2>1, <2>2, <2>3, <3>2
      <4>2. q = IF f = file THEN pos ELSE Len(source[f])
        BY <2>1, <4>1
      <4>3. CopiesOf(f, q)
        BY <2>1, <4>1, <4>2 DEF Copies
      <4> QED  BY <2>2, <4>1, <4>3 DEF CopiesOf, Erased
    <3> QED  BY <3>1, <3>2
  <2> QED  BY <2>3 DEF Copies
<1>3. CASE (~Preprocess \/ CrashWriting) /\ ~NextFile
  <2>1. /\ output' = output /\ file' = file /\ pos' = pos
        /\ file = 0 \/ source' = source
    BY <1>3, OtherSteps
  <2>2. CASE file = 0
    BY <2>1, <2>2, NoOutput DEF Copies
  <2>3. CASE source' = source
    BY <2>1, <2>3 DEF Copies, CopiesOf, Erased
  <2> QED  BY <2>1, <2>2, <2>3
<1> QED  BY <1>1, <1>2, <1>3

\* A line of preprocess keeps the flags true to the output of its file,
LEMMA FlagsWriting ==
  ASSUME TypeOK, Cursor, Scan, Linked, Flags, Preprocess, ~CrashWriting
  PROVE  Flags'
<1> PICK p, g, old : p = pos /\ g = file /\ old = Len(output[g])
  OBVIOUS
<1>0. PICK l \in Lines, left \in BOOLEAN, lines \in Seq(OutputLines) :
        WriteStep(l, left, lines, p, g, old)
  BY Writes
<1>1. /\ l = source[g][p + 1] /\ old \in Nat /\ file' = g /\ g # 0 /\ source' = source
      /\ blocks' = blocks /\ DOMAIN output[g] = 1 .. old
      /\ \A n \in 1 .. old : n \in DOMAIN output'[g] /\ output'[g][n] = output[g][n]
      /\ \A n \in DOMAIN lines :
           n \in Nat /\ n > 0 /\ old + n \in DOMAIN output'[g] /\ output'[g][old + n] = lines[n]
  BY <1>0 DEF WriteStep
<1>2. /\ \A n \in DOMAIN lines : lines[n].op = "init" => Starts(l, left)
      /\ Starts(l, left) => 1 \in DOMAIN lines /\ lines[1].op = "init"
      /\ left /\ l.kind = "include" /\ ~variable_declared =>
           \A i \in DOMAIN blocks : \E n \in DOMAIN lines :
             lines[n].op = "state" /\ lines[n].region = blocks[i]
      /\ dtt_initialized' <=> (dtt_initialized \/ Starts(l, left))
      /\ in_main' <=> \/ in_main /\ ~Starts(l, left)
                      \/ left /\ l.kind = "main" /\ ~dtt_initialized
      /\ variable_declared' <=> (variable_declared \/ (left /\ l.kind = "include"))
  BY <1>0 DEF WriteStep, Effect
<1>3. \A n \in DOMAIN output'[g] :
        /\ \/ n \in 1 .. old /\ output'[g][n] = output[g][n]
           \/ n > old /\ n - old \in DOMAIN lines /\ output'[g][n] = lines[n - old]
        /\ output'[g][n].op = "copy" /\ n > old => left /\ output'[g][n].line = p + 1
  BY <1>0, LineWritten
<1>4. /\ dtt_initialized <=> \E n \in 1 .. old : output[g][n].op = "init"
      /\ ~in_main /\ ~dtt_initialized =>
           \A n \in 1 .. old : output[g][n].op = "copy" =>
              source[g][output[g][n].line].kind # "main"
      /\ variable_declared =>
           \A i \in DOMAIN blocks : \E n \in 1 .. old :
             output[g][n].op = "state" /\ output[g][n].region = blocks[i]
      /\ ~variable_declared =>
           \A n \in 1 .. old : output[g][n].op = "copy" =>
              source[g][output[g][n].line].kind # "include"
  <2>1. file = g /\ g # 0 /\ DOMAIN output[g] = 1 .. old
    BY <1>1
  <2> QED  BY <2>1 DEF Flags
<1>5. dtt_initialized' <=> \E n \in DOMAIN output'[g] : output'[g][n].op = "init"
  <2>1. ASSUME dtt_initialized' PROVE \E n \in DOMAIN output'[g] : output'[g][n].op = "init"
    <3>1. CASE dtt_initialized
      BY <1>1, <1>4, <3>1
    <3>2. CASE Starts(l, left)
      <4>1. old + 1 \in DOMAIN output'[g] /\ output'[g][old + 1] = lines[1]
        BY <1>1, <1>2, <3>2
      <4> QED  BY <1>2, <3>2, <4>1
    <3> QED  BY <1>2, <2>1, <3>1, <3>2
  <2>2. ASSUME NEW n \in DOMAIN output'[g], output'[g][n].op = "init" PROVE dtt_initialized'
    BY <1>2, <1>3, <1>4, <2>2
  <2> QED  BY <2>1, <2>2
<1>6. ASSUME ~in_main', ~dtt_initialized', NEW n \in DOMAIN output'[g], output'[g][n].op = "copy"
      PROVE  source[g][output'[g][n].line].kind # "main"
  <2>0. ~dtt_initialized /\ ~Starts(l, left)
    BY <1>2, <1>6
  <2>3. ~in_main /\ ~dtt_initialized /\ ~(left /\ l.kind = "main")
    BY <1>2, <1>6, <2>0
  <2>1. CASE n \in 1 .. old /\ output'[g][n] = output[g][n]
    BY <1>4, <1>6, <2>3, <2>1
  <2>2. CASE left /\ output'[g][n].line = p + 1
    BY <1>1, <2>3, <2>2
  <2> QED  BY <1>3, <1>6, <2>1, <2>2
<1>7. ASSUME variable_declared', NEW i \in DOMAIN blocks
      PROVE  \E n \in DOMAIN output'[g] :
               output'[g][n].op = "state" /\ output'[g][n].region = blocks[i]
  <2>1. CASE variable_declared
    <3>1. PICK n \in 1 .. old : output[g][n].op = "state" /\ output[g][n].region = blocks[i]
      BY <1>4, <2>1
    <3> QED  BY <1>1, <3>1
  <2>2. CASE ~variable_declared
    <3>1. PICK n \in DOMAIN lines : lines[n].op = "state" /\ lines[n].region = blocks[i]
      BY <1>2, <1>7, <2>2
    <3> QED  BY <1>1, <3>1
  <2> QED  BY <2>1, <2>2
<1>8. ASSUME ~variable_declared', NEW n \in DOMAIN output'[g], output'[g][n].op = "copy"
      PROVE  source[g][output'[g][n].line].kind # "include"
  <2>1. CASE n \in 1 .. old /\ output'[g][n] = output[g][n]
    BY <1>2, <1>4, <1>8, <2>1
  <2>2. CASE left /\ output'[g][n].line = p + 1
    BY <1>1, <1>2, <1>8, <2>2
  <2> QED  BY <1>3, <1>8, <2>1, <2>2
<1> QED  BY <1>1, <1>5, <1>6, <1>7, <1>8 DEF Flags

\* and so does every step: a new file has no output and its flags are clear.
LEMMA FlagsNext ==
  ASSUME TypeOK, Cursor, Scan, Linked, Flags, [Next]_vars
  PROVE  Flags'
<1>1. CASE Preprocess /\ ~CrashWriting
  BY <1>1, FlagsWriting
<1>2. CASE NextFile
  <2> PICK g : g = file
    OBVIOUS
  <2>1. file' = g + 1 /\ DOMAIN output'[g + 1] = {}
    BY <1>2, NewFile DEF NextFile
  <2>2. ~in_main' /\ ~dtt_initialized' /\ ~variable_declared'
    BY <1>2 DEF NextFile
  <2> QED  BY <2>1, <2>2 DEF Flags
<1>3. CASE (~Preprocess \/ CrashWriting) /\ ~NextFile
  <2>1. /\ output' = output /\ file' = file
        /\ in_main' = in_main /\ dtt_initialized' = dtt_initialized
        /\ variable_declared' = variable_declared
        /\ file = 0 \/ (source' = source /\ blocks' = blocks)
    BY <1>3, OtherSteps
  <2> QED  BY <2>1 DEF Flags
<1> QED  BY <1>1, <1>2, <1>3


-----------------------------------------------------------------------------

\* The two halves of StoresTrigger at line n of the output of file f, in terms
\* of the tables.
Preceded(f, n) ==
  LET o == output[f][n] IN
  (o.op = "copy" /\ source[f][o.line].kind = "assign"
     /\ Lookup(triggers, source[f][o.line].second) # 0)
  => /\ n - 1 \in DOMAIN output[f] /\ output[f][n - 1].op = "tstore"
     /\ n - 2 \in DOMAIN output[f] /\ output[f][n - 2].op = "save"

\* A tstore is the one meant, and its assignment is under it.
Followed(f, n) ==
  LET o == output[f][n] IN
  o.op = "tstore" =>
    /\ FirstTrigger(o.name, o.function) /\ FirstSupport(o.function, o.region)
    /\ n + 1 \in DOMAIN output[f] /\ output[f][n + 1].op = "copy"
    /\ source[f][output[f][n + 1].line].second = o.name

\* All lines of all outputs, until the program crashes.
Stored ==
  ~crashed => \A f \in DOMAIN output : \A n \in DOMAIN output[f] : Preceded(f, n) /\ Followed(f, n)

\* The tstore written for a trigger has the function and the region that its
\* first #trigger and the first function of that name give it.
LEMMA StoreIsMeant ==
  ASSUME TypeOK, Linked, TablesRight, phase = "code", NEW l, StateOf(l.second) # 0
  PROVE  /\ StoreOf(l).name = l.second
         /\ FirstTrigger(StoreOf(l).name, StoreOf(l).function)
         /\ FirstSupport(StoreOf(l).function, StoreOf(l).region)
<1> PICK k, s : k = Lookup(triggers, l.second) /\ s = StateOf(l.second)
  OBVIOUS
<1>1. /\ k \in DOMAIN triggers /\ triggers[k].name = l.second /\ First(triggers, k)
      /\ s \in DOMAIN threads /\ threads[s].name = triggers[k].support_thread
      /\ First(threads, s)
  BY Entries
<1>2. FirstTrigger(triggers[k].name, triggers[k].support_thread)
  BY <1>1 DEF TablesRight, TriggersTable
<1>3. FirstSupport(threads[s].name, threads[s].skippable_region)
  BY <1>1 DEF TablesRight, ThreadsTable
<1>4. /\ StoreOf(l).name = l.second /\ StoreOf(l).function = triggers[k].support_thread
      /\ StoreOf(l).region = threads[s].skippable_region
  BY DEF StoreOf, Generate
<1> QED  BY <1>1, <1>2, <1>3, <1>4

\* What comes first is read off the source.
LEMMA FirstsKept ==
  ASSUME source' = source, NEW v, NEW fn, NEW r
  PROVE  /\ FirstTrigger(v, fn)' <=> FirstTrigger(v, fn)
         /\ FirstSupport(fn, r)' <=> FirstSupport(fn, r)
BY DEF FirstTrigger, FirstSupport, IsTrigger, IsSupport, Recomputes, Answers, Read, Erased,
       Pragma, CodeSeen

\* The line of an output that a step leaves alone.
LEMMA StoreKept ==
  ASSUME source' = source, triggers' = triggers, NEW f, output'[f] = output[f], NEW n,
         Preceded(f, n), Followed(f, n)
  PROVE  Preceded(f, n)' /\ Followed(f, n)'
<1>1. Preceded(f, n)'
  <2>1. \A x : Lookup(triggers', x) = Lookup(triggers, x)
    OBVIOUS
  <2> QED  BY <2>1 DEF Preceded
<1>2. PICK o : o = output[f][n]
  OBVIOUS
<1>3. ASSUME o.op = "tstore"
      PROVE  /\ FirstTrigger(o.name, o.function)' /\ FirstSupport(o.function, o.region)'
             /\ n + 1 \in DOMAIN output[f] /\ output[f][n + 1].op = "copy"
             /\ source[f][output[f][n + 1].line].second = o.name
  <2>1. /\ FirstTrigger(o.name, o.function) /\ FirstSupport(o.function, o.region)
        /\ n + 1 \in DOMAIN output[f] /\ output[f][n + 1].op = "copy"
        /\ source[f][output[f][n + 1].line].second = o.name
    BY <1>2, <1>3 DEF Followed
  <2> QED  BY <2>1, FirstsKept
<1>4. Followed(f, n)'
  BY <1>2, <1>3 DEF Followed, FirstTrigger, FirstSupport
<1> QED  BY <1>1, <1>4

\* A line of preprocess keeps both halves: the save, the tstore and the
\* assignment are written together, and without a state there is a crash.
LEMMA StoredWriting ==
  ASSUME TypeOK, Cursor, Scan, Linked, TablesRight, Stored, ~crashed, Preprocess
  PROVE  Stored'
<1> SUFFICES ASSUME ~crashed'
             PROVE  Stored'
  BY DEF Stored
<1> ~CrashWriting
  BY DEF CrashWriting
<1> PICK p, g, old : p = pos /\ g = file /\ old = Len(output[g])
  OBVIOUS
<1>0. PICK l \in Lines, left \in BOOLEAN, lines \in Seq(OutputLines) :
        WriteStep(l, left, lines, p, g, old)
  BY Writes
<1>1. /\ l = source[g][p + 1] /\ p \in Nat /\ old \in Nat /\ file' = g /\ source' = source
      /\ phase = "code" /\ triggers' = triggers /\ DOMAIN output[g] = 1 .. old
      /\ g \in DOMAIN output /\ DOMAIN output' = DOMAIN output
      /\ \A f \in DOMAIN output : f # g => output'[f] = output[f]
      /\ \A n \in 1 .. old : n \in DOMAIN output'[g] /\ output'[g][n] = output[g][n]
      /\ \A n \in DOMAIN lines :
           n \in Nat /\ n > 0 /\ old + n \in DOMAIN output'[g] /\ output'[g][old + n] = lines[n]
  BY <1>0 DEF WriteStep
<1>2. /\ \A n \in DOMAIN lines :
           /\ lines[n].op = "tstore" =>
                /\ l.kind = "assign" /\ StateOf(l.second) # 0 /\ lines[n] = StoreOf(l)
                /\ n + 1 \in DOMAIN lines /\ lines[n + 1] = Copy(pos + 1)
           /\ lines[n].op = "copy" /\ l.kind = "assign" /\ StateOf(l.second) # 0 =>
                /\ n - 1 \in DOMAIN lines /\ lines[n - 1].op = "tstore"
                /\ n - 2 \in DOMAIN lines /\ lines[n - 2].op = "save"
      /\ left /\ l.kind = "assign" /\ Lookup(triggers, l.second) # 0 => StateOf(l.second) # 0
  BY <1>0 DEF WriteStep, Effect, StateFound
<1>3. \A n \in DOMAIN output'[g] :
        /\ n \in Nat
        /\ \/ n \in 1 .. old /\ output'[g][n] = output[g][n]
           \/ n > old /\ n - old \in DOMAIN lines /\ output'[g][n] = lines[n - old]
        /\ output'[g][n].op = "copy" /\ n > old => left /\ output'[g][n].line = p + 1
  BY <1>0, LineWritten
<1>4. Copy(pos + 1).op = "copy" /\ Copy(pos + 1).line = p + 1
  BY DEF Copy
<1>5. \A f \in DOMAIN output : \A n \in DOMAIN output[f] : Preceded(f, n) /\ Followed(f, n)
  BY DEF Stored
<1>6. ASSUME NEW n \in DOMAIN output'[g], output'[g][n].op = "copy",
             source[g][output'[g][n].line].kind = "assign",
             Lookup(triggers, source[g][output'[g][n].line].second) # 0
      PROVE  /\ n - 1 \in DOMAIN output'[g] /\ output'[g][n - 1].op = "tstore"
             /\ n - 2 \in DOMAIN output'[g] /\ output'[g][n - 2].op = "save"
  <2>1. CASE n \in 1 .. old /\ output'[g][n] = output[g][n]
    <3>1. Preceded(g, n)
      BY <1>1, <1>5, <2>1
    <3>2. /\ n - 1 \in 1 .. old /\ output[g][n - 1].op = "tstore"
          /\ n - 2 \in 1 .. old /\ output[g][n - 2].op = "save"
      BY <1>1, <1>6, <2>1, <3>1 DEF Preceded
    <3> QED  BY <1>1, <3>2
  <2>2. CASE n > old /\ n - old \in DOMAIN lines /\ output'[g][n] = lines[n - old]
    <3>1. left /\ l.kind = "assign" /\ Lookup(triggers, l.second) # 0
      BY <1>1, <1>3, <1>6, <2>2
    <3>2. StateOf(l.second) # 0
      BY <1>2, <3>1
    <3>3. /\ (n - old) - 1 \in DOMAIN lines /\ lines[(n - old) - 1].op = "tstore"
          /\ (n - old) - 2 \in DOMAIN lines /\ lines[(n - old) - 2].op = "save"
      BY <1>2, <1>6, <2>2, <3>1, <3>2
    <3>4. old + ((n - old) - 1) = n - 1 /\ old + ((n - old) - 2) = n - 2
      BY <1>1, <1>3
    <3>5. /\ old + ((n - old) - 1) \in DOMAIN output'[g]
          /\ output'[g][old + ((n - old) - 1)] = lines[(n - old) - 1]
      BY <1>1, <3>3
    <3>6. /\ old + ((n - old) - 2) \in DOMAIN output'[g]
          /\ output'[g][old + ((n - old) - 2)] = lines[(n - old) - 2]
      BY <1>1, <3>3
    <3> QED  BY <3>3, <3>4, <3>5, <3>6
  <2> QED  BY <1>3, <2>1, <2>2
<1>7. ASSUME NEW n \in DOMAIN output'[g], output'[g][n].op = "tstore"
      PROVE  /\ FirstTrigger(output'[g][n].name, output'[g][n].function)
             /\ FirstSupport(output'[g][n].function, output'[g][n].region)
             /\ n + 1 \in DOMAIN output'[g] /\ output'[g][n + 1].op = "copy"
             /\ source[g][output'[g][n + 1].line].second = output'[g][n].name
  <2>1. CASE n \in 1 .. old /\ output'[g][n] = output[g][n]
    <3>1. Followed(g, n)
      BY <1>1, <1>5, <2>1
    <3>2. /\ FirstTrigger(output[g][n].name, output[g][n].function)
          /\ FirstSupport(output[g][n].function, output[g][n].region)
          /\ n + 1 \in 1 .. old /\ output[g][n + 1].op = "copy"
          /\ source[g][output[g][n + 1].line].second = output[g][n].name
      BY <1>1, <1>7, <2>1, <3>1 DEF Followed
    <3> QED  BY <1>1, <2>1, <3>2
  <2>2. CASE n > old /\ n - old \in DOMAIN lines /\ output'[g][n] = lines[n - old]
    <3>1. /\ StateOf(l.second) # 0 /\ output'[g][n] = StoreOf(l)
          /\ (n - old) + 1 \in DOMAIN lines /\ lines[(n - old) + 1] = Copy(pos + 1)
      BY <1>2, <1>7, <2>2
    <3>2. old + ((n - old) + 1) = n + 1
      BY <1>1, <1>3
    <3>3. /\ old + ((n - old) + 1) \in DOMAIN output'[g]
          /\ output'[g][old + ((n - old) + 1)] = lines[(n - old) + 1]
      BY <1>1, <3>1
    <3>4. n + 1 \in DOMAIN output'[g] /\ output'[g][n + 1] = Copy(pos + 1)
      BY <3>1, <3>2, <3>3
    <3>5. /\ StoreOf(l).name = l.second
          /\ FirstTrigger(StoreOf(l).name, StoreOf(l).function)
          /\ FirstSupport(StoreOf(l).function, StoreOf(l).region)
      BY <1>1, <3>1, StoreIsMeant
    <3> QED  BY <1>1, <1>4, <3>1, <3>4, <3>5
  <2> QED  BY <1>3, <2>1, <2>2
<1>8. ASSUME NEW f \in DOMAIN output', NEW n \in DOMAIN output'[f]
      PROVE  Preceded(f, n)' /\ Followed(f, n)'
  <2>1. \A v, fn, r : /\ FirstTrigger(v, fn)' <=> FirstTrigger(v, fn)
                      /\ FirstSupport(fn, r)' <=> FirstSupport(fn, r)
    BY <1>1, FirstsKept
  <2>2. CASE f = g
    <3>0. source' = source /\ triggers' = triggers /\ n \in DOMAIN output'[g]
      BY <1>1, <1>8, <2>2
    <3>5. \A x : Lookup(triggers', x) = Lookup(triggers, x)
      BY <3>0
    <3>1. Preceded(f, n)'
      BY <1>6, <2>2, <3>0, <3>5 DEF Preceded
    <3>2. PICK o : o = output'[g][n]
      OBVIOUS
    <3>3. ASSUME o.op = "tstore"
          PROVE  /\ FirstTrigger(o.name, o.function)' /\ FirstSupport(o.function, o.region)'
                 /\ n + 1 \in DOMAIN output'[f] /\ output'[f][n + 1].op = "copy"
                 /\ source'[f][output'[f][n + 1].line].second = o.name
      BY <1>1, <1>7, <1>8, <2>1, <2>2, <3>2, <3>3
    <3>4. Followed(f, n)'
      BY <2>2, <3>2, <3>3 DEF Followed, FirstTrigger, FirstSupport
    <3> QED  BY <3>1, <3>4
  <2>3. CASE f # g
    <3>1. output'[f] = output[f] /\ f \in DOMAIN output /\ n \in DOMAIN output[f]
      BY <1>1, <1>8, <2>3
    <3>2. Preceded(f, n) /\ Followed(f, n)
      BY <1>5, <3>1
    <3> QED  BY <1>1, <3>1, <3>2, StoreKept
  <2> QED  BY <2>2, <2>3
<1> QED  BY <1>8 DEF Stored, Preceded, Followed

\* Every step keeps both halves.
LEMMA StoredNext ==
  ASSUME TypeOK, Cursor, Scan, Linked, TablesRight, Stored, [Next]_vars
  PROVE  Stored'
<1>1. CASE Preprocess /\ ~crashed
  BY <1>1, StoredWriting
<1>2. CASE NextFile /\ ~crashed
  <2> PICK g : g = file
    OBVIOUS
  <2>1. /\ DOMAIN output = 1 .. g /\ DOMAIN output' = 1 .. g + 1 /\ g \in Nat
        /\ \A f \in 1 .. g : output'[f] = output[f]
        /\ DOMAIN output'[g + 1] = {}
    BY <1>2, NewFile
  <2>2. source' = source /\ triggers' = triggers
    BY <1>2 DEF NextFile, tables
  <2>3. ASSUME NEW f \in DOMAIN output', NEW n \in DOMAIN output'[f]
        PROVE  Preceded(f, n)' /\ Followed(f, n)'
    <3>1. f \in DOMAIN output /\ output'[f] = output[f] /\ n \in DOMAIN output[f]
      BY <2>1, <2>3
    <3>2. Preceded(f, n) /\ Followed(f, n)
      BY <1>2, <3>1 DEF Stored
    <3> QED  BY <2>2, <3>1, <3>2, StoreKept
  <2> QED  BY <2>3 DEF Stored, Preceded, Followed
<1>3. ASSUME output' = output, source' = source, triggers' = triggers, crashed' = crashed
      PROVE  Stored'
  <2>1. ASSUME ~crashed, NEW f \in DOMAIN output, NEW n \in DOMAIN output[f]
        PROVE  Preceded(f, n)' /\ Followed(f, n)'
    <3>1. Preceded(f, n) /\ Followed(f, n)
      BY <2>1 DEF Stored
    <3> QED  BY <1>3, <3>1, StoreKept
  <2> QED  BY <1>3, <2>1 DEF Stored, Preceded, Followed
<1>4. CASE ~Preprocess /\ ~NextFile
  <2>1. /\ output' = output
        /\ \/ file = 0
           \/ source' = source /\ triggers' = triggers /\ crashed' = crashed
           \/ CrashWriting
    BY <1>4, OtherSteps
  <2>2. CASE file = 0
    BY <2>1, <2>2, NoOutput DEF Stored
  <2>3. CASE source' = source /\ triggers' = triggers /\ crashed' = crashed
    BY <1>3, <2>1, <2>3
  <2>4. CASE CrashWriting
    BY <2>4 DEF CrashWriting, Stored
  <2> QED  BY <2>1, <2>2, <2>3, <2>4
<1>5. (Preprocess \/ NextFile) /\ crashed => UNCHANGED vars
  BY DEF Next
<1>6. CASE UNCHANGED vars
  BY <1>3, <1>6 DEF vars, writer, tables
<1> QED  BY <1>1, <1>2, <1>4, <1>5, <1>6

\* StoresTrigger, when the tables are right: a trigger of the source has an entry.
LEMMA StoredIsRight ==
  ASSUME TypeOK, TablesRight, Stored
  PROVE  StoresTrigger
<1> SUFFICES ASSUME ~crashed, NEW f \in DOMAIN output, NEW n \in DOMAIN output[f],
                    NEW o, o = output[f][n]
             PROVE  /\ (o.op = "copy" /\ source[f][o.line].kind = "assign"
                          /\ Triggered(source[f][o.line].second))
                       => n > 2 /\ output[f][n - 1].op = "tstore" /\ output[f][n - 2].op = "save"
                    /\ o.op = "tstore" =>
                         /\ Meant(o.name, o.function, o.region)
                         /\ n < Len(output[f]) /\ output[f][n + 1].op = "copy"
                         /\ source[f][output[f][n + 1].line].second = o.name
  BY DEF StoresTrigger
<1>1. DOMAIN output[f] = 1 .. Len(output[f]) /\ Len(output[f]) \in Nat
  BY OutputShape
<1>2. Preceded(f, n) /\ Followed(f, n)
  BY DEF Stored
<1>3. ASSUME o.op = "copy", source[f][o.line].kind = "assign",
             Triggered(source[f][o.line].second)
      PROVE  n > 2 /\ output[f][n - 1].op = "tstore" /\ output[f][n - 2].op = "save"
  <2> PICK v : v = source[f][o.line].second
    OBVIOUS
  <2>1. PICK h \in DOMAIN source : \E k \in DOMAIN source[h] : IsTrigger(v, h, k)
    BY <1>3 DEF Triggered, SomeLine
  <2>2. PICK k \in DOMAIN source[h] : IsTrigger(v, h, k)
    BY <2>1
  <2>3. PICK i \in DOMAIN triggers : triggers[i].name = v
    BY <2>2 DEF IsTrigger, TablesRight, TriggersTable
  <2>4. \/ Lookup(triggers, v) = 0 /\ \A j \in DOMAIN triggers : triggers[j].name # v
        \/ Lookup(triggers, v) \in DOMAIN triggers
    BY TypeFirst, LookupIsFirst
  <2>5. DOMAIN triggers = 1 .. Len(triggers)
    BY TypeFirst, LenProperties
  <2>6. Lookup(triggers, v) # 0
    BY <2>3, <2>4, <2>5
  <2>7. /\ n - 1 \in DOMAIN output[f] /\ output[f][n - 1].op = "tstore"
        /\ n - 2 \in DOMAIN output[f] /\ output[f][n - 2].op = "save"
    BY <1>2, <1>3, <2>6 DEF Preceded
  <2> QED  BY <1>1, <2>7
<1>4. ASSUME o.op = "tstore"
      PROVE  /\ Meant(o.name, o.function, o.region)
             /\ n < Len(output[f]) /\ output[f][n + 1].op = "copy"
             /\ source[f][output[f][n + 1].line].second = o.name
  <2>1. /\ FirstTrigger(o.name, o.function) /\ FirstSupport(o.function, o.region)
        /\ n + 1 \in DOMAIN output[f] /\ output[f][n + 1].op = "copy"
        /\ source[f][output[f][n + 1].line].second = o.name
    BY <1>2, <1>4 DEF Followed
  <2> QED  BY <1>1, <2>1, MeantIsFirst
<1> QED  BY <1>3, <1>4

-----------------------------------------------------------------------------

\* InitBeforeStores and StatesDeclared at line n of the output of file f.
InitOnce(f, n) ==
  output[f][n].op = "init" => \A m \in 1 .. n - 1 : output[f][m].op # "init"

\* A tstore with main above it has dtt_init above it.
InitAbove(f, n) ==
  /\ output[f][n].op = "tstore"
  /\ \E m \in 1 .. n : output[f][m].op = "copy" /\ source[f][output[f][m].line].kind = "main"
  => \E m \in 1 .. n : output[f][m].op = "init"

\* A state with an #include above it is declared above it.
StateAbove(f, n) ==
  /\ output[f][n].op \in {"test", "tstore"}
  /\ \E m \in 1 .. n - 1 :
       output[f][m].op = "copy" /\ source[f][output[f][m].line].kind = "include"
  => \A i \in DOMAIN blocks : blocks[i] = output[f][n].region =>
       \E m \in 1 .. n - 1 :
         output[f][m].op = "state" /\ output[f][m].region = output[f][n].region

\* All lines of all outputs.
Ordered ==
  \A f \in DOMAIN output : \A n \in DOMAIN output[f] :
    InitOnce(f, n) /\ InitAbove(f, n) /\ StateAbove(f, n)

\* A line of preprocess keeps the order: the flags say what is above.
LEMMA OrderedWriting ==
  ASSUME TypeOK, Cursor, Scan, Linked, Flags, Ordered, Preprocess, ~CrashWriting
  PROVE  Ordered'
<1> PICK p, g, old : p = pos /\ g = file /\ old = Len(output[g])
  OBVIOUS
<1>0. PICK l \in Lines, left \in BOOLEAN, lines \in Seq(OutputLines) :
        WriteStep(l, left, lines, p, g, old)
  BY Writes
<1>1. /\ l = source[g][p + 1] /\ p \in Nat /\ old \in Nat /\ g # 0 /\ source' = source
      /\ blocks' = blocks /\ DOMAIN output[g] = 1 .. old
      /\ g \in DOMAIN output /\ DOMAIN output' = DOMAIN output
      /\ \A f \in DOMAIN output : f # g => output'[f] = output[f]
      /\ \A n \in 1 .. old : n \in DOMAIN output'[g] /\ output'[g][n] = output[g][n]
      /\ \A n \in DOMAIN lines :
           n \in Nat /\ n > 0 /\ old + n \in DOMAIN output'[g] /\ output'[g][old + n] = lines[n]
  BY <1>0 DEF WriteStep
<1>2. /\ \A n \in DOMAIN lines :
           /\ lines[n].op = "init" => Starts(l, left) /\ n = 1
           /\ lines[n].op = "test" => l.kind = "block"
           /\ lines[n].op = "tstore" => l.kind = "assign"
      /\ Starts(l, left) => 1 \in DOMAIN lines /\ lines[1].op = "init"
      /\ left = FALSE => lines = <<>>
  BY <1>0 DEF WriteStep, Effect, OneCopy
<1>3. \A n \in DOMAIN output'[g] :
        /\ n \in Nat /\ n > 0
        /\ \/ n \in 1 .. old /\ output'[g][n] = output[g][n]
           \/ n > old /\ n - old \in DOMAIN lines /\ output'[g][n] = lines[n - old]
        /\ output'[g][n].op = "copy" /\ n > old => left /\ output'[g][n].line = p + 1
  <2>1. \A n \in DOMAIN output'[g] : n > 0
    BY <1>0 DEF WriteStep
  <2> QED  BY <1>0, <2>1, LineWritten
<1>4. /\ dtt_initialized <=> \E n \in 1 .. old : output[g][n].op = "init"
      /\ ~in_main /\ ~dtt_initialized =>
           \A n \in 1 .. old : output[g][n].op = "copy" =>
              source[g][output[g][n].line].kind # "main"
      /\ variable_declared =>
           \A i \in DOMAIN blocks : \E n \in 1 .. old :
             output[g][n].op = "state" /\ output[g][n].region = blocks[i]
      /\ ~variable_declared =>
           \A n \in 1 .. old : output[g][n].op = "copy" =>
              source[g][output[g][n].line].kind # "include"
  <2>1. file = g /\ g # 0 /\ DOMAIN output[g] = 1 .. old
    BY <1>1
  <2> QED  BY <2>1 DEF Flags
<1>5. ASSUME NEW n \in DOMAIN output'[g], NEW m \in 1 .. n
      PROVE  m \in DOMAIN output'[g]
  <2>1. DOMAIN output' = DOMAIN output /\ output'[g] \in Seq(OutputLines)
    <3>1. TypeOK'
      BY TypeWriting
    <3>2. output' \in Seq(Seq(OutputLines))
      BY <3>1, TypeFirst DEF TypeOK, OutputLines
    <3> QED  BY <1>1, <3>2, ElementOfSeq, LenProperties
  <2>2. DOMAIN output'[g] = 1 .. Len(output'[g]) /\ Len(output'[g]) \in Nat
    BY <2>1, LenProperties
  <2> QED  BY <2>2
<1>6. \A n \in 1 .. old : InitOnce(g, n) /\ InitAbove(g, n) /\ StateAbove(g, n)
  BY <1>1 DEF Ordered
<1>7. ASSUME NEW n \in DOMAIN output'[g]
      PROVE  (InitOnce(g, n) /\ InitAbove(g, n) /\ StateAbove(g, n))'
  <2>0. n \in Nat /\ n > 0
    BY <1>3
  <2>1. CASE n \in 1 .. old
    <3>1. \A m \in 1 .. n : m \in 1 .. old /\ output'[g][m] = output[g][m]
      BY <1>1, <2>1
    <3>2. InitOnce(g, n) /\ InitAbove(g, n) /\ StateAbove(g, n)
      BY <1>6, <2>1
    <3>3. \A m \in 1 .. n - 1 : m \in 1 .. n
      BY <2>0
    <3>4. n \in 1 .. n
      BY <2>0
    <3>5. InitOnce(g, n)'
      BY <3>1, <3>2, <3>3, <3>4 DEF InitOnce
    <3>6. source' = source /\ blocks' = blocks
      BY <1>1
    <3>7. InitAbove(g, n)'
      BY <3>1, <3>2, <3>4, <3>6 DEF InitAbove
    <3>8. StateAbove(g, n)'
      <4>1. \A m \in 1 .. n - 1 : output'[g][m] = output[g][m]
        BY <3>1, <3>3
      <4>2. output'[g][n] = output[g][n]
        BY <3>1, <3>4
      <4>3. SUFFICES ASSUME output'[g][n].op \in {"test", "tstore"},
                            NEW m \in 1 .. n - 1, output'[g][m].op = "copy",
                            source'[g][output'[g][m].line].kind = "include",
                            NEW i \in DOMAIN blocks', blocks'[i] = output'[g][n].region
                     PROVE  \E k \in 1 .. n - 1 :
                              output'[g][k].op = "state" /\ output'[g][k].region = output'[g][n].region
        BY DEF StateAbove
      <4>4. \E k \in 1 .. n - 1 :
              output[g][k].op = "state" /\ output[g][k].region = output[g][n].region
        <5>1. output[g][n].op \in {"test", "tstore"} /\ output[g][m].op = "copy"
          BY <4>1, <4>2, <4>3
        <5>2. source[g][output[g][m].line].kind = "include"
          BY <3>6, <4>1, <4>3
        <5>3. i \in DOMAIN blocks /\ blocks[i] = output[g][n].region
          BY <3>6, <4>2, <4>3
        <5> QED  BY <3>2, <5>1, <5>2, <5>3 DEF StateAbove
      <4> QED  BY <4>1, <4>2, <4>4
    <3> QED  BY <3>5, <3>7, <3>8
  <2>2. CASE n > old
    <3>1. n - old \in DOMAIN lines /\ output'[g][n] = lines[n - old]
      BY <1>3, <2>2
    <3>2. left
      <4>1. DOMAIN <<>> = {}
        BY NoLines
      <4> QED  BY <1>2, <3>1, <4>1
    <3>3. InitOnce(g, n)'
      <4>1. SUFFICES ASSUME output'[g][n].op = "init", NEW m \in 1 .. n - 1
                     PROVE  output'[g][m].op # "init"
        BY DEF InitOnce
      <4>2. Starts(l, left) /\ n - old = 1
        BY <1>2, <3>1, <4>1
      <4>3. m \in 1 .. old
        BY <1>1, <2>0, <4>2
      <4>4. output[g][m].op # "init"
        BY <1>4, <4>2, <4>3 DEF Starts
      <4> QED  BY <1>1, <4>3, <4>4
    <3>4. InitAbove(g, n)'
      <4>1. SUFFICES ASSUME output'[g][n].op = "tstore", NEW m \in 1 .. n,
                            output'[g][m].op = "copy",
                            source[g][output'[g][m].line].kind = "main"
                     PROVE  \E i \in 1 .. n : output'[g][i].op = "init"
        BY <1>1 DEF InitAbove
      <4>2. l.kind = "assign" /\ m \in DOMAIN output'[g]
        BY <1>2, <1>5, <3>1, <4>1
      <4>3. m \in 1 .. old /\ output'[g][m] = output[g][m]
        BY <1>1, <1>3, <4>1, <4>2
      <4>4. in_main \/ dtt_initialized
        BY <1>4, <4>1, <4>3
      <4>5. CASE dtt_initialized
        <5>1. PICK i \in 1 .. old : output[g][i].op = "init"
          BY <1>4, <4>5
        <5>2. i \in 1 .. n
          BY <1>1, <2>0, <2>2, <5>1
        <5> QED  BY <1>1, <5>1, <5>2
      <4>6. CASE ~dtt_initialized
        <5>1. Starts(l, left)
          BY <3>2, <4>2, <4>4, <4>6 DEF Starts
        <5>2. output'[g][old + 1].op = "init"
          BY <1>1, <1>2, <5>1
        <5>3. old + 1 \in 1 .. n
          BY <1>1, <2>0, <2>2
        <5> QED  BY <5>2, <5>3
      <4> QED  BY <4>5, <4>6
    <3>5. StateAbove(g, n)'
      <4>1. SUFFICES ASSUME output'[g][n].op \in {"test", "tstore"}, NEW m \in 1 .. n - 1,
                            output'[g][m].op = "copy",
                            source[g][output'[g][m].line].kind = "include",
                            NEW i \in DOMAIN blocks, blocks[i] = output'[g][n].region
                     PROVE  \E j \in 1 .. n - 1 : output'[g][j].op = "state"
                                                 /\ output'[g][j].region = output'[g][n].region
        BY <1>1 DEF StateAbove
      <4>2. l.kind \in {"block", "assign"} /\ m \in DOMAIN output'[g]
        <5>1. m \in 1 .. n
          BY <2>0
        <5> QED  BY <1>2, <1>5, <3>1, <4>1, <5>1
      <4>3. m \in 1 .. old /\ output'[g][m] = output[g][m]
        BY <1>1, <1>3, <4>1, <4>2
      <4>4. variable_declared
        BY <1>4, <4>1, <4>3
      <4>5. PICK j \in 1 .. old : output[g][j].op = "state" /\ output[g][j].region = blocks[i]
        BY <1>4, <4>4
      <4>6. j \in 1 .. n - 1
        BY <1>1, <2>0, <2>2
      <4> QED  BY <1>1, <4>1, <4>5, <4>6
    <3> QED  BY <3>3, <3>4, <3>5
  <2> QED  BY <1>3, <2>1, <2>2
<1>8. ASSUME NEW f \in DOMAIN output', NEW n \in DOMAIN output'[f], f # g
      PROVE  (InitOnce(f, n) /\ InitAbove(f, n) /\ StateAbove(f, n))'
  <2>1. output'[f] = output[f] /\ f \in DOMAIN output /\ n \in DOMAIN output[f]
    BY <1>1, <1>8
  <2>2. InitOnce(f, n) /\ InitAbove(f, n) /\ StateAbove(f, n)
    BY <2>1 DEF Ordered
  <2> QED  BY <1>1, <2>1, <2>2 DEF InitOnce, InitAbove, StateAbove
<1>9. ASSUME NEW f \in DOMAIN output', NEW n \in DOMAIN output'[f]
      PROVE  (InitOnce(f, n) /\ InitAbove(f, n) /\ StateAbove(f, n))'
  <2>1. CASE f = g
    BY <1>7, <1>9, <2>1 DEF InitOnce, InitAbove, StateAbove
  <2>2. CASE f # g
    BY <1>8, <1>9, <2>2
  <2> QED  BY <2>1, <2>2
<1> QED  BY <1>9 DEF Ordered

\* Every step keeps the order.
LEMMA OrderedNext ==
  ASSUME TypeOK, Cursor, Scan, Linked, Flags, Ordered, [Next]_vars
  PROVE  Ordered'
<1>1. CASE Preprocess /\ ~CrashWriting
  BY <1>1, OrderedWriting
<1>2. CASE NextFile
  <2> PICK g : g = file
    OBVIOUS
  <2>1. /\ DOMAIN output = 1 .. g /\ DOMAIN output' = 1 .. g + 1 /\ g \in Nat
        /\ \A f \in 1 .. g : output'[f] = output[f]
        /\ DOMAIN output'[g + 1] = {}
    BY <1>2, NewFile
  <2>2. source' = source /\ blocks' = blocks
    BY <1>2 DEF NextFile, tables
  <2>3. ASSUME NEW f \in DOMAIN output', NEW n \in DOMAIN output'[f]
        PROVE  (InitOnce(f, n) /\ InitAbove(f, n) /\ StateAbove(f, n))'
    <3>1. f \in DOMAIN output /\ output'[f] = output[f] /\ n \in DOMAIN output[f]
      BY <2>1, <2>3
    <3>2. InitOnce(f, n) /\ InitAbove(f, n) /\ StateAbove(f, n)
      BY <3>1 DEF Ordered
    <3> QED  BY <2>2, <3>1, <3>2 DEF InitOnce, InitAbove, StateAbove
  <2> QED  BY <2>3 DEF Ordered, InitOnce, InitAbove, StateAbove
<1>3. CASE (~Preprocess \/ CrashWriting) /\ ~NextFile
  <2>1. output' = output /\ (file = 0 \/ (source' = source /\ blocks' = blocks))
    BY <1>3, OtherSteps
  <2>2. CASE file = 0
    BY <2>1, <2>2, NoOutput DEF Ordered
  <2>3. CASE source' = source /\ blocks' = blocks
    BY <2>1, <2>3 DEF Ordered, InitOnce, InitAbove, StateAbove
  <2> QED  BY <2>1, <2>2, <2>3
<1> QED  BY <1>1, <1>2, <1>3

\* A #block line that was read has its region in the table.
LEMMA OrderedIsRight ==
  ASSUME TypeOK, Cursor, TablesRight, Ordered
  PROVE  InitBeforeStores /\ StatesDeclared
<1>1. ASSUME NEW f \in DOMAIN output, NEW n \in DOMAIN output[f]
      PROVE  InitOnce(f, n) /\ InitAbove(f, n) /\ StateAbove(f, n) /\ n \in Nat /\ n > 0
  <2>1. DOMAIN output[f] = 1 .. Len(output[f])
    BY OutputShape
  <2> QED  BY <2>1 DEF Ordered
<1>2. InitBeforeStores
  <2>1. ASSUME NEW f \in DOMAIN output, NEW n \in DOMAIN output[f], output[f][n].op = "init"
        PROVE  {m \in 1 .. n : output[f][m].op = "init"} = {n}
    <3>1. n \in Nat /\ n > 0 /\ \A m \in 1 .. n - 1 : output[f][m].op # "init"
      BY <1>1, <2>1 DEF InitOnce
    <3>2. \A m \in 1 .. n : m = n \/ m \in 1 .. n - 1
      BY <3>1
    <3> QED  BY <2>1, <3>1, <3>2
  <2>2. ASSUME NEW f \in DOMAIN output, NEW n \in DOMAIN output[f], output[f][n].op = "tstore",
               NEW m \in {m \in 1 .. n : output[f][m].op = "copy"},
               source[f][output[f][m].line].kind = "main"
        PROVE  {i \in 1 .. n : output[f][i].op = "init"} # {}
    BY <1>1, <2>2 DEF InitAbove
  <2> QED  BY <2>1, <2>2 DEF InitBeforeStores
<1>3. StatesDeclared
  <2>1. SUFFICES ASSUME NEW f \in DOMAIN output, NEW n \in DOMAIN output[f],
                        NEW r, r = output[f][n].region,
                        output[f][n].op \in {"test", "tstore"},
                        \E m \in 1 .. n - 1 : /\ output[f][m].op = "copy"
                                              /\ source[f][output[f][m].line].kind = "include",
                        \E g \in DOMAIN source : \E k \in DOMAIN source[g] : IsBlock(r, g, k)
                 PROVE  \E m \in 1 .. n - 1 : output[f][m].op = "state" /\ output[f][m].region = r
    BY DEF StatesDeclared, SomeLine
  <2>2. PICK g \in DOMAIN source : \E k \in DOMAIN source[g] : IsBlock(r, g, k)
    BY <2>1
  <2>3. PICK k \in DOMAIN source[g] : IsBlock(r, g, k)
    BY <2>2
  <2>4. phase # "tables"
    BY <2>1, NoOutput DEF Cursor
  <2>5. PICK i \in DOMAIN blocks : blocks[i] = r
    BY <2>3, <2>4 DEF IsBlock, TablesRight, BlocksTable
  <2> QED  BY <1>1, <2>1, <2>5 DEF StateAbove
<1> QED  BY <1>2, <1>3

-----------------------------------------------------------------------------

\* A line that is the cause of a crash.
LEMMA CausedAt ==
  ASSUME NEW f \in DOMAIN source', NEW k \in DOMAIN source'[f], NullCause(f, k)'
  PROVE  CrashCauses'
BY DEF CrashCauses, SomeLine, NullCause

\* Without a crash nothing needs a cause.
LEMMA NotCrashed == ~crashed' => CrashCauses'
BY DEF CrashCauses

\* A cause stays one.
LEMMA CauseKept ==
  ASSUME source' = source, NEW f, NEW k, NullCause(f, k)
  PROVE  NullCause(f, k)'
<1>1. \A g, j : (Erased(g, j)' <=> Erased(g, j)) /\ (Read(g, j)' <=> Read(g, j))
  BY DEF Read, Erased, CodeSeen
<1>2. \A g, j, m : Answers(g, j, m)' <=> Answers(g, j, m)
  BY <1>1 DEF Answers, Pragma, CodeSeen
<1>3. \A fn : Supported(fn)' <=> Supported(fn)
  BY <1>2 DEF Supported, SomeLine, IsSupport
<1>4. \A v, g, j : IsTrigger(v, g, j)' <=> IsTrigger(v, g, j)
  BY <1>1 DEF IsTrigger
<1>5. \A v : Triggered(v)' <=> Triggered(v)
  BY <1>4 DEF Triggered, SomeLine
<1> QED  BY <1>1, <1>2, <1>3, <1>4, <1>5 DEF NullCause, SomeLine, LineFeedMissing

\* A crash of the first pass is at the line just read, or at the #DTT line that
\* waits for its function.
LEMMA CausesReading ==
  ASSUME TypeOK, Cursor, Scan, Pending, ~crashed, NEW l \in Lines, CreateTables(l), crashed'
  PROVE  CrashCauses'
<1> PICK f, m : f = Len(source) /\ m = Len(source[f])
  OBVIOUS
<1>1. FollowsNull(l) /\ ReadLine(l, ~InsideAfter(l))
  BY ReadingCases
     DEF CrashReading, SkipLine, AddTrigger, AddBlock, ReadDTT, AddThread, OtherLine
<1>2. PICK seen \in BOOLEAN : seen = ~InsideAfter(l) /\ ReadLine(l, seen)
  BY <1>1, InsideIsBoolean
<1> PICK k : k = m + 1
  OBVIOUS
<1>3. /\ m \in Nat /\ DOMAIN source[f] = 1 .. m
      /\ f \in DOMAIN source' /\ DOMAIN source'[f] = 1 .. m + 1
      /\ source'[f][k] = l /\ k \in DOMAIN source'[f]
      /\ Read(f, k)' <=> seen /\ CodeSeen(l)
  <2>1. Read(f, m + 1)' <=> Read(f, k)'
    BY DEF Read, Erased, CodeSeen
  <2>2. /\ m \in Nat /\ DOMAIN source[f] = 1 .. m
        /\ f \in DOMAIN source' /\ DOMAIN source'[f] = 1 .. m + 1
        /\ source'[f][m + 1] = l
        /\ Read(f, m + 1)' <=> seen /\ CodeSeen(l)
    BY <1>2, Scanned
  <2> QED  BY <2>1, <2>2
<1>4. CASE l.kind = "blank"
  <2>1. NullCause(f, k)'
    BY <1>3, <1>4 DEF NullCause
  <2> QED  BY <1>3, <2>1, CausedAt
<1>5. CASE ~InsideAfter(l) /\ Pragma(l) /\ l.kind # "blank"
  <2>1. Read(f, k)' /\ ~Erased(f, k)'
    <3>1. Read(f, k)'
      BY <1>2, <1>3, <1>5 DEF Pragma
    <3> QED  BY <3>1 DEF Read
  <2>2. \/ l.kind = "trigger" /\ (None \in {l.first, l.function} \/ l.first = NoEnd)
        \/ l.kind \in {"block", "DTT"} /\ (LineFeedMissing(l) \/ l.first = None)
    BY <1>1, <1>5 DEF FollowsNull
  <2>3. NullCause(f, k)'
    <3>1. CASE l.kind = "trigger"
      BY <1>3, <2>1, <2>2, <3>1 DEF NullCause
    <3>2. CASE l.kind \in {"block", "DTT"}
      BY <1>3, <2>1, <2>2, <3>2 DEF NullCause, LineFeedMissing
    <3> QED  BY <2>2, <3>1, <3>2
  <2> QED  BY <1>3, <2>3, CausedAt
<1>6. CASE ~InsideAfter(l) /\ ~Pragma(l) /\ l.kind # "blank"
  <2>1. parse_next_line /\ ~(CodeSeen(l) /\ l.function # None)
    BY <1>1, <1>6 DEF FollowsNull
  <2>2. PICK j \in DOMAIN source[f] :
          Waiting(f, j) \/ (inside_comment /\ Unanswered(f, j))
    BY <2>1 DEF Pending
  <2>3. j \in 1 .. m
    BY <1>3, <2>2
  <2>4. Unanswered(f, j)'
    BY <1>2, <2>1, <2>2, <2>3, Answered
  <2>5. NullCause(f, j)'
    BY <2>4 DEF NullCause, Unanswered
  <2>6. j \in DOMAIN source'[f]
    BY <1>3, <2>3
  <2> QED  BY <1>3, <2>5, <2>6, CausedAt
<1> QED  BY <1>1, <1>4, <1>5, <1>6 DEF FollowsNull

\* A crash of preprocess is at the line it reads, which has a text or a
\* delimiter missing, or a trigger text whose function is in no table: that one
\* has a first #trigger line and no support function.
LEMMA CausesWriting ==
  ASSUME TypeOK, Cursor, Scan, Linked, TablesRight, ~crashed, Preprocess, crashed'
  PROVE  CrashCauses'
<1> PICK g, k : g = file /\ k = pos + 1
  OBVIOUS
<1> PICK l : l = source[g][k]
  OBVIOUS
<1>1. /\ phase = "code" /\ ~AtEnd /\ l \in Lines /\ FollowsNullInCode(l) /\ source' = source
      /\ g \in DOMAIN source /\ k \in DOMAIN source[g]
  <2>1. ~NextLine(l)
    BY DEF NextLine, EraseLine, TranslateTrigger, TranslateBlock, TranslateAssignment,
           TranslateInclude, CopyLine
  <2> QED  BY <2>1, PreprocessCases, LineRead DEF CrashWriting
<1>2. ~Erased(g, k)
  BY <1>1, LineErased DEF FollowsNullInCode
<1>3. ASSUME NEW i \in DOMAIN triggers, First(triggers, i)
      PROVE  \E f \in DOMAIN source : \E j \in DOMAIN source[f] :
               /\ IsTrigger(triggers[i].name, f, j)
               /\ source[f][j].function = triggers[i].support_thread
  BY <1>3 DEF TablesRight, TriggersTable, FirstTrigger
<1>4. ASSUME l.kind = "trigger" /\ l.first = NoEnd
      PROVE  NullCause(g, k)
  BY <1>2, <1>4 DEF NullCause
<1>5. ASSUME l.kind = "block" /\ LineFeedMissing(l)
      PROVE  NullCause(g, k)
  BY <1>2, <1>5 DEF NullCause
<1>6. ASSUME l.kind = "assign" /\ triggers # <<>> /\ l.second = None
      PROVE  NullCause(g, k)
  <2>1. 1 \in DOMAIN triggers /\ First(triggers, 1) /\ triggers[1].name \in Texts
    <3>1. Len(triggers) # 0
      BY <1>6, TypeFirst, EmptySeq
    <3>2. 1 \in DOMAIN triggers
      BY <3>1, TableShape
    <3>3. First(triggers, 1)
      BY DEF First
    <3> QED  BY <3>2, <3>3, TableShape
  <2>2. Triggered(triggers[1].name)
    BY <1>3, <2>1 DEF Triggered, SomeLine
  <2>3. NullCause(g, k)
    BY <1>2, <1>6, <2>1, <2>2 DEF NullCause
  <2> QED  BY <2>3
<1>7. ASSUME l.kind = "assign" /\ Lookup(triggers, l.second) # 0 /\ StateOf(l.second) = 0
      PROVE  NullCause(g, k)
  <2> PICK i : i = Lookup(triggers, l.second)
    OBVIOUS
  <2>1. i \in DOMAIN triggers /\ First(triggers, i) /\ triggers[i].name = l.second
    <3>1. triggers \in Seq([name : Texts, support_thread : Functions, state_variable : Nat])
      BY TypeFirst
    <3> QED  BY <1>7, <3>1, LookupIsFirst
  <2> PICK fn : fn = triggers[i].support_thread
    OBVIOUS
  <2>2. Lookup(threads, fn) = 0
    BY <1>1, <1>7, <2>1 DEF StateOf, Linked
  <2>3. ~Supported(fn)
    <3>1. SUFFICES ASSUME NEW h \in DOMAIN source, NEW j \in DOMAIN source[h], IsSupport(fn, h, j)
                   PROVE  FALSE
      BY DEF Supported, SomeLine
    <3>2. source[h][j].function = fn
      BY <3>1 DEF IsSupport
    <3>3. PICK t \in DOMAIN threads : threads[t].name = fn
      BY <3>1, <3>2 DEF TablesRight, ThreadsTable
    <3>4. \/ \A s \in DOMAIN threads : threads[s].name # fn
          \/ Lookup(threads, fn) \in DOMAIN threads
      BY TypeFirst, LookupIsFirst
    <3>5. DOMAIN threads = 1 .. Len(threads)
      BY TypeFirst, LenProperties
    <3> QED  BY <2>2, <3>3, <3>4, <3>5
  <2>4. \E f \in DOMAIN source : \E j \in DOMAIN source[f] :
          IsTrigger(l.second, f, j) /\ ~Supported(source[f][j].function)
    BY <1>3, <2>1, <2>3
  <2> QED  BY <1>2, <1>7, <2>4 DEF NullCause, SomeLine
<1>8. NullCause(g, k)
  BY <1>1, <1>4, <1>5, <1>6, <1>7 DEF FollowsNullInCode
<1>9. NullCause(g, k)'
  BY <1>1, <1>8, CauseKept
<1> QED  BY <1>1, <1>9, CausedAt

\* Every crash has its cause.
LEMMA CausesNext ==
  ASSUME TypeOK, Cursor, Scan, Linked, Pending, TablesRight, CrashCauses, [Next]_vars
  PROVE  CrashCauses'
<1>1. CASE UNCHANGED vars
  <2>1. crashed' = crashed /\ source' = source
    BY <1>1 DEF vars
  <2>2. ASSUME crashed
        PROVE  CrashCauses'
    <3>1. PICK f \in DOMAIN source : \E k \in DOMAIN source[f] : NullCause(f, k)
      BY <2>2 DEF CrashCauses, SomeLine
    <3>2. PICK k \in DOMAIN source[f] : NullCause(f, k)
      BY <3>1
    <3>3. NullCause(f, k)'
      BY <2>1, <3>2, CauseKept
    <3>4. f \in DOMAIN source' /\ k \in DOMAIN source'[f]
      BY <2>1
    <3> QED  BY <3>3, <3>4, CausedAt
  <2> QED  BY <2>1, <2>2, NotCrashed
<1>2. CASE ~crashed /\ Preprocess
  BY <1>2, NotCrashed, CausesWriting
<1>3. ASSUME ~crashed, NEW l \in Lines, CreateTables(l)
      PROVE  CrashCauses'
  BY <1>3, NotCrashed, CausesReading
<1>4. CASE ~crashed /\ (OpenFile \/ AllFilesRead \/ Link \/ NextFile \/ Finish)
  <2>1. crashed' = crashed
    BY <1>4 DEF OpenFile, AllFilesRead, Link, NextFile, Finish
  <2> QED  BY <1>4, <2>1, NotCrashed
<1> QED  BY <1>1, <1>2, <1>3, <1>4 DEF Next, WholeFileStep

-----------------------------------------------------------------------------

\* The tables, the output and the flags are those of the lines read so far.
IInv ==
  /\ TypeOK /\ Cursor /\ Scan /\ Pending /\ TablesRight /\ Linked
  /\ Copies /\ Flags /\ Stored /\ Ordered /\ CrashCauses

\* The inductive invariant holds at first,
LEMMA IInvInit ==
  ASSUME Init
  PROVE  IInv
<1>1. /\ DOMAIN source = {} /\ DOMAIN triggers = {} /\ DOMAIN blocks = {} /\ DOMAIN threads = {}
      /\ DOMAIN output = {} /\ Len(output) = 0 /\ Len(source) = 0
  <2>1. DOMAIN <<>> = {} /\ Len(<<>>) = 0
    BY NoLines, EmptySeq
  <2> QED  BY <2>1 DEF Init
<1>2. TypeOK
  <2>1. \A S : <<>> \in Seq(S)
    BY EmptySeq
  <2>2. /\ source \in Seq(Seq(Lines)) /\ blocks \in Seq(Regions)
        /\ triggers \in Seq([name : Texts, support_thread : Functions, state_variable : Nat])
        /\ threads \in Seq([name : Functions, skippable_region : Regions])
        /\ output \in Seq(Seq(OutputLines))
    BY <2>1 DEF Init
  <2>3. file \in 0 .. Len(source) /\ pos \in Nat
    BY <1>1 DEF Init
  <2> QED  BY <2>2, <2>3, TypeFirst DEF Init
<1>3. Cursor /\ Scan /\ Pending /\ Linked
  BY <1>1 DEF Init, Cursor, Scan, Pending, Linked, AtEnd
<1>4. TablesRight
  BY <1>1 DEF TablesRight, TriggersTable, ThreadsTable, BlocksTable
<1>5. Copies /\ Flags /\ Stored /\ Ordered
  BY <1>1 DEF Init, Copies, Flags, Stored, Ordered
<1>6. CrashCauses
  BY DEF Init, CrashCauses
<1> QED  BY <1>2, <1>3, <1>4, <1>5, <1>6 DEF IInv

\* every step keeps it,
LEMMA IInvNext ==
  ASSUME IInv, [Next]_vars
  PROVE  IInv'
<1>1. TypeOK' /\ Cursor' /\ Scan' /\ Pending' /\ TablesRight' /\ Linked'
  BY TypeNext, CursorNext, ScanNext, PendingNext, TablesNext, LinkedNext DEF IInv
<1>2. Copies' /\ Flags' /\ Stored' /\ Ordered' /\ CrashCauses'
  BY CopiesNext, FlagsNext, StoredNext, OrderedNext, CausesNext DEF IInv
<1> QED  BY <1>1, <1>2 DEF IInv

\* and it holds of every program.
LEMMA IInvCorrect == Spec => []IInv
<1>1. Init => IInv
  BY IInvInit
<1>2. IInv /\ [Next]_vars => IInv'
  BY IInvNext
<1> QED  BY <1>1, <1>2, PTL DEF Spec

\* When the pass is done the cursor is behind the last line of the last file.
LEMMA KeptIsRight ==
  ASSUME TypeOK, Cursor, Copies
  PROVE  LinesKept
<1> SUFFICES ASSUME phase = "done"
             PROVE  LinesKept
  BY DEF LinesKept
<1>1. /\ file = Len(source) /\ AtEnd /\ Len(output) = file /\ DOMAIN source = 1 .. Len(source)
      /\ output \in Seq(Seq(OutputLines))
  BY Shape, TypeFirst DEF Cursor
<1>2. DOMAIN output = DOMAIN source
  BY <1>1, LenProperties
<1>3. ASSUME NEW f \in DOMAIN source
      PROVE  CopiesOf(f, Len(source[f])) /\ DOMAIN source[f] = 1 .. Len(source[f])
  <2>1. PICK q : q = IF f = file THEN pos ELSE Len(source[f])
    OBVIOUS
  <2>2. q = Len(source[f])
    BY <1>1, <2>1 DEF AtEnd
  <2> QED  BY <1>2, <2>1, <2>2, Shape DEF Copies
<1>4. ASSUME NEW f \in DOMAIN source, NEW copies,
             copies = {n \in DOMAIN output[f] : output[f][n].op = "copy"}
      PROVE  /\ {output[f][n].line : n \in copies} = {k \in DOMAIN source[f] : ~Erased(f, k)}
             /\ \A m \in copies : \A n \in copies : m < n => output[f][m].line < output[f][n].line
  <2>1. \A n \in copies : output[f][n].line \in {k \in DOMAIN source[f] : ~Erased(f, k)}
    BY <1>3, <1>4 DEF CopiesOf
  <2>2. \A k \in {k \in DOMAIN source[f] : ~Erased(f, k)} : \E n \in copies : output[f][n].line = k
    BY <1>3, <1>4 DEF CopiesOf
  <2>3. \A m \in copies : \A n \in copies : m < n => output[f][m].line < output[f][n].line
    BY <1>3, <1>4 DEF CopiesOf
  <2> QED  BY <2>1, <2>2, <2>3
<1> QED  BY <1>2, <1>4 DEF LinesKept

\* The tables, the flags and the output keep their types, whatever the program.
THEOREM TypeCorrect == Spec => []TypeOK
<1>1. IInv => TypeOK
  BY DEF IInv
<1> QED  BY <1>1, IInvCorrect, PTL

\* preprocess puts the save and the tstore of the right function and state in
\* front of every line with "=" whose first token is the text of a #trigger line
\* that was read, and nowhere else.  What the line assigns to is another matter:
\* see ModificationsStored.
THEOREM StoresTriggerCorrect == Spec => []StoresTrigger
<1>1. IInv => StoresTrigger
  BY StoredIsRight DEF IInv
<1> QED  BY <1>1, IInvCorrect, PTL

\* No file calls dtt_init twice, or runs a tstore behind its main without it.
THEOREM InitBeforeStoresCorrect == Spec => []InitBeforeStores
<1>1. IInv => InitBeforeStores
  BY OrderedIsRight DEF IInv
<1> QED  BY <1>1, IInvCorrect, PTL

\* A state is declared above the tests and tstores that use it, when its file
\* has an #include above them.
THEOREM StatesDeclaredCorrect == Spec => []StatesDeclared
<1>1. IInv => StatesDeclared
  BY OrderedIsRight DEF IInv
<1> QED  BY <1>1, IInvCorrect, PTL

\* The second pass loses, doubles and swaps no line but those in comments that
\* go on.
THEOREM LinesKeptCorrect == Spec => []LinesKept
<1>1. IInv => LinesKept
  BY KeptIsRight DEF IInv
<1> QED  BY <1>1, IInvCorrect, PTL

\* A NULL pointer that dttc follows has one of the causes of NullCause, for any
\* files that can be opened and any lines and tables below their bounds.
THEOREM CrashCausesCorrect == Spec => []CrashCauses
<1>1. IInv => CrashCauses
  BY DEF IInv
<1> QED  BY <1>1, IInvCorrect, PTL

=============================================================================
