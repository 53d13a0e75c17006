-------------------------------- MODULE MCDttc --------------------------------
(***************************************************************************)
(* Dttc on small programs: few files, lines and comments; a line that may  *)
(* be its function behind each #DTT line, blocks opened before they end,   *)
(* one main, one #include for each file, comments not nested.              *)
(***************************************************************************)
EXTENDS DttcProperties, FiniteSets

CONSTANTS
  MaxFiles, MaxItems, MaxComments,
  Bare, Indented  \* two texts: the name of a variable, and the same behind a tab

ASSUME Bare \in Texts /\ Indented \in Texts

\* The number of lines of file f, and of all files, with P.
CountIn(f, P(_)) == Cardinality({k \in DOMAIN source[f] : P(source[f][k])})
Count(P(_)) ==
  Cardinality({p \in UNION {{f} \X DOMAIN source[f] : f \in DOMAIN source} :
                 P(source[p[1]][p[2]])})

Begins(l) == l.comment \notin {"none", "close"}

\* A line that completes an earlier one: the head of a function behind a #DTT,
\* the end of a comment.
Completes(l) == (l.kind = "plain" /\ l.function # None) \/ l.comment = "close"

\* A line in which something is missing, or read differently by the passes.
Odd(l) ==
  \/ l.kind = "blank"
  \/ l.kind \in {"trigger", "block", "DTT"} /\ l.first \in {None, NoEnd}
  \/ l.kind = "trigger" /\ l.function = None
  \/ l.kind = "block" /\ l.second # l.first
  \/ l.kind = "assign" /\ l.second = None

\* What is left of MaxItems; a comment or an oddity takes the place of a line.
Cost(l) ==
  (IF Completes(l) THEN 0 ELSE 1) + (IF Begins(l) THEN 1 ELSE 0) + (IF Odd(l) THEN 1 ELSE 0)
ItemsLeft ==
  MaxItems - Count(LAMBDA l : ~Completes(l)) - Count(Begins) - Count(Odd)

\* Names come up in a fixed order: of the programs that differ by a renaming
\* one is looked at.
NamesUsed ==
  UNION {UNION {{source[f][k].first, source[f][k].second, source[f][k].function}
                  : k \in DOMAIN source[f]} : f \in DOMAIN source}

NamesAllowed ==
  LET next(S) == IF S \subseteq NamesUsed THEN {}
                 ELSE {CHOOSE x \in S \ NamesUsed : TRUE}
  IN  NamesUsed \cup {None, NoEnd} \cup next(Texts) \cup next(Functions) \cup next(Regions)

\* The kinds that fit the lines before the next one of file f.
Kinds(f) ==
  LET has(kind) == CountIn(f, LAMBDA l : l.kind = kind)
  IN  {"trigger", "assign", "block", "DTT", "plain", "blank"}
        \cup (IF has("end_block") < has("block") THEN {"end_block"} ELSE {})
        \cup (IF has("include") = 0 THEN {"include"} ELSE {})
        \cup (IF Count(LAMBDA l : l.kind = "main") = 0 THEN {"main"} ELSE {})

\* So the comments; a line without code has one.
Comments(f) ==
  IF Len(source[f]) > 0 /\ Erased(f, Len(source[f])) THEN {"none", "close"}
  ELSE {"none"} \cup (IF Count(Begins) < MaxComments
                       THEN {"slashes", "inline", "url", "open"} ELSE {})

\* The lines of a kind that end in a comment, with what they take of MaxItems.
LinesWith ==
  [kind \in {l.kind : l \in Lines} |->
     [comment \in {l.comment : l \in Lines} |->
        {<<l, Cost(l)>> : l \in {m \in Lines : m.kind = kind /\ m.comment = comment}}]]

\* The name of a function is looked at only behind a #DTT line; another line
\* than that function is there only as the last item.
Fits(l, cost, left, names) ==
  /\ IF parse_next_line /\ ~Completes(l) THEN cost = left ELSE cost <= left
  /\ l.kind = "plain" => l.comment # "none" \/ l.function # None
  /\ l.kind \in {"assign", "main", "plain"} /\ l.function # None
       => parse_next_line /\ ~inside_comment
  /\ {l.first, l.second, l.function} \subseteq names

NextLines ==
  LET f == Len(source)
      comments == Comments(f)
      names == NamesAllowed
      left == ItemsLeft
  IN  UNION {UNION {{p[1] : p \in {q \in LinesWith[kind][comment] : Fits(q[1], q[2], left, names)}}
                      : comment \in comments} : kind \in Kinds(f)}

OpenSmallFile ==
  /\ Len(source) < MaxFiles /\ (source # <<>> => source[Len(source)] # <<>>)
  /\ OpenFile

MCNext ==
  /\ ~crashed
  /\ \/ OpenSmallFile \/ WholeFileStep
     \/ source # <<>> /\ \E l \in NextLines : CreateTables(l)

MCSpec == Init /\ [][MCNext]_vars

-----------------------------------------------------------------------------
(* What a comment of the code says, and the code does not keep.            *)

\* "This is a regular line, need to see if there is any data trigger get
\* modified." (dttc.c:366): an assignment to a variable declared as a trigger
\* with a support function gets its tstore, also when it is indented with a tab.
ModificationsStored ==
  ~crashed =>
    \A f \in DOMAIN output : \A n \in DOMAIN output[f] :
      LET o == output[f][n] IN
      (/\ o.op = "copy" /\ source[f][o.line].kind = "assign"
       /\ source[f][o.line].second \in {Bare, Indented}
       /\ \E fn \in Functions, r \in Regions : Meant(Bare, fn, r))
      => n > 2 /\ output[f][n - 1].op = "tstore" /\ output[f][n - 2].op = "save"

=============================================================================
