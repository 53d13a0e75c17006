---------------------------- MODULE DttcProperties ----------------------------
(***************************************************************************)
(* The correctness of dttc: what a line means, read off the source alone,  *)
(* and what the output must be, and may lack, for it.                      *)
(***************************************************************************)
EXTENDS Dttc

\* A line is inside a comment that goes on, as far as dttc can tell: it
\* begins one, or one begun earlier in the file has not been closed.
Erased(f, k) ==
  \E j \in 1 .. k :
    /\ source[f][j].comment \in {"open", "url"}
    /\ \A m \in j + 1 .. k : source[f][m].comment \notin {"inline", "close"}

\* The first pass acts on the line.
Read(f, k) == ~Erased(f, k) /\ CodeSeen(source[f][k])

IsTrigger(v, f, k) ==
  source[f][k].kind = "trigger" /\ source[f][k].first = v /\ Read(f, k)

\* Line k is taken for the head of the function that the #DTT line j is for:
\* there are only other pragmas between them.
Answers(f, j, k) ==
  /\ source[f][j].kind = "DTT" /\ Read(f, j)
  /\ ~Pragma(source[f][k]) /\ source[f][k].function # None /\ Read(f, k)
  /\ \A m \in j + 1 .. k - 1 :
       source[f][m].kind \in {"trigger", "block", "end_block"} /\ Read(f, m)

IsSupport(fn, f, k) ==
  source[f][k].function = fn /\ \E j \in 1 .. k - 1 : Answers(f, j, k)

\* Line k is a support function of region r.
Recomputes(r, f, k) == \E j \in 1 .. k - 1 : Answers(f, j, k) /\ source[f][j].first = r

IsBlock(r, f, k) ==
  source[f][k].kind = "block" /\ source[f][k].first = r /\ Read(f, k)

\* Some line of some file has P; the first such line has Q too.
SomeLine(P(_, _)) == \E f \in DOMAIN source : \E k \in DOMAIN source[f] : P(f, k)

FirstLine(P(_, _), Q(_, _)) ==
  \E f \in DOMAIN source : \E k \in DOMAIN source[f] :
    /\ P(f, k) /\ Q(f, k)
    /\ \A j \in 1 .. k - 1 : ~P(f, j)
    /\ \A g \in 1 .. f - 1 : \A j \in DOMAIN source[g] : ~P(g, j)

Triggered(v) == SomeLine(LAMBDA f, k : IsTrigger(v, f, k))

Supported(fn) == SomeLine(LAMBDA f, k : IsSupport(fn, f, k))

\* fn is the function of the first #trigger of v, and r the region of the
\* first #DTT function with that text.
Meant(v, fn, r) ==
  /\ FirstLine(LAMBDA f, k : IsTrigger(v, f, k), LAMBDA f, k : source[f][k].function = fn)
  /\ FirstLine(LAMBDA f, k : IsSupport(fn, f, k), LAMBDA f, k : Recomputes(r, f, k))

-----------------------------------------------------------------------------

\* A line with an "=" that is left in the output is directly preceded by a save
\* and a tstore when its first token is the text some #trigger line has before
\* its "=" or ";"; and only then, with the function and state of that text.
\* The token need not be what the line assigns to, so this is no statement on
\* the variables of the program: see ModificationsStored in MCDttc.
StoresTrigger ==
  ~crashed =>
    \A f \in DOMAIN output : \A n \in DOMAIN output[f] :
      LET o == output[f][n] IN
      /\ (o.op = "copy" /\ source[f][o.line].kind = "assign"
            /\ Triggered(source[f][o.line].second))
         => n > 2 /\ output[f][n - 1].op = "tstore" /\ output[f][n - 2].op = "save"
      /\ o.op = "tstore" =>
           /\ Meant(o.name, o.function, o.region)
           /\ n < Len(output[f]) /\ output[f][n + 1].op = "copy"
           /\ source[f][output[f][n + 1].line].second = o.name

\* A file calls dtt_init at most once, and before any tstore behind its main.
InitBeforeStores ==
  \A f \in DOMAIN output : \A n \in DOMAIN output[f] :
    LET Above(op) == {m \in 1 .. n : output[f][m].op = op} IN
    /\ output[f][n].op = "init" => Above("init") = {n}
    /\ (/\ output[f][n].op = "tstore"
        /\ \E m \in Above("copy") : source[f][output[f][m].line].kind = "main")
       => Above("init") # {}

\* The state a test or a tstore uses is declared above it when an #include is
\* above it and some #block line of its region was read, in whatever file.
StatesDeclared ==
  \A f \in DOMAIN output : \A n \in DOMAIN output[f] :
    LET r == output[f][n].region IN
    (/\ output[f][n].op \in {"test", "tstore"}
     /\ \E m \in 1 .. n - 1 :
          output[f][m].op = "copy" /\ source[f][output[f][m].line].kind = "include"
     /\ SomeLine(LAMBDA g, k : IsBlock(r, g, k)))
    => \E m \in 1 .. n - 1 : output[f][m].op = "state" /\ output[f][m].region = r

\* The output has the lines of the source, once and in order, without those
\* of a comment that goes on, which takes the code in front of it along and,
\* when it has "//" in it, the code behind it.  (A line that ends in a //
\* comment and has no pragma loses its line feed: it is then the beginning of
\* the next line of the output, which this does not rule out.)
LinesKept ==
  phase = "done" =>
    /\ DOMAIN output = DOMAIN source
    /\ \A f \in DOMAIN source :
         LET copies == {n \in DOMAIN output[f] : output[f][n].op = "copy"} IN
         /\ {output[f][n].line : n \in copies} = {k \in DOMAIN source[f] : ~Erased(f, k)}
         /\ \A m \in copies : \A n \in copies : m < n => output[f][m].line < output[f][n].line

\* Line k of file f makes dttc follow a NULL pointer: it has blanks only and no
\* line feed; a delimiter next to a name is missing in its pragma; it is a #DTT
\* line without a function; nothing but ")*& " is before its "=" and there is
\* some #trigger; or its first token is the text of a trigger whose function no
\* #DTT line has.  In an "inline" comment line only the second pass looks for
\* the ends of a declaration and of a #block line.
NullCause(f, k) ==
  LET l == source[f][k] IN
  \/ l.kind = "blank"
  \/ l.kind = "trigger" /\ ~Erased(f, k) /\ l.first = NoEnd
  \/ l.kind = "block" /\ ~Erased(f, k) /\ LineFeedMissing(l)
  \/ l.kind = "trigger" /\ Read(f, k) /\ None \in {l.first, l.function}
  \/ l.kind = "block" /\ Read(f, k) /\ l.first = None
  \/ l.kind = "DTT" /\ Read(f, k) /\ (LineFeedMissing(l) \/ l.first = None)
  \/ l.kind = "DTT" /\ Read(f, k) /\ ~\E m \in k + 1 .. Len(source[f]) : Answers(f, k, m)
  \/ l.kind = "assign" /\ ~Erased(f, k) /\ l.second = None /\ \E v \in Texts : Triggered(v)
  \/ /\ l.kind = "assign" /\ ~Erased(f, k)
     /\ SomeLine(LAMBDA g, j : /\ IsTrigger(l.second, g, j)
                               /\ ~Supported(source[g][j].function))

\* dttc follows a NULL pointer only for these causes.  (Given files that can be
\* opened and have ".dtt" in their names, lines and tables below their bounds.)
CrashCauses == crashed => SomeLine(LAMBDA f, k : NullCause(f, k))

=============================================================================
