--------------------------- MODULE TriggeredTasks ---------------------------
(***************************************************************************)
(* What the event queue of libDTT promises: a bounded bag of tasks.  A     *)
(* task is posted once, begun once and finished once, and no more than     *)
(* Capacity tasks are posted and unfinished.  Nothing is promised about    *)
(* the order in which they begin.                                          *)
(***************************************************************************)
EXTENDS Naturals, FiniteSets

CONSTANTS Tasks, Capacity

VARIABLES waiting, running, done

vars == <<waiting, running, done>>

Init == waiting = {} /\ running = {} /\ done = {}

Post(t) ==
  /\ t \notin waiting \cup running \cup done
  /\ Cardinality(waiting \cup running) < Capacity
  /\ waiting' = waiting \cup {t}
  /\ UNCHANGED <<running, done>>

Begin(t) ==
  /\ t \in waiting
  /\ waiting' = waiting \ {t}
  /\ running' = running \cup {t}
  /\ UNCHANGED done

Finish(t) ==
  /\ t \in running
  /\ running' = running \ {t}
  /\ done' = done \cup {t}
  /\ UNCHANGED waiting

Next == \E t \in Tasks : Post(t) \/ Begin(t) \/ Finish(t)

Spec == Init /\ [][Next]_vars
=============================================================================
