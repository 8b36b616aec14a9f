----------------------------- MODULE TaskPool -----------------------------
(***************************************************************************)
(* What threadpool.h promises of its queue: accepted tasks are started     *)
(* in the order in which they were accepted, each of them once.            *)
(* After a graceful shutdown no task is accepted and the pending ones are  *)
(* still processed; after an immediate shutdown none is started any more.  *)
(***************************************************************************)
EXTENDS Naturals, Sequences

CONSTANTS Task,       \* the calls of threadpool_add that may succeed
          Capacity    \* the number of tasks that may wait

VARIABLES accepted, pending, running, finished, closed
vars == <<accepted, pending, running, finished, closed>>

Init == /\ accepted = {} /\ pending = <<>> /\ running = {} /\ finished = {}
        /\ closed = "no"

Submit(t) ==
  /\ t \in Task \ accepted /\ closed = "no" /\ Len(pending) < Capacity
  /\ accepted' = accepted \cup {t} /\ pending' = Append(pending, t)
  /\ UNCHANGED <<running, finished, closed>>

Start ==
  /\ pending # <<>> /\ closed # "immediate"
  /\ running' = running \cup {Head(pending)} /\ pending' = Tail(pending)
  /\ UNCHANGED <<accepted, finished, closed>>

Finish(t) ==
  /\ t \in running
  /\ running' = running \ {t} /\ finished' = finished \cup {t}
  /\ UNCHANGED <<accepted, pending, closed>>

Shutdown(m) ==
  /\ closed = "no" /\ closed' = m
  /\ UNCHANGED <<accepted, pending, running, finished>>

Next == \/ \E t \in Task : Submit(t) \/ Finish(t)
        \/ Start
        \/ \E m \in {"graceful", "immediate"} : Shutdown(m)

Spec == Init /\ [][Next]_vars
=============================================================================
