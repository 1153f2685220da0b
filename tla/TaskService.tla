---------------------------- MODULE TaskService ----------------------------
(***************************************************************************)
(* What include/thread_pool.h promises: a task that enqueue accepts waits  *)
(* in a first-in first-out queue, is started once, and is finished before  *)
(* the pool is gone.  Tasks are numbered in the order of their acceptance, *)
(* so the queue is the interval started + 1 .. accepted.                   *)
(***************************************************************************)
EXTENDS Naturals

VARIABLES accepted,  \* tasks accepted so far
          started,   \* tasks taken from the queue so far
          finished,  \* the set of the finished tasks
          gone       \* the destructor has returned

vars == <<accepted, started, finished, gone>>

Init == accepted = 0 /\ started = 0 /\ finished = {} /\ gone = FALSE

Accept ==
  /\ ~gone
  /\ accepted' = accepted + 1
  /\ UNCHANGED <<started, finished, gone>>

Start ==
  /\ started < accepted
  /\ started' = started + 1
  /\ UNCHANGED <<accepted, finished, gone>>

Finish(t) ==
  /\ t \in 1..started \ finished
  /\ finished' = finished \cup {t}
  /\ UNCHANGED <<accepted, started, gone>>

Close ==
  /\ finished = 1..accepted
  /\ gone' = TRUE
  /\ UNCHANGED <<accepted, started, finished>>

Next == Accept \/ Start \/ (\E t \in 1..started : Finish(t)) \/ Close

Spec == Init /\ [][Next]_vars
=============================================================================
