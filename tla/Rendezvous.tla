----------------------------- MODULE Rendezvous -----------------------------
(***************************************************************************)
(* What include/tst_fuzzy_sync.h promises to a test: a two-party barrier.  *)
(* "The calls to tst_fzsync_start/end_race and tst_fzsync_run_a/b block    *)
(* (at least) until both threads have enter them."  The promise is void    *)
(* once the pair has been told to exit (open = TRUE).                      *)
(***************************************************************************)
EXTENDS Naturals

CONSTANT Thread

VARIABLES
  arrived,  \* how many barriers each thread has entered since the reset
  inside,   \* whether the thread is inside a barrier call now
  open      \* the exit request: the barrier no longer holds anybody back

rvars == <<arrived, inside, open>>

RInit ==
  /\ arrived = [t \in Thread |-> 0]
  /\ inside = [t \in Thread |-> FALSE]
  /\ open = FALSE

Enter(t) ==
  /\ ~inside[t]
  /\ arrived' = [arrived EXCEPT ![t] = @ + 1]
  /\ inside' = [inside EXCEPT ![t] = TRUE]
  /\ UNCHANGED open

\* A thread leaves its n-th barrier when every thread has entered its n-th.
Leave(t) ==
  /\ inside[t]
  /\ open \/ \A o \in Thread : arrived[o] >= arrived[t]
  /\ inside' = [inside EXCEPT ![t] = FALSE]
  /\ UNCHANGED <<arrived, open>>

Open ==
  /\ open' = TRUE
  /\ UNCHANGED <<arrived, inside>>

\* The pair is used again: only when nobody is inside.
Restart ==
  /\ \A t \in Thread : ~inside[t]
  /\ arrived' = [t \in Thread |-> 0]
  /\ open' = FALSE
  /\ UNCHANGED inside

RNext == Open \/ Restart \/ \E t \in Thread : Enter(t) \/ Leave(t)

RSpec == RInit /\ [][RNext]_rvars
=============================================================================
