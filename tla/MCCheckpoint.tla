---------------------------- MODULE MCCheckpoint ----------------------------
(* Tests that use checkpoints, after lib/newlib_tests/tst_checkpoint*.c.   *)
EXTENDS Checkpoint

CONSTANTS parent, child, other

Wait(id) == [kind |-> "wait", id |-> id, msec |-> 0, safe |-> TRUE]
Wait2(id, msec) == [kind |-> "wait", id |-> id, msec |-> msec, safe |-> TRUE]
Wake2(id, nr) == [kind |-> "wake", id |-> id, nr |-> nr, msec |-> 0, safe |-> TRUE]
RawWait(id, msec) == [kind |-> "wait", id |-> id, msec |-> msec, safe |-> FALSE]
RawWake(id, nr, msec) ==
  [kind |-> "wake", id |-> id, nr |-> nr, msec |-> msec, safe |-> FALSE]
Exec_ == [kind |-> "exec"]
Reinit_ == [kind |-> "reinit"]

Test(p, c, o) ==
  [q \in {parent, child, other} |-> CASE q = parent -> p [] q = child -> c [] q = other -> o]

\* The two-way handshake, repeated on the same checkpoint, beside a waiter on
\* another one.
Handshake == Test(<<Wake2(0, 1), Wait(0), Wake2(0, 1)>>,
                  <<Wait(0), Wake2(0, 1), Wait(0)>>, <<RawWait(1, 1)>>)

\* One wake for two children, one of which is another program.
TwoWaiters == Test(<<Wake2(0, 2), Wait(1)>>, <<Wait2(0, 1), RawWake(1, 1, 2)>>,
                   <<Exec_, Reinit_, Wait(0)>>)

\* Two wakes that compete for two waiters, one of whom comes back.
Competition == Test(<<RawWake(0, 1, 2)>>, <<Wait(0), RawWake(0, 1, 1)>>,
                    <<RawWait(0, 1), RawWait(0, 2)>>)

\* Too large an id, no timeout, and an exec'd program that did not reinit.
Misuse == Test(<<RawWait(2, 1), RawWake(2, 1, 1), RawWait(0, 0)>>, <<RawWake(0, 1, 0), Wait(2)>>,
               <<Exec_, Wait(0)>>)

MCScripts == {Handshake, TwoWaiters, Competition, Misuse}

MCFlags == [needs_checkpoints : BOOLEAN, child_needs_reinit : BOOLEAN]
=============================================================================
