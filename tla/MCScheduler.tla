----------------------------- MODULE MCScheduler -----------------------------
(* Three threads, so that one may wait for the sockets, one run a handler  *)
(* and one sleep, or two be woken at once; one socket.                     *)
EXTENDS Scheduler

CONSTANTS t1, t2, t3, h1, h2, d1

MCThreads == {t1, t2, t3}
MCHandlers == {h1, h2}
MCDescriptors == {d1}

=============================================================================
