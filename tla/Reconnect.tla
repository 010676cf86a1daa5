----------------------------- MODULE Reconnect -----------------------------
(***************************************************************************)
(* The client's main loop Run as far as its timing goes: runOnce, the wait *)
(* before the next attempt, its exponential growth and its reset, and the  *)
(* places where a stop signal is noticed.  Time is abstracted to what the  *)
(* code compares: whether five minutes have passed since Run started, and  *)
(* whether a connection lasted that long.                                  *)
(***************************************************************************)
EXTENDS Integers

CONSTANTS
    Base,           \* cfg.Reconnect.Base (1 s)
    Max             \* cfg.Reconnect.Max (60 s)

VARIABLES
    pc,             \* "top", "once" (in runOnce), "decide", "wait" or "done"
    backoff,
    wait,           \* the wait under way, or the last one
    aged,           \* time.Since(stableAt) > 5 min; stableAt is set once, when Run starts
    stable,         \* the connection that just ended had lasted more than 5 min
    stop            \* ctx is cancelled

vars == <<pc, backoff, wait, aged, stable, stop>>

Init == /\ pc = "top"
        /\ backoff = Base
        /\ wait = 0
        /\ aged = FALSE
        /\ stable = FALSE
        /\ stop = FALSE

\* The loop starts over; a stop signal is noticed here.
Top == /\ pc = "top"
       /\ pc' = IF stop THEN "done" ELSE "once"
       /\ stable' = FALSE
       /\ UNCHANGED <<backoff, wait, aged, stop>>

\* runOnce returns: no connection, or one that ended after a short or a long time.
\* It takes no notice of ctx.
Ends(long) == /\ pc = "once"
              /\ pc' = "decide"
              /\ stable' = long
              /\ aged' = (aged \/ long)
              /\ UNCHANGED <<backoff, wait, stop>>

\* What the next wait grows from.
Restarted == IF aged THEN Base ELSE backoff

\* The jitter, a fraction between -0.2 and 0.2, is made a whole number before it is
\* multiplied.
Jitter(b) == 0 * b

\* Stop, or the wait before the next attempt is chosen.
Decide == /\ pc = "decide"
          /\ pc' = IF stop THEN "done" ELSE "wait"
          /\ backoff' = IF stop THEN backoff ELSE Restarted
          /\ wait' = IF stop THEN wait ELSE Restarted + Jitter(Restarted)
          /\ UNCHANGED <<aged, stable, stop>>

\* The wait is over: the next one will be twice as long, up to the maximum.
WaitOver == /\ pc = "wait"
            /\ pc' = "top"
            /\ backoff' = IF 2 * backoff > Max THEN Max ELSE 2 * backoff
            /\ UNCHANGED <<wait, aged, stable, stop>>

\* A stop signal ends the wait.
Cancelled == /\ pc = "wait"
             /\ stop
             /\ pc' = "done"
             /\ UNCHANGED <<backoff, wait, aged, stable, stop>>

\* SIGINT or SIGTERM.
Signal == /\ ~stop
          /\ stop' = TRUE
          /\ UNCHANGED <<pc, backoff, wait, aged, stable>>

\* Five minutes since the start are over.
TimePasses == /\ ~aged
              /\ aged' = TRUE
              /\ UNCHANGED <<pc, backoff, wait, stable, stop>>

Next == \/ Top \/ Decide \/ WaitOver \/ Cancelled
        \/ \E long \in BOOLEAN : Ends(long)
        \/ Signal \/ TimePasses

Spec == Init /\ [][Next]_vars

-----------------------------------------------------------------------------
\* client.go:73, README:80 "reset after more than five minutes of stable running",
\* design.md:165: a wait is shorter than the one before only after a connection
\* that lasted more than five minutes.
ResetOnlyWhenStable == [][wait' < wait => stable]_vars
=============================================================================
