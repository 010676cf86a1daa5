-------------------------- MODULE ReconnectProofs --------------------------
(***************************************************************************)
(* What does hold of the waits between connection attempts, for any base   *)
(* and any maximum not below it.                                           *)
(***************************************************************************)
EXTENDS Reconnect, TLAPS

\* What LoadClient requires of the two (config.go:240), and the defaults satisfy.
Ordered == Base \in Nat /\ Max \in Nat /\ Base <= Max

\* The next wait is never below the last one, except that the reset, which happens
\* only when five minutes have passed since the start, begins again at Base.
IInv ==
    /\ pc \in {"top", "once", "decide", "wait", "done"}
    /\ backoff \in Base..Max
    /\ wait \in {0} \union Base..Max
    /\ aged \in BOOLEAN
    /\ pc = "wait" => wait = backoff
    /\ ~aged => wait <= backoff

\* The wait that the client is in lies between the base and the maximum.
WaitBounded == pc = "wait" => wait \in Base..Max

\* A wait is shorter than the one before only if five minutes have passed since Run
\* started: the weaker statement that the code satisfies.
ResetOnlyWhenAged == [][wait' < wait => aged]_vars

\* Run starts with the base as its wait to come.
LEMMA Start == ASSUME Ordered, Init PROVE IInv
<1>1. pc = "top" /\ backoff = Base /\ wait = 0
    BY DEF Init
<1>2. ~aged /\ aged \in BOOLEAN
    BY Zenon DEF Init
<1>3. backoff \in Base..Max /\ wait <= backoff
    BY <1>1 DEF Ordered
<1> QED BY <1>1, <1>2, <1>3 DEF IInv

\* Each step of the loop keeps the invariant and takes back no wait too early.
LEMMA Step ==
    ASSUME Ordered, IInv, [Next]_vars
    PROVE  IInv' /\ (wait' < wait => aged)
<1> USE DEF Ordered
<1>1. CASE Top
    BY <1>1 DEF IInv, Top
<1>2. CASE Decide
    <2>1. CASE stop
        BY <1>2, <2>1 DEF IInv, Decide
    <2>2. CASE ~stop
        <3>1. Restarted \in Base..Max /\ (~aged => Restarted = backoff)
            BY DEF IInv, Restarted
        <3>2. /\ pc' = "wait" /\ backoff' = Restarted /\ wait' = Restarted
              /\ aged' = aged
            BY <1>2, <2>2, <3>1 DEF Decide, Jitter
        <3> QED BY <3>1, <3>2 DEF IInv
    <2> QED BY <2>1, <2>2
<1>3. CASE WaitOver
    BY <1>3 DEF IInv, WaitOver
<1>4. CASE Cancelled
    BY <1>4 DEF IInv, Cancelled
<1>5. CASE \E long \in BOOLEAN : Ends(long)
    BY <1>5 DEF IInv, Ends
<1>6. CASE Signal
    BY <1>6 DEF IInv, Signal
<1>7. CASE TimePasses
    BY <1>7 DEF IInv, TimePasses
<1>8. CASE UNCHANGED vars
    BY <1>8 DEF IInv, vars
<1> QED BY <1>1, <1>2, <1>3, <1>4, <1>5, <1>6, <1>7, <1>8 DEF Next

\* Run waits at least the base and at most the maximum before each attempt, however
\* attempts fail, connections end and signals arrive (client.go:89-107).
THEOREM WaitsAreBounded == ASSUME Ordered PROVE Spec => []WaitBounded
<1>1. Init => IInv
    BY Start
<1>2. IInv /\ [Next]_vars => IInv'
    BY Step
<1>3. IInv => WaitBounded
    BY DEF IInv, WaitBounded
<1> QED BY <1>1, <1>2, <1>3, PTL DEF Spec

\* In the first five minutes of Run the waits never become shorter, and so the
\* exponential backoff does what it should (client.go:89-107); ResetOnlyWhenStable,
\* the documented rule for the time after that, is refuted by its run.
THEOREM BackoffHolds == ASSUME Ordered PROVE Spec => ResetOnlyWhenAged
<1>1. Init => IInv
    BY Start
<1>2. IInv /\ [Next]_vars => IInv'
    BY Step
<1>3. IInv /\ [Next]_vars => [wait' < wait => aged]_vars
    BY Step
<1> QED BY <1>1, <1>2, <1>3, PTL DEF Spec, ResetOnlyWhenAged
=============================================================================
