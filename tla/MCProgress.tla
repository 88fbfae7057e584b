----------------------------- MODULE MCProgress -----------------------------
(***************************************************************************)
(* What must not wait for ever: payments with their orders and refunds,    *)
(* three bookings and two queries on a pool of four connections, or three  *)
(* replacements of one parent's rows; each behaviour is one of the three   *)
(* (part), and what does not begin is under no fairness.                   *)
(***************************************************************************)
EXTENDS MCPaymentLedger, MCBookingPool, ReplaceChildren

CONSTANTS a, b, c

VARIABLE part    \* which of the three this behaviour is

ChildLists == {<<a, b>>, <<b, a>>, <<>>}

MCInit ==
    /\ part \in {"payments", "pool", "children"}
    /\ RoundsInit /\ PoolInit /\ ChildInit
    /\ part # "children" => ignores
    /\ part # "payments" => live = {p1, p2, r1, r2}

MCNext ==
    \/ part = "payments" /\ RoundsNext /\ UNCHANGED <<part, poolVars, childVars>>
    \/ part = "pool" /\ PoolNext /\ UNCHANGED <<part, vars, live, childVars>>
    \/ part = "children" /\ ChildNext /\ UNCHANGED <<part, vars, live, poolVars>>

progressVars == <<part, vars, live, poolVars, childVars>>

\* Weaker than the fairness of the three modules: while calls that have begun can
\* go on, one of them does.
MCFairness ==
    /\ WF_vars(\/ \E p \in Payments : pc[p] # "start" /\ pay(p)
               \/ \E r \in Refunds : pc[r] # "start" /\ refund(r))
    /\ WF_poolVars(grant \/ (\E x \in PoolBookings : proceed(x)) \/ (\E q \in Queries : answer(q)))
    /\ WF_childVars(\E w \in Writers : step(w))

MCSpec == MCInit /\ [][MCNext]_progressVars /\ MCFairness
=============================================================================
