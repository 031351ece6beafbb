----------------------------- MODULE TcSchedule -----------------------------
(***************************************************************************)
(* What the time-based scheduler of satrs/src/pus/scheduler.rs promises,   *)
(* without the store, the addresses and the map: a set of pending          *)
(* telecommands with their release times.  A release takes exactly the     *)
(* telecommands that are due; they are executed when scheduling is enabled *)
(* and dropped when it is not.                                             *)
(***************************************************************************)
EXTENDS Naturals

CONSTANTS Tcs, Times, Margin

VARIABLES
    pending,    \* the schedule: pairs <<telecommand, release time>>
    now,        \* the scheduler's time
    on,         \* scheduling is enabled
    executed    \* how often each telecommand was released for execution

svars == <<pending, now, on, executed>>

SchedInit ==
    /\ pending = {}
    /\ now \in Times
    /\ on = TRUE
    /\ executed = [tc \in Tcs |-> 0]

Due == {e \in pending : e[2] <= now}

SetTime ==
    /\ now' \in Times
    /\ UNCHANGED <<pending, on, executed>>

Switch ==
    /\ on' \in BOOLEAN
    /\ UNCHANGED <<pending, now, executed>>

Accept(tc, t) ==
    /\ executed[tc] = 0
    /\ \A e \in pending : e[1] # tc
    /\ t >= now + Margin
    /\ pending' = pending \cup {<<tc, t>>}
    /\ UNCHANGED <<now, on, executed>>

Withdraw(removed) ==
    /\ pending' = pending \ removed
    /\ UNCHANGED <<now, on, executed>>

Clear ==
    /\ pending' = {}
    /\ on' = FALSE
    /\ UNCHANGED <<now, executed>>

Release ==
    /\ pending' = pending \ Due
    /\ executed' = [tc \in Tcs |-> IF on /\ \E e \in Due : e[1] = tc
                                   THEN executed[tc] + 1 ELSE executed[tc]]
    /\ UNCHANGED <<now, on>>

SchedNext ==
    \/ SetTime
    \/ Switch
    \/ \E tc \in Tcs, t \in Times : Accept(tc, t)
    \/ \E removed \in SUBSET pending : Withdraw(removed)
    \/ Clear
    \/ Release

SchedSpec == SchedInit /\ [][SchedNext]_svars

=============================================================================
