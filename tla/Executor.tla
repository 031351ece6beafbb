------------------------------ MODULE Executor ------------------------------
(***************************************************************************)
(* The periodic executor (satrs/src/executable.rs): a thread that calls    *)
(* periodic_op of one executable (exec_sched_single) or, round by round,   *)
(* of several (exec_sched_multi), and looks for a termination broadcast    *)
(* before every round.                                                     *)
(*                                                                         *)
(* executor.plan: multi tells the two functions apart; tasks are the       *)
(* executables, each with its execution type and the call of periodic_op   *)
(* at which it fails (0 for never); freq is whether there is a task        *)
(* frequency, terminator whether there is a termination handler.           *)
(***************************************************************************)
EXTENDS Naturals, Sequences

CONSTANTS
    CycleMod        \* 2^32, the width of the cycle counters

ASSUME ExecutorAssumption == CycleMod \in Nat \ {0}

VARIABLE executor

Infinite == [type |-> "Infinite", cycles |-> 0, fails |-> 0]

Cycles(n) == [type |-> "Cycles", cycles |-> n, fails |-> 0]

OneShot == [type |-> "OneShot", cycles |-> 0, fails |-> 0]

\* executable_vec holds the positions in plan.tasks of those not yet removed;
\* its entries and those of cycle_counts and removal_flags belong together.
\* ops, rounds and after are history: the calls of each executable, the rounds
\* begun, and the calls of each since the termination was noticed.
NewExecutor(plan) ==
    LET ids == DOMAIN plan.tasks
    IN  [plan |-> plan, pc |-> "check", broadcast |-> FALSE,
         executable_vec |-> [i \in ids |-> i], idx |-> 1,
         cycle_counts |-> [i \in ids |-> 0], removal_flags |-> [i \in ids |-> FALSE],
         terminated |-> FALSE, rounds |-> 0,
         ops |-> [i \in ids |-> 0], after |-> [i \in ids |-> 0]]

\* The termination is broadcast, or the bus is dropped.
Broadcast ==
    /\ executor.plan.terminator /\ ~ executor.broadcast
    /\ executor' = [executor EXCEPT !.broadcast = TRUE]

\* try_recv of the terminator: exec_sched_single returns, exec_sched_multi
\* marks all executables for removal and runs them once more.
CheckTermination ==
    /\ executor.pc = "check"
    /\ LET round == [executor EXCEPT !.pc = "ops", !.idx = 1, !.rounds = @ + 1]
       IN  executor' =
               CASE ~ executor.broadcast -> round
                 [] executor.broadcast /\ executor.plan.multi ->
                       [round EXCEPT !.terminated = TRUE,
                                     !.removal_flags = [i \in DOMAIN @ |-> TRUE]]
                 [] OTHER -> [executor EXCEPT !.pc = "ended", !.terminated = TRUE]

\* Whether an executable is done after a call, with this cycle count.
IsLast(task, count) ==
    \/ task.type = "OneShot"
    \/ task.type = "Cycles" /\ count = task.cycles

\* One turn of the loop over the executables.
PeriodicOp ==
    /\ executor.pc = "ops" /\ executor.idx <= Len(executor.executable_vec)
    /\ LET idx == executor.idx
           id == executor.executable_vec[idx]
           task == executor.plan.tasks[id]
           count == IF task.type = "Cycles" THEN (executor.cycle_counts[idx] + 1) % CycleMod
                    ELSE executor.cycle_counts[idx]
           called == [executor EXCEPT !.ops[id] = @ + 1,
                                      !.after[id] = IF executor.terminated THEN @ + 1 ELSE @]
       IN  executor' =
               IF task.fails = called.ops[id] THEN [called EXCEPT !.pc = "error"]
               ELSE [called EXCEPT !.idx = @ + 1, !.cycle_counts[idx] = count,
                                   !.removal_flags[idx] = @ \/ IsLast(task, count)]

\* retain with an iterator over the flags.
Retain(vec, flags) ==
    LET kept == SelectSeq([i \in DOMAIN vec |-> i], LAMBDA i : ~ flags[i])
    IN  [i \in DOMAIN kept |-> vec[kept[i]]]

\* Mutant: the cycle counts of removed executables stay.
AfterRetain_Counts(x) ==
    [x EXCEPT !.executable_vec = Retain(@, x.removal_flags),
              !.removal_flags = Retain(@, @)]

\* The three vectors lose the entries that are marked.
AfterRetain(x) ==
    [x EXCEPT !.executable_vec = Retain(@, x.removal_flags),
              !.cycle_counts = Retain(@, x.removal_flags),
              !.removal_flags = Retain(@, @)]

\* The thread ends if no executable is left, and sleeps otherwise.
EndRound ==
    /\ executor.pc = "ops" /\ executor.idx > Len(executor.executable_vec)
    /\ LET x == AfterRetain(executor)
       IN  executor' =
               [x EXCEPT !.pc = CASE x.executable_vec = << >> -> "ended"
                                  [] x.executable_vec # << >> /\ x.plan.multi /\ ~ x.plan.freq ->
                                        "panic"
                                  [] OTHER -> "check"]

ExecutorNext == Broadcast \/ CheckTermination \/ PeriodicOp \/ EndRound
-----------------------------------------------------------------------------
\* The number of calls after which an executable is done.
CallsOf(task) ==
    IF task.type = "OneShot" THEN 1 ELSE IF task.cycles = 0 THEN CycleMod ELSE task.cycles

\* Each executable is called once in every round until it is done, never
\* after, and a termination that the thread has noticed lets it run at most
\* once more.  The thread ends by itself only when all are done.
RoundsKept ==
    LET x == executor
        tasks == x.plan.tasks
    IN  /\ \A i \in DOMAIN tasks :
              /\ x.after[i] <= 1
              /\ tasks[i].type # "Infinite" => x.ops[i] <= CallsOf(tasks[i])
              /\ x.pc = "check" =>
                    \/ x.ops[i] = x.rounds
                    \/ tasks[i].type # "Infinite" /\ x.ops[i] = CallsOf(tasks[i])
        /\ x.pc = "ended" /\ ~ x.terminated =>
              \A i \in DOMAIN tasks :
                  tasks[i].type # "Infinite" /\ x.ops[i] = CallsOf(tasks[i])
=============================================================================
