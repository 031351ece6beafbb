--------------------------- MODULE MCPusScheduler ---------------------------
(***************************************************************************)
(* Small instances of PusScheduler: a pool of three blocks in two          *)
(* subpools, two telecommands with the same request ID, one too long for   *)
(* the small blocks, and one that may not be scheduled.                    *)
(***************************************************************************)
EXTENDS PusScheduler

CONSTANTS tc1, tc2, tc3, nested

MCCfg == << [num_blocks |-> 2, block_size |-> 4], [num_blocks |-> 1, block_size |-> 8] >>

MCTcs == {tc1, tc2, tc3, nested}

MCLenOf == [tc \in MCTcs |-> IF tc = tc3 THEN 8 ELSE 4]

MCReqIdOf == [tc \in MCTcs |-> IF tc = tc2 THEN 1 ELSE 2]

MCUnschedulable == {nested}

MCTimes == 0..2

=============================================================================
