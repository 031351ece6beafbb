----------------------------- MODULE MCMemPool -----------------------------
(***************************************************************************)
(* Small instances of MemPool.  MCCfg is what sanitize makes of a raw      *)
(* configuration that is out of order and has an empty subpool; MCWideCfg  *)
(* is one subpool with more blocks than eight bits can count.              *)
(***************************************************************************)
EXTENDS MemPool

CONSTANTS a4, b4, c5, d8, e16, f17

RawCfg ==
    << [num_blocks |-> 1, block_size |-> 16],
       [num_blocks |-> 0, block_size |-> 12],
       [num_blocks |-> 2, block_size |-> 4],
       [num_blocks |-> 1, block_size |-> 8],
       [num_blocks |-> 3, block_size |-> 999] >>

MCCfg == Sanitize(RawCfg, 999)

\* Lengths on both sides of every block size boundary.
MCData == {a4, b4, c5, d8, e16, f17}

MCLenOf ==
    [d \in MCData |-> CASE d \in {a4, b4} -> 4
                        [] d = c5 -> 5
                        [] d = d8 -> 8
                        [] d = e16 -> 16
                        [] d = f17 -> 17]

WideCfg == << [num_blocks |-> 257, block_size |-> 8] >>

WideData == 0..256

WideLenOf == [d \in WideData |-> 8]

\* One user fills the pool, storing a different datum each time.
FillNext == Cardinality(Held) \in Data /\ Add(Cardinality(Held))

FillSpec == Init /\ [][FillNext]_vars

=============================================================================
