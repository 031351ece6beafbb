---------------------------- MODULE PoolAddress -----------------------------
(***************************************************************************)
(* The addresses of the memory pools of satrs/src/pool.rs.  A block is the *)
(* pair <<pool_idx, packet_idx>> of a StaticPoolAddr, and users of a pool  *)
(* are given a PoolAddr, which is a number.                                *)
(***************************************************************************)
EXTENDS Naturals

\* From<StaticPoolAddr> for PoolAddr: both u16 indices are kept.
Encode(b) == b[1] * 65536 + b[2]

\* From<PoolAddr> for StaticPoolAddr: both indices are masked with 0xff.
Decode(a) == <<(a \div 65536) % 256, a % 256>>
=============================================================================
