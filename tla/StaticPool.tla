----------------------------- MODULE StaticPool -----------------------------
(***************************************************************************)
(* The static memory pool of satrs/src/pool.rs: a sequence of subpools,    *)
(* each with a number of blocks of one size.  This module has no state; it *)
(* defines what every pool operation computes from a memory m, a function  *)
(* from blocks to the data they hold or STORE_FREE.  The size list and the *)
(* byte blocks of the code are one function here: a block's size entry is  *)
(* STORE_FREE exactly when its bytes are not data, and no operation reads  *)
(* the bytes of a free block.                                              *)
(***************************************************************************)
EXTENDS Integers, Sequences, FiniteSets, TLC, PoolAddress

CONSTANTS
    Cfg,         \* the subpools in pool order: [num_blocks, block_size]
    Spill,       \* spill_to_higher_subpools
    Data,        \* what can be stored
    LenOf,       \* the length in bytes of each datum
    STORE_FREE   \* the size entry of an unused block

\* sanitize drops subpools without blocks.
ASSUME CfgAssumption ==
    /\ Len(Cfg) \in Nat
    /\ \A i \in 1..Len(Cfg) : /\ Cfg[i].num_blocks \in Nat \ {0}
                              /\ Cfg[i].block_size \in Nat
    /\ Spill \in BOOLEAN

ASSUME DataAssumption ==
    /\ LenOf \in [Data -> Nat]
    /\ STORE_FREE \notin Data

-----------------------------------------------------------------------------
(* Blocks and their addresses                                              *)

Subpools == 0..(Len(Cfg) - 1)

NumBlocks(p) == Cfg[p + 1].num_blocks

BlockSize(p) == Cfg[p + 1].block_size

Blocks == UNION {{p} \X (0..(NumBlocks(p) - 1)) : p \in Subpools}

Memory == [Blocks -> Data \cup {STORE_FREE}]

EmptyMemory == [b \in Blocks |-> STORE_FREE]

Addresses == {Encode(b) : b \in Blocks}

\* StaticPoolConfig::sanitize: what a raw configuration becomes.
Sanitize(raw, maxBlockSize) ==
    SortSeq(SelectSeq(raw, LAMBDA c : c.num_blocks > 0 /\ c.block_size < maxBlockSize),
            LAMBDA c, d : c.block_size < d.block_size)

\* An address identifies its block as long as both indices fit into eight bits:
\* no subpool has more than 256 blocks and there are at most 256 subpools.
IndicesFit ==
    /\ Len(Cfg) <= 256
    /\ \A p \in Subpools : NumBlocks(p) <= 256

\* The subpools are in the order of their block sizes, as sanitize leaves them.
CfgSorted ==
    \A p, q \in Subpools : p < q => BlockSize(p) <= BlockSize(q)

-----------------------------------------------------------------------------
(* Reserving a block                                                       *)

HasEmpty(m, p) == \E k \in 0..(NumBlocks(p) - 1) : m[<<p, k>>] = STORE_FREE

\* find_subpool: the first subpool, in pool order, whose blocks are large
\* enough.  Empty for DataTooLarge.
FindSubpool(len) ==
    {p \in Subpools : /\ BlockSize(p) >= len
                      /\ \A q \in 0..(p - 1) : BlockSize(q) < len}

\* find_empty: the first free block of a subpool.  Empty for StoreFull.
FindEmpty(m, p) ==
    {b \in {p} \X (0..(NumBlocks(p) - 1)) :
        /\ m[b] = STORE_FREE
        /\ \A k \in 0..(b[2] - 1) : m[<<p, k>>] # STORE_FREE}

\* Bug: a spill that looks at the next subpool only.
Reserve_oneSpill(m, len) ==
    {b \in Blocks : \E p \in FindSubpool(len) :
        \/ b \in FindEmpty(m, p)
        \/ /\ Spill /\ p + 1 \in Subpools /\ ~HasEmpty(m, p)
           /\ b \in FindEmpty(m, p + 1)}

\* Bug: spilling starts the search at the first subpool.
Reserve_anyFree(m, len) ==
    {b \in Blocks : /\ b \in FindEmpty(m, b[1])
                    /\ \A q \in 0..(b[1] - 1) : ~HasEmpty(m, q)}

\* reserve: the block that data of this length gets, as a set of at most one
\* element; empty when the code returns DataTooLarge or StoreFull.  With
\* spilling the search goes on from the fitting subpool to the first later
\* one that has a free block.
Reserve(m, len) ==
    {b \in Blocks :
        /\ \E p \in FindSubpool(len) :
              \/ ~Spill /\ b[1] = p
              \/ Spill /\ b[1] >= p /\ \A q \in p..(b[1] - 1) : ~HasEmpty(m, q)
        /\ b \in FindEmpty(m, b[1])}

-----------------------------------------------------------------------------
(* Access by address                                                       *)

\* validate_addr
ValidAddr(a) == Decode(a) \in Blocks

\* addr_check: the address is valid and its block holds data.
AddrCheck(m, a) == ValidAddr(a) /\ m[Decode(a)] # STORE_FREE

\* len_of_data on a valid address: zero for a free block.
LenOfData(m, a) ==
    IF m[Decode(a)] = STORE_FREE THEN 0 ELSE LenOf[m[Decode(a)]]

\* The condition under which read succeeds with a buffer of this size.
CanRead(m, a, bufLen) == AddrCheck(m, a) /\ LenOf[m[Decode(a)]] <= bufLen

\* read_as_vec sizes its buffer with len_of_data before it reads.
CanReadAsVec(m, a) == ValidAddr(a) /\ CanRead(m, a, LenOfData(m, a))

\* What a successful read returns.
PoolRead(m, a) == m[Decode(a)]

\* add and free_element write d to the block that reserve found.
PoolWrite(m, b, d) == [m EXCEPT ![b] = d]

\* modify: the updater runs on the data in place, its length is kept.
PoolModify(m, a, d) == [m EXCEPT ![Decode(a)] = d]

\* delete: an error, and no change, when addr_check fails.
PoolDelete(m, a) ==
    IF AddrCheck(m, a) THEN [m EXCEPT ![Decode(a)] = STORE_FREE] ELSE m

=============================================================================
