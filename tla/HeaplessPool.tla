---------------------------- MODULE HeaplessPool ----------------------------
(***************************************************************************)
(* The memory pool without heap of satrs/src/pool.rs.  Its subpools are    *)
(* those with which it was grown, in that order.  Unlike the pool with     *)
(* heap it does not sort them, so a block found by spilling may be smaller *)
(* than the data: memory is therefore modelled in units of a block, and    *)
(* part j of datum d is <<d, j>>.  A pool is a record: pool are the        *)
(* configurations, sizes the size lists and mem the memory of the blocks.  *)
(***************************************************************************)
EXTENDS Naturals, Sequences, PoolAddress

CONSTANTS
    Data,               \* what can be stored
    LenOf,              \* the length in bytes of each datum
    STORE_FREE,         \* the size entry of an unused block
    MAX_NUM_SUBPOOLS

ASSUME HeaplessAssumption ==
    /\ LenOf \in [Data -> Nat]
    /\ STORE_FREE \notin Nat
    /\ MAX_NUM_SUBPOOLS \in Nat

Zeros == <<"zeros", 0>>

NewPool(spill) ==
    [pool |-> << >>, sizes |-> [b \in {} |-> STORE_FREE], mem |-> [b \in {} |-> Zeros],
     spill_to_higher_subpools |-> spill]

\* grow with a size list that is set to all free; an error, and no change, for
\* more than MAX_NUM_SUBPOOLS subpools.
Grow(hp, num_blocks, block_size) ==
    LET blocks == {Len(hp.pool)} \X (0..(num_blocks - 1))
        Extended(f, v) == [b \in DOMAIN f \cup blocks |-> IF b \in blocks THEN v ELSE f[b]]
    IN  IF Len(hp.pool) = MAX_NUM_SUBPOOLS THEN hp
        ELSE [hp EXCEPT !.pool = Append(@, [num_blocks |-> num_blocks, block_size |-> block_size]),
                        !.sizes = Extended(@, STORE_FREE),
                        !.mem = Extended(@, Zeros)]

Subpools(hp) == 0..(Len(hp.pool) - 1)

Blocks(hp) == DOMAIN hp.sizes

NumBlocks(hp, p) == hp.pool[p + 1].num_blocks

BlockSize(hp, p) == hp.pool[p + 1].block_size

\* An address leads back to its block as long as both indices fit into eight
\* bits: at most 256 subpools, of at most 256 blocks.
IndicesFit(hp) == Len(hp.pool) <= 256 /\ \A p \in Subpools(hp) : NumBlocks(hp, p) <= 256

\* Mutant: one byte too many fits.
FindSubpool_OffByOne(hp, len) ==
    {p \in Subpools(hp) : /\ BlockSize(hp, p) + 1 >= len
                          /\ \A q \in Subpools(hp) : q < p => BlockSize(hp, q) + 1 < len}

\* find_subpool: empty for DataTooLarge.
FindSubpool(hp, len) ==
    {p \in Subpools(hp) : /\ BlockSize(hp, p) >= len
                          /\ \A q \in Subpools(hp) : q < p => BlockSize(hp, q) < len}

\* find_empty: the first free block of a subpool.  Empty for StoreFull.
FindEmpty(hp, p) ==
    {b \in Blocks(hp) : /\ b[1] = p /\ hp.sizes[b] = STORE_FREE
                        /\ \A k \in 0..(b[2] - 1) : hp.sizes[<<p, k>>] # STORE_FREE}

\* reserve: at most one block, none for NoCapacity, DataTooLarge, StoreFull.
Reserve(hp, len) ==
    {b \in Blocks(hp) :
        /\ b \in FindEmpty(hp, b[1])
        /\ \E p \in FindSubpool(hp, len) :
              \/ b[1] = p
              \/ /\ hp.spill_to_higher_subpools /\ b[1] > p
                 /\ \A q \in p..(b[1] - 1) : FindEmpty(hp, q) = {}}

\* The blocks that data of some length covers from block b on.
Units(hp, b, len) ==
    LET size == BlockSize(hp, b[1])
    IN  IF len <= size THEN {b}
        ELSE {b[1]} \X (b[2]..(b[2] + (len - 1) \div size))

\* The slice in write is within the memory of the subpool.
CanWrite(hp, b, len) == Units(hp, b, len) \subseteq Blocks(hp)

\* reserve once it has found block b.
PoolReserve(hp, b, len) == [hp EXCEPT !.sizes[b] = len]

\* The bytes of datum d are copied to block b.
PoolWrite(hp, b, d) ==
    [hp EXCEPT !.mem = [c \in DOMAIN @ |->
        IF c \in Units(hp, b, LenOf[d]) THEN <<d, c[2] - b[2]>> ELSE @[c]]]

\* add: reserve and write.
PoolAdd(hp, b, d) == PoolWrite(PoolReserve(hp, b, LenOf[d]), b, d)

\* validate_addr and addr_check of the block to which an address leads.
AddrCheck(hp, a) == Decode(a) \in Blocks(hp) /\ hp.sizes[Decode(a)] # STORE_FREE

\* has_element_at and len_of_data for an address that validate_addr accepts.
HasElementAt(hp, a) == hp.sizes[Decode(a)] # STORE_FREE

LenOfData(hp, a) == IF hp.sizes[Decode(a)] = STORE_FREE THEN 0 ELSE hp.sizes[Decode(a)]

\* read into a buffer of this size.
CanRead(hp, a, bufLen) == AddrCheck(hp, a) /\ hp.sizes[Decode(a)] <= bufLen

PoolRead(hp, a) == [c \in Units(hp, Decode(a), hp.sizes[Decode(a)]) |-> hp.mem[c]]

\* What a read of datum d in block b returns if nothing has touched it.
Stored(hp, b, d) == [c \in Units(hp, b, LenOf[d]) |-> <<d, c[2] - b[2]>>]

\* modify, with an updater that writes datum d of the same length.
PoolModify(hp, a, d) == PoolWrite(hp, Decode(a), d)

\* Mutant: a deleted block is zeroed and its size entry stays.
PoolDelete_KeepsSize(hp, a) == [hp EXCEPT !.mem[Decode(a)] = Zeros]

\* delete of an address that addr_check accepts: the entry is free, and the
\* bytes of the block are zero.
PoolDelete(hp, a) ==
    [hp EXCEPT !.sizes[Decode(a)] = STORE_FREE, !.mem[Decode(a)] = Zeros]
=============================================================================
