--------------------------- MODULE HeaplessProofs ---------------------------
(***************************************************************************)
(* The memory pool without heap keeps the elements of its user, for every  *)
(* set of data, every growth of the pool and every order of the calls.     *)
(* The invariant says block by block that the size list and the memory are *)
(* those of what the user holds, and that it fits the block: a write then  *)
(* touches no other block.  That an element fits is where the order of the *)
(* subpools is needed, when reserve has spilled.  That an address leads    *)
(* back to the block it was made for is where the bound on the indices is. *)
(***************************************************************************)
EXTENDS HeaplessUser, TLAPS

(* Most leaves need only first-order reasoning and go to Zenon; a leaf     *)
(* with arithmetic, or with functions and records that Zenon does not      *)
(* know, names SMT.  Both get more time than their default, for slower     *)
(* machines.                                                               *)
USE ZenonT(60)

Configs == [num_blocks : Nat, block_size : Nat]

\* The shape of a pool: a size entry and a memory for each block of each
\* subpool, and no others.
WellFormed(hp) ==
    /\ hp \in [pool : Seq(Configs), sizes : {hp.sizes}, mem : {hp.mem},
               spill_to_higher_subpools : BOOLEAN]
    /\ hp.sizes = [b \in Blocks(hp) |-> hp.sizes[b]]
    /\ hp.mem = [b \in Blocks(hp) |-> hp.mem[b]]
    /\ \A b \in Blocks(hp) :
          b \in Nat \X Nat /\ b[1] \in Subpools(hp) /\ b[2] < NumBlocks(hp, b[1])

UserShape ==
    /\ user \in [pool : {user.pool}, growth : Seq((Nat \ {0}) \X Nat),
                 data : SUBSET Data, held : {user.held}, panicked : BOOLEAN,
                 overran : BOOLEAN]
    /\ WellFormed(user.pool)
    /\ user.held = [a \in DOMAIN user.held |-> user.held[a]]
    /\ \A a \in DOMAIN user.held : user.held[a] \in Data

\* Subpools from which reserve takes no block that is too small.
Ordered(hp) == ~ hp.spill_to_higher_subpools \/ Ascending(hp)

\* The entries and the memory of the blocks are those of what is held.
Agrees(hp, held) ==
    /\ \A b \in Blocks(hp) : Encode(b) \notin DOMAIN held => hp.sizes[b] = STORE_FREE
    /\ \A a \in DOMAIN held :
          /\ Decode(a) \in Blocks(hp) /\ Encode(Decode(a)) = a
          /\ hp.sizes[Decode(a)] = LenOf[held[a]]
          /\ LenOf[held[a]] <= BlockSize(hp, Decode(a)[1])
          /\ hp.mem[Decode(a)] = <<held[a], 0>>

IInv ==
    /\ UserShape
    /\ user.panicked => user.overran
    /\ user.overran => ~ Ordered(user.pool)
    /\ IndicesFit(user.pool) /\ ~ user.overran => Agrees(user.pool, user.held)
-----------------------------------------------------------------------------
\* The size of the blocks of a subpool is a number.
LEMMA SubpoolSize ==
    ASSUME NEW hp, WellFormed(hp), NEW p \in Subpools(hp)
    PROVE  p \in Nat /\ BlockSize(hp, p) \in Nat
<1>1. hp.pool \in Seq(Configs)
  BY DEF WellFormed
<1>2. p \in Nat /\ p + 1 \in 1..Len(hp.pool)
  BY SMTT(60), <1>1 DEF Subpools
<1>3. hp.pool[p + 1] \in Configs
  BY SMTT(60), <1>1, <1>2
<1> QED
  BY <1>2, <1>3 DEF BlockSize, Configs

\* The address of a block leads back to it if the indices fit.
LEMMA DecodeEncode ==
    ASSUME NEW hp, WellFormed(hp), IndicesFit(hp), NEW b \in Blocks(hp)
    PROVE  Decode(Encode(b)) = b
<1>1. /\ b \in Nat \X Nat /\ b[1] \in Subpools(hp) /\ b[2] < NumBlocks(hp, b[1])
      /\ NumBlocks(hp, b[1]) <= 256 /\ Len(hp.pool) <= 256 /\ hp.pool \in Seq(Configs)
  BY DEF WellFormed, IndicesFit
<1>2. PICK i \in Nat, j \in Nat : b = <<i, j>>
  <2>1. b \in Nat \X Nat
    BY <1>1
  <2> QED
    BY SMTT(60), <2>1
<1>3. hp.pool[i + 1] \in Configs /\ i < 256
  <2>1. i \in Subpools(hp)
    BY <1>1, <1>2
  <2>2. i + 1 \in 1..Len(hp.pool) /\ i < 256
    BY SMTT(60), <1>1, <2>1 DEF Subpools
  <2> QED
    BY SMTT(60), <1>1, <2>2
<1>4. NumBlocks(hp, i) \in Nat
  BY <1>3 DEF NumBlocks, Configs
<1>5. i \in 0..255 /\ j \in 0..255
  BY SMTT(60), <1>1, <1>2, <1>3, <1>4
<1>6. \A x, y \in 0..255 : /\ (x * 65536 + y) \div 65536 = x
                           /\ (x * 65536 + y) % 256 = y
                           /\ x % 256 = x
  BY SMTT(60)
<1> QED
  BY SMTT(60), <1>2, <1>5, <1>6 DEF Encode, Decode

\* reserve finds a free block, and one that is large enough if the pool is
\* ordered.
LEMMA ReserveFits ==
    ASSUME NEW hp, WellFormed(hp), NEW len \in Nat, NEW b \in Reserve(hp, len)
    PROVE  /\ b \in Blocks(hp) /\ hp.sizes[b] = STORE_FREE
           /\ Ordered(hp) => len <= BlockSize(hp, b[1])
<1>1. b \in Blocks(hp) /\ hp.sizes[b] = STORE_FREE
  BY DEF Reserve, FindEmpty
<1>2. PICK p \in FindSubpool(hp, len) :
         b[1] = p \/ (hp.spill_to_higher_subpools /\ b[1] > p)
  BY DEF Reserve
<1>3. p \in Subpools(hp) /\ BlockSize(hp, p) >= len /\ b[1] \in Subpools(hp)
  BY <1>1 DEF FindSubpool, WellFormed
<1>4. p \in Nat /\ b[1] \in Nat /\ BlockSize(hp, p) \in Nat /\ BlockSize(hp, b[1]) \in Nat
  BY <1>3, SubpoolSize
<1>5. ASSUME Ordered(hp) PROVE len <= BlockSize(hp, b[1])
  <2>1. CASE b[1] = p
    BY <1>3, <1>4, <2>1
  <2>2. CASE hp.spill_to_higher_subpools /\ b[1] > p
    <3>1. BlockSize(hp, p) <= BlockSize(hp, b[1])
      BY <1>3, <1>4, <1>5, <2>2 DEF Ordered, Ascending
    <3> QED
      BY SMTT(60), <1>3, <1>4, <3>1
  <2> QED
    BY <1>2, <2>1, <2>2
<1> QED
  BY <1>1, <1>5

\* A write to a block keeps the shape of the pool, and of an element that fits
\* it touches no other block.
LEMMA WriteOne ==
    ASSUME NEW hp, WellFormed(hp), NEW b \in Blocks(hp), NEW d \in Data
    PROVE  /\ WellFormed(PoolWrite(hp, b, d))
           /\ PoolWrite(hp, b, d).pool = hp.pool
           /\ PoolWrite(hp, b, d).spill_to_higher_subpools = hp.spill_to_higher_subpools
           /\ PoolWrite(hp, b, d).sizes = hp.sizes
           /\ LenOf[d] <= BlockSize(hp, b[1]) =>
                 PoolWrite(hp, b, d).mem = [hp.mem EXCEPT ![b] = <<d, 0>>]
<1> DEFINE after == PoolWrite(hp, b, d)
<1>1. /\ after.pool = hp.pool /\ after.sizes = hp.sizes
      /\ after.spill_to_higher_subpools = hp.spill_to_higher_subpools
      /\ after.mem = [c \in Blocks(hp) |->
             IF c \in Units(hp, b, LenOf[d]) THEN <<d, c[2] - b[2]>> ELSE hp.mem[c]]
      /\ after \in [pool : Seq(Configs), sizes : {after.sizes}, mem : {after.mem},
                    spill_to_higher_subpools : BOOLEAN]
  BY DEF PoolWrite, WellFormed
<1>2. WellFormed(after)
  <2> HIDE DEF after
  <2> QED
    BY <1>1 DEF WellFormed, Blocks, Subpools, NumBlocks
<1>3. ASSUME LenOf[d] <= BlockSize(hp, b[1])
      PROVE  after.mem = [hp.mem EXCEPT ![b] = <<d, 0>>]
  <2>1. Units(hp, b, LenOf[d]) = {b}
    BY <1>3 DEF Units
  <2>2. b[2] - b[2] = 0
    BY SMTT(60) DEF WellFormed
  <2> HIDE DEF after
  <2> QED
    BY <1>1, <2>1, <2>2 DEF WellFormed
<1> QED
  BY <1>1, <1>2, <1>3

\* add and free_element keep the shape of the pool, and change the entry of
\* the block that was reserved and, of an element that fits, its memory only.
LEMMA AddOne ==
    ASSUME NEW hp, WellFormed(hp), NEW b \in Blocks(hp), NEW d \in Data
    PROVE  /\ WellFormed(PoolAdd(hp, b, d))
           /\ PoolAdd(hp, b, d).pool = hp.pool
           /\ PoolAdd(hp, b, d).spill_to_higher_subpools = hp.spill_to_higher_subpools
           /\ PoolAdd(hp, b, d).sizes = [hp.sizes EXCEPT ![b] = LenOf[d]]
           /\ LenOf[d] <= BlockSize(hp, b[1]) =>
                 PoolAdd(hp, b, d).mem = [hp.mem EXCEPT ![b] = <<d, 0>>]
<1> DEFINE mid == PoolReserve(hp, b, LenOf[d])
<1>1. /\ mid.pool = hp.pool /\ mid.mem = hp.mem
      /\ mid.spill_to_higher_subpools = hp.spill_to_higher_subpools
      /\ mid.sizes = [hp.sizes EXCEPT ![b] = LenOf[d]]
      /\ mid \in [pool : Seq(Configs), sizes : {mid.sizes}, mem : {mid.mem},
                  spill_to_higher_subpools : BOOLEAN]
  BY DEF PoolReserve, WellFormed
<1> HIDE DEF mid
<1>2. Blocks(mid) = Blocks(hp)
  BY <1>1 DEF Blocks, WellFormed
<1>3. WellFormed(mid)
  BY <1>1, <1>2 DEF WellFormed, Blocks, Subpools, NumBlocks
<1>4. PoolAdd(hp, b, d) = PoolWrite(mid, b, d)
  BY DEF PoolAdd, mid
<1>5. BlockSize(mid, b[1]) = BlockSize(hp, b[1])
  BY <1>1 DEF BlockSize
<1> QED
  BY SMTT(60), <1>1, <1>2, <1>3, <1>4, <1>5, WriteOne

\* What is held agrees with the blocks after an element was added ...
LEMMA AddAgrees ==
    ASSUME NEW hp, WellFormed(hp), NEW held, Agrees(hp, held), NEW b \in Blocks(hp),
           Decode(Encode(b)) = b, NEW d \in Data, LenOf[d] <= BlockSize(hp, b[1])
    PROVE  Agrees(PoolAdd(hp, b, d), Holding(held, Encode(b), d))
<1>1. PICK addr : addr = Encode(b)
  OBVIOUS
<1> DEFINE after == PoolAdd(hp, b, d)
           now == Holding(held, addr, d)
<1>2. /\ after.pool = hp.pool
      /\ after.sizes = [hp.sizes EXCEPT ![b] = LenOf[d]]
      /\ after.mem = [hp.mem EXCEPT ![b] = <<d, 0>>]
  BY SMTT(60), AddOne
<1>3. DOMAIN now = DOMAIN held \cup {addr} /\ now[addr] = d
      /\ \A a \in DOMAIN held : a # addr => now[a] = held[a]
  BY DEF Holding
<1> HIDE DEF after, now
<1>4. Blocks(after) = Blocks(hp) /\ \A p : BlockSize(after, p) = BlockSize(hp, p)
  BY <1>2 DEF Blocks, BlockSize, WellFormed
<1>5. /\ \A c \in Blocks(hp) : c # b => after.sizes[c] = hp.sizes[c] /\ after.mem[c] = hp.mem[c]
      /\ after.sizes[b] = LenOf[d] /\ after.mem[b] = <<d, 0>>
  BY <1>2 DEF WellFormed, Blocks
<1>6. ASSUME NEW c \in Blocks(after), Encode(c) \notin DOMAIN now
      PROVE  after.sizes[c] = STORE_FREE
  BY <1>1, <1>3, <1>4, <1>5, <1>6 DEF Agrees
<1>7. ASSUME NEW a \in DOMAIN now
      PROVE  /\ Decode(a) \in Blocks(after) /\ Encode(Decode(a)) = a
             /\ after.sizes[Decode(a)] = LenOf[now[a]]
             /\ LenOf[now[a]] <= BlockSize(after, Decode(a)[1])
             /\ after.mem[Decode(a)] = <<now[a], 0>>
  <2>1. CASE a = addr
    BY <1>1, <1>3, <1>4, <1>5, <2>1
  <2>2. CASE a # addr
    <3>1. a \in DOMAIN held /\ now[a] = held[a]
      BY <1>3, <2>2
    <3>2. Decode(a) \in Blocks(hp) /\ Encode(Decode(a)) = a /\ Decode(a) # b
      BY <1>1, <2>2, <3>1 DEF Agrees
    <3> QED
      BY <1>4, <1>5, <3>1, <3>2 DEF Agrees
  <2> QED
    BY <2>1, <2>2
<1> QED
  BY <1>1, <1>6, <1>7 DEF Agrees, after, now

\* ... after modify has written another one of that length ...
LEMMA ModifyAgrees ==
    ASSUME NEW hp, WellFormed(hp), NEW held, Agrees(hp, held),
           held = [c \in DOMAIN held |-> held[c]],
           NEW addr \in DOMAIN held, NEW d \in Data, hp.sizes[Decode(addr)] = LenOf[d]
    PROVE  Agrees(PoolModify(hp, addr, d), [held EXCEPT ![addr] = d])
<1>1. PICK b : b = Decode(addr)
  OBVIOUS
<1> DEFINE after == PoolWrite(hp, b, d)
           now == [held EXCEPT ![addr] = d]
<1>2. b \in Blocks(hp) /\ LenOf[d] <= BlockSize(hp, b[1]) /\ Encode(b) = addr
  BY <1>1 DEF Agrees
<1>3. /\ after.pool = hp.pool /\ after.sizes = hp.sizes
      /\ after.mem = [hp.mem EXCEPT ![b] = <<d, 0>>]
  BY SMTT(60), <1>2, WriteOne
<1>4. DOMAIN now = DOMAIN held /\ now[addr] = d
      /\ \A a \in DOMAIN held : a # addr => now[a] = held[a]
  OBVIOUS
<1> HIDE DEF after, now
<1>5. Blocks(after) = Blocks(hp) /\ \A p : BlockSize(after, p) = BlockSize(hp, p)
  BY <1>3 DEF Blocks, BlockSize
<1>6. /\ \A c \in Blocks(hp) : c # b => after.mem[c] = hp.mem[c]
      /\ after.mem[b] = <<d, 0>>
  BY <1>2, <1>3 DEF WellFormed, Blocks
<1>7. \A c \in Blocks(after) : Encode(c) \notin DOMAIN now => after.sizes[c] = STORE_FREE
  BY <1>3, <1>4, <1>5 DEF Agrees
<1>8. ASSUME NEW a \in DOMAIN now
      PROVE  /\ Decode(a) \in Blocks(after) /\ Encode(Decode(a)) = a
             /\ after.sizes[Decode(a)] = LenOf[now[a]]
             /\ LenOf[now[a]] <= BlockSize(after, Decode(a)[1])
             /\ after.mem[Decode(a)] = <<now[a], 0>>
  <2>1. CASE a = addr
    BY <1>1, <1>2, <1>3, <1>4, <1>5, <1>6, <2>1
  <2>2. CASE a # addr
    <3>1. a \in DOMAIN held /\ now[a] = held[a] /\ Decode(a) # b
      BY <1>2, <1>4, <2>2 DEF Agrees
    <3> QED
      BY <1>3, <1>5, <1>6, <3>1 DEF Agrees
  <2> QED
    BY <2>1, <2>2
<1> QED
  BY <1>1, <1>7, <1>8 DEF Agrees, PoolModify, after, now

\* ... after an element was deleted, which keeps the shape of the pool ...
LEMMA DeleteAgrees ==
    ASSUME NEW hp, WellFormed(hp), NEW held, NEW addr \in DOMAIN held,
           Decode(addr) \in Blocks(hp)
    PROVE  /\ WellFormed(PoolDelete(hp, addr))
           /\ PoolDelete(hp, addr).pool = hp.pool
           /\ PoolDelete(hp, addr).spill_to_higher_subpools = hp.spill_to_higher_subpools
           /\ IndicesFit(hp) /\ Agrees(hp, held) =>
                 Agrees(PoolDelete(hp, addr), [a \in DOMAIN held \ {addr} |-> held[a]])
<1>0. PICK b \in Blocks(hp) : b = Decode(addr)
  OBVIOUS
<1> DEFINE after == PoolDelete(hp, addr)
           now == [a \in DOMAIN held \ {addr} |-> held[a]]
<1>1. /\ after.pool = hp.pool
      /\ after.spill_to_higher_subpools = hp.spill_to_higher_subpools
      /\ after.sizes = [hp.sizes EXCEPT ![b] = STORE_FREE]
      /\ after.mem = [hp.mem EXCEPT ![b] = Zeros]
      /\ after \in [pool : Seq(Configs), sizes : {after.sizes}, mem : {after.mem},
                    spill_to_higher_subpools : BOOLEAN]
  BY <1>0 DEF PoolDelete, WellFormed
<1>2. DOMAIN now = DOMAIN held \ {addr} /\ \A a \in DOMAIN held \ {addr} : now[a] = held[a]
  OBVIOUS
<1> HIDE DEF after, now
<1>3. Blocks(after) = Blocks(hp) /\ \A p : BlockSize(after, p) = BlockSize(hp, p)
  BY <1>1 DEF Blocks, BlockSize, WellFormed
<1>4. /\ \A c \in Blocks(hp) : c # b => after.sizes[c] = hp.sizes[c] /\ after.mem[c] = hp.mem[c]
      /\ after.sizes[b] = STORE_FREE
  BY <1>1 DEF WellFormed, Blocks
<1>5. WellFormed(after)
  <2>0. /\ hp.sizes = [c \in Blocks(hp) |-> hp.sizes[c]]
        /\ hp.mem = [c \in Blocks(hp) |-> hp.mem[c]]
    BY DEF WellFormed
  <2>1. /\ after.sizes = [c \in Blocks(after) |-> after.sizes[c]]
        /\ after.mem = [c \in Blocks(after) |-> after.mem[c]]
    BY <1>1, <1>3, <2>0
  <2>2. \A c \in Blocks(after) :
           c \in Nat \X Nat /\ c[1] \in Subpools(after) /\ c[2] < NumBlocks(after, c[1])
    BY <1>1, <1>3 DEF WellFormed, Subpools, NumBlocks
  <2> QED
    BY <1>1, <2>1, <2>2 DEF WellFormed
<1>6. ASSUME IndicesFit(hp), Agrees(hp, held) PROVE Agrees(after, now)
  <2>1. ASSUME NEW c \in Blocks(after), Encode(c) \notin DOMAIN now
        PROVE  after.sizes[c] = STORE_FREE
    <3>1. CASE c = b
      BY <1>4, <3>1
    <3>2. CASE c # b
      <4>1. Decode(Encode(c)) = c
        BY <1>3, <1>6, DecodeEncode
      <4>2. Encode(c) \notin DOMAIN held
        BY <1>0, <1>2, <2>1, <3>2, <4>1
      <4> QED
        BY <1>3, <1>4, <1>6, <3>2, <4>2 DEF Agrees
    <3> QED
      BY <3>1, <3>2
  <2>2. ASSUME NEW a \in DOMAIN now
        PROVE  /\ Decode(a) \in Blocks(after) /\ Encode(Decode(a)) = a
               /\ after.sizes[Decode(a)] = LenOf[now[a]]
               /\ LenOf[now[a]] <= BlockSize(after, Decode(a)[1])
               /\ after.mem[Decode(a)] = <<now[a], 0>>
    <3>1. a \in DOMAIN held /\ a # addr /\ now[a] = held[a]
      BY <1>2
    <3>2. Decode(a) # b
      BY <1>0, <1>6, <3>1 DEF Agrees
    <3> QED
      BY <1>3, <1>4, <1>6, <3>1, <3>2 DEF Agrees
  <2> QED
    BY <2>1, <2>2 DEF Agrees
<1> QED
  BY <1>1, <1>5, <1>6 DEF after, now

\* ... and after the pool has grown: the subpools that were there stay as they
\* are, so that a pool that is ordered, or whose indices fit, was so before.
LEMMA GrowAgrees ==
    ASSUME NEW hp, WellFormed(hp), NEW n \in Nat \ {0}, NEW size \in Nat
    PROVE  /\ WellFormed(Grow(hp, n, size))
           /\ Ordered(Grow(hp, n, size)) => Ordered(hp)
           /\ IndicesFit(Grow(hp, n, size)) => IndicesFit(hp)
           /\ \A held : Agrees(hp, held) => Agrees(Grow(hp, n, size), held)
<1>1. CASE Len(hp.pool) = MAX_NUM_SUBPOOLS
  BY <1>1 DEF Grow
<1>2. CASE Len(hp.pool) # MAX_NUM_SUBPOOLS
  <2> DEFINE after == Grow(hp, n, size)
             config == [num_blocks |-> n, block_size |-> size]
             blocks == {Len(hp.pool)} \X (0..(n - 1))
  <2>1. hp.pool \in Seq(Configs) /\ Len(hp.pool) \in Nat /\ config \in Configs
    BY SMTT(60) DEF WellFormed, Configs
  <2>2. /\ after.pool = Append(hp.pool, config)
        /\ after.spill_to_higher_subpools = hp.spill_to_higher_subpools
        /\ after.sizes = [b \in Blocks(hp) \cup blocks |->
               IF b \in blocks THEN STORE_FREE ELSE hp.sizes[b]]
        /\ after.mem = [b \in Blocks(hp) \cup blocks |->
               IF b \in blocks THEN Zeros ELSE hp.mem[b]]
        /\ after \in [pool : {after.pool}, sizes : {after.sizes}, mem : {after.mem},
                      spill_to_higher_subpools : BOOLEAN]
    BY <1>2 DEF Grow, WellFormed, Blocks
  <2> HIDE DEF after
  <2>3. after.pool \in Seq(Configs) /\ Len(after.pool) = Len(hp.pool) + 1
    BY SMTT(60), <2>1, <2>2
  <2>4. /\ Subpools(hp) \subseteq Subpools(after) /\ Len(hp.pool) \in Subpools(after)
        /\ \A p \in Subpools(hp) : after.pool[p + 1] = hp.pool[p + 1]
        /\ after.pool[Len(hp.pool) + 1] = config
    <3> HIDE DEF config
    <3> QED
      BY SMTT(60), <2>1, <2>2, <2>3 DEF Subpools
  <2>4a. /\ \A p \in Subpools(hp) : BlockSize(after, p) = BlockSize(hp, p)
                                   /\ NumBlocks(after, p) = NumBlocks(hp, p)
         /\ NumBlocks(after, Len(hp.pool)) = n
    <3>1. config.num_blocks = n
      OBVIOUS
    <3> HIDE DEF config
    <3> QED
      BY <2>4, <3>1 DEF BlockSize, NumBlocks
  <2>5. Blocks(after) = Blocks(hp) \cup blocks
    BY <2>2 DEF Blocks
  <2>6. \A b \in blocks :
           b \in Nat \X Nat /\ b[1] = Len(hp.pool) /\ b[2] < n /\ b \notin Blocks(hp)
    BY SMTT(60), <2>1 DEF WellFormed, Subpools
  <2> HIDE DEF blocks, config
  <2>7. WellFormed(after)
    <3>1. after \in [pool : Seq(Configs), sizes : {after.sizes}, mem : {after.mem},
                     spill_to_higher_subpools : BOOLEAN]
      BY <2>2, <2>3
    <3>2. /\ after.sizes = [b \in Blocks(after) |-> after.sizes[b]]
          /\ after.mem = [b \in Blocks(after) |-> after.mem[b]]
      BY <2>2, <2>5
    <3>3. \A b \in Blocks(after) :
             b \in Nat \X Nat /\ b[1] \in Subpools(after) /\ b[2] < NumBlocks(after, b[1])
      BY <2>4, <2>4a, <2>5, <2>6 DEF WellFormed
    <3> QED
      BY <3>1, <3>2, <3>3 DEF WellFormed
  <2>8. Ordered(after) => Ordered(hp)
    BY <2>2, <2>4, <2>4a DEF Ordered, Ascending
  <2>9. IndicesFit(after) => IndicesFit(hp)
    <3>1. Len(after.pool) <= 256 => Len(hp.pool) <= 256
      BY SMTT(60), <2>1, <2>3
    <3> QED
      BY <2>4, <2>4a, <3>1 DEF IndicesFit
  <2>10. ASSUME NEW held, Agrees(hp, held) PROVE Agrees(after, held)
    <3>1. ASSUME NEW b \in Blocks(hp)
          PROVE  /\ b \in Blocks(after) /\ b[1] \in Subpools(hp)
                 /\ after.sizes[b] = hp.sizes[b] /\ after.mem[b] = hp.mem[b]
      BY <2>2, <2>5, <2>6 DEF WellFormed
    <3>2. \A b \in blocks : after.sizes[b] = STORE_FREE
      BY <2>2
    <3> QED
      BY <2>4a, <2>5, <2>10, <3>1, <3>2 DEF Agrees
  <2> QED
    BY <2>7, <2>8, <2>9, <2>10 DEF after
<1> QED
  BY <1>1, <1>2
-----------------------------------------------------------------------------
\* A pool without subpools satisfies the invariant.
LEMMA UserInit ==
    ASSUME NEW plan \in UserPlan, user = NewUser(plan)
    PROVE  IInv
<1> DEFINE hp == NewPool(plan.spill)
<1>1. /\ user.pool = hp /\ user.growth = plan.growth /\ user.data = plan.data
      /\ DOMAIN user.held = {} /\ user.panicked = FALSE /\ user.overran = FALSE
      /\ user.held = [a \in DOMAIN user.held |-> user.held[a]]
      /\ user \in [pool : {user.pool}, growth : Seq((Nat \ {0}) \X Nat),
                   data : SUBSET Data, held : {user.held}, panicked : BOOLEAN,
                 overran : BOOLEAN]
  BY DEF NewUser, UserPlan
<1>2. WellFormed(hp) /\ Blocks(hp) = {}
  BY SMTT(60) DEF NewPool, WellFormed, Blocks, UserPlan
<1> HIDE DEF hp
<1>3. UserShape
  BY <1>1, <1>2 DEF UserShape
<1>4. Agrees(user.pool, user.held)
  BY <1>1, <1>2 DEF Agrees
<1> QED
  BY <1>1, <1>3, <1>4 DEF IInv

\* A call that puts hp and held in the place of the pool and of what is held
\* keeps the invariant, if these agree whenever the old ones did.
LEMMA Replaced ==
    ASSUME IInv, NEW hp, NEW held, NEW growth \in Seq((Nat \ {0}) \X Nat),
           NEW overran \in BOOLEAN,
           user' = [user EXCEPT !.pool = hp, !.held = held, !.growth = growth,
                                !.overran = overran],
           WellFormed(hp), held = [a \in DOMAIN held |-> held[a]],
           \A a \in DOMAIN held : held[a] \in Data,
           Ordered(hp) => Ordered(user.pool),
           IndicesFit(hp) => IndicesFit(user.pool),
           user.overran => overran,
           overran => user.overran \/ ~ Ordered(user.pool),
           IndicesFit(hp) /\ ~ overran /\ Agrees(user.pool, user.held) => Agrees(hp, held)
    PROVE  IInv'
<1>1. user \in [pool : {user.pool}, growth : Seq((Nat \ {0}) \X Nat),
                data : SUBSET Data, held : {user.held}, panicked : BOOLEAN,
                overran : BOOLEAN]
  BY DEF IInv, UserShape
<1>2. /\ user'.pool = hp /\ user'.held = held /\ user'.panicked = user.panicked
      /\ user'.overran = overran
      /\ user' \in [pool : {user'.pool}, growth : Seq((Nat \ {0}) \X Nat),
                    data : SUBSET Data, held : {user'.held}, panicked : BOOLEAN,
                    overran : BOOLEAN]
  BY <1>1
<1>3. UserShape'
  BY <1>2 DEF UserShape
<1> QED
  BY <1>2, <1>3 DEF IInv

\* Every call of the user keeps the invariant.
LEMMA UserStep ==
    ASSUME IInv, [UserNext]_user
    PROVE  IInv'
<1>1. PICK hp, held, growth, overran :
         /\ hp = user.pool /\ held = user.held
         /\ growth = user.growth /\ overran = user.overran
  OBVIOUS
<1>2. /\ user \in [pool : {hp}, growth : Seq((Nat \ {0}) \X Nat),
                   data : SUBSET Data, held : {held}, panicked : BOOLEAN,
                   overran : BOOLEAN]
      /\ growth \in Seq((Nat \ {0}) \X Nat) /\ overran \in BOOLEAN
  BY <1>1 DEF IInv, UserShape
<1>3. /\ WellFormed(hp) /\ held = [a \in DOMAIN held |-> held[a]]
      /\ \A a \in DOMAIN held : held[a] \in Data
      /\ overran => ~ Ordered(hp)
      /\ user.panicked => overran
      /\ IndicesFit(hp) /\ ~ overran => Agrees(hp, held)
  BY <1>1 DEF IInv, UserShape
<1>4. CASE UNCHANGED user
  BY <1>4 DEF IInv, UserShape
<1>5. CASE UserGrow
  <2>1. /\ Head(growth) \in (Nat \ {0}) \X Nat
        /\ Tail(growth) \in Seq((Nat \ {0}) \X Nat)
    BY SMTT(60), <1>1, <1>2, <1>5 DEF UserGrow
  <2>2. PICK n \in Nat \ {0}, size \in Nat : n = Head(growth)[1] /\ size = Head(growth)[2]
    BY <2>1
  <2>3. PICK after, rest : after = Grow(hp, n, size) /\ rest = Tail(growth)
    OBVIOUS
  <2>4. user' = [user EXCEPT !.pool = after, !.held = held, !.growth = rest,
                             !.overran = overran]
    <3>1. user' = [user EXCEPT !.growth = rest, !.pool = after]
      BY <1>1, <1>5, <2>2, <2>3, ZenonT(60) DEF UserGrow
    <3> QED
      BY <1>1, <1>2, <3>1
  <2>5. WellFormed(after) /\ (Ordered(after) => Ordered(hp))
        /\ (IndicesFit(after) => IndicesFit(hp))
        /\ (Agrees(hp, held) => Agrees(after, held))
    BY <1>3, <2>3, GrowAgrees
  <2>6. rest \in Seq((Nat \ {0}) \X Nat)
    BY <2>1, <2>3
  <2>7. /\ held = [a \in DOMAIN held |-> held[a]]
        /\ \A a \in DOMAIN held : held[a] \in Data
    BY <1>3
  <2>8. /\ Ordered(after) => Ordered(user.pool)
        /\ IndicesFit(after) => IndicesFit(user.pool)
        /\ user.overran => overran
        /\ overran => user.overran \/ ~ Ordered(user.pool)
        /\ IndicesFit(after) /\ ~ overran /\ Agrees(user.pool, user.held) => Agrees(after, held)
    BY <1>1, <2>5
  <2> QED
    BY <1>2, <2>4, <2>5, <2>6, <2>7, <2>8, Replaced
<1>6. ASSUME NEW d \in user.data, UserAdd(d) \/ UserFreeElement(d)
      PROVE  IInv'
  <2>1. d \in Data /\ LenOf[d] \in Nat
    BY <1>2, HeaplessAssumption
  <2>2. PICK b \in Reserve(hp, LenOf[d]) :
           user' = IF CanWrite(hp, b, LenOf[d])
                   THEN [user EXCEPT !.pool = PoolAdd(hp, b, d),
                                     !.held = Holding(held, Encode(b), d),
                                     !.overran = overran \/ TooSmall(b, d)]
                   ELSE [user EXCEPT !.panicked = TRUE, !.overran = TRUE]
    BY <1>1, <1>6 DEF UserAdd, UserFreeElement, PoolAdd
  <2>3. /\ b \in Blocks(hp) /\ (Ordered(hp) => LenOf[d] <= BlockSize(hp, b[1]))
        /\ BlockSize(hp, b[1]) \in Nat
    BY <1>3, <2>1, ReserveFits, SubpoolSize DEF WellFormed
  <2>4. TooSmall(b, d) = ~ (LenOf[d] <= BlockSize(hp, b[1]))
    BY SMTT(60), <1>1, <2>1, <2>3 DEF TooSmall
  <2>5. CASE CanWrite(hp, b, LenOf[d])
    <3>1. PICK after, now, over :
             /\ after = PoolAdd(hp, b, d) /\ now = Holding(held, Encode(b), d)
             /\ over = (overran \/ TooSmall(b, d))
      OBVIOUS
    <3>2. user' = [user EXCEPT !.pool = after, !.held = now, !.growth = growth,
                               !.overran = over]
      BY <1>1, <1>2, <2>2, <2>5, <3>1
    <3>3. /\ now = [a \in DOMAIN now |-> now[a]]
          /\ \A a \in DOMAIN now : now[a] \in Data
      BY <1>3, <2>1, <3>1 DEF Holding
    <3>4. /\ WellFormed(after) /\ after.pool = hp.pool
          /\ after.spill_to_higher_subpools = hp.spill_to_higher_subpools
      <4>1. WellFormed(hp) /\ b \in Blocks(hp) /\ d \in Data
        BY <1>3, <2>1, <2>3
      <4>2. /\ WellFormed(PoolAdd(hp, b, d)) /\ PoolAdd(hp, b, d).pool = hp.pool
            /\ PoolAdd(hp, b, d).spill_to_higher_subpools = hp.spill_to_higher_subpools
        BY <4>1, AddOne, ZenonT(60)
      <4> QED
        BY <3>1, <4>2
    <3>5. (Ordered(after) => Ordered(hp)) /\ (IndicesFit(after) => IndicesFit(hp))
      BY <3>4 DEF Ordered, Ascending, IndicesFit, Subpools, BlockSize, NumBlocks
    <3>6. over \in BOOLEAN /\ (overran => over) /\ (over => overran \/ ~ Ordered(hp))
      BY <1>2, <2>3, <2>4, <3>1
    <3>7. ASSUME IndicesFit(after), ~ over, Agrees(hp, held) PROVE Agrees(after, now)
      <4>1. LenOf[d] <= BlockSize(hp, b[1])
        BY <2>4, <3>1, <3>7
      <4>2. Decode(Encode(b)) = b
        BY <1>3, <2>3, <3>5, <3>7, DecodeEncode
      <4> QED
        BY <1>3, <2>1, <2>3, <3>1, <3>7, <4>1, <4>2, AddAgrees
    <3>8. /\ growth \in Seq((Nat \ {0}) \X Nat) /\ over \in BOOLEAN
          /\ Ordered(after) => Ordered(user.pool)
          /\ IndicesFit(after) => IndicesFit(user.pool)
          /\ user.overran => over
          /\ over => user.overran \/ ~ Ordered(user.pool)
          /\ IndicesFit(after) /\ ~ over /\ Agrees(user.pool, user.held) => Agrees(after, now)
      BY <1>1, <1>2, <3>5, <3>6, <3>7
    <3> QED
      BY <3>2, <3>3, <3>4, <3>8, Replaced
  <2>6. CASE ~ CanWrite(hp, b, LenOf[d])
    <3>1. /\ user'.pool = hp /\ user'.held = held /\ user'.overran = TRUE
          /\ user' \in [pool : {user'.pool}, growth : Seq((Nat \ {0}) \X Nat),
                        data : SUBSET Data, held : {user'.held}, panicked : BOOLEAN,
                        overran : BOOLEAN]
      BY <1>2, <2>2, <2>6
    <3>2. ~ Ordered(hp)
      BY <2>3, <2>6 DEF CanWrite, Units
    <3>3. UserShape'
      BY <1>3, <3>1 DEF UserShape
    <3> QED
      BY <3>1, <3>2, <3>3 DEF IInv
  <2> QED
    BY <2>5, <2>6
<1>7. ASSUME NEW addr \in DOMAIN held, NEW d \in user.data, UserModify(addr, d)
      PROVE  IInv'
  <2>1. d \in Data /\ Decode(addr) \in Blocks(hp) /\ hp.sizes[Decode(addr)] = LenOf[d]
    BY <1>1, <1>2, <1>7 DEF UserModify, AddrCheck, LenOfData
  <2>2. PICK after, now : after = PoolModify(hp, addr, d) /\ now = [held EXCEPT ![addr] = d]
    OBVIOUS
  <2>3. user' = [user EXCEPT !.pool = after, !.held = now, !.growth = growth,
                             !.overran = overran]
    BY <1>1, <1>2, <1>7, <2>2 DEF UserModify
  <2>4. /\ now = [a \in DOMAIN now |-> now[a]]
        /\ \A a \in DOMAIN now : now[a] \in Data
    BY <1>3, <2>1, <2>2
  <2>5. /\ WellFormed(after) /\ after.pool = hp.pool
        /\ after.spill_to_higher_subpools = hp.spill_to_higher_subpools
    BY <1>3, <2>1, <2>2, WriteOne DEF PoolModify
  <2>6. (Ordered(after) => Ordered(hp)) /\ (IndicesFit(after) => IndicesFit(hp))
    BY <2>5 DEF Ordered, Ascending, IndicesFit, Subpools, BlockSize, NumBlocks
  <2>7. Agrees(hp, held) => Agrees(after, now)
    BY <1>3, <2>1, <2>2, ModifyAgrees
  <2>8. /\ growth \in Seq((Nat \ {0}) \X Nat) /\ overran \in BOOLEAN
        /\ Ordered(after) => Ordered(user.pool)
        /\ IndicesFit(after) => IndicesFit(user.pool)
        /\ user.overran => overran
        /\ overran => user.overran \/ ~ Ordered(user.pool)
        /\ IndicesFit(after) /\ ~ overran /\ Agrees(user.pool, user.held) => Agrees(after, now)
    BY <1>1, <1>2, <2>6, <2>7
  <2> QED
    BY <2>3, <2>4, <2>5, <2>8, Replaced
<1>8. ASSUME NEW addr \in DOMAIN held, UserDelete(addr)
      PROVE  IInv'
  <2>1. Decode(addr) \in Blocks(hp)
    BY <1>1, <1>8 DEF UserDelete, AddrCheck
  <2>2. PICK after, now : /\ after = PoolDelete(hp, addr)
                          /\ now = [a \in DOMAIN held \ {addr} |-> held[a]]
    OBVIOUS
  <2>3. user' = [user EXCEPT !.pool = after, !.held = now, !.growth = growth,
                             !.overran = overran]
    <3>1. user' = [user EXCEPT !.pool = after, !.held = now]
      BY <1>1, <1>8, <2>2, ZenonT(60) DEF UserDelete
    <3> QED
      BY <1>1, <1>2, <3>1
  <2>4. /\ now = [a \in DOMAIN now |-> now[a]]
        /\ \A a \in DOMAIN now : now[a] \in Data
    BY <1>3, <2>2
  <2>5. /\ WellFormed(after) /\ after.pool = hp.pool
        /\ after.spill_to_higher_subpools = hp.spill_to_higher_subpools
        /\ IndicesFit(hp) /\ Agrees(hp, held) => Agrees(after, now)
    BY <1>3, <2>1, <2>2, DeleteAgrees
  <2>6. (Ordered(after) => Ordered(hp)) /\ (IndicesFit(after) => IndicesFit(hp))
    BY <2>5 DEF Ordered, Ascending, IndicesFit, Subpools, BlockSize, NumBlocks
  <2>7. /\ growth \in Seq((Nat \ {0}) \X Nat) /\ overran \in BOOLEAN
        /\ Ordered(after) => Ordered(user.pool)
        /\ IndicesFit(after) => IndicesFit(user.pool)
        /\ user.overran => overran
        /\ overran => user.overran \/ ~ Ordered(user.pool)
        /\ IndicesFit(after) /\ ~ overran /\ Agrees(user.pool, user.held) => Agrees(after, now)
    BY <1>1, <1>2, <2>5, <2>6
  <2> QED
    BY <2>3, <2>4, <2>5, <2>7, Replaced
<1> QED
  BY <1>1, <1>4, <1>5, <1>6, <1>7, <1>8 DEF UserNext

\* Whatever a user does with a pool without heap, and whenever the pool grows,
\* the pool has exactly the elements that the user holds until data is put
\* into a block that is too small for it, as long as the two indices of every
\* block fit into the eight bits that an address keeps of them.  Data is put
\* into a block that is too small, with or without a panic, only when the pool
\* spills and its subpools are not in ascending order.
THEOREM HeaplessPoolKeepsElements == UserSpec => []ElementsKept
<1>1. user \in {NewUser(plan) : plan \in UserPlan} => IInv
  BY UserInit
<1>2. IInv /\ [UserNext]_user => IInv'
  BY UserStep
<1>3. IInv => ElementsKept
  <2> SUFFICES ASSUME IInv
               PROVE  ElementsKept
    OBVIOUS
  <2>1. /\ user.panicked => user.overran
        /\ user.overran => user.pool.spill_to_higher_subpools /\ ~ Ascending(user.pool)
    BY DEF IInv, Ordered
  <2>2. ASSUME IndicesFit(user.pool), ~ user.overran, NEW addr \in DOMAIN user.held
        PROVE  /\ Decode(addr) \in Blocks(user.pool) /\ HasElementAt(user.pool, addr)
               /\ LenOfData(user.pool, addr) = LenOf[user.held[addr]]
               /\ PoolRead(user.pool, addr) =
                     Stored(user.pool, Decode(addr), user.held[addr])
    <3>1. PICK b : b = Decode(addr)
      OBVIOUS
    <3>2. LenOf[user.held[addr]] \in Nat
      BY HeaplessAssumption DEF IInv, UserShape
    <3>3. /\ b \in Blocks(user.pool)
          /\ user.pool.sizes[b] = LenOf[user.held[addr]]
          /\ LenOf[user.held[addr]] <= BlockSize(user.pool, b[1])
          /\ user.pool.mem[b] = <<user.held[addr], 0>>
          /\ user.pool.sizes[b] # STORE_FREE
      BY <2>2, <3>1, <3>2, HeaplessAssumption DEF Agrees, IInv
    <3>4. Units(user.pool, b, LenOf[user.held[addr]]) = {b} /\ b[2] - b[2] = 0
      BY SMTT(60), <3>3 DEF Units, IInv, UserShape, WellFormed
    <3>5. PoolRead(user.pool, addr) = Stored(user.pool, b, user.held[addr])
      BY <3>1, <3>3, <3>4 DEF PoolRead, Stored
    <3> QED
      BY <3>1, <3>3, <3>5 DEF HasElementAt, LenOfData
  <2>3. ASSUME IndicesFit(user.pool), ~ user.overran,
               NEW b \in Blocks(user.pool), Encode(b) \notin DOMAIN user.held
        PROVE  ~ HasElementAt(user.pool, Encode(b)) /\ LenOfData(user.pool, Encode(b)) = 0
    <3>1. Decode(Encode(b)) = b
      BY <2>3, DecodeEncode DEF IInv, UserShape
    <3>2. user.pool.sizes[b] = STORE_FREE
      BY <2>3 DEF IInv, Agrees
    <3> QED
      BY <3>1, <3>2 DEF HasElementAt, LenOfData
  <2> QED
    BY <2>1, <2>2, <2>3 DEF ElementsKept
<1> QED
  BY <1>1, <1>2, <1>3, PTL DEF UserSpec
=============================================================================
