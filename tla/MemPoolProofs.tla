--------------------------- MODULE MemPoolProofs ---------------------------
(***************************************************************************)
(* For every configuration of the pool and every set of data: held         *)
(* addresses stay valid, data fits its block, and a pool that spills is    *)
(* full only when it has no block for the data.  The invariant behind the  *)
(* first is that the promises made to the users and the blocks agree,      *)
(* block by block; it holds because no two blocks share an address, which  *)
(* is where the hypothesis on the indices is needed.                       *)
(***************************************************************************)
EXTENDS MemPool, TLAPS, WellFoundedInduction

(* Most leaves need only first-order reasoning and go to Zenon; a leaf     *)
(* with arithmetic, or with functions and records that Zenon does not      *)
(* know, names SMT.  Both get more time than their default, for slower     *)
(* machines.                                                               *)
USE ZenonT(60)

-----------------------------------------------------------------------------
(* The blocks of the pool and their addresses                              *)

\* Blocks are the pairs of indices that validate_addr accepts.
LEMMA BlocksByIndex ==
    \A b : b \in Blocks <=>
        \E p \in Subpools : \E k \in 0..(NumBlocks(p) - 1) : b = <<p, k>>
BY SMTT(60) DEF Blocks

\* The subpool indices and block counts are natural numbers.
LEMMA IndexTypes ==
    /\ Subpools \subseteq Nat
    /\ \A p \in Subpools : NumBlocks(p) \in Nat \ {0} /\ BlockSize(p) \in Nat
BY SMTT(60), CfgAssumption DEF Subpools, NumBlocks, BlockSize

\* From<PoolAddr> undoes From<StaticPoolAddr> on every block of a pool whose
\* indices fit into eight bits.
LEMMA DecodeEncode ==
    ASSUME IndicesFit
    PROVE  \A b \in Blocks : Decode(Encode(b)) = b
<1> SUFFICES ASSUME NEW p \in Subpools, NEW k \in 0..(NumBlocks(p) - 1)
             PROVE  Decode(Encode(<<p, k>>)) = <<p, k>>
  BY SMTT(60), BlocksByIndex
<1>1. p \in 0..255 /\ k \in 0..255
  BY SMTT(60), IndicesFit, IndexTypes, CfgAssumption DEF IndicesFit, Subpools
<1>2. \A x, y \in 0..255 : /\ (x * 65536 + y) \div 65536 = x
                           /\ (x * 65536 + y) % 256 = y
                           /\ x % 256 = x
  BY SMT
<1> QED
  BY SMTT(60), <1>1, <1>2 DEF Decode, Encode

\* Different blocks have different addresses, and an address leads to a block.
LEMMA AddressesDistinct ==
    ASSUME IndicesFit
    PROVE  /\ \A b, c \in Blocks : Encode(b) = Encode(c) => b = c
           /\ \A a \in Addresses : Decode(a) \in Blocks /\ Encode(Decode(a)) = a
BY DecodeEncode DEF Addresses

\* reserve returns a free block of the pool.
LEMMA ReserveFree ==
    ASSUME NEW m, NEW len, NEW b \in Reserve(m, len)
    PROVE  b \in Blocks /\ m[b] = STORE_FREE
BY DEF Reserve, FindEmpty

\* In a sorted pool the block that reserve returns is large enough.
LEMMA ReserveFits ==
    ASSUME CfgSorted, NEW m, NEW len \in Nat, NEW b \in Reserve(m, len)
    PROVE  len <= BlockSize(b[1])
<1>1. PICK p \in FindSubpool(len) : b[1] >= p
  BY SMTT(60), BlocksByIndex, IndexTypes DEF Reserve, FindSubpool
<1>2. p \in Subpools /\ BlockSize(p) >= len
  BY <1>1 DEF FindSubpool
<1>3. b[1] \in Subpools
  BY SMTT(60), BlocksByIndex DEF Reserve
<1>4. BlockSize(p) <= BlockSize(b[1])
  <2>1. p \in Nat /\ b[1] \in Nat /\ BlockSize(p) \in Nat
    BY <1>2, <1>3, IndexTypes
  <2>2. CASE p = b[1]
    BY SMTT(60), <2>1, <2>2
  <2>3. CASE p < b[1]
    BY <1>2, <1>3, <2>3 DEF CfgSorted
  <2> QED
    BY SMTT(60), <1>1, <2>1, <2>2, <2>3
<1>5. BlockSize(p) \in Nat /\ BlockSize(b[1]) \in Nat
  BY <1>2, <1>3, IndexTypes
<1> QED
  BY SMTT(60), <1>2, <1>4, <1>5

-----------------------------------------------------------------------------
(* The invariant                                                           *)

\* What the users were promised is what the blocks hold.
HandlesAgree == \A b \in Blocks : handles[Encode(b)] = mem[b]

IInv == TypeOK /\ HandlesAgree

\* An empty pool satisfies the invariant.
LEMMA InitIInv == Init => IInv
<1> SUFFICES ASSUME Init PROVE IInv
  OBVIOUS
<1>1. TypeOK
  BY DEF Init, TypeOK, Memory, EmptyMemory, NoCall
<1>2. HandlesAgree
  BY DEF Init, HandlesAgree, EmptyMemory, Addresses
<1> QED
  BY <1>1, <1>2 DEF IInv

\* Writing d to block b and promising d under its address keeps the agreement.
LEMMA WriteAgrees ==
    ASSUME IndicesFit, IInv, NEW b \in Blocks, NEW d \in Data \cup {STORE_FREE},
           mem' = [mem EXCEPT ![b] = d],
           handles' = [handles EXCEPT ![Encode(b)] = d]
    PROVE  /\ mem' \in Memory
           /\ handles' \in [Addresses -> Data \cup {STORE_FREE}]
           /\ HandlesAgree'
<1>1. Encode(b) \in Addresses
  BY DEF Addresses
<1>2. mem' \in Memory /\ handles' \in [Addresses -> Data \cup {STORE_FREE}]
  BY <1>1 DEF IInv, TypeOK, Memory
<1>3. \A c \in Blocks : handles'[Encode(c)] = mem'[c]
  <2> SUFFICES ASSUME NEW c \in Blocks PROVE handles'[Encode(c)] = mem'[c]
    OBVIOUS
  <2>1. Encode(c) \in Addresses /\ (Encode(c) = Encode(b) => c = b)
    BY AddressesDistinct DEF Addresses
  <2> QED
    BY <1>1, <2>1 DEF IInv, TypeOK, Memory, HandlesAgree
<1> QED
  BY <1>2, <1>3 DEF HandlesAgree

\* delete frees exactly the block of the address.
LEMMA DeleteHeld ==
    ASSUME IndicesFit, IInv, NEW a \in Held
    PROVE  /\ Decode(a) \in Blocks /\ Encode(Decode(a)) = a
           /\ AddrCheck(mem, a)
           /\ handles[a] = mem[Decode(a)]
           /\ PoolDelete(mem, a) = [mem EXCEPT ![Decode(a)] = STORE_FREE]
<1>1. a \in Addresses /\ handles[a] # STORE_FREE
  BY DEF Held
<1>2. Decode(a) \in Blocks /\ Encode(Decode(a)) = a
  BY <1>1, AddressesDistinct
<1>3. handles[a] = mem[Decode(a)]
  BY <1>2 DEF IInv, HandlesAgree
<1>4. AddrCheck(mem, a)
  BY <1>1, <1>2, <1>3 DEF AddrCheck, ValidAddr
<1> QED
  BY <1>2, <1>3, <1>4 DEF PoolDelete

\* Every operation of the pool keeps the invariant.
LEMMA NextIInv ==
    ASSUME IndicesFit, IInv, [Next]_vars
    PROVE  IInv'
<1>1. CASE UNCHANGED vars
  BY <1>1 DEF IInv, TypeOK, HandlesAgree, vars
<1>2. ASSUME NEW d \in Data, Add(d) PROVE IInv'
  <2>1. CASE \E b \in Reserve(mem, LenOf[d]) :
                /\ mem' = PoolWrite(mem, b, d)
                /\ handles' = [handles EXCEPT ![Encode(b)] = d]
                /\ last' = [stored |-> TRUE, data |-> d]
    <3>1. PICK b \in Reserve(mem, LenOf[d]) :
                /\ mem' = PoolWrite(mem, b, d)
                /\ handles' = [handles EXCEPT ![Encode(b)] = d]
                /\ last' = [stored |-> TRUE, data |-> d]
      BY <2>1
    <3>2. b \in Blocks
      BY ReserveFree
    <3>3. mem' = [mem EXCEPT ![b] = d]
      BY <3>1 DEF PoolWrite
    <3>4. /\ mem' \in Memory
          /\ handles' \in [Addresses -> Data \cup {STORE_FREE}]
          /\ HandlesAgree'
      BY <3>1, <3>2, <3>3, WriteAgrees
    <3> QED
      BY <3>1, <3>4 DEF IInv, TypeOK
  <2>2. CASE /\ last' = [stored |-> FALSE, data |-> d]
             /\ UNCHANGED <<mem, handles>>
    BY <2>2 DEF IInv, TypeOK, HandlesAgree
  <2> QED
    BY <1>2, <2>1, <2>2 DEF Add
<1>3. ASSUME NEW a \in Addresses, NEW d \in Data, Modify(a, d) PROVE IInv'
  <2>1. Decode(a) \in Blocks /\ Encode(Decode(a)) = a
    BY AddressesDistinct
  <2>2. /\ mem' = [mem EXCEPT ![Decode(a)] = d]
        /\ handles' = [handles EXCEPT ![Encode(Decode(a))] = d]
        /\ last' = NoCall
    BY <1>3, <2>1 DEF Modify, PoolModify
  <2>3. /\ mem' \in Memory
        /\ handles' \in [Addresses -> Data \cup {STORE_FREE}]
        /\ HandlesAgree'
    BY <2>1, <2>2, WriteAgrees
  <2> QED
    BY <2>2, <2>3 DEF IInv, TypeOK, NoCall
<1>4. ASSUME NEW a \in Held, mem' = PoolDelete(mem, a), last' = NoCall,
             handles' = [handles EXCEPT ![a] = STORE_FREE]
      PROVE  IInv'
  <2>1. /\ Decode(a) \in Blocks
        /\ mem' = [mem EXCEPT ![Decode(a)] = STORE_FREE]
        /\ handles' = [handles EXCEPT ![Encode(Decode(a))] = STORE_FREE]
    BY <1>4, DeleteHeld
  <2>2. /\ mem' \in Memory
        /\ handles' \in [Addresses -> Data \cup {STORE_FREE}]
        /\ HandlesAgree'
    BY <2>1, WriteAgrees
  <2> QED
    BY <1>4, <2>2 DEF IInv, TypeOK, NoCall
<1>5. ASSUME NEW a \in Addresses, Delete(a) PROVE IInv'
  BY <1>4, <1>5 DEF Delete
<1>6. ASSUME NEW a \in Addresses, NEW n \in BOOLEAN, DropGuard(a, n) PROVE IInv'
  <2>1. CASE n
    BY <1>6, <2>1 DEF DropGuard, IInv, TypeOK, HandlesAgree, NoCall
  <2>2. CASE ~n
    BY <1>4, <1>6, <2>2 DEF DropGuard
  <2> QED
    BY <2>1, <2>2
<1> QED
  BY <1>1, <1>2, <1>3, <1>5, <1>6 DEF Next

\* For every pool whose indices fit into eight bits, an address that is held
\* always yields the data stored under it, and no block is in use that nobody
\* can reach (AddressesExact of the run).
THEOREM HeldAddressesStayValid ==
    ASSUME IndicesFit
    PROVE  Spec => [](TypeOK /\ AddressesExact)
<1>1. Init => IInv
  BY InitIInv
<1>2. IInv /\ [Next]_vars => IInv'
  BY NextIInv
<1>3. IInv => TypeOK /\ AddressesExact
  <2> SUFFICES ASSUME IInv PROVE TypeOK /\ AddressesExact
    OBVIOUS
  <2>1. TypeOK /\ NoOrphanBlock
    BY DEF IInv, HandlesAgree, NoOrphanBlock
  <2>2. ASSUME NEW a \in Held
        PROVE  CanReadAsVec(mem, a) /\ PoolRead(mem, a) = handles[a]
    <3>1. /\ AddrCheck(mem, a)
          /\ handles[a] = mem[Decode(a)]
      BY DeleteHeld
    <3>2. mem[Decode(a)] \in Data
      BY <3>1 DEF AddrCheck, ValidAddr, IInv, TypeOK, Memory
    <3>3. LenOf[mem[Decode(a)]] \in Nat
      BY <3>2, DataAssumption
    <3> QED
      BY SMTT(60), <3>1, <3>3 DEF CanReadAsVec, CanRead, LenOfData, AddrCheck, PoolRead
  <2> QED
    BY <2>1, <2>2 DEF AddressesExact, ReadYourWrites
<1> QED
  BY <1>1, <1>2, <1>3, PTL DEF Spec

-----------------------------------------------------------------------------

\* One step keeps data inside its block.
LEMMA NextFits ==
    ASSUME IndicesFit, CfgSorted, IInv, FitsBlock, [Next]_vars
    PROVE  FitsBlock'
<1>1. CASE UNCHANGED mem
  BY <1>1 DEF FitsBlock
<1>2. ASSUME NEW b \in Blocks, NEW d \in Data, LenOf[d] <= BlockSize(b[1]),
             mem' = [mem EXCEPT ![b] = d]
      PROVE  FitsBlock'
  BY <1>2 DEF FitsBlock, IInv, TypeOK, Memory
<1>3. ASSUME NEW b \in Blocks, mem' = [mem EXCEPT ![b] = STORE_FREE]
      PROVE  FitsBlock'
  BY <1>3 DEF FitsBlock, IInv, TypeOK, Memory
<1>4. ASSUME NEW d \in Data, Add(d) PROVE FitsBlock'
  <2>1. CASE \E b \in Reserve(mem, LenOf[d]) : mem' = PoolWrite(mem, b, d)
    <3>1. PICK b \in Reserve(mem, LenOf[d]) : mem' = PoolWrite(mem, b, d)
      BY <2>1
    <3>2. LenOf[d] \in Nat
      BY DataAssumption
    <3> QED
      BY <1>2, <3>1, <3>2, ReserveFree, ReserveFits DEF PoolWrite
  <2> QED
    BY <1>1, <1>4, <2>1 DEF Add
<1>5. ASSUME NEW a \in Addresses, NEW d \in Data, Modify(a, d) PROVE FitsBlock'
  <2>1. a \in Held
    BY <1>5 DEF Modify
  <2>2. /\ Decode(a) \in Blocks
        /\ LenOf[d] = LenOf[mem[Decode(a)]]
        /\ mem[Decode(a)] # STORE_FREE
        /\ mem' = [mem EXCEPT ![Decode(a)] = d]
    BY <1>5, <2>1, DeleteHeld DEF Modify, PoolModify, AddrCheck
  <2> QED
    BY <1>2, <2>2 DEF FitsBlock
<1>6. ASSUME NEW a \in Held, mem' = PoolDelete(mem, a) PROVE FitsBlock'
  BY <1>3, <1>6, DeleteHeld
<1> QED
  BY <1>1, <1>4, <1>5, <1>6 DEF Next, Delete, DropGuard, vars

\* For every sanitized configuration, data is never longer than the block it is
\* written to (FitsBlock of the run).
THEOREM DataFitsItsBlock ==
    ASSUME IndicesFit, CfgSorted
    PROVE  Spec => []FitsBlock
<1>1. Init => FitsBlock
  BY DEF Init, FitsBlock, EmptyMemory
<1>2. Init => IInv
  BY InitIInv
<1>3. IInv /\ [Next]_vars => IInv'
  BY NextIInv
<1>4. IInv /\ FitsBlock /\ [Next]_vars => FitsBlock'
  BY NextFits
<1> QED
  BY <1>1, <1>2, <1>3, <1>4, PTL DEF Spec

-----------------------------------------------------------------------------
(* The search of reserve                                                   *)

\* A set of natural numbers that is not empty has a least element.
LEMMA LeastNatural ==
    ASSUME NEW T, T \subseteq Nat, T # {}
    PROVE  \E m \in T : \A k \in T : m <= k
<1>1. PICK m \in T : \A y \in T : ~ (<<y, m>> \in OpToRel(<, Nat))
  BY WFMin, NatLessThanWellFounded
<1>2. ASSUME NEW k \in T PROVE m <= k
  <2>1. <<k, m>> \notin OpToRel(<, Nat)
    BY <1>1
  <2> QED
    BY SMTT(60), <2>1 DEF OpToRel
<1> QED
  BY <1>2

\* The first subpool that fits exists as soon as one fits, and is not later.
LEMMA FindSubpoolFirst ==
    ASSUME NEW len \in Nat, NEW q \in Subpools, BlockSize(q) >= len
    PROVE  \E p \in FindSubpool(len) : p <= q
<1> DEFINE F == {p \in Subpools : BlockSize(p) >= len}
<1>1. F \subseteq Nat /\ F # {}
  BY IndexTypes
<1>2. PICK p \in F : \A r \in F : p <= r
  BY <1>1, LeastNatural
<1>3. ASSUME NEW r \in 0..(p - 1) PROVE BlockSize(r) < len
  <2>1. r \in Subpools /\ ~(p <= r)
    BY SMTT(60), CfgAssumption, IndexTypes DEF Subpools
  <2>2. BlockSize(r) \in Nat
    BY <2>1, IndexTypes
  <2> QED
    BY SMTT(60), <1>2, <2>1, <2>2
<1> QED
  BY <1>2, <1>3 DEF FindSubpool

\* find_empty finds a block in every subpool that has a free one.
LEMMA FindEmptyFirst ==
    ASSUME NEW m, NEW p \in Subpools, HasEmpty(m, p)
    PROVE  FindEmpty(m, p) # {}
<1> DEFINE F == {k \in 0..(NumBlocks(p) - 1) : m[<<p, k>>] = STORE_FREE}
<1>1. F \subseteq Nat /\ F # {}
  BY SMTT(60) DEF HasEmpty
<1>2. PICK k \in F : \A j \in F : k <= j
  BY <1>1, LeastNatural
<1>3. ASSUME NEW j \in 0..(k - 1) PROVE m[<<p, j>>] # STORE_FREE
  <2>1. j \in 0..(NumBlocks(p) - 1) /\ ~(k <= j)
    BY SMTT(60), IndexTypes
  <2> QED
    BY <1>2, <2>1
<1>4. <<p, k>> \in FindEmpty(m, p)
  BY <1>3 DEF FindEmpty
<1> QED
  BY <1>4

\* With spilling, reserve finds a block whenever some block that is large
\* enough is free.
LEMMA ReserveComplete ==
    ASSUME Spill, NEW m, NEW len \in Nat, NEW c \in Blocks,
           BlockSize(c[1]) >= len, m[c] = STORE_FREE
    PROVE  Reserve(m, len) # {}
<1>1. PICK q \in Subpools : \E k \in 0..(NumBlocks(q) - 1) : c = <<q, k>>
  BY BlocksByIndex
<1>2. BlockSize(q) >= len /\ HasEmpty(m, q)
  BY SMTT(60), <1>1 DEF HasEmpty
<1>3. PICK p \in FindSubpool(len) : p <= q
  BY <1>2, FindSubpoolFirst
<1>4. p \in Subpools
  BY <1>3 DEF FindSubpool
<1> DEFINE F == {r \in Subpools : p <= r /\ HasEmpty(m, r)}
<1>5. F \subseteq Nat /\ F # {}
  BY <1>2, <1>3, IndexTypes
<1>6. PICK s \in F : \A r \in F : s <= r
  BY <1>5, LeastNatural
<1>7. ASSUME NEW r \in p..(s - 1) PROVE ~HasEmpty(m, r)
  <2>1. r \in Subpools /\ p <= r /\ ~(s <= r)
    BY SMTT(60), <1>4, CfgAssumption, IndexTypes DEF Subpools
  <2> QED
    BY <1>6, <2>1
<1>8. PICK b : b \in FindEmpty(m, s)
  BY FindEmptyFirst
<1>9. b[1] = s /\ b \in Blocks
  BY SMTT(60), <1>8, BlocksByIndex DEF FindEmpty
<1>10. s \in Nat /\ p \in Nat /\ s >= p
  BY <1>4, IndexTypes
<1>11. b \in Reserve(m, len)
  BY <1>3, <1>7, <1>8, <1>9, <1>10 DEF Reserve
<1> QED
  BY <1>11

\* Data that is refused leaves the pool as it was, and reserve finds every free
\* block that is large enough; every other step is not a refusal.
LEMMA NextFull ==
    ASSUME FullOnlyWhenFull, [Next]_vars
    PROVE  FullOnlyWhenFull'
<1>1. CASE UNCHANGED vars
  BY <1>1 DEF FullOnlyWhenFull, vars
<1>2. CASE last' = NoCall
  BY <1>2 DEF FullOnlyWhenFull, NoCall
<1>3. ASSUME NEW d \in Data, Add(d) PROVE FullOnlyWhenFull'
  <2>1. CASE last' = [stored |-> TRUE, data |-> d]
    BY <2>1 DEF FullOnlyWhenFull
  <2>2. CASE /\ Reserve(mem, LenOf[d]) = {}
             /\ last' = [stored |-> FALSE, data |-> d]
             /\ UNCHANGED <<mem, handles>>
    <3>1. LenOf[d] \in Nat
      BY DataAssumption
    <3>2. ASSUME Spill, NEW b \in Blocks, BlockSize(b[1]) >= LenOf[d]
          PROVE  mem[b] # STORE_FREE
      BY <2>2, <3>1, <3>2, ReserveComplete
    <3> QED
      BY <2>2, <3>2 DEF FullOnlyWhenFull
  <2> QED
    BY <1>3, <2>1, <2>2 DEF Add
<1> QED
  BY <1>1, <1>2, <1>3 DEF Next, Modify, Delete, DropGuard

\* For every configuration, with indices of any size, sorted or not, a pool
\* that spills refuses data only when no block that is large enough is free
\* (FullOnlyWhenFull of the run).
THEOREM SpillingUsesEveryBlock == Spec => []FullOnlyWhenFull
<1>1. Init => FullOnlyWhenFull
  BY SMTT(60) DEF Init, FullOnlyWhenFull, NoCall
<1> QED
  BY <1>1, NextFull, PTL DEF Spec

=============================================================================
