------------------------------ MODULE MemPool ------------------------------
(***************************************************************************)
(* A static memory pool and its users.  Every operation needs the pool     *)
(* mutably (`&mut self`, or the write lock of a SharedStaticMemoryPool),   *)
(* so each one is a single step, guards included: a guard borrows the pool *)
(* until it is dropped.  `handles` records what the users were promised:   *)
(* the data behind every address they hold.                                *)
(***************************************************************************)
EXTENDS StaticPool

VARIABLES
    mem,       \* the blocks
    handles,   \* for each address: the data its holder stored there
    last       \* the last store operation, for the properties

vars == <<mem, handles, last>>

NoCall == [stored |-> FALSE, data |-> STORE_FREE]

TypeOK ==
    /\ mem \in Memory
    /\ handles \in [Addresses -> Data \cup {STORE_FREE}]
    /\ last \in [stored : BOOLEAN, data : Data \cup {STORE_FREE}]

\* StaticMemoryPool::new
Init ==
    /\ mem = EmptyMemory
    /\ handles = [a \in Addresses |-> STORE_FREE]
    /\ last = NoCall

Held == {a \in Addresses : handles[a] # STORE_FREE}

-----------------------------------------------------------------------------

\* add, and free_element whose writer writes d: reserve, write, address.
Add(d) ==
    \/ \E b \in Reserve(mem, LenOf[d]) :
          /\ mem' = PoolWrite(mem, b, d)
          /\ handles' = [handles EXCEPT ![Encode(b)] = d]
          /\ last' = [stored |-> TRUE, data |-> d]
    \/ /\ Reserve(mem, LenOf[d]) = {}
       /\ last' = [stored |-> FALSE, data |-> d]
       /\ UNCHANGED <<mem, handles>>

\* modify, and modify through a PoolRwGuard that is released.
Modify(a, d) ==
    /\ a \in Held
    /\ LenOf[d] = LenOf[handles[a]]
    /\ AddrCheck(mem, a)
    /\ mem' = PoolModify(mem, a, d)
    /\ handles' = [handles EXCEPT ![a] = d]
    /\ last' = NoCall

\* delete consumes the address.
Delete(a) ==
    /\ a \in Held
    /\ mem' = PoolDelete(mem, a)
    /\ handles' = [handles EXCEPT ![a] = STORE_FREE]
    /\ last' = NoCall

\* Bug: the guard deletes although it was released.
DropGuard_always(a, no_deletion) ==
    /\ a \in Held
    /\ mem' = PoolDelete(mem, a)
    /\ handles' = IF no_deletion THEN handles
                  ELSE [handles EXCEPT ![a] = STORE_FREE]
    /\ last' = NoCall

\* read_with_guard / modify_with_guard: when the PoolGuard is dropped the data
\* is deleted, unless release() was called on it.
DropGuard(a, no_deletion) ==
    /\ a \in Held
    /\ IF no_deletion
       THEN UNCHANGED <<mem, handles>>
       ELSE /\ mem' = PoolDelete(mem, a)
            /\ handles' = [handles EXCEPT ![a] = STORE_FREE]
    /\ last' = NoCall

Next ==
    \/ \E d \in Data : Add(d)
    \/ \E a \in Addresses, d \in Data : Modify(a, d)
    \/ \E a \in Addresses : Delete(a)
    \/ \E a \in Addresses, n \in BOOLEAN : DropGuard(a, n)

Spec == Init /\ [][Next]_vars

-----------------------------------------------------------------------------
(* Properties                                                              *)

\* An address yields the data that was stored under it for as long as it is
\* held, whatever was added, modified and deleted in between: no two held
\* addresses share a block (PoolProvider::add: the address "can be used to
\* access the data stored in the pool").
ReadYourWrites ==
    \A a \in Held : CanReadAsVec(mem, a) /\ PoolRead(mem, a) = handles[a]

\* Every block in use is reachable through an address somebody holds, so what
\* the users give back is what the pool has free again.
NoOrphanBlock ==
    \A b \in Blocks : mem[b] # STORE_FREE => handles[Encode(b)] = mem[b]

\* The addresses that users hold and the blocks in use are the same elements:
\* none is lost, shared or left behind by a guard.
AddressesExact == ReadYourWrites /\ NoOrphanBlock

\* Data is never longer than its block, so a write never reaches the bytes of
\* the next block of the subpool or runs past the subpool's slice.
FitsBlock ==
    \A b \in Blocks : mem[b] # STORE_FREE => LenOf[mem[b]] <= BlockSize(b[1])

\* A pool that spills refuses data only when every block large enough for it
\* is in use (StaticPoolConfig: spilling "is useful to ensure the pool remains
\* useful for all data sizes as long as possible").  The doc of
\* StaticMemoryPool contradicts its configuration here: "Currently, the pool
\* does not support spilling to larger subpools if the closest fitting subpool
\* is full".  reserve and the tests do spill, and so does the model.
FullOnlyWhenFull ==
    Spill /\ ~last.stored /\ last.data # STORE_FREE =>
        \A b \in Blocks : BlockSize(b[1]) >= LenOf[last.data] => mem[b] # STORE_FREE

=============================================================================
