---------------------------- MODULE HeaplessUser ----------------------------
(***************************************************************************)
(* A user of the memory pool without heap: every operation of its          *)
(* PoolProvider implementation, on pools that are grown in any order, also *)
(* while they are in use.  user.growth are the subpools that are still to  *)
(* be added, and user.held is what the user knows: the addresses that it   *)
(* was given and has not deleted, and what it has written there.  overran  *)
(* is history: reserve has chosen a block that is too small for the data.  *)
(***************************************************************************)
EXTENDS HeaplessPool

VARIABLE user

\* Whether the pool spills, the number and the size of the blocks of the
\* subpools, and what is stored.
UserPlan ==
    [spill : BOOLEAN, growth : Seq((Nat \ {0}) \X Nat), data : SUBSET Data]

NewUser(plan) ==
    [pool |-> NewPool(plan.spill), growth |-> plan.growth, data |-> plan.data,
     held |-> [a \in {} |-> ""], panicked |-> FALSE, overran |-> FALSE]

\* The static memory of the next subpool is handed over.
UserGrow ==
    /\ ~ user.panicked /\ user.growth # << >>
    /\ user' = [user EXCEPT !.growth = Tail(@),
                            !.pool = Grow(@, Head(user.growth)[1], Head(user.growth)[2])]

Unused(d) == d \in user.data /\ \A a \in DOMAIN user.held : user.held[a] # d

Holding(held, a, d) ==
    [c \in DOMAIN held \cup {a} |-> IF c = a THEN d ELSE held[c]]

TooSmall(b, d) == LenOf[d] > BlockSize(user.pool, b[1])

\* add, or the error that there is no block, after which nothing has changed.
UserAdd(d) ==
    /\ ~ user.panicked /\ Unused(d)
    /\ \E b \in Reserve(user.pool, LenOf[d]) :
          user' = IF CanWrite(user.pool, b, LenOf[d])
                  THEN [user EXCEPT !.pool = PoolAdd(@, b, d),
                                    !.held = Holding(@, Encode(b), d),
                                    !.overran = @ \/ TooSmall(b, d)]
                  ELSE [user EXCEPT !.panicked = TRUE, !.overran = TRUE]

\* free_element: the writer of the user fills the block that it is given.
UserFreeElement(d) ==
    /\ ~ user.panicked /\ Unused(d)
    /\ \E b \in Reserve(user.pool, LenOf[d]) :
          user' = IF CanWrite(user.pool, b, LenOf[d])
                  THEN [user EXCEPT !.pool = PoolWrite(PoolReserve(@, b, LenOf[d]), b, d),
                                    !.held = Holding(@, Encode(b), d),
                                    !.overran = @ \/ TooSmall(b, d)]
                  ELSE [user EXCEPT !.panicked = TRUE, !.overran = TRUE]

\* modify: the updater writes another datum of that length.
UserModify(a, d) ==
    /\ ~ user.panicked /\ Unused(d)
    /\ a \in DOMAIN user.held /\ AddrCheck(user.pool, a) /\ LenOfData(user.pool, a) = LenOf[d]
    /\ user' = [user EXCEPT !.pool = PoolModify(@, a, d), !.held[a] = d]

UserDelete(a) ==
    /\ ~ user.panicked
    /\ a \in DOMAIN user.held /\ AddrCheck(user.pool, a)
    /\ user' = [user EXCEPT !.pool = PoolDelete(@, a),
                            !.held = [c \in DOMAIN @ \ {a} |-> @[c]]]

UserNext ==
    \/ UserGrow
    \/ \E d \in user.data : UserAdd(d) \/ UserFreeElement(d)
    \/ \E a \in DOMAIN user.held : UserDelete(a) \/ \E d \in user.data : UserModify(a, d)

UserSpec == user \in {NewUser(plan) : plan \in UserPlan} /\ [][UserNext]_user
-----------------------------------------------------------------------------
\* Block sizes do not fall in the order in which the subpools were added.
Ascending(hp) ==
    \A p, q \in Subpools(hp) : p < q => BlockSize(hp, p) <= BlockSize(hp, q)

\* Whatever the order of the calls, and also when the pool grows between them,
\* the pool has exactly the elements that its user holds, with their lengths
\* and their data, until data is put into a block that is too small for it.
\* That happens, with or without a panic, only in a pool that spills and whose
\* subpools were not added from small blocks to large ones.  The addresses of
\* a pool of more than 256 subpools, or blocks in a subpool, are ambiguous.
ElementsKept ==
    /\ user.panicked => user.overran
    /\ user.overran => user.pool.spill_to_higher_subpools /\ ~ Ascending(user.pool)
    /\ IndicesFit(user.pool) /\ ~ user.overran =>
          /\ \A b \in Blocks(user.pool) : Encode(b) \notin DOMAIN user.held =>
                ~ HasElementAt(user.pool, Encode(b)) /\ LenOfData(user.pool, Encode(b)) = 0
          /\ \A a \in DOMAIN user.held :
                /\ Decode(a) \in Blocks(user.pool) /\ HasElementAt(user.pool, a)
                /\ LenOfData(user.pool, a) = LenOf[user.held[a]]
                /\ PoolRead(user.pool, a) = Stored(user.pool, Decode(a), user.held[a])
=============================================================================
