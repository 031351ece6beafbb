---------------------------- MODULE PusScheduler ----------------------------
(***************************************************************************)
(* PusScheduler of satrs/src/pus/scheduler.rs with the pool that holds its *)
(* telecommands: tc_map maps release times to lists of TcInfo, each with   *)
(* the address of a stored telecommand.  The scheduler is passed the pool  *)
(* by `&mut`, so every method is one step.  Telecommands are the Data of   *)
(* the pool; each element of Tcs is one packet that is stored at most once,*)
(* and two packets may have the same request ID.                           *)
(***************************************************************************)
EXTENDS StaticPool

CONSTANTS
    Times,          \* UnixTime
    TimeMargin,     \* time_margin
    ReqIdOf,        \* the RequestId of each telecommand
    Unschedulable,  \* telecommands that fail a check before they are stored
    BufLen,         \* length of the tc_buf passed to the release methods
    NoTime          \* not a time

Tcs == Data

ASSUME SchedulerAssumption ==
    /\ Times \subseteq Nat
    /\ TimeMargin \in Nat
    /\ BufLen \in Nat
    /\ NoTime \notin Times
    /\ DOMAIN ReqIdOf = Tcs
    /\ Unschedulable \subseteq Tcs

VARIABLES
    mem,            \* the pool's blocks
    tc_map,         \* BTreeMap<UnixTime, Vec<TcInfo>>; <<>> where there is no key
    current_time,
    enabled,
    seen,           \* history: the telecommands that were stored so far
    user_owned,     \* TcInfos whose blocks the caller has to delete
    rejected,       \* history: stored, then refused by the time margin check
    due,            \* history: the release time of each scheduled telecommand
    executed        \* history: how often each one was given to the releaser
                    \* with its `enabled` argument true

pool_vars == <<mem, user_owned>>
history == <<seen, rejected, due, executed>>
vars == <<mem, tc_map, current_time, enabled, seen, user_owned, rejected, due,
          executed>>

TcInfo == [addr : Addresses, request_id : {ReqIdOf[tc] : tc \in Tcs}]

TypeOK ==
    /\ mem \in Memory
    /\ tc_map \in [Times -> Seq(TcInfo)]
    /\ current_time \in Times
    /\ enabled \in BOOLEAN
    /\ seen \subseteq Tcs
    /\ user_owned \subseteq TcInfo
    /\ rejected \subseteq Tcs
    /\ due \in [Tcs -> Times \cup {NoTime}]
    /\ executed \in [Tcs -> Nat]

EmptyMap == [t \in Times |-> << >>]

\* PusScheduler::new, with an empty pool.
Init ==
    /\ mem = EmptyMemory
    /\ tc_map = EmptyMap
    /\ current_time \in Times
    /\ enabled = TRUE
    /\ seen = {}
    /\ user_owned = {}
    /\ rejected = {}
    /\ due = [tc \in Tcs |-> NoTime]
    /\ executed = [tc \in Tcs |-> 0]

-----------------------------------------------------------------------------
(* The entries of the map, in the order in which it is iterated            *)

\* Position <<t, i>> is the i-th TcInfo of the bucket of time t.
Positions == UNION {{t} \X DOMAIN tc_map[t] : t \in Times}

Before(p, q) == p[1] < q[1] \/ (p[1] = q[1] /\ p[2] < q[2])

InfoAt(p) == tc_map[p[1]][p[2]]

BlockAt(p) == Decode(InfoAt(p).addr)

TcAt(p) == mem[BlockAt(p)]

\* Bug: a strict comparison in telecommands_to_release.
TelecommandsToRelease_strict == {p \in Positions : p[1] < current_time}

\* Bug: everything inside the time margin counts as due.
TelecommandsToRelease_early == {p \in Positions : p[1] <= current_time + 1}

\* telecommands_to_release: range(..=current_time)
TelecommandsToRelease == {p \in Positions : p[1] <= current_time}

\* The memory after the blocks of these entries were deleted.
DeleteEntries(ps) ==
    [b \in Blocks |-> IF \E p \in ps : BlockAt(p) = b THEN STORE_FREE ELSE mem[b]]

-----------------------------------------------------------------------------
(* Time and the enabled flag                                               *)

\* update_time, update_time_from_now: the new time may be any, an earlier one
\* included.
UpdateTime(t) ==
    /\ current_time' = t
    /\ UNCHANGED <<tc_map, enabled, pool_vars, history>>

Enable ==
    /\ enabled' = TRUE
    /\ UNCHANGED <<tc_map, current_time, pool_vars, history>>

Disable ==
    /\ enabled' = FALSE
    /\ UNCHANGED <<tc_map, current_time, pool_vars, history>>

-----------------------------------------------------------------------------
(* Insertion                                                               *)

\* The check at the head of insert_unwrapped_and_stored_tc.
InTimeMargin(t) == t < current_time + TimeMargin

\* Its tail: the entry goes to the end of the bucket of its time.
PushEntry(t, info) == tc_map' = [tc_map EXCEPT ![t] = Append(@, info)]

\* insert_unwrapped_tc, and insert_wrapped_tc which only adds checks before
\* it.  The telecommand is stored in the pool before the time is checked, and
\* stays there when the check fails.
InsertUnwrappedTc(tc, t) ==
    /\ tc \notin seen
    /\ \/ /\ tc \in Unschedulable \/ Reserve(mem, LenOf[tc]) = {}
          /\ UNCHANGED <<mem, tc_map, seen, rejected, due>>
       \/ /\ tc \notin Unschedulable
          /\ seen' = seen \cup {tc}
          /\ \E b \in Reserve(mem, LenOf[tc]) :
                /\ mem' = PoolWrite(mem, b, tc)
                /\ \/ /\ InTimeMargin(t)
                      /\ rejected' = rejected \cup {tc}
                      /\ UNCHANGED <<tc_map, due>>
                   \/ /\ ~InTimeMargin(t)
                      /\ PushEntry(t, [addr |-> Encode(b), request_id |-> ReqIdOf[tc]])
                      /\ due' = [due EXCEPT ![tc] = t]
                      /\ UNCHANGED rejected
    /\ UNCHANGED <<current_time, enabled, user_owned, executed>>

\* The caller stores a telecommand, one that may be scheduled, to schedule it
\* itself.
UserStoresTc(tc) ==
    /\ tc \notin seen \cup Unschedulable
    /\ seen' = seen \cup {tc}
    /\ \E b \in Reserve(mem, LenOf[tc]) :
          /\ mem' = PoolWrite(mem, b, tc)
          /\ user_owned' = user_owned \cup {[addr |-> Encode(b), request_id |-> ReqIdOf[tc]]}
    /\ UNCHANGED <<tc_map, current_time, enabled, rejected, due, executed>>

\* insert_unwrapped_and_stored_tc: the scheduler takes over a block that its
\* caller stored.  A refused one stays with the caller.  Callers do not
\* schedule a telecommand again that was executed.
InsertUnwrappedAndStoredTc(info, t) ==
    /\ info \in user_owned
    /\ executed[PoolRead(mem, info.addr)] = 0
    /\ ~InTimeMargin(t)
    /\ PushEntry(t, info)
    /\ user_owned' = user_owned \ {info}
    /\ due' = [due EXCEPT ![PoolRead(mem, info.addr)] = t]
    /\ UNCHANGED <<mem, current_time, enabled, seen, rejected, executed>>

\* The caller deletes a block it owns.
UserDeletesTc(info) ==
    /\ info \in user_owned
    /\ mem' = PoolDelete(mem, info.addr)
    /\ user_owned' = user_owned \ {info}
    /\ UNCHANGED <<tc_map, current_time, enabled, history>>

-----------------------------------------------------------------------------
(* Deletion                                                                *)

\* retrieve_by_time_filter for the four TimeWindowTypes; both ends belong to
\* the window.  Windows that end before they start are left to the caller: for
\* these BTreeMap::range panics.
TimeWindows ==
    {Times}
    \cup {{t \in Times : t >= from} : from \in Times}
    \cup {{t \in Times : t <= to} : to \in Times}
    \cup {{t \in Times : w[1] <= t /\ t <= w[2]} : w \in {v \in Times \X Times : v[1] <= v[2]}}

\* Bug: the buckets are removed, their blocks are not.
DeleteByTimeFilter_noDelete(window) ==
    /\ tc_map' = [t \in Times |-> IF t \in window THEN << >> ELSE tc_map[t]]
    /\ UNCHANGED <<mem, current_time, enabled, user_owned, history>>

\* delete_by_time_filter, and delete_all with the window of all times.
DeleteByTimeFilter(window) ==
    /\ mem' = DeleteEntries({p \in Positions : p[1] \in window})
    /\ tc_map' = [t \in Times |-> IF t \in window THEN << >> ELSE tc_map[t]]
    /\ UNCHANGED <<current_time, enabled, user_owned, history>>

\* The entry that a deletion by request ID finds: the earliest bucket with a
\* match, and in it the last match, because idx_found is overwritten until
\* the bucket has been searched.  The doc of delete_by_request_id says that it
\* "will stop on the first telecommand with a request ID match".
RequestIdMatch(r) ==
    {p \in Positions :
        /\ InfoAt(p).request_id = r
        /\ \A q \in Positions :
              InfoAt(q).request_id = r => q[1] >= p[1] /\ (q[1] = p[1] => q[2] <= p[2])}

\* Vec::remove: the later elements move up.
VecRemove(v, i) == SubSeq(v, 1, i - 1) \o SubSeq(v, i + 1, Len(v))

RemoveEntry(p) == tc_map' = [tc_map EXCEPT ![p[1]] = VecRemove(@, p[2])]

\* delete_by_request_id: the caller gets the address and the block with it.
DeleteByRequestId(r) ==
    \E p \in RequestIdMatch(r) :
        /\ RemoveEntry(p)
        /\ user_owned' = user_owned \cup {InfoAt(p)}
        /\ UNCHANGED <<mem, current_time, enabled, history>>

\* delete_by_request_id_and_from_pool
DeleteByRequestIdAndFromPool(r) ==
    \E p \in RequestIdMatch(r) :
        /\ RemoveEntry(p)
        /\ mem' = PoolDelete(mem, InfoAt(p).addr)
        /\ UNCHANGED <<current_time, enabled, user_owned, history>>

\* reset
Reset ==
    /\ enabled' = FALSE
    /\ mem' = DeleteEntries(Positions)
    /\ tc_map' = EmptyMap
    /\ UNCHANGED <<current_time, user_owned, history>>

-----------------------------------------------------------------------------
(* Release                                                                 *)

\* The read of entry p succeeds: its block holds data that fits the buffer,
\* and no earlier entry that was deleted in this call had the same block.
\* read_as_vec, used without a buffer, makes room for any length.
Readable(p, kept, with_buffer) ==
    /\ IF with_buffer THEN CanRead(mem, InfoAt(p).addr, BufLen)
                      ELSE CanReadAsVec(mem, InfoAt(p).addr)
    /\ \A q \in TelecommandsToRelease \ kept : Before(q, p) => BlockAt(q) # BlockAt(p)

\* The entries given to the releaser: the first read that fails ends the call.
Processed(kept, with_buffer) ==
    {p \in TelecommandsToRelease :
        \A q \in TelecommandsToRelease :
            q = p \/ Before(q, p) => Readable(q, kept, with_buffer)}

\* Bug: retain keeps the bucket of the current time.
RetainedMap_inclusive(processed) ==
    IF processed = TelecommandsToRelease
    THEN [t \in Times |-> IF t >= current_time THEN tc_map[t] ELSE << >>]
    ELSE tc_map

\* tc_map.retain at the end of a call that met no read error: everything
\* later than the current time stays.
RetainedMap(processed) ==
    IF processed = TelecommandsToRelease
    THEN [t \in Times |-> IF t > current_time THEN tc_map[t] ELSE << >>]
    ELSE tc_map

\* The releaser is called with `enabled` and, by its contract, executes the
\* telecommand only when that is true.
CountExecuted(processed) ==
    executed' = [tc \in Tcs |->
                    IF enabled
                    THEN executed[tc] + Cardinality({p \in processed : TcAt(p) = tc})
                    ELSE executed[tc]]

\* release_telecommands_internal; `kept` are the entries for which the
\* releaser returns false, so that their blocks become its caller's.
ReleaseTelecommands(kept, with_buffer) ==
    LET processed == Processed(kept, with_buffer) IN
    /\ mem' = DeleteEntries(processed \ kept)
    /\ user_owned' = user_owned \cup {InfoAt(p) : p \in processed \cap kept}
    /\ tc_map' = RetainedMap(processed)
    /\ CountExecuted(processed)
    /\ UNCHANGED <<current_time, enabled, seen, rejected, due>>

\* release_telecommands_no_deletion: nothing is deleted, the caller gets the
\* list of released entries.
ReleaseTelecommandsNoDeletion ==
    ReleaseTelecommands(TelecommandsToRelease, TRUE)

-----------------------------------------------------------------------------

Next ==
    \/ \E t \in Times : UpdateTime(t)
    \/ Enable
    \/ Disable
    \/ \E tc \in Tcs, t \in Times : InsertUnwrappedTc(tc, t)
    \/ \E tc \in Tcs : UserStoresTc(tc)
    \/ \E info \in user_owned, t \in Times : InsertUnwrappedAndStoredTc(info, t)
    \/ \E info \in user_owned : UserDeletesTc(info)
    \/ \E window \in TimeWindows : DeleteByTimeFilter(window)
    \/ \E tc \in Tcs : DeleteByRequestId(ReqIdOf[tc])
    \/ \E tc \in Tcs : DeleteByRequestIdAndFromPool(ReqIdOf[tc])
    \/ Reset
    \/ \E kept \in SUBSET TelecommandsToRelease, with_buffer \in BOOLEAN :
          ReleaseTelecommands(kept, with_buffer)
    \/ ReleaseTelecommandsNoDeletion

Spec == Init /\ [][Next]_vars

-----------------------------------------------------------------------------
(* Properties                                                              *)

UserBlocks == {Decode(info.addr) : info \in user_owned}

\* Every entry of the schedule refers to a stored telecommand, the one with the
\* request ID of the entry, and its block belongs to no other entry and to no
\* caller: no release or deletion can meet an address that was freed or used
\* again for another telecommand.
ScheduleSound ==
    /\ \A p \in Positions :
          /\ AddrCheck(mem, InfoAt(p).addr)
          /\ InfoAt(p).request_id = ReqIdOf[TcAt(p)]
          /\ BlockAt(p) \notin UserBlocks
    /\ \A p, q \in Positions : p # q => BlockAt(p) # BlockAt(q)

\* Every block in use has an owner who will delete it: the schedule, or a
\* caller that was given the address.  The exception is a telecommand that was
\* refused by the time margin check after it was stored.
EveryBlockOwned ==
    \A b \in Blocks : mem[b] # STORE_FREE =>
        \/ \E p \in Positions : BlockAt(p) = b
        \/ b \in UserBlocks
        \/ mem[b] \in rejected

\* No telecommand is executed twice, whatever the order of releases, deletions,
\* time changes and resets.
AtMostOnce == \A tc \in Tcs : executed[tc] <= 1

\* A telecommand is executed only while scheduling is enabled, and not before
\* the release time it was scheduled for.
NotBeforeItsTime ==
    [][\A tc \in Tcs : executed'[tc] # executed[tc] =>
          enabled /\ due[tc] \in Times /\ due[tc] <= current_time]_vars

\* The rest of the inductive invariant: the addresses that callers own are those
\* of stored telecommands and have one owner each; ...
UserSound ==
    /\ \A u \in user_owned : /\ AddrCheck(mem, u.addr)
                             /\ u.request_id = ReqIdOf[PoolRead(mem, u.addr)]
    /\ \A u, v \in user_owned : Decode(u.addr) = Decode(v.addr) => u = v

\* ... a telecommand is stored in one block only, and has been seen; ...
StoredOnce ==
    /\ \A b \in Blocks : mem[b] # STORE_FREE => mem[b] \in seen
    /\ \A b, c \in Blocks : mem[b] # STORE_FREE /\ mem[b] = mem[c] => b = c

\* ... and an entry is in the bucket of its release time and was not executed.
HistorySound ==
    /\ \A p \in Positions : due[TcAt(p)] = p[1] /\ executed[TcAt(p)] = 0
    /\ \A tc \in Tcs : executed[tc] # 0 => tc \in seen

IndInv ==
    /\ TypeOK
    /\ ScheduleSound
    /\ EveryBlockOwned
    /\ AtMostOnce
    /\ UserSound
    /\ StoredOnce
    /\ HistorySound

\* The schedule as its users see it: the telecommands that the entries stand
\* for, with their release times.
Pending == {<<TcAt(p), p[1]>> : p \in Positions}

Schedule == INSTANCE TcSchedule WITH
    Tcs <- Data,
    Margin <- TimeMargin,
    pending <- Pending,
    now <- current_time,
    on <- enabled

\* The scheduler and its pool implement the abstract schedule: a release takes
\* all telecommands that are due and no other, a disabled scheduler drops what
\* it does not execute, and every other method changes only what it names.
ImplementsSchedule == Schedule!SchedSpec

\* reset: the store is passed "so all the stored telecommands can be deleted to
\* avoid a memory leak"; only the blocks that callers own are left.
ResetFreesStore ==
    [][Reset => \A b \in Blocks : mem'[b] # STORE_FREE => b \in UserBlocks]_vars

=============================================================================
