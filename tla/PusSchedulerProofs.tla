------------------------- MODULE PusSchedulerProofs -------------------------
(***************************************************************************)
(* For every pool, set of times, margin and set of telecommands: the       *)
(* schedule never refers to a block it does not own, no block is lost, no  *)
(* telecommand is executed twice, early or while disabled, and the         *)
(* scheduler implements TcSchedule.  Two hypotheses are needed: the pool's *)
(* indices fit into eight bits, and the buffer passed to the release       *)
(* methods holds every telecommand.                                        *)
(*                                                                         *)
(* The actions are built from a few updates of the map and of the pool:    *)
(* removing entries, pushing one, storing a telecommand.  The first part   *)
(* says what these do to the entries and that they keep IndInv, the second *)
(* puts the actions together.  In the refinement mapping, which reads the  *)
(* schedule through the pool, Pending is the set of telecommands that the  *)
(* entries' addresses lead to.  Each step is one of the abstract schedule  *)
(* because IndInv says that different entries lead to different            *)
(* telecommands and that no step touches the block of an entry it leaves   *)
(* in the map.                                                             *)
(***************************************************************************)
EXTENDS PusScheduler, TLAPS

(* Most leaves need only first-order reasoning and go to Zenon; a leaf     *)
(* with arithmetic, or with functions and records that Zenon does not      *)
(* know, names SMT.  Both get more time than their default, for slower     *)
(* machines.                                                               *)
USE ZenonT(60)

-----------------------------------------------------------------------------
(* The blocks of the pool and their addresses                              *)

\* Blocks are the pairs of indices that validate_addr accepts.
LEMMA BlocksByIndex ==
    \A b : b \in Blocks <=>
        \E p \in Subpools : \E k \in 0..(NumBlocks(p) - 1) : b = <<p, k>>
BY SMTT(60) DEF Blocks

\* The subpool indices and block counts are natural numbers.
LEMMA IndexTypes ==
    /\ Subpools \subseteq Nat
    /\ \A p \in Subpools : NumBlocks(p) \in Nat \ {0} /\ BlockSize(p) \in Nat
BY SMTT(60), CfgAssumption DEF Subpools, NumBlocks, BlockSize

\* From<PoolAddr> undoes From<StaticPoolAddr> on every block of a pool whose
\* indices fit into eight bits.
LEMMA DecodeEncode ==
    ASSUME IndicesFit
    PROVE  \A b \in Blocks : Decode(Encode(b)) = b
<1> SUFFICES ASSUME NEW p \in Subpools, NEW k \in 0..(NumBlocks(p) - 1)
             PROVE  Decode(Encode(<<p, k>>)) = <<p, k>>
  BY SMTT(60), BlocksByIndex
<1>1. p \in 0..255 /\ k \in 0..255
  BY SMTT(60), IndicesFit, IndexTypes, CfgAssumption DEF IndicesFit, Subpools
<1>2. \A x, y \in 0..255 : /\ (x * 65536 + y) \div 65536 = x
                           /\ (x * 65536 + y) % 256 = y
                           /\ x % 256 = x
  BY SMT
<1> QED
  BY SMTT(60), <1>1, <1>2 DEF Decode, Encode

\* Different blocks have different addresses, and an address leads to a block.
LEMMA AddressesDistinct ==
    ASSUME IndicesFit
    PROVE  /\ \A b, c \in Blocks : Encode(b) = Encode(c) => b = c
           /\ \A a \in Addresses : Decode(a) \in Blocks /\ Encode(Decode(a)) = a
BY DecodeEncode DEF Addresses

\* reserve returns a free block of the pool.
LEMMA ReserveFree ==
    ASSUME NEW m, NEW len, NEW b \in Reserve(m, len)
    PROVE  b \in Blocks /\ m[b] = STORE_FREE
BY DEF Reserve, FindEmpty

-----------------------------------------------------------------------------
(* Positions of the map                                                    *)

\* A position is a pair of a time and an index into that time's bucket.
LEMMA PositionFacts ==
    ASSUME TypeOK, NEW p
    PROVE  p \in Positions <=>
              /\ p = <<p[1], p[2]>>
              /\ p[1] \in Times
              /\ p[2] \in 1..Len(tc_map[p[1]])
<1>1. \A t \in Times : DOMAIN tc_map[t] = 1..Len(tc_map[t])
  BY SMTT(60) DEF TypeOK
<1> QED
  BY SMTT(60), <1>1 DEF Positions

\* The entry at a position is a TcInfo.
LEMMA EntryFacts ==
    ASSUME TypeOK, NEW p \in Positions
    PROVE  /\ p[1] \in Times /\ p[2] \in Nat
           /\ InfoAt(p) \in TcInfo
<1>1. p[1] \in Times /\ p[2] \in 1..Len(tc_map[p[1]])
  BY PositionFacts
<1>2. tc_map[p[1]] \in Seq(TcInfo)
  BY <1>1 DEF TypeOK
<1> QED
  BY SMTT(60), <1>1, <1>2 DEF InfoAt

\* A TcInfo's address leads to a block.
LEMMA InfoFacts ==
    ASSUME IndicesFit, NEW info \in TcInfo
    PROVE  info.addr \in Addresses /\ Decode(info.addr) \in Blocks
BY AddressesDistinct DEF TcInfo

\* PusScheduler::new and an empty pool satisfy the invariant.
LEMMA InitIndInv == Init => IndInv
<1> SUFFICES ASSUME Init PROVE IndInv
  OBVIOUS
<1>1. TypeOK
  BY SMTT(60) DEF Init, TypeOK, Memory, EmptyMemory, EmptyMap
<1>2. \A b \in Blocks : mem[b] = STORE_FREE
  BY DEF Init, EmptyMemory
<1>3. Positions = {}
  <2>1. \A t \in Times : Len(tc_map[t]) = 0
    BY DEF Init, EmptyMap
  <2> QED
    BY SMTT(60), <1>1, <2>1, PositionFacts
<1>4. user_owned = {} /\ \A tc \in Tcs : executed[tc] = 0
  BY DEF Init
<1> QED
  BY SMTT(60), <1>1, <1>2, <1>3, <1>4 DEF IndInv, ScheduleSound, EveryBlockOwned,
     AtMostOnce, UserSound, StoredOnce, HistorySound

-----------------------------------------------------------------------------
(* Steps that only remove entries and free blocks                          *)

\* Deletions, resets and releases have this shape.  Every entry that is left
\* was there before (old names where), with its block untouched; every block
\* that is still in use keeps an owner; what a caller gets was an entry that
\* is no longer in the schedule.
LEMMA Shrink ==
    ASSUME IndicesFit, IndInv, TypeOK',
           NEW old \in [Positions' -> Positions],
           \A p \in Positions' : InfoAt(p)' = InfoAt(old[p]) /\ old[p][1] = p[1],
           \A p, q \in Positions' : old[p] = old[q] => p = q,
           \A b \in Blocks : mem'[b] \in {mem[b], STORE_FREE},
           \A p \in Positions' : mem'[BlockAt(old[p])] = TcAt(old[p]),
           \A u \in user_owned' :
              /\ mem'[Decode(u.addr)] = mem[Decode(u.addr)]
              /\ \/ u \in user_owned
                 \/ \E p \in Positions : u = InfoAt(p) /\ \A q \in Positions' : old[q] # p,
           \A p \in Positions : mem'[BlockAt(p)] # STORE_FREE =>
              InfoAt(p) \in user_owned' \/ \E q \in Positions' : old[q] = p,
           \A u \in user_owned : mem'[Decode(u.addr)] # STORE_FREE => u \in user_owned',
           UNCHANGED <<seen, rejected, due>>,
           \A p \in Positions' : executed'[TcAt(old[p])] = executed[TcAt(old[p])],
           \A tc \in Tcs : executed'[tc] <= 1 /\ (executed'[tc] # 0 => tc \in seen)
    PROVE  IndInv'
<1> DEFINE B(info) == Decode(info.addr)
<1>1. /\ \A p \in Positions : InfoAt(p) \in TcInfo /\ B(InfoAt(p)) \in Blocks
      /\ \A u \in user_owned : B(u) \in Blocks
  BY EntryFacts, InfoFacts DEF IndInv, TypeOK
<1>2. \A p \in Positions' : BlockAt(p)' = BlockAt(old[p]) /\ TcAt(p)' = TcAt(old[p])
  BY DEF BlockAt, TcAt
<1>3. ASSUME NEW u \in user_owned'
      PROVE  /\ B(u) \in Blocks
             /\ mem[B(u)] # STORE_FREE
             /\ u.request_id = ReqIdOf[mem[B(u)]]
  <2>1. CASE u \in user_owned
    BY <1>1, <2>1 DEF IndInv, UserSound, AddrCheck, PoolRead
  <2>2. CASE \E p \in Positions : u = InfoAt(p)
    BY SMTT(60), <1>1, <2>2 DEF IndInv, ScheduleSound, AddrCheck, BlockAt, TcAt
  <2> QED
    BY <2>1, <2>2
<1>4. ASSUME NEW u \in user_owned', NEW v \in user_owned', B(u) = B(v)
      PROVE  u = v
  <2>1. CASE u \in user_owned /\ v \in user_owned
    BY <1>4, <2>1 DEF IndInv, UserSound
  <2>2. ASSUME NEW x \in user_owned, NEW p \in Positions PROVE B(x) # B(InfoAt(p))
    BY SMTT(60) DEF IndInv, ScheduleSound, UserBlocks, BlockAt
  <2>3. ASSUME NEW p \in Positions, NEW q \in Positions, B(InfoAt(p)) = B(InfoAt(q))
        PROVE  p = q
    BY <2>3 DEF IndInv, ScheduleSound, BlockAt
  <2> QED
    BY SMTT(60), <1>4, <2>1, <2>2, <2>3
<1>5. ASSUME NEW p \in Positions', NEW u \in user_owned'
      PROVE  BlockAt(old[p]) # B(u)
  <2>1. CASE u \in user_owned
    BY SMTT(60), <2>1 DEF IndInv, ScheduleSound, UserBlocks
  <2>2. CASE \E q \in Positions : u = InfoAt(q) /\ old[p] # q
    BY SMTT(60), <2>2 DEF IndInv, ScheduleSound, BlockAt
  <2> QED
    BY SMTT(60), <2>1, <2>2
<1>6. ScheduleSound'
  <2>1. ASSUME NEW p \in Positions'
        PROVE  /\ AddrCheck(mem, InfoAt(p).addr)'
               /\ InfoAt(p)'.request_id = ReqIdOf[TcAt(p)']
               /\ BlockAt(p)' \notin UserBlocks'
    <3>1. AddrCheck(mem, InfoAt(old[p]).addr) /\ InfoAt(old[p]).request_id = ReqIdOf[TcAt(old[p])]
      BY DEF IndInv, ScheduleSound
    <3>2. mem'[B(InfoAt(old[p]))] # STORE_FREE
      BY <3>1 DEF AddrCheck, BlockAt, TcAt
    <3>3. AddrCheck(mem, InfoAt(p).addr)'
      BY <3>1, <3>2 DEF AddrCheck, ValidAddr
    <3> QED
      BY SMTT(60), <1>2, <1>5, <3>1, <3>3 DEF UserBlocks
  <2>2. ASSUME NEW p \in Positions', NEW q \in Positions', p # q
        PROVE  BlockAt(p)' # BlockAt(q)'
    BY SMTT(60), <1>2, <2>2 DEF IndInv, ScheduleSound
  <2> QED
    BY <2>1, <2>2 DEF ScheduleSound
<1>7. EveryBlockOwned'
  <2> SUFFICES ASSUME NEW b \in Blocks, mem'[b] # STORE_FREE
               PROVE  \/ \E p \in Positions' : BlockAt(p)' = b
                      \/ b \in UserBlocks'
                      \/ mem'[b] \in rejected'
    BY DEF EveryBlockOwned
  <2>1. mem'[b] = mem[b] /\ mem[b] # STORE_FREE
    OBVIOUS
  <2>2. CASE \E p \in Positions : BlockAt(p) = b
    <3>1. PICK p \in Positions : BlockAt(p) = b
      BY <2>2
    <3>2. CASE InfoAt(p) \in user_owned'
      BY <3>1, <3>2 DEF UserBlocks, BlockAt
    <3>3. CASE \E q \in Positions' : old[q] = p
      BY SMTT(60), <1>2, <3>1, <3>3
    <3> QED
      BY <2>1, <3>1, <3>2, <3>3
  <2>3. CASE b \in UserBlocks
    BY SMTT(60), <2>1, <2>3 DEF UserBlocks
  <2>4. CASE mem[b] \in rejected
    BY <2>1, <2>4
  <2> QED
    BY <2>1, <2>2, <2>3, <2>4 DEF IndInv, EveryBlockOwned
<1>8. UserSound'
  <2>1. ASSUME NEW u \in user_owned'
        PROVE  AddrCheck(mem', u.addr) /\ u.request_id = ReqIdOf[PoolRead(mem', u.addr)]
    BY <1>3 DEF AddrCheck, ValidAddr, PoolRead
  <2> QED
    BY <1>4, <2>1 DEF UserSound, AddrCheck, ValidAddr, PoolRead
<1>9. StoredOnce'
  <2>1. \A b \in Blocks : mem'[b] # STORE_FREE => mem'[b] = mem[b]
    OBVIOUS
  <2> QED
    BY SMTT(60), <2>1 DEF IndInv, StoredOnce
<1>10. HistorySound'
  BY SMTT(60), <1>2 DEF IndInv, HistorySound
<1> QED
  BY <1>6, <1>7, <1>8, <1>9, <1>10 DEF IndInv, AtMostOnce

-----------------------------------------------------------------------------
(* What the steps do to the entries                                        *)

\* push to the end of a bucket adds one entry.
LEMMA PushFacts ==
    ASSUME TypeOK, TypeOK', NEW t \in Times, NEW info \in TcInfo, PushEntry(t, info),
           NEW n, n = <<t, Len(tc_map[t]) + 1>>
    PROVE  /\ Positions' = Positions \cup {n}
           /\ n \notin Positions
           /\ \A p \in Positions : InfoAt(p)' = InfoAt(p)
           /\ InfoAt(n)' = info
<1>1. tc_map[t] \in Seq(TcInfo) /\ Len(tc_map[t]) \in Nat
  BY SMTT(60) DEF TypeOK
<1>2. tc_map' = [tc_map EXCEPT ![t] = Append(tc_map[t], info)]
  BY DEF PushEntry
<1>3. /\ tc_map'[t] = Append(tc_map[t], info)
      /\ \A x \in Times : x # t => tc_map'[x] = tc_map[x]
  BY <1>2 DEF TypeOK
<1>4. /\ Len(tc_map'[t]) = Len(tc_map[t]) + 1
      /\ \A i \in 1..Len(tc_map[t]) : tc_map'[t][i] = tc_map[t][i]
      /\ tc_map'[t][Len(tc_map[t]) + 1] = info
  BY SMTT(60), <1>1, <1>3
<1>5. \A p : p \in Positions' <=> /\ p = <<p[1], p[2]>>
                                  /\ p[1] \in Times
                                  /\ p[2] \in 1..Len(tc_map'[p[1]])
  <2>1. \A x \in Times : DOMAIN tc_map'[x] = 1..Len(tc_map'[x])
    BY SMTT(60) DEF TypeOK
  <2> QED
    BY SMTT(60), <2>1 DEF Positions
<1>6. \A p : p \in Positions' <=> p \in Positions \/ p = n
  <2> SUFFICES ASSUME NEW p PROVE p \in Positions' <=> p \in Positions \/ p = n
    OBVIOUS
  <2>1. CASE p[1] = t
    BY SMTT(60), <1>1, <1>4, <1>5, <2>1, PositionFacts
  <2>2. CASE p[1] # t
    BY SMTT(60), <1>3, <1>5, <2>2, PositionFacts
  <2> QED
    BY <2>1, <2>2
<1>7. n \notin Positions
  BY SMTT(60), <1>1, PositionFacts
<1>8. ASSUME NEW p \in Positions PROVE InfoAt(p)' = InfoAt(p)
  <2>1. p[1] \in Times /\ p[2] \in 1..Len(tc_map[p[1]])
    BY PositionFacts
  <2> QED
    BY SMTT(60), <1>3, <1>4, <2>1 DEF InfoAt
<1>9. InfoAt(n)' = info
  BY <1>4 DEF InfoAt
<1> QED
  BY <1>6, <1>7, <1>8, <1>9

\* Emptying the buckets of some times leaves the other entries where they are.
LEMMA ClearFacts ==
    ASSUME TypeOK, NEW W \in SUBSET Times,
           tc_map' = [t \in Times |-> IF t \in W THEN << >> ELSE tc_map[t]]
    PROVE  /\ tc_map' \in [Times -> Seq(TcInfo)]
           /\ Positions' = {p \in Positions : p[1] \notin W}
           /\ \A p \in Positions' : InfoAt(p)' = InfoAt(p)
<1>1. tc_map' \in [Times -> Seq(TcInfo)]
  BY SMTT(60) DEF TypeOK
<1>2. \A t \in Times : DOMAIN tc_map'[t] = IF t \in W THEN {} ELSE DOMAIN tc_map[t]
  BY SMTT(60)
<1>3. \A p : p \in Positions' <=> p \in Positions /\ p[1] \notin W
  BY SMTT(60), <1>2 DEF Positions
<1>4. \A p \in Positions' : InfoAt(p)' = InfoAt(p)
  BY <1>3, PositionFacts DEF InfoAt
<1> QED
  BY <1>1, <1>3, <1>4

\* The elements of a concatenation.
LEMMA Concatenated ==
    ASSUME NEW S, NEW l \in Seq(S), NEW r \in Seq(S)
    PROVE  /\ l \o r \in Seq(S)
           /\ Len(l \o r) = Len(l) + Len(r)
           /\ \A j \in 1..(Len(l) + Len(r)) :
                 (l \o r)[j] = IF j <= Len(l) THEN l[j] ELSE r[j - Len(l)]
<1>1. l \o r \in Seq(S) /\ Len(l \o r) = Len(l) + Len(r)
  BY SMTT(60)
<1>2. \A j \in 1..(Len(l) + Len(r)) :
         (l \o r)[j] = IF j <= Len(l) THEN l[j] ELSE r[j - Len(l)]
  BY SMTT(60)
<1> QED
  BY <1>1, <1>2

\* Vec::remove shifts the later elements by one.
LEMMA VecRemoveFacts ==
    ASSUME NEW S, NEW s \in Seq(S), NEW i \in 1..Len(s)
    PROVE  /\ VecRemove(s, i) \in Seq(S)
           /\ Len(VecRemove(s, i)) = Len(s) - 1
           /\ \A j \in 1..(Len(s) - 1) :
                 VecRemove(s, i)[j] = IF j < i THEN s[j] ELSE s[j + 1]
<1> DEFINE l == SubSeq(s, 1, i - 1)
           r == SubSeq(s, i + 1, Len(s))
<1>1. /\ l \in Seq(S) /\ Len(l) = i - 1
      /\ \A j \in 1..(i - 1) : l[j] = s[j]
  BY SMTT(60)
<1>2. /\ r \in Seq(S) /\ Len(r) = Len(s) - i
      /\ \A j \in 1..(Len(s) - i) : r[j] = s[i + j]
  BY SMTT(60)
<1>3. VecRemove(s, i) = l \o r
  BY DEF VecRemove
<1> HIDE DEF l, r
<1>4. /\ l \o r \in Seq(S)
      /\ Len(l \o r) = Len(l) + Len(r)
      /\ \A j \in 1..(Len(l) + Len(r)) :
            (l \o r)[j] = IF j <= Len(l) THEN l[j] ELSE r[j - Len(l)]
  BY <1>1, <1>2, Concatenated
<1>5. ASSUME NEW j \in 1..(Len(s) - 1), j < i
      PROVE  (l \o r)[j] = s[j]
  BY SMTT(60), <1>1, <1>2, <1>4, <1>5
<1>6. ASSUME NEW j \in 1..(Len(s) - 1), ~(j < i)
      PROVE  (l \o r)[j] = s[j + 1]
  <2>1. j - Len(l) \in 1..(Len(s) - i) /\ i + (j - Len(l)) = j + 1
    BY SMTT(60), <1>1, <1>6
  <2>2. (l \o r)[j] = r[j - Len(l)]
    BY SMTT(60), <1>1, <1>2, <1>4, <1>6
  <2>3. r[j - Len(l)] = s[i + (j - Len(l))]
    BY <1>2, <2>1
  <2> QED
    BY <2>1, <2>2, <2>3
<1>7. Len(l) + Len(r) = Len(s) - 1
  BY SMTT(60), <1>1, <1>2
<1> QED
  BY <1>3, <1>4, <1>5, <1>6, <1>7

\* Removing an entry leaves all others, those behind it in its bucket one
\* place earlier.
LEMMA RemoveFacts ==
    ASSUME TypeOK, NEW p \in Positions, RemoveEntry(p)
    PROVE  /\ tc_map' \in [Times -> Seq(TcInfo)]
           /\ \E old \in [Positions' -> Positions] :
                 /\ \A q \in Positions' : InfoAt(q)' = InfoAt(old[q]) /\ old[q][1] = q[1]
                 /\ \A q, r \in Positions' : old[q] = old[r] => q = r
                 /\ \A q \in Positions : q # p <=> \E r \in Positions' : old[r] = q
<1> DEFINE s == tc_map[p[1]]
           t == p[1]
           i == p[2]
           old == [q \in Positions' |-> IF q[1] = t /\ q[2] >= i THEN <<t, q[2] + 1>> ELSE q]
           new == [q \in Positions |-> IF q[1] = t /\ q[2] > i THEN <<t, q[2] - 1>> ELSE q]
<1>1. t \in Times /\ s \in Seq(TcInfo) /\ i \in 1..Len(s) /\ p = <<t, i>>
  BY PositionFacts DEF TypeOK
<1>2. /\ tc_map'[t] = VecRemove(s, i)
      /\ \A x \in Times : x # t => tc_map'[x] = tc_map[x]
      /\ DOMAIN tc_map' = Times
  BY <1>1 DEF TypeOK, RemoveEntry
<1>3. /\ VecRemove(s, i) \in Seq(TcInfo)
      /\ Len(VecRemove(s, i)) = Len(s) - 1
      /\ \A j \in 1..(Len(s) - 1) : VecRemove(s, i)[j] = IF j < i THEN s[j] ELSE s[j + 1]
  BY <1>1, VecRemoveFacts
<1>4. tc_map' \in [Times -> Seq(TcInfo)]
  BY <1>1, <1>2, <1>3 DEF TypeOK, RemoveEntry
<1>5. \A q : q \in Positions <=> /\ q = <<q[1], q[2]>>
                                 /\ q[1] \in Times
                                 /\ q[2] \in 1..Len(tc_map[q[1]])
  BY PositionFacts
<1>6. \A q : q \in Positions' <=> /\ q = <<q[1], q[2]>>
                                  /\ q[1] \in Times
                                  /\ q[2] \in 1..Len(tc_map'[q[1]])
  <2>1. \A x \in Times : DOMAIN tc_map'[x] = 1..Len(tc_map'[x])
    BY SMTT(60), <1>4
  <2> QED
    BY SMTT(60), <2>1 DEF Positions
<1>7. ASSUME NEW q \in Positions'
      PROVE  /\ old[q] \in Positions
             /\ old[q][1] = q[1]
             /\ old[q] # p
             /\ InfoAt(q)' = InfoAt(old[q])
             /\ new[old[q]] = q
  <2>1. CASE q[1] # t
    BY <1>1, <1>2, <1>5, <1>6, <2>1 DEF InfoAt
  <2>2. CASE q[1] = t
    <3>1. q[2] \in 1..(Len(s) - 1) /\ q = <<t, q[2]>>
      BY <1>2, <1>3, <1>6, <2>2
    <3>2. CASE q[2] < i
      BY SMTT(60), <1>1, <1>2, <1>3, <1>5, <2>2, <3>1, <3>2 DEF InfoAt
    <3>3. CASE q[2] >= i
      <4>1. old[q] = <<t, q[2] + 1>>
        BY <2>2, <3>3
      <4>2. <<t, q[2] + 1>> \in Positions
        BY SMTT(60), <1>1, <1>5, <3>1
      <4>3. tc_map'[t][q[2]] = s[q[2] + 1]
        BY SMTT(60), <1>1, <1>2, <1>3, <3>1, <3>3
      <4>4. new[old[q]] = q
        BY SMTT(60), <1>1, <3>1, <3>3, <4>1, <4>2
      <4> QED
        BY SMTT(60), <1>1, <2>2, <3>1, <3>3, <4>1, <4>2, <4>3, <4>4 DEF InfoAt
    <3> QED
      BY SMTT(60), <1>1, <3>1, <3>2, <3>3
  <2> QED
    BY <2>1, <2>2
<1>8. ASSUME NEW q \in Positions, q # p
      PROVE  new[q] \in Positions' /\ old[new[q]] = q
  <2>1. q = <<q[1], q[2]>> /\ q[1] \in Times /\ q[2] \in 1..Len(tc_map[q[1]])
    BY <1>5
  <2>2. CASE q[1] # t
    BY <1>2, <1>6, <2>1, <2>2
  <2>3. CASE q[1] = t /\ q[2] < i
    BY SMTT(60), <1>1, <1>2, <1>3, <1>6, <2>1, <2>3
  <2>4. CASE q[1] = t /\ q[2] > i
    <3>1. new[q] = <<t, q[2] - 1>>
      BY <2>4
    <3>2. <<t, q[2] - 1>> \in Positions'
      BY SMTT(60), <1>1, <1>2, <1>3, <1>6, <2>1, <2>4
    <3> QED
      BY SMTT(60), <1>1, <2>1, <2>4, <3>1, <3>2
  <2> QED
    BY SMTT(60), <1>1, <1>8, <2>1, <2>2, <2>3, <2>4
<1>9. old \in [Positions' -> Positions]
  BY <1>7
<1>10. ASSUME NEW q \in Positions', NEW r \in Positions', old[q] = old[r]
       PROVE  q = r
  <2>1. new[old[q]] = q /\ new[old[r]] = r
    BY <1>7
  <2> QED
    BY <1>10, <2>1
<1>11. \A q \in Positions : q # p <=> \E r \in Positions' : old[r] = q
  BY <1>7, <1>8
<1> HIDE DEF old, new
<1> QED
  BY <1>4, <1>7, <1>9, <1>10, <1>11

\* Deleting the blocks of some entries touches no other entry's block and no
\* caller's.
LEMMA DeleteEntriesFacts ==
    ASSUME IndicesFit, IndInv, NEW ps \in SUBSET Positions, mem' = DeleteEntries(ps)
    PROVE  /\ mem' \in Memory
           /\ \A b \in Blocks : mem'[b] \in {mem[b], STORE_FREE}
           /\ \A q \in Positions \ ps : mem'[BlockAt(q)] = TcAt(q)
           /\ \A q \in ps : mem'[BlockAt(q)] = STORE_FREE
           /\ \A u \in user_owned : mem'[Decode(u.addr)] = mem[Decode(u.addr)]
<1>1. /\ \A q \in Positions : BlockAt(q) \in Blocks
      /\ \A u \in user_owned : Decode(u.addr) \in Blocks
  BY EntryFacts, InfoFacts DEF IndInv, TypeOK, BlockAt
<1>2. mem' \in Memory
  BY DEF DeleteEntries, Memory, IndInv, TypeOK
<1>3. \A b \in Blocks : mem'[b] = IF \E p \in ps : BlockAt(p) = b THEN STORE_FREE ELSE mem[b]
  BY DEF DeleteEntries
<1>4. \A q \in Positions \ ps : mem'[BlockAt(q)] = TcAt(q)
  BY <1>1, <1>3 DEF IndInv, ScheduleSound, TcAt
<1>5. \A u \in user_owned : mem'[Decode(u.addr)] = mem[Decode(u.addr)]
  BY SMTT(60), <1>1, <1>3 DEF IndInv, ScheduleSound, UserBlocks
<1> QED
  BY <1>1, <1>2, <1>3, <1>4, <1>5

-----------------------------------------------------------------------------
(* Each action keeps the inductive invariant                               *)

\* Steps that change only the time or the enabled flag.
LEMMA SameEntries ==
    ASSUME IndInv, current_time' \in Times, enabled' \in BOOLEAN,
           UNCHANGED <<mem, tc_map, user_owned, seen, rejected, due, executed>>
    PROVE  IndInv'
<1>1. TypeOK'
  BY DEF IndInv, TypeOK
<1>2. /\ Positions' = Positions
      /\ UserBlocks' = UserBlocks
  BY DEF Positions, UserBlocks
<1>3. \A p : InfoAt(p)' = InfoAt(p) /\ BlockAt(p)' = BlockAt(p) /\ TcAt(p)' = TcAt(p)
  BY DEF InfoAt, BlockAt, TcAt
<1>4. ScheduleSound' /\ HistorySound'
  BY <1>2, <1>3 DEF IndInv, ScheduleSound, HistorySound, AddrCheck, ValidAddr
<1>5. EveryBlockOwned' /\ AtMostOnce'
  BY <1>2, <1>3 DEF IndInv, EveryBlockOwned, AtMostOnce
<1>6. UserSound' /\ StoredOnce'
  BY DEF IndInv, UserSound, StoredOnce, AddrCheck, ValidAddr, PoolRead
<1> QED
  BY <1>1, <1>4, <1>5, <1>6 DEF IndInv

\* A block that reserve returns belongs to nobody.
LEMMA FreshBlock ==
    ASSUME IndicesFit, IndInv, NEW b \in Blocks, mem[b] = STORE_FREE
    PROVE  /\ \A p \in Positions : BlockAt(p) # b
           /\ \A u \in user_owned : Decode(u.addr) # b
BY DEF IndInv, ScheduleSound, UserSound, AddrCheck, BlockAt, TcAt

\* A telecommand is written to a block that the schedule does not use, or is
\* already there, and an entry for it is pushed.
LEMMA PushKeepsInv ==
    ASSUME IndicesFit, IndInv, TypeOK',
           NEW t \in Times, NEW info \in TcInfo, NEW tc \in Tcs, NEW b \in Blocks,
           PushEntry(t, info), info.request_id = ReqIdOf[tc], Decode(info.addr) = b,
           mem' = [mem EXCEPT ![b] = tc],
           \A p \in Positions : BlockAt(p) # b,
           user_owned' = {u \in user_owned : Decode(u.addr) # b},
           \A c \in Blocks : c # b => mem[c] # tc,
           seen' = seen \cup {tc}, rejected' = rejected, executed' = executed,
           due' = [due EXCEPT ![tc] = t], executed[tc] = 0
    PROVE  IndInv'
<1> PICK n : n = <<t, Len(tc_map[t]) + 1>>
  OBVIOUS
<1>1. /\ Positions' = Positions \cup {n}
      /\ n \notin Positions
      /\ \A p \in Positions : InfoAt(p)' = InfoAt(p)
      /\ InfoAt(n)' = info
  BY PushFacts DEF IndInv
<1>2. /\ \A p \in Positions : BlockAt(p) \in Blocks
      /\ \A u \in user_owned : Decode(u.addr) \in Blocks
  BY EntryFacts, InfoFacts DEF IndInv, TypeOK, BlockAt
<1>3. mem'[b] = tc /\ \A c \in Blocks : c # b => mem'[c] = mem[c]
  BY DEF IndInv, TypeOK, Memory
<1>4. tc # STORE_FREE
  BY DataAssumption DEF Tcs
<1>5. \A p \in Positions : /\ BlockAt(p)' = BlockAt(p)
                           /\ TcAt(p)' = TcAt(p)
                           /\ TcAt(p) # tc
  BY <1>1, <1>2, <1>3 DEF BlockAt, TcAt
<1>6. BlockAt(n)' = b /\ TcAt(n)' = tc
  BY <1>1, <1>3 DEF BlockAt, TcAt
<1>7. ScheduleSound'
  <2>1. ASSUME NEW p \in Positions
        PROVE  /\ AddrCheck(mem, InfoAt(p).addr)'
               /\ InfoAt(p)'.request_id = ReqIdOf[TcAt(p)']
               /\ BlockAt(p)' \notin UserBlocks'
               /\ BlockAt(p)' # b
    <3>1. /\ AddrCheck(mem, InfoAt(p).addr)
          /\ InfoAt(p).request_id = ReqIdOf[TcAt(p)]
          /\ BlockAt(p) \notin UserBlocks
      BY DEF IndInv, ScheduleSound
    <3> QED
      BY SMTT(60), <1>1, <1>2, <1>3, <1>5, <3>1 DEF AddrCheck, ValidAddr, UserBlocks, BlockAt
  <2>2. /\ AddrCheck(mem, InfoAt(n).addr)'
        /\ InfoAt(n)'.request_id = ReqIdOf[TcAt(n)']
        /\ BlockAt(n)' \notin UserBlocks'
    BY <1>1, <1>3, <1>4, <1>6 DEF AddrCheck, ValidAddr, UserBlocks
  <2>3. ASSUME NEW p \in Positions', NEW q \in Positions', p # q
        PROVE  BlockAt(p)' # BlockAt(q)'
    BY SMTT(60), <1>1, <1>5, <1>6, <2>1, <2>3 DEF IndInv, ScheduleSound
  <2> QED
    BY <1>1, <2>1, <2>2, <2>3 DEF ScheduleSound
<1>8. EveryBlockOwned'
  <2> SUFFICES ASSUME NEW c \in Blocks, mem'[c] # STORE_FREE
               PROVE  \/ \E p \in Positions' : BlockAt(p)' = c
                      \/ c \in UserBlocks'
                      \/ mem'[c] \in rejected'
    BY DEF EveryBlockOwned
  <2>1. CASE c = b
    BY <1>1, <1>6, <2>1
  <2>2. CASE c # b
    <3>1. mem'[c] = mem[c]
      BY <1>3, <2>2
    <3>2. CASE \E p \in Positions : BlockAt(p) = c
      BY <1>1, <1>5, <3>2
    <3>3. CASE c \in UserBlocks
      BY <2>2, <3>3 DEF UserBlocks
    <3>4. CASE mem[c] \in rejected
      BY SMTT(60), <3>1, <3>4
    <3> QED
      BY <3>1, <3>2, <3>3, <3>4 DEF IndInv, EveryBlockOwned
  <2> QED
    BY <2>1, <2>2
<1>9. UserSound'
  BY <1>2, <1>3 DEF IndInv, UserSound, AddrCheck, ValidAddr, PoolRead
<1>10. StoredOnce'
  BY SMTT(60), <1>3 DEF IndInv, StoredOnce
<1>11. HistorySound'
  <2>1. ASSUME NEW p \in Positions PROVE due'[TcAt(p)'] = p[1] /\ executed'[TcAt(p)'] = 0
    BY SMTT(60), <1>5 DEF IndInv, HistorySound, TypeOK
  <2>2. due'[TcAt(n)'] = n[1] /\ executed'[TcAt(n)'] = 0
    BY <1>6 DEF IndInv, TypeOK
  <2>3. \A x \in Tcs : executed'[x] # 0 => x \in seen'
    BY DEF IndInv, HistorySound
  <2> QED
    BY <1>1, <2>1, <2>2, <2>3 DEF HistorySound
<1> QED
  BY <1>7, <1>8, <1>9, <1>10, <1>11 DEF IndInv, AtMostOnce

\* A telecommand is stored outside the schedule: it was refused, or it belongs
\* to a caller.
LEMMA StoreKeepsInv ==
    ASSUME IndicesFit, IndInv, TypeOK',
           NEW tc \in Tcs, NEW b \in Blocks, NEW new \in SUBSET TcInfo,
           mem[b] = STORE_FREE, tc \notin seen, mem' = [mem EXCEPT ![b] = tc],
           \/ new = {} /\ rejected' = rejected \cup {tc}
           \/ /\ rejected' = rejected
              /\ \E info \in TcInfo : /\ new = {info}
                                      /\ info.request_id = ReqIdOf[tc]
                                      /\ Decode(info.addr) = b,
           user_owned' = user_owned \cup new, seen' = seen \cup {tc},
           UNCHANGED <<tc_map, due, executed>>
    PROVE  IndInv'
<1>1. /\ Positions' = Positions
      /\ \A p : InfoAt(p)' = InfoAt(p) /\ BlockAt(p)' = BlockAt(p)
  BY DEF Positions, InfoAt, BlockAt
<1>2. /\ \A p \in Positions : BlockAt(p) \in Blocks /\ BlockAt(p) # b
      /\ \A u \in user_owned : Decode(u.addr) \in Blocks /\ Decode(u.addr) # b
  BY FreshBlock, EntryFacts, InfoFacts DEF IndInv, TypeOK, BlockAt
<1>3. mem'[b] = tc /\ \A c \in Blocks : c # b => mem'[c] = mem[c]
  BY DEF IndInv, TypeOK, Memory
<1>4. tc # STORE_FREE
  BY DataAssumption DEF Tcs
<1>5. \A p \in Positions : TcAt(p)' = TcAt(p)
  BY <1>1, <1>2, <1>3 DEF TcAt
<1>6. \A u \in new : Decode(u.addr) = b /\ u.request_id = ReqIdOf[tc]
  OBVIOUS
<1>7. ScheduleSound'
  <2>1. ASSUME NEW p \in Positions
        PROVE  /\ AddrCheck(mem, InfoAt(p).addr)'
               /\ InfoAt(p)'.request_id = ReqIdOf[TcAt(p)']
               /\ BlockAt(p)' \notin UserBlocks'
    <3>1. /\ AddrCheck(mem, InfoAt(p).addr)
          /\ InfoAt(p).request_id = ReqIdOf[TcAt(p)]
          /\ BlockAt(p) \notin UserBlocks
      BY DEF IndInv, ScheduleSound
    <3> QED
      BY <1>1, <1>2, <1>3, <1>5, <1>6, <3>1 DEF AddrCheck, ValidAddr, UserBlocks, BlockAt
  <2> QED
    BY <1>1, <2>1 DEF IndInv, ScheduleSound
<1>8. EveryBlockOwned'
  <2> SUFFICES ASSUME NEW c \in Blocks, mem'[c] # STORE_FREE
               PROVE  \/ \E p \in Positions' : BlockAt(p)' = c
                      \/ c \in UserBlocks'
                      \/ mem'[c] \in rejected'
    BY DEF EveryBlockOwned
  <2>1. CASE c = b
    BY <1>3, <1>6, <2>1 DEF UserBlocks
  <2>2. CASE c # b
    <3>1. mem'[c] = mem[c]
      BY <1>3, <2>2
    <3>2. UserBlocks \subseteq UserBlocks' /\ rejected \subseteq rejected'
      BY DEF UserBlocks
    <3> QED
      BY <1>1, <3>1, <3>2 DEF IndInv, EveryBlockOwned
  <2> QED
    BY <2>1, <2>2
<1>9. UserSound'
  <2>1. ASSUME NEW u \in user_owned'
        PROVE  AddrCheck(mem', u.addr) /\ u.request_id = ReqIdOf[PoolRead(mem', u.addr)]
    BY <1>2, <1>3, <1>4, <1>6 DEF IndInv, UserSound, AddrCheck, ValidAddr, PoolRead
  <2>2. ASSUME NEW u \in user_owned', NEW v \in user_owned', Decode(u.addr) = Decode(v.addr)
        PROVE  u = v
    BY <1>2, <1>6, <2>2 DEF IndInv, UserSound
  <2> QED
    BY <2>1, <2>2 DEF UserSound, AddrCheck, ValidAddr, PoolRead
<1>10. StoredOnce'
  BY SMTT(60), <1>3 DEF IndInv, StoredOnce
<1>11. HistorySound'
  BY <1>1, <1>5 DEF IndInv, HistorySound
<1> QED
  BY <1>7, <1>8, <1>9, <1>10, <1>11 DEF IndInv, AtMostOnce

\* The documented requirement on tc_buf.
BufferLargeEnough == \A tc \in Tcs : LenOf[tc] <= BufLen

-----------------------------------------------------------------------------
(* The actions                                                             *)

\* insert_unwrapped_tc and insert_wrapped_tc.
LEMMA InsertUnwrappedTcInv ==
    ASSUME IndicesFit, IndInv, NEW tc \in Tcs, NEW t \in Times, InsertUnwrappedTc(tc, t)
    PROVE  IndInv'
<1>1. CASE UNCHANGED <<mem, tc_map, seen, rejected, due>>
  BY <1>1, SameEntries DEF InsertUnwrappedTc, IndInv, TypeOK
<1>2. ASSUME NEW b \in Reserve(mem, LenOf[tc]),
             seen' = seen \cup {tc},
             mem' = PoolWrite(mem, b, tc),
             \/ /\ rejected' = rejected \cup {tc}
                /\ UNCHANGED <<tc_map, due>>
             \/ /\ PushEntry(t, [addr |-> Encode(b), request_id |-> ReqIdOf[tc]])
                /\ due' = [due EXCEPT ![tc] = t]
                /\ UNCHANGED rejected
      PROVE  IndInv'
  <2>1. b \in Blocks /\ mem[b] = STORE_FREE /\ mem' = [mem EXCEPT ![b] = tc]
    BY <1>2, ReserveFree DEF PoolWrite
  <2>2. tc \notin seen /\ UNCHANGED <<current_time, enabled, user_owned, executed>>
    BY DEF InsertUnwrappedTc
  <2>3. mem' \in Memory
    BY <2>1 DEF IndInv, TypeOK, Memory, Tcs
  <2>4. CASE rejected' = rejected \cup {tc} /\ UNCHANGED <<tc_map, due>>
    <3>1. TypeOK'
      BY <1>2, <2>2, <2>3, <2>4 DEF IndInv, TypeOK
    <3>2. PICK new \in SUBSET TcInfo : new = {}
      OBVIOUS
    <3>3. user_owned' = user_owned \cup new /\ UNCHANGED <<tc_map, due, executed>>
      BY <2>2, <2>4, <3>2
    <3> QED
      BY <1>2, <2>1, <2>2, <2>4, <3>1, <3>2, <3>3, StoreKeepsInv
  <2>5. CASE /\ PushEntry(t, [addr |-> Encode(b), request_id |-> ReqIdOf[tc]])
             /\ due' = [due EXCEPT ![tc] = t]
             /\ UNCHANGED rejected
    <3> PICK info : info = [addr |-> Encode(b), request_id |-> ReqIdOf[tc]]
      OBVIOUS
    <3>1. info \in TcInfo /\ info.request_id = ReqIdOf[tc] /\ Decode(info.addr) = b
      BY <2>1, DecodeEncode DEF TcInfo, Addresses
    <3>2. tc_map' \in [Times -> Seq(TcInfo)]
      BY SMTT(60), <2>5, <3>1 DEF PushEntry, IndInv, TypeOK
    <3>3. TypeOK'
      BY <1>2, <2>2, <2>3, <2>5, <3>2 DEF IndInv, TypeOK
    <3>4. \A p \in Positions : BlockAt(p) # b
      BY <2>1, FreshBlock
    <3>5. user_owned' = {u \in user_owned : Decode(u.addr) # b}
      BY <2>1, <2>2, FreshBlock
    <3>6. \A c \in Blocks : c # b => mem[c] # tc
      BY <2>2, DataAssumption DEF IndInv, StoredOnce, Tcs
    <3>7. executed[tc] = 0
      BY <2>2 DEF IndInv, HistorySound
    <3> QED
      BY <1>2, <2>1, <2>2, <2>5, <3>1, <3>3, <3>4, <3>5, <3>6, <3>7, PushKeepsInv
  <2> QED
    BY <1>2, <2>4, <2>5
<1> QED
  BY <1>1, <1>2 DEF InsertUnwrappedTc

\* A caller stores a telecommand of its own.
LEMMA UserStoresTcInv ==
    ASSUME IndicesFit, IndInv, NEW tc \in Tcs, UserStoresTc(tc)
    PROVE  IndInv'
<1>1. PICK b \in Reserve(mem, LenOf[tc]) :
          /\ mem' = PoolWrite(mem, b, tc)
          /\ user_owned' = user_owned \cup {[addr |-> Encode(b), request_id |-> ReqIdOf[tc]]}
  BY DEF UserStoresTc
<1> PICK info : info = [addr |-> Encode(b), request_id |-> ReqIdOf[tc]]
  OBVIOUS
<1>2. b \in Blocks /\ mem[b] = STORE_FREE /\ mem' = [mem EXCEPT ![b] = tc]
  BY <1>1, ReserveFree DEF PoolWrite
<1>3. info \in TcInfo /\ info.request_id = ReqIdOf[tc] /\ Decode(info.addr) = b
  BY <1>2, DecodeEncode DEF TcInfo, Addresses
<1>4. /\ tc \notin seen /\ seen' = seen \cup {tc}
      /\ UNCHANGED <<tc_map, current_time, enabled, rejected, due, executed>>
  BY DEF UserStoresTc
<1>5. TypeOK'
  BY <1>1, <1>2, <1>3, <1>4 DEF IndInv, TypeOK, Memory, Tcs
<1>6. PICK new \in SUBSET TcInfo : new = {info}
  BY <1>3
<1>7. user_owned' = user_owned \cup new /\ rejected' = rejected
      /\ UNCHANGED <<tc_map, due, executed>>
  BY <1>1, <1>4, <1>6
<1> QED
  BY <1>2, <1>3, <1>4, <1>5, <1>6, <1>7, StoreKeepsInv

\* insert_unwrapped_and_stored_tc: the block changes its owner.
LEMMA InsertStoredInv ==
    ASSUME IndicesFit, IndInv, NEW info \in user_owned, NEW t \in Times,
           InsertUnwrappedAndStoredTc(info, t)
    PROVE  IndInv'
<1> PICK tc, b : b = Decode(info.addr) /\ tc = mem[b]
  OBVIOUS
<1>1. info \in TcInfo /\ b \in Blocks
  BY InfoFacts DEF IndInv, TypeOK
<1>2. tc # STORE_FREE /\ info.request_id = ReqIdOf[tc]
  BY DEF IndInv, UserSound, AddrCheck, PoolRead
<1>3. tc \in Tcs /\ tc \in seen
  BY <1>1, <1>2 DEF IndInv, TypeOK, StoredOnce, Memory, Tcs
<1>4. /\ PushEntry(t, info) /\ user_owned' = user_owned \ {info}
      /\ due' = [due EXCEPT ![tc] = t] /\ executed[tc] = 0
      /\ UNCHANGED <<mem, current_time, enabled, seen, rejected, executed>>
  BY DEF InsertUnwrappedAndStoredTc, PoolRead
<1>5. mem' = [mem EXCEPT ![b] = tc] /\ seen' = seen \cup {tc}
  BY <1>1, <1>3, <1>4 DEF IndInv, TypeOK, Memory
<1>6. user_owned' = {u \in user_owned : Decode(u.addr) # b}
  BY <1>4 DEF IndInv, UserSound
<1>7. \A p \in Positions : BlockAt(p) # b
  BY DEF IndInv, ScheduleSound, UserBlocks
<1>8. \A c \in Blocks : c # b => mem[c] # tc
  BY <1>1, <1>2 DEF IndInv, StoredOnce
<1>9. tc_map' \in [Times -> Seq(TcInfo)]
  BY SMTT(60), <1>1, <1>4 DEF PushEntry, IndInv, TypeOK
<1>10. TypeOK'
  BY <1>3, <1>4, <1>9 DEF IndInv, TypeOK
<1>11. rejected' = rejected /\ executed' = executed
  BY <1>4
<1>12. /\ Decode(info.addr) = b
       /\ PushEntry(t, info)
       /\ due' = [due EXCEPT ![tc] = t] /\ executed[tc] = 0
  BY <1>4
<1> QED
  BY <1>1, <1>2, <1>3, <1>5, <1>6, <1>7, <1>8, <1>10, <1>11, <1>12, PushKeepsInv

\* A caller frees a block of its own.
LEMMA UserDeletesTcInv ==
    ASSUME IndicesFit, IndInv, NEW info \in user_owned, UserDeletesTc(info)
    PROVE  IndInv'
<1> PICK b : b = Decode(info.addr)
  OBVIOUS
<1>1. b \in Blocks /\ AddrCheck(mem, info.addr)
  BY InfoFacts DEF IndInv, TypeOK, UserSound
<1>2. /\ mem' = [mem EXCEPT ![b] = STORE_FREE]
      /\ user_owned' = user_owned \ {info}
      /\ UNCHANGED <<tc_map, current_time, enabled, seen, rejected, due, executed>>
  BY <1>1 DEF UserDeletesTc, PoolDelete, history
<1>3. TypeOK'
  BY <1>2 DEF IndInv, TypeOK, Memory
<1>4. mem'[b] = STORE_FREE /\ \A c \in Blocks : c # b => mem'[c] = mem[c]
  BY <1>1, <1>2 DEF IndInv, TypeOK, Memory
<1>5. Positions' = Positions /\ \A p : InfoAt(p)' = InfoAt(p)
  BY <1>2 DEF Positions, InfoAt
<1>6. \A p \in Positions : BlockAt(p) \in Blocks /\ BlockAt(p) # b
  BY EntryFacts, InfoFacts DEF IndInv, TypeOK, BlockAt, ScheduleSound, UserBlocks
<1>7. \A u \in user_owned : Decode(u.addr) \in Blocks /\ (Decode(u.addr) = b => u = info)
  BY InfoFacts DEF IndInv, TypeOK, UserSound
<1>8. PICK old : old = [p \in Positions |-> p]
  OBVIOUS
<1>9. \A p \in Positions' : mem'[BlockAt(old[p])] = TcAt(old[p])
  BY <1>4, <1>5, <1>6, <1>8 DEF TcAt
<1>10. /\ old \in [Positions' -> Positions]
       /\ \A p \in Positions' : InfoAt(p)' = InfoAt(old[p]) /\ old[p][1] = p[1]
       /\ \A p, q \in Positions' : old[p] = old[q] => p = q
       /\ \A p \in Positions : \E q \in Positions' : old[q] = p
  BY <1>5, <1>8
<1>11. \A c \in Blocks : mem'[c] \in {mem[c], STORE_FREE}
  BY <1>4
<1>12. \A u \in user_owned' : u \in user_owned /\ mem'[Decode(u.addr)] = mem[Decode(u.addr)]
  BY <1>2, <1>4, <1>7
<1>13. \A u \in user_owned : mem'[Decode(u.addr)] # STORE_FREE => u \in user_owned'
  BY <1>2, <1>4
<1>14. /\ UNCHANGED <<seen, rejected, due>>
       /\ \A p \in Positions' : executed'[TcAt(old[p])] = executed[TcAt(old[p])]
       /\ \A tc \in Tcs : executed'[tc] <= 1 /\ (executed'[tc] # 0 => tc \in seen)
  BY <1>2 DEF IndInv, AtMostOnce, HistorySound
<1> QED
  BY <1>3, <1>9, <1>10, <1>11, <1>12, <1>13, <1>14, Shrink

\* Entries ps are removed with their blocks; for delete_by_time_filter,
\* delete_all, reset and the release methods.  Callers may get the blocks of
\* some of the removed entries.
LEMMA ClearKeepsInv ==
    ASSUME IndicesFit, IndInv, NEW W \in SUBSET Times, NEW kept \in SUBSET Positions,
           tc_map' = [t \in Times |-> IF t \in W THEN << >> ELSE tc_map[t]],
           \A p \in kept : p[1] \in W,
           mem' = DeleteEntries({p \in Positions : p[1] \in W} \ kept),
           user_owned' = user_owned \cup {InfoAt(p) : p \in kept},
           current_time' \in Times, enabled' \in BOOLEAN,
           UNCHANGED <<seen, rejected, due>>,
           executed' \in [Tcs -> Nat],
           \A p \in Positions : p[1] \notin W => executed'[TcAt(p)] = executed[TcAt(p)],
           \A tc \in Tcs : executed'[tc] <= 1 /\ (executed'[tc] # 0 => tc \in seen)
    PROVE  IndInv'
<1> PICK gone : gone = {p \in Positions : p[1] \in W} \ kept
  OBVIOUS
<1>1. /\ tc_map' \in [Times -> Seq(TcInfo)]
      /\ Positions' = {p \in Positions : p[1] \notin W}
      /\ \A p \in Positions' : InfoAt(p)' = InfoAt(p)
  BY ClearFacts DEF IndInv
<1>2. gone \in SUBSET Positions /\ mem' = DeleteEntries(gone)
  OBVIOUS
<1>3. /\ mem' \in Memory
      /\ \A b \in Blocks : mem'[b] \in {mem[b], STORE_FREE}
      /\ \A q \in Positions \ gone : mem'[BlockAt(q)] = TcAt(q)
      /\ \A q \in gone : mem'[BlockAt(q)] = STORE_FREE
      /\ \A u \in user_owned : mem'[Decode(u.addr)] = mem[Decode(u.addr)]
  BY <1>2, DeleteEntriesFacts
<1>4. TypeOK'
  <2>1. \A p \in kept : InfoAt(p) \in TcInfo
    BY EntryFacts DEF IndInv
  <2> QED
    BY SMTT(60), <1>1, <1>3, <2>1 DEF IndInv, TypeOK
<1>5. PICK old : old = [p \in Positions' |-> p]
  OBVIOUS
<1>6. /\ old \in [Positions' -> Positions]
      /\ \A p \in Positions' : InfoAt(p)' = InfoAt(old[p]) /\ old[p][1] = p[1]
      /\ \A p, q \in Positions' : old[p] = old[q] => p = q
      /\ \A p \in Positions' : old[p] = p
  BY <1>1, <1>5
<1>7. \A p \in Positions' : mem'[BlockAt(old[p])] = TcAt(old[p])
  BY <1>1, <1>3, <1>6
<1>8. ASSUME NEW u \in user_owned'
      PROVE  /\ mem'[Decode(u.addr)] = mem[Decode(u.addr)]
             /\ \/ u \in user_owned
                \/ \E p \in Positions : u = InfoAt(p) /\ \A q \in Positions' : old[q] # p
  <2>1. CASE u \in user_owned
    BY <1>3, <2>1
  <2>2. CASE \E p \in kept : u = InfoAt(p)
    BY SMTT(60), <1>1, <1>3, <1>6, <2>2 DEF BlockAt, TcAt
  <2> QED
    BY <2>1, <2>2
<1>9. ASSUME NEW p \in Positions, mem'[BlockAt(p)] # STORE_FREE
      PROVE  InfoAt(p) \in user_owned' \/ \E q \in Positions' : old[q] = p
  BY <1>1, <1>3, <1>6, <1>9
<1>10. /\ \A u \in user_owned : mem'[Decode(u.addr)] # STORE_FREE => u \in user_owned'
       /\ \A p \in Positions' : executed'[TcAt(old[p])] = executed[TcAt(old[p])]
  BY <1>1, <1>6
<1> QED
  BY <1>3, <1>4, <1>6, <1>7, <1>8, <1>9, <1>10, Shrink

\* delete_by_time_filter and delete_all.
LEMMA DeleteByTimeFilterInv ==
    ASSUME IndicesFit, IndInv, NEW window \in TimeWindows, DeleteByTimeFilter(window)
    PROVE  IndInv'
<1>1. window \in SUBSET Times
  BY SMTT(60) DEF TimeWindows
<1>2. PICK kept : kept = {}
  OBVIOUS
<1>3. /\ mem' = DeleteEntries({p \in Positions : p[1] \in window} \ kept)
      /\ user_owned' = user_owned \cup {InfoAt(p) : p \in kept}
      /\ kept \in SUBSET Positions
  <2>1. {p \in Positions : p[1] \in window} \ kept = {p \in Positions : p[1] \in window}
    BY <1>2
  <2> QED
    BY <1>2, <2>1 DEF DeleteByTimeFilter
<1>4. /\ tc_map' = [t \in Times |-> IF t \in window THEN << >> ELSE tc_map[t]]
      /\ UNCHANGED <<current_time, enabled, seen, rejected, due, executed>>
  BY DEF DeleteByTimeFilter, history
<1>5. /\ current_time' \in Times /\ enabled' \in BOOLEAN /\ executed' \in [Tcs -> Nat]
      /\ \A tc \in Tcs : executed'[tc] <= 1 /\ (executed'[tc] # 0 => tc \in seen)
  BY <1>4 DEF IndInv, TypeOK, AtMostOnce, HistorySound
<1> QED
  BY <1>1, <1>2, <1>3, <1>4, <1>5, ClearKeepsInv

\* reset
LEMMA ResetInv ==
    ASSUME IndicesFit, IndInv, Reset
    PROVE  IndInv'
<1>1. PICK kept, W : kept = {} /\ W = Times
  OBVIOUS
<1>2. {p \in Positions : p[1] \in W} \ kept = Positions
  BY <1>1, EntryFacts DEF IndInv
<1>3. /\ mem' = DeleteEntries({p \in Positions : p[1] \in W} \ kept)
      /\ user_owned' = user_owned \cup {InfoAt(p) : p \in kept}
      /\ kept \in SUBSET Positions
  BY <1>1, <1>2 DEF Reset
<1>4. /\ tc_map' = [t \in Times |-> IF t \in W THEN << >> ELSE tc_map[t]]
      /\ UNCHANGED <<current_time, seen, rejected, due, executed>>
      /\ enabled' = FALSE
  BY <1>1 DEF Reset, history, EmptyMap
<1>5. /\ current_time' \in Times /\ enabled' \in BOOLEAN /\ executed' \in [Tcs -> Nat]
      /\ \A tc \in Tcs : executed'[tc] <= 1 /\ (executed'[tc] # 0 => tc \in seen)
  BY <1>4 DEF IndInv, TypeOK, AtMostOnce, HistorySound
<1> QED
  BY <1>1, <1>3, <1>4, <1>5, ClearKeepsInv

\* Both deletions by request ID remove one entry; its block goes to the caller
\* or is freed.
LEMMA DeleteByRequestIdInv ==
    ASSUME IndicesFit, IndInv, NEW p \in Positions, RemoveEntry(p),
           UNCHANGED <<current_time, enabled, seen, rejected, due, executed>>,
           \/ mem' = mem /\ user_owned' = user_owned \cup {InfoAt(p)}
           \/ mem' = PoolDelete(mem, InfoAt(p).addr) /\ user_owned' = user_owned
    PROVE  IndInv'
<1>1. /\ tc_map' \in [Times -> Seq(TcInfo)]
      /\ \E old \in [Positions' -> Positions] :
            /\ \A q \in Positions' : InfoAt(q)' = InfoAt(old[q]) /\ old[q][1] = q[1]
            /\ \A q, r \in Positions' : old[q] = old[r] => q = r
            /\ \A q \in Positions : q # p <=> \E r \in Positions' : old[r] = q
  BY RemoveFacts DEF IndInv
<1>2. PICK old \in [Positions' -> Positions] :
            /\ \A q \in Positions' : InfoAt(q)' = InfoAt(old[q]) /\ old[q][1] = q[1]
            /\ \A q, r \in Positions' : old[q] = old[r] => q = r
            /\ \A q \in Positions : q # p <=> \E r \in Positions' : old[r] = q
  BY <1>1
<1>3. /\ \A q \in Positions : InfoAt(q) \in TcInfo /\ BlockAt(q) \in Blocks
      /\ \A u \in user_owned : Decode(u.addr) \in Blocks /\ Decode(u.addr) # BlockAt(p)
      /\ \A q \in Positions : q # p => BlockAt(q) # BlockAt(p)
  BY EntryFacts, InfoFacts DEF IndInv, TypeOK, BlockAt, ScheduleSound, UserBlocks
<1>4. /\ \A b \in Blocks : b # BlockAt(p) => mem'[b] = mem[b]
      /\ mem'[BlockAt(p)] = IF mem' = mem THEN TcAt(p) ELSE STORE_FREE
      /\ mem' \in Memory
  <2>1. CASE mem' = mem
    BY <2>1 DEF IndInv, TypeOK, TcAt
  <2>2. CASE mem' = [mem EXCEPT ![BlockAt(p)] = STORE_FREE] /\ mem' # mem
    BY <1>3, <2>2 DEF IndInv, TypeOK, Memory
  <2> QED
    BY <2>1, <2>2 DEF PoolDelete, BlockAt
<1>5. TypeOK'
  BY <1>1, <1>3, <1>4 DEF IndInv, TypeOK
<1>6. \A q \in Positions' : old[q] \in Positions /\ old[q] # p
  BY <1>2
<1>7. \A q \in Positions' : mem'[BlockAt(old[q])] = TcAt(old[q])
  BY <1>3, <1>4, <1>6 DEF TcAt
<1>8. \A b \in Blocks : mem'[b] \in {mem[b], STORE_FREE}
  BY <1>3, <1>4 DEF TcAt
<1>9. TcAt(p) # STORE_FREE
  BY DEF IndInv, ScheduleSound, AddrCheck, TcAt, BlockAt
<1>10. mem' # mem => mem'[BlockAt(p)] = STORE_FREE /\ user_owned' = user_owned
  <2>1. AddrCheck(mem, InfoAt(p).addr)
    BY DEF IndInv, ScheduleSound
  <2> QED
    BY <1>4
<1>11. mem' = mem => user_owned' = user_owned \cup {InfoAt(p)}
  <2>1. AddrCheck(mem, InfoAt(p).addr)
    BY DEF IndInv, ScheduleSound
  <2>2. ASSUME mem' = PoolDelete(mem, InfoAt(p).addr) PROVE mem' # mem
    <3>1. mem' = [mem EXCEPT ![BlockAt(p)] = STORE_FREE]
      BY <2>1, <2>2 DEF PoolDelete, BlockAt
    <3>2. mem'[BlockAt(p)] = STORE_FREE
      BY <1>3, <3>1 DEF IndInv, TypeOK, Memory
    <3> QED
      BY <1>9, <3>2 DEF TcAt
  <2> QED
    BY <2>2
<1>12. ASSUME NEW u \in user_owned'
       PROVE  /\ mem'[Decode(u.addr)] = mem[Decode(u.addr)]
              /\ \/ u \in user_owned
                 \/ \E q \in Positions : u = InfoAt(q) /\ \A r \in Positions' : old[r] # q
  <2>1. CASE u \in user_owned
    BY <1>3, <1>4, <2>1
  <2>2. CASE u \notin user_owned
    BY <1>6, <1>10, <1>11, <2>2
  <2> QED
    BY <2>1, <2>2
<1>13. ASSUME NEW q \in Positions, mem'[BlockAt(q)] # STORE_FREE
       PROVE  InfoAt(q) \in user_owned' \/ \E r \in Positions' : old[r] = q
  BY <1>2, <1>10, <1>11, <1>13
<1>14. /\ \A u \in user_owned : u \in user_owned'
       /\ \A q \in Positions' : executed'[TcAt(old[q])] = executed[TcAt(old[q])]
       /\ \A tc \in Tcs : executed'[tc] <= 1 /\ (executed'[tc] # 0 => tc \in seen)
  BY DEF IndInv, AtMostOnce, HistorySound
<1> QED
  BY <1>2, <1>5, <1>7, <1>8, <1>12, <1>13, <1>14, Shrink

-----------------------------------------------------------------------------
(* Release                                                                 *)

\* With a large enough buffer no read fails: every due entry is processed.
LEMMA AllProcessed ==
    ASSUME IndicesFit, BufferLargeEnough, IndInv,
           NEW kept \in SUBSET Positions, NEW with_buffer \in BOOLEAN
    PROVE  Processed(kept, with_buffer) = TelecommandsToRelease
<1>1. ASSUME NEW p \in TelecommandsToRelease
      PROVE  Readable(p, kept, with_buffer)
  <2>1. p \in Positions
    BY DEF TelecommandsToRelease
  <2>2. AddrCheck(mem, InfoAt(p).addr) /\ TcAt(p) \in Tcs
    BY <2>1 DEF IndInv, ScheduleSound, AddrCheck, ValidAddr, TypeOK, Memory, TcAt, BlockAt, Tcs
  <2>3. LenOf[TcAt(p)] \in Nat /\ LenOf[TcAt(p)] <= BufLen
    BY <2>2, DataAssumption DEF BufferLargeEnough, Tcs
  <2>4. CanRead(mem, InfoAt(p).addr, BufLen)
    BY <2>2, <2>3 DEF CanRead, TcAt, BlockAt
  <2>5. CanReadAsVec(mem, InfoAt(p).addr)
    BY SMTT(60), <2>2, <2>3 DEF CanReadAsVec, CanRead, LenOfData, AddrCheck, TcAt, BlockAt
  <2>6. ASSUME NEW q \in TelecommandsToRelease \ kept, Before(q, p)
        PROVE  BlockAt(q) # BlockAt(p)
    <3>1. q \in Positions /\ q # p
      <4>1. p[1] \in Nat /\ p[2] \in Nat /\ q \in Positions
        BY <2>1, EntryFacts, SchedulerAssumption DEF IndInv, TelecommandsToRelease
      <4> QED
        BY SMTT(60), <2>6, <4>1 DEF Before
    <3> QED
      BY <2>1, <3>1 DEF IndInv, ScheduleSound
  <2> QED
    BY <2>4, <2>5, <2>6 DEF Readable
<1> QED
  BY <1>1 DEF Processed

\* The empty set has no elements and a singleton has one: in both cases the
\* recursive function in the definition of Cardinality is easily written out.
LEMMA EmptySetCount == Cardinality({}) = 0
<1> DEFINE Counts(f) ==
        f = [T \in SUBSET {} |-> IF T = {} THEN 0 ELSE 1 + f[T \ {CHOOSE x : x \in T}]]
<1>1. Cardinality({}) = (CHOOSE f : Counts(f))[{}]
  BY DEF Cardinality
<1>2. Counts([T \in SUBSET {} |-> 0])
  OBVIOUS
<1>3. Counts(CHOOSE f : Counts(f))
  BY <1>2
<1> QED
  BY <1>1, <1>3

\* A set with one element counts one.
LEMMA SingletonCount ==
    ASSUME NEW e
    PROVE  Cardinality({e}) = 1
<1> DEFINE Counts(f) ==
        f = [T \in SUBSET {e} |-> IF T = {} THEN 0 ELSE 1 + f[T \ {CHOOSE x : x \in T}]]
           g == [T \in SUBSET {e} |-> IF T = {} THEN 0 ELSE 1]
           h == CHOOSE f : Counts(f)
<1>1. Cardinality({e}) = (CHOOSE f : Counts(f))[{e}]
  BY DEF Cardinality
<1>2. ASSUME NEW T \in SUBSET {e}, T # {} PROVE T \ {CHOOSE x : x \in T} = {}
  BY <1>2
<1>3. ASSUME NEW T \in SUBSET {e}
      PROVE  g[T] = IF T = {} THEN 0 ELSE 1 + g[T \ {CHOOSE x : x \in T}]
  <2>1. CASE T = {}
    BY <2>1
  <2>2. CASE T # {}
    BY SMTT(60), <1>2, <2>2
  <2> QED
    BY <2>1, <2>2
<1>4. Counts(g)
  BY <1>3
<1>5. Counts(CHOOSE f : Counts(f))
  BY <1>4
<1> HIDE DEF h
<1>6. h = [T \in SUBSET {e} |-> IF T = {} THEN 0 ELSE 1 + h[T \ {CHOOSE x : x \in T}]]
  BY <1>5 DEF h
<1>7. {} \in SUBSET {e} /\ {e} \in SUBSET {e} /\ {e} # {}
  OBVIOUS
<1>8. h[{}] = 0
  BY <1>6, <1>7
<1>9. {e} \ {CHOOSE x : x \in {e}} = {}
  BY <1>2, <1>7
<1>10. h[{e}] = 1 + h[{}]
  BY <1>6, <1>7, <1>9
<1> QED
  BY SMTT(60), <1>1, <1>8, <1>10 DEF h

\* The releaser executes each entry's telecommand once.
LEMMA CountFacts ==
    ASSUME IndInv, NEW ps \in SUBSET Positions, CountExecuted(ps)
    PROVE  /\ executed' \in [Tcs -> Nat]
           /\ \A tc \in Tcs : executed'[tc] = IF enabled /\ \E p \in ps : TcAt(p) = tc
                                              THEN executed[tc] + 1 ELSE executed[tc]
<1>1. ASSUME NEW tc \in Tcs
      PROVE  Cardinality({p \in ps : TcAt(p) = tc}) = IF \E p \in ps : TcAt(p) = tc THEN 1 ELSE 0
  <2>1. CASE ~ \E p \in ps : TcAt(p) = tc
    <3>1. {p \in ps : TcAt(p) = tc} = {}
      BY <2>1
    <3> QED
      BY <2>1, <3>1, EmptySetCount
  <2>2. CASE \E p \in ps : TcAt(p) = tc
    <3>1. PICK p \in ps : TcAt(p) = tc
      BY <2>2
    <3>2. ASSUME NEW q \in ps, TcAt(q) = tc PROVE q = p
      <4>1. BlockAt(p) \in Blocks /\ BlockAt(q) \in Blocks /\ TcAt(p) # STORE_FREE
        BY DEF IndInv, ScheduleSound, AddrCheck, ValidAddr, TcAt, BlockAt
      <4>2. BlockAt(p) = BlockAt(q)
        BY <3>1, <3>2, <4>1 DEF IndInv, StoredOnce, TcAt
      <4> QED
        BY <4>2 DEF IndInv, ScheduleSound
    <3>3. {q \in ps : TcAt(q) = tc} = {p}
      BY <3>1, <3>2
    <3> QED
      BY <2>2, <3>3, SingletonCount
  <2> QED
    BY <2>1, <2>2
<1>2. ASSUME NEW tc \in Tcs
      PROVE  /\ executed'[tc] \in Nat
             /\ executed'[tc] = IF enabled /\ \E p \in ps : TcAt(p) = tc
                                THEN executed[tc] + 1 ELSE executed[tc]
  <2>1. executed[tc] \in Nat /\ enabled \in BOOLEAN
    BY DEF IndInv, TypeOK
  <2>2. executed'[tc] = IF enabled THEN executed[tc] + Cardinality({p \in ps : TcAt(p) = tc})
                        ELSE executed[tc]
    BY DEF CountExecuted
  <2> QED
    BY SMTT(60), <1>1, <2>1, <2>2
<1>3. executed' = [tc \in Tcs |-> executed'[tc]]
  BY DEF CountExecuted
<1> QED
  BY <1>2, <1>3

\* What a release does when the buffer is large enough.
LEMMA ReleaseFacts ==
    ASSUME IndicesFit, BufferLargeEnough, IndInv,
           NEW kept \in SUBSET TelecommandsToRelease, NEW with_buffer \in BOOLEAN,
           ReleaseTelecommands(kept, with_buffer)
    PROVE  /\ mem' = DeleteEntries(TelecommandsToRelease \ kept)
           /\ user_owned' = user_owned \cup {InfoAt(p) : p \in kept}
           /\ tc_map' = [t \in Times |-> IF t \in {x \in Times : x <= current_time}
                                         THEN << >> ELSE tc_map[t]]
           /\ executed' \in [Tcs -> Nat]
           /\ \A tc \in Tcs : executed'[tc] =
                 IF enabled /\ \E p \in TelecommandsToRelease : TcAt(p) = tc
                 THEN executed[tc] + 1 ELSE executed[tc]
           /\ UNCHANGED <<current_time, enabled, seen, rejected, due>>
<1>1. TelecommandsToRelease \in SUBSET Positions
  BY DEF TelecommandsToRelease
<1>2. Processed(kept, with_buffer) = TelecommandsToRelease
  BY <1>1, AllProcessed
<1>3. TelecommandsToRelease \cap kept = kept
  OBVIOUS
<1>4. /\ mem' = DeleteEntries(TelecommandsToRelease \ kept)
      /\ user_owned' = user_owned \cup {InfoAt(p) : p \in TelecommandsToRelease \cap kept}
      /\ tc_map' = RetainedMap(TelecommandsToRelease)
      /\ CountExecuted(TelecommandsToRelease)
      /\ UNCHANGED <<current_time, enabled, seen, rejected, due>>
  BY <1>2 DEF ReleaseTelecommands
<1>5. \A t \in Times : t > current_time <=> t \notin {x \in Times : x <= current_time}
  BY SMTT(60), SchedulerAssumption DEF IndInv, TypeOK
<1>6. tc_map' = [t \in Times |-> IF t \in {x \in Times : x <= current_time}
                                 THEN << >> ELSE tc_map[t]]
  <2>1. tc_map' = [t \in Times |-> IF t > current_time THEN tc_map[t] ELSE << >>]
    BY <1>4 DEF RetainedMap
  <2> QED
    BY <1>5, <2>1
<1> QED
  BY <1>1, <1>3, <1>4, <1>6, CountFacts

\* The release methods: due entries leave the map, and their blocks are deleted
\* or become the caller's.
LEMMA ReleaseInv ==
    ASSUME IndicesFit, BufferLargeEnough, IndInv,
           NEW kept \in SUBSET TelecommandsToRelease, NEW with_buffer \in BOOLEAN,
           ReleaseTelecommands(kept, with_buffer)
    PROVE  IndInv'
<1> PICK W : W = {x \in Times : x <= current_time}
  OBVIOUS
<1>1. /\ mem' = DeleteEntries(TelecommandsToRelease \ kept)
      /\ user_owned' = user_owned \cup {InfoAt(p) : p \in kept}
      /\ tc_map' = [t \in Times |-> IF t \in W THEN << >> ELSE tc_map[t]]
      /\ executed' \in [Tcs -> Nat]
      /\ \A tc \in Tcs : executed'[tc] =
            IF enabled /\ \E p \in TelecommandsToRelease : TcAt(p) = tc
            THEN executed[tc] + 1 ELSE executed[tc]
      /\ UNCHANGED <<current_time, enabled, seen, rejected, due>>
  BY ReleaseFacts
<1>2. TelecommandsToRelease = {p \in Positions : p[1] \in W}
  BY EntryFacts DEF TelecommandsToRelease, IndInv
<1>3. \A p \in Positions : TcAt(p) \in Tcs /\ TcAt(p) \in seen /\ executed[TcAt(p)] = 0
  BY DEF IndInv, ScheduleSound, StoredOnce, HistorySound, AddrCheck, ValidAddr,
     TypeOK, Memory, TcAt, BlockAt, Tcs
<1>4. ASSUME NEW p \in Positions, NEW q \in Positions, TcAt(p) = TcAt(q) PROVE p = q
  BY <1>4 DEF IndInv, ScheduleSound, StoredOnce, AddrCheck, ValidAddr, TcAt, BlockAt
<1>5. ASSUME NEW p \in Positions, p[1] \notin W
      PROVE  executed'[TcAt(p)] = executed[TcAt(p)]
  <2>1. ~ \E q \in TelecommandsToRelease : TcAt(q) = TcAt(p)
    BY <1>2, <1>4, <1>5
  <2> QED
    BY <1>1, <1>3, <2>1
<1>6. ASSUME NEW tc \in Tcs
      PROVE  executed'[tc] <= 1 /\ (executed'[tc] # 0 => tc \in seen)
  <2>1. CASE \E p \in TelecommandsToRelease : TcAt(p) = tc
    <3>1. tc \in seen /\ executed[tc] = 0
      BY <1>2, <1>3, <2>1
    <3> QED
      BY SMTT(60), <1>1, <3>1
  <2>2. CASE ~ \E p \in TelecommandsToRelease : TcAt(p) = tc
    BY <1>1, <2>2 DEF IndInv, AtMostOnce, HistorySound
  <2> QED
    BY <2>1, <2>2
<1>7. /\ W \in SUBSET Times /\ kept \in SUBSET Positions /\ \A p \in kept : p[1] \in W
      /\ mem' = DeleteEntries({p \in Positions : p[1] \in W} \ kept)
  BY <1>1, <1>2
<1>8. current_time' \in Times /\ enabled' \in BOOLEAN /\ UNCHANGED <<seen, rejected, due>>
  BY <1>1 DEF IndInv, TypeOK
<1> QED
  BY <1>1, <1>5, <1>6, <1>7, <1>8, ClearKeepsInv

-----------------------------------------------------------------------------
(* The inductive invariant and what follows from it                        *)

\* Every method of the scheduler keeps the invariant.
LEMMA NextIndInv ==
    ASSUME IndicesFit, BufferLargeEnough, IndInv, [Next]_vars
    PROVE  IndInv'
<1>1. CASE UNCHANGED vars
  BY <1>1, SameEntries DEF vars, IndInv, TypeOK
<1>2. ASSUME NEW t \in Times, UpdateTime(t) PROVE IndInv'
  BY <1>2, SameEntries DEF UpdateTime, pool_vars, history, IndInv, TypeOK
<1>3. CASE Enable
  BY <1>3, SameEntries DEF Enable, pool_vars, history, IndInv, TypeOK
<1>4. CASE Disable
  BY <1>4, SameEntries DEF Disable, pool_vars, history, IndInv, TypeOK
<1>5. ASSUME NEW tc \in Tcs, NEW t \in Times, InsertUnwrappedTc(tc, t) PROVE IndInv'
  BY <1>5, InsertUnwrappedTcInv
<1>6. ASSUME NEW tc \in Tcs, UserStoresTc(tc) PROVE IndInv'
  BY <1>6, UserStoresTcInv
<1>7. ASSUME NEW info \in user_owned, NEW t \in Times, InsertUnwrappedAndStoredTc(info, t)
      PROVE  IndInv'
  BY <1>7, InsertStoredInv
<1>8. ASSUME NEW info \in user_owned, UserDeletesTc(info) PROVE IndInv'
  BY <1>8, UserDeletesTcInv
<1>9. ASSUME NEW window \in TimeWindows, DeleteByTimeFilter(window) PROVE IndInv'
  BY <1>9, DeleteByTimeFilterInv
<1>10. ASSUME NEW r, DeleteByRequestId(r) PROVE IndInv'
  <2>1. PICK p \in RequestIdMatch(r) :
           /\ RemoveEntry(p)
           /\ user_owned' = user_owned \cup {InfoAt(p)}
           /\ UNCHANGED <<mem, current_time, enabled, history>>
    BY <1>10 DEF DeleteByRequestId
  <2>2. p \in Positions
    BY DEF RequestIdMatch
  <2> QED
    BY <2>1, <2>2, DeleteByRequestIdInv DEF history
<1>11. ASSUME NEW r, DeleteByRequestIdAndFromPool(r) PROVE IndInv'
  <2>1. PICK p \in RequestIdMatch(r) :
           /\ RemoveEntry(p)
           /\ mem' = PoolDelete(mem, InfoAt(p).addr)
           /\ UNCHANGED <<current_time, enabled, user_owned, history>>
    BY <1>11 DEF DeleteByRequestIdAndFromPool
  <2>2. p \in Positions
    BY DEF RequestIdMatch
  <2> QED
    BY <2>1, <2>2, DeleteByRequestIdInv DEF history
<1>12. CASE Reset
  BY <1>12, ResetInv
<1>13. ASSUME NEW kept \in SUBSET TelecommandsToRelease, NEW with_buffer \in BOOLEAN,
              ReleaseTelecommands(kept, with_buffer)
       PROVE  IndInv'
  BY <1>13, ReleaseInv
<1>14. CASE ReleaseTelecommandsNoDeletion
  BY <1>13, <1>14 DEF ReleaseTelecommandsNoDeletion
<1> QED
  BY <1>1, <1>2, <1>3, <1>4, <1>5, <1>6, <1>7, <1>8, <1>9, <1>10, <1>11, <1>12,
     <1>13, <1>14 DEF Next

\* The invariant holds for every pool whose indices fit their bytes, every
\* margin and every set of telecommands that fit the release buffer.
THEOREM InductiveInvariant ==
    ASSUME IndicesFit, BufferLargeEnough
    PROVE  Spec => []IndInv
<1>1. Init => IndInv
  BY InitIndInv
<1>2. IndInv /\ [Next]_vars => IndInv'
  BY NextIndInv
<1> QED
  BY <1>1, <1>2, PTL DEF Spec

\* For every pool, margin and set of telecommands: no entry of the schedule ever
\* refers to a block that was freed, reused or given away (ScheduleSound of the
\* run).
THEOREM ScheduleOwnsItsBlocks ==
    ASSUME IndicesFit, BufferLargeEnough
    PROVE  Spec => [](TypeOK /\ ScheduleSound)
<1>1. IndInv => TypeOK /\ ScheduleSound
  BY DEF IndInv
<1> QED
  BY <1>1, InductiveInvariant, PTL

\* Every block in use is in the schedule, with a caller, or holds a telecommand
\* that the time margin check refused: deletions, releases and resets leave no
\* other block behind (EveryBlockOwned of the run).
THEOREM NoBlockWithoutOwner ==
    ASSUME IndicesFit, BufferLargeEnough
    PROVE  Spec => []EveryBlockOwned
<1>1. IndInv => EveryBlockOwned
  BY DEF IndInv
<1> QED
  BY <1>1, InductiveInvariant, PTL

\* No telecommand is executed twice (AtMostOnce of the run).
THEOREM ExecutedAtMostOnce ==
    ASSUME IndicesFit, BufferLargeEnough
    PROVE  Spec => []AtMostOnce
<1>1. IndInv => AtMostOnce
  BY DEF IndInv
<1> QED
  BY <1>1, InductiveInvariant, PTL

\* Only a release executes telecommands, and only due ones while enabled.
LEMMA ExecutedWhenDue ==
    ASSUME IndicesFit, BufferLargeEnough, IndInv, [Next]_vars,
           NEW tc \in Tcs, executed'[tc] # executed[tc]
    PROVE  enabled /\ due[tc] \in Times /\ due[tc] <= current_time
<1>1. ASSUME NEW kept \in SUBSET TelecommandsToRelease, NEW with_buffer \in BOOLEAN,
             ReleaseTelecommands(kept, with_buffer)
      PROVE  enabled /\ due[tc] \in Times /\ due[tc] <= current_time
  <2>1. executed'[tc] = IF enabled /\ \E p \in TelecommandsToRelease : TcAt(p) = tc
                        THEN executed[tc] + 1 ELSE executed[tc]
    BY <1>1, ReleaseFacts
  <2>2. enabled /\ \E p \in TelecommandsToRelease : TcAt(p) = tc
    BY <2>1
  <2>3. PICK p \in Positions : TcAt(p) = tc /\ p[1] <= current_time
    BY <2>2 DEF TelecommandsToRelease
  <2>4. due[tc] = p[1] /\ p[1] \in Times
    BY <2>3, EntryFacts DEF IndInv, HistorySound
  <2> QED
    BY <2>2, <2>3, <2>4
<1>2. CASE ReleaseTelecommandsNoDeletion
  BY <1>1, <1>2 DEF ReleaseTelecommandsNoDeletion
<1>3. CASE \E kept \in SUBSET TelecommandsToRelease, with_buffer \in BOOLEAN :
              ReleaseTelecommands(kept, with_buffer)
  BY <1>1, <1>3
<1> QED
  BY <1>2, <1>3 DEF Next, vars, history, UpdateTime, Enable, Disable,
     InsertUnwrappedTc, UserStoresTc, InsertUnwrappedAndStoredTc, UserDeletesTc,
     DeleteByTimeFilter, DeleteByRequestId, DeleteByRequestIdAndFromPool, Reset

\* A telecommand is executed only while scheduling is enabled and not before its
\* release time (NotBeforeItsTime of the run).
THEOREM NeverExecutedEarly ==
    ASSUME IndicesFit, BufferLargeEnough
    PROVE  Spec => NotBeforeItsTime
<1>1. IndInv /\ [Next]_vars =>
         [\A tc \in Tcs : executed'[tc] # executed[tc] =>
             enabled /\ due[tc] \in Times /\ due[tc] <= current_time]_vars
  BY ExecutedWhenDue
<1> QED
  BY <1>1, InductiveInvariant, PTL DEF Spec, NotBeforeItsTime

-----------------------------------------------------------------------------
(* Entries and telecommands of the abstract schedule                       *)

\* Different entries stand for different telecommands.
LEMMA EntriesDistinct ==
    ASSUME IndInv
    PROVE  /\ \A p \in Positions : TcAt(p) \in Tcs /\ p[1] \in Times
           /\ \A p, q \in Positions : TcAt(p) = TcAt(q) => p = q
<1>1. \A p \in Positions : /\ BlockAt(p) \in Blocks
                           /\ TcAt(p) # STORE_FREE
                           /\ p[1] \in Times
  BY EntryFacts DEF IndInv, ScheduleSound, AddrCheck, ValidAddr, TcAt, BlockAt
<1>2. \A p \in Positions : TcAt(p) \in Tcs
  BY <1>1 DEF IndInv, TypeOK, Memory, TcAt, Tcs
<1>3. ASSUME NEW p \in Positions, NEW q \in Positions, TcAt(p) = TcAt(q) PROVE p = q
  <2>1. BlockAt(p) = BlockAt(q)
    BY <1>1, <1>3 DEF IndInv, StoredOnce, TcAt
  <2> QED
    BY <2>1 DEF IndInv, ScheduleSound
<1> QED
  BY <1>1, <1>2, <1>3

\* Steps that leave the entries and their blocks alone.
LEMMA SamePending ==
    ASSUME tc_map' = tc_map, \A p \in Positions : mem'[BlockAt(p)] = TcAt(p)
    PROVE  Pending' = Pending
<1>1. Positions' = Positions /\ \A p \in Positions : TcAt(p)' = TcAt(p)
  BY DEF Positions, TcAt, BlockAt, InfoAt
<1> QED
  BY <1>1 DEF Pending

\* Writing to a free block is such a step.
LEMMA WriteSamePending ==
    ASSUME IndicesFit, IndInv, NEW b \in Blocks, mem[b] = STORE_FREE, NEW tc,
           mem' = [mem EXCEPT ![b] = tc]
    PROVE  \A p \in Positions : mem'[BlockAt(p)] = TcAt(p)
<1>1. \A p \in Positions : BlockAt(p) \in Blocks /\ BlockAt(p) # b
  BY FreshBlock, EntryFacts, InfoFacts DEF IndInv, BlockAt
<1> QED
  BY <1>1 DEF IndInv, TypeOK, Memory, TcAt

\* A pushed entry makes its telecommand pending.
LEMMA PushPending ==
    ASSUME IndInv, TypeOK', NEW t \in Times, NEW info \in TcInfo, PushEntry(t, info),
           \A p \in Positions : mem'[BlockAt(p)] = TcAt(p)
    PROVE  Pending' = Pending \cup {<<mem'[Decode(info.addr)], t>>}
<1> PICK n : n = <<t, Len(tc_map[t]) + 1>>
  OBVIOUS
<1>1. /\ Positions' = Positions \cup {n}
      /\ \A p \in Positions : InfoAt(p)' = InfoAt(p)
      /\ InfoAt(n)' = info
  BY PushFacts DEF IndInv
<1>2. \A p \in Positions : TcAt(p)' = TcAt(p)
  BY <1>1 DEF TcAt, BlockAt
<1>3. TcAt(n)' = mem'[Decode(info.addr)] /\ n[1] = t
  BY <1>1 DEF TcAt, BlockAt
<1>4. Pending' = {<<TcAt(p)', p[1]>> : p \in Positions \cup {n}}
  BY <1>1 DEF Pending
<1> QED
  BY <1>2, <1>3, <1>4 DEF Pending

\* Emptying buckets takes exactly the telecommands of their times.
LEMMA ClearPending ==
    ASSUME IndicesFit, IndInv, NEW W \in SUBSET Times, NEW kept \in SUBSET Positions,
           tc_map' = [t \in Times |-> IF t \in W THEN << >> ELSE tc_map[t]],
           mem' = DeleteEntries({p \in Positions : p[1] \in W} \ kept)
    PROVE  Pending' = {e \in Pending : e[2] \notin W}
<1> PICK gone : gone = {p \in Positions : p[1] \in W} \ kept
  OBVIOUS
<1>1. /\ Positions' = {p \in Positions : p[1] \notin W}
      /\ \A p \in Positions' : InfoAt(p)' = InfoAt(p)
  BY ClearFacts DEF IndInv
<1>2. \A q \in Positions \ gone : mem'[BlockAt(q)] = TcAt(q)
  BY DeleteEntriesFacts
<1>3. \A p \in Positions' : TcAt(p)' = TcAt(p)
  BY <1>1, <1>2 DEF TcAt, BlockAt
<1>4. Pending' = {<<TcAt(p), p[1]>> : p \in Positions'}
  BY <1>3 DEF Pending
<1> QED
  BY SMTT(60), <1>1, <1>4 DEF Pending

\* Removing one entry takes exactly its telecommand.
LEMMA RemovePending ==
    ASSUME IndicesFit, IndInv, NEW p \in Positions, RemoveEntry(p),
           mem' \in {mem, PoolDelete(mem, InfoAt(p).addr)}
    PROVE  Pending' = Pending \ {<<TcAt(p), p[1]>>}
<1>1. PICK old \in [Positions' -> Positions] :
            /\ \A q \in Positions' : InfoAt(q)' = InfoAt(old[q]) /\ old[q][1] = q[1]
            /\ \A q, r \in Positions' : old[q] = old[r] => q = r
            /\ \A q \in Positions : q # p <=> \E r \in Positions' : old[r] = q
  BY RemoveFacts DEF IndInv
<1>2. \A q \in Positions : q # p => BlockAt(q) \in Blocks /\ BlockAt(q) # BlockAt(p)
  BY EntryFacts, InfoFacts DEF IndInv, BlockAt, ScheduleSound
<1>3. \A q \in Positions : q # p => mem'[BlockAt(q)] = TcAt(q)
  BY <1>2 DEF PoolDelete, TcAt, BlockAt, IndInv, TypeOK, Memory
<1>4. ASSUME NEW q \in Positions'
      PROVE  TcAt(q)' = TcAt(old[q]) /\ q[1] = old[q][1] /\ old[q] \in Positions \ {p}
  BY <1>1, <1>3 DEF TcAt, BlockAt
<1>5. Pending' = {<<TcAt(old[q]), old[q][1]>> : q \in Positions'}
  BY SMTT(60), <1>4 DEF Pending
<1>6. Pending' = {<<TcAt(q), q[1]>> : q \in Positions \ {p}}
  BY SMTT(60), <1>1, <1>4, <1>5
<1> QED
  BY SMTT(60), <1>6, EntriesDistinct DEF Pending

-----------------------------------------------------------------------------
(* Each action is a step of the abstract schedule                          *)

\* A step of the scheduler that the abstract schedule does not see.
Unseen == UNCHANGED <<Pending, current_time, enabled, executed>>

\* An insertion is accepted, or changes nothing that users of the schedule see.
LEMMA InsertRefines ==
    ASSUME IndicesFit, IndInv, IndInv', NEW tc \in Tcs, NEW t \in Times,
           InsertUnwrappedTc(tc, t)
    PROVE  Unseen \/ Schedule!Accept(tc, t)
<1>1. /\ tc \notin seen
      /\ UNCHANGED <<current_time, enabled, user_owned, executed>>
  BY DEF InsertUnwrappedTc
<1>2. CASE UNCHANGED <<mem, tc_map>>
  BY <1>1, <1>2, SamePending DEF Unseen, TcAt
<1>3. ASSUME NEW b \in Reserve(mem, LenOf[tc]), mem' = PoolWrite(mem, b, tc),
             \/ UNCHANGED tc_map
             \/ /\ ~InTimeMargin(t)
                /\ PushEntry(t, [addr |-> Encode(b), request_id |-> ReqIdOf[tc]])
      PROVE  Unseen \/ Schedule!Accept(tc, t)
  <2>1. b \in Blocks /\ mem[b] = STORE_FREE /\ mem' = [mem EXCEPT ![b] = tc]
    BY <1>3, ReserveFree DEF PoolWrite
  <2>2. \A p \in Positions : mem'[BlockAt(p)] = TcAt(p)
    BY <2>1, WriteSamePending
  <2>3. CASE UNCHANGED tc_map
    BY <1>1, <2>2, <2>3, SamePending DEF Unseen
  <2>4. CASE /\ ~InTimeMargin(t)
             /\ PushEntry(t, [addr |-> Encode(b), request_id |-> ReqIdOf[tc]])
    <3> PICK info : info = [addr |-> Encode(b), request_id |-> ReqIdOf[tc]]
      OBVIOUS
    <3>1. info \in TcInfo /\ Decode(info.addr) = b
      BY <2>1, DecodeEncode DEF TcInfo, Addresses
    <3>2. mem'[b] = tc
      BY <2>1 DEF IndInv, TypeOK, Memory
    <3>3. TypeOK' /\ PushEntry(t, info)
      BY <2>4 DEF IndInv
    <3>4. Pending' = Pending \cup {<<tc, t>>}
      BY <2>2, <3>1, <3>2, <3>3, PushPending
    <3>5. executed[tc] = 0
      BY <1>1 DEF IndInv, HistorySound
    <3>6. \A e \in Pending : e[1] # tc
      <4>1. \A p \in Positions : TcAt(p) \in seen
        BY EntryFacts, InfoFacts
        DEF IndInv, ScheduleSound, StoredOnce, AddrCheck, TcAt, BlockAt
      <4> QED
        BY SMTT(60), <1>1, <4>1 DEF Pending
    <3>7. t >= current_time + TimeMargin
      BY SMTT(60), <2>4, SchedulerAssumption DEF InTimeMargin, IndInv, TypeOK
    <3> QED
      BY <1>1, <3>4, <3>5, <3>6, <3>7 DEF Schedule!Accept
  <2> QED
    BY <1>3, <2>3, <2>4
<1> QED
  BY <1>2, <1>3 DEF InsertUnwrappedTc

\* A caller's stored telecommand is accepted.
LEMMA InsertStoredRefines ==
    ASSUME IndicesFit, IndInv, IndInv', NEW info \in user_owned, NEW t \in Times,
           InsertUnwrappedAndStoredTc(info, t)
    PROVE  \E tc \in Tcs : Schedule!Accept(tc, t)
<1> PICK tc, b : b = Decode(info.addr) /\ tc = mem[b]
  OBVIOUS
<1>1. info \in TcInfo /\ b \in Blocks
  BY InfoFacts DEF IndInv, TypeOK
<1>2. tc \in Tcs /\ tc # STORE_FREE
  BY <1>1 DEF IndInv, UserSound, AddrCheck, TypeOK, Memory, Tcs
<1>3. /\ PushEntry(t, info) /\ executed[tc] = 0 /\ ~InTimeMargin(t)
      /\ UNCHANGED <<mem, current_time, enabled, executed>>
  BY DEF InsertUnwrappedAndStoredTc, PoolRead
<1>4. \A p \in Positions : mem'[BlockAt(p)] = TcAt(p)
  BY <1>3 DEF TcAt
<1>5. mem'[Decode(info.addr)] = tc /\ TypeOK'
  BY <1>3 DEF IndInv
<1>6. Pending' = Pending \cup {<<tc, t>>}
  BY <1>1, <1>3, <1>4, <1>5, PushPending
<1>7. \A e \in Pending : e[1] # tc
  <2>1. \A p \in Positions : BlockAt(p) \in Blocks /\ BlockAt(p) # b
    BY EntryFacts, InfoFacts DEF IndInv, ScheduleSound, UserBlocks, BlockAt
  <2>2. \A p \in Positions : TcAt(p) # tc
    BY <1>1, <1>2, <2>1 DEF IndInv, StoredOnce, TcAt, Tcs
  <2> QED
    BY SMTT(60), <2>2 DEF Pending
<1>8. t >= current_time + TimeMargin
  <2>1. ~(t < current_time + TimeMargin)
    BY <1>3 DEF InTimeMargin
  <2>2. t \in Nat /\ current_time \in Nat /\ TimeMargin \in Nat
    BY SchedulerAssumption DEF IndInv, TypeOK
  <2> QED
    BY SMTT(60), <2>1, <2>2
<1> QED
  BY <1>2, <1>3, <1>6, <1>7, <1>8 DEF Schedule!Accept

\* What callers do with their own blocks is not seen by the schedule.
LEMMA CallersUnseen ==
    ASSUME IndicesFit, IndInv,
           \/ \E tc \in Tcs : UserStoresTc(tc)
           \/ \E info \in user_owned : UserDeletesTc(info)
    PROVE  Unseen
<1>1. ASSUME NEW tc \in Tcs, UserStoresTc(tc) PROVE Unseen
  <2>1. PICK b \in Reserve(mem, LenOf[tc]) : mem' = PoolWrite(mem, b, tc)
    BY <1>1 DEF UserStoresTc
  <2>2. b \in Blocks /\ mem[b] = STORE_FREE /\ mem' = [mem EXCEPT ![b] = tc]
    BY <2>1, ReserveFree DEF PoolWrite
  <2>3. \A p \in Positions : mem'[BlockAt(p)] = TcAt(p)
    BY <2>2, WriteSamePending
  <2> QED
    BY <1>1, <2>3, SamePending DEF UserStoresTc, Unseen
<1>2. ASSUME NEW info \in user_owned, UserDeletesTc(info) PROVE Unseen
  <2>1. \A p \in Positions : BlockAt(p) \in Blocks /\ BlockAt(p) # Decode(info.addr)
    BY EntryFacts, InfoFacts DEF IndInv, ScheduleSound, UserBlocks, BlockAt
  <2>2. \A p \in Positions : mem'[BlockAt(p)] = TcAt(p)
    BY <1>2, <2>1 DEF UserDeletesTc, PoolDelete, TcAt, IndInv, TypeOK, Memory
  <2> QED
    BY <1>2, <2>2, SamePending DEF UserDeletesTc, Unseen, history
<1> QED
  BY <1>1, <1>2

\* A release takes what is due.
LEMMA ReleaseRefines ==
    ASSUME IndicesFit, BufferLargeEnough, IndInv,
           NEW kept \in SUBSET TelecommandsToRelease, NEW with_buffer \in BOOLEAN,
           ReleaseTelecommands(kept, with_buffer)
    PROVE  Schedule!Release
<1> PICK W : W = {x \in Times : x <= current_time}
  OBVIOUS
<1>1. /\ mem' = DeleteEntries(TelecommandsToRelease \ kept)
      /\ tc_map' = [t \in Times |-> IF t \in W THEN << >> ELSE tc_map[t]]
      /\ executed' \in [Tcs -> Nat]
      /\ \A tc \in Tcs : executed'[tc] =
            IF enabled /\ \E p \in TelecommandsToRelease : TcAt(p) = tc
            THEN executed[tc] + 1 ELSE executed[tc]
      /\ UNCHANGED <<current_time, enabled>>
  BY ReleaseFacts
<1>2. TelecommandsToRelease = {p \in Positions : p[1] \in W}
  BY EntryFacts DEF TelecommandsToRelease, IndInv
<1>3. Pending' = {e \in Pending : e[2] \notin W}
  <2>1. /\ W \in SUBSET Times /\ kept \in SUBSET Positions
        /\ mem' = DeleteEntries({p \in Positions : p[1] \in W} \ kept)
    BY <1>1, <1>2
  <2> QED
    BY <1>1, <2>1, ClearPending
<1>4. \A e \in Pending : e[2] \in W <=> e[2] <= current_time
  BY SMTT(60), EntriesDistinct DEF Pending
<1>5. Pending' = Pending \ Schedule!Due
  BY <1>3, <1>4 DEF Schedule!Due
<1>6. ASSUME NEW tc \in Tcs
      PROVE  (\E p \in TelecommandsToRelease : TcAt(p) = tc) <=> \E e \in Schedule!Due : e[1] = tc
  <2>1. Schedule!Due = {<<TcAt(p), p[1]>> : p \in TelecommandsToRelease}
    <3>1. \A e : e \in Schedule!Due <=>
             \E p \in Positions : e = <<TcAt(p), p[1]>> /\ e[2] <= current_time
      BY DEF Schedule!Due, Pending
    <3>2. \A e : e \in Schedule!Due <=>
             \E p \in Positions : e = <<TcAt(p), p[1]>> /\ p[1] <= current_time
      BY SMTT(60), <3>1
    <3> QED
      BY <3>2 DEF TelecommandsToRelease
  <2>2. ASSUME NEW p \in TelecommandsToRelease, TcAt(p) = tc
        PROVE  \E e \in Schedule!Due : e[1] = tc
    <3>1. <<TcAt(p), p[1]>> \in Schedule!Due /\ <<TcAt(p), p[1]>>[1] = tc
      BY <2>1, <2>2
    <3> QED
      BY <3>1
  <2>3. ASSUME NEW e \in Schedule!Due, e[1] = tc
        PROVE  \E p \in TelecommandsToRelease : TcAt(p) = tc
    <3>1. PICK p \in TelecommandsToRelease : e = <<TcAt(p), p[1]>>
      BY <2>1
    <3> QED
      BY <2>3, <3>1
  <2> QED
    BY <2>2, <2>3
<1>7. executed' = [tc \in Tcs |-> IF enabled /\ \E e \in Schedule!Due : e[1] = tc
                                  THEN executed[tc] + 1 ELSE executed[tc]]
  BY <1>1, <1>6
<1> QED
  BY <1>1, <1>5, <1>7 DEF Schedule!Release, Tcs

\* Every step of the scheduler is one of the abstract schedule, or unseen.
LEMMA StepRefines ==
    ASSUME IndicesFit, BufferLargeEnough, IndInv, IndInv', [Next]_vars
    PROVE  Schedule!SchedNext \/ Unseen
<1>1. CASE UNCHANGED vars
  BY <1>1, SamePending DEF vars, Unseen, TcAt
<1>2. ASSUME \/ \E t \in Times : UpdateTime(t)
             \/ Enable
             \/ Disable
      PROVE  Schedule!SchedNext
  <2>1. /\ UNCHANGED <<mem, tc_map, executed>>
        /\ \/ current_time' \in Times /\ UNCHANGED enabled
           \/ enabled' \in BOOLEAN /\ UNCHANGED current_time
    BY <1>2 DEF UpdateTime, Enable, Disable, pool_vars, history
  <2>2. Pending' = Pending
    BY <2>1, SamePending DEF TcAt
  <2> QED
    BY <2>1, <2>2 DEF Schedule!SchedNext, Schedule!SetTime, Schedule!Switch
<1>3. ASSUME NEW tc \in Tcs, NEW t \in Times, InsertUnwrappedTc(tc, t)
      PROVE  Schedule!SchedNext \/ Unseen
  BY <1>3, InsertRefines DEF Schedule!SchedNext, Tcs
<1>4. ASSUME NEW info \in user_owned, NEW t \in Times, InsertUnwrappedAndStoredTc(info, t)
      PROVE  Schedule!SchedNext
  BY <1>4, InsertStoredRefines DEF Schedule!SchedNext, Tcs
<1>5. ASSUME \/ \E tc \in Tcs : UserStoresTc(tc)
             \/ \E info \in user_owned : UserDeletesTc(info)
      PROVE  Unseen
  BY <1>5, CallersUnseen
<1>6. ASSUME NEW window \in TimeWindows, DeleteByTimeFilter(window)
      PROVE  Schedule!SchedNext
  <2>1. window \in SUBSET Times /\ {} \in SUBSET Positions
    BY SMTT(60) DEF TimeWindows
  <2>2. /\ mem' = DeleteEntries({p \in Positions : p[1] \in window} \ {})
        /\ tc_map' = [t \in Times |-> IF t \in window THEN << >> ELSE tc_map[t]]
        /\ UNCHANGED <<current_time, enabled, executed>>
    BY <1>6 DEF DeleteByTimeFilter, history
  <2>3. Pending' = {e \in Pending : e[2] \notin window}
    BY <2>1, <2>2, ClearPending
  <2>4. PICK removed \in SUBSET Pending : removed = {e \in Pending : e[2] \in window}
    OBVIOUS
  <2> QED
    BY <2>2, <2>3, <2>4 DEF Schedule!SchedNext, Schedule!Withdraw
<1>7. ASSUME NEW r, DeleteByRequestId(r) \/ DeleteByRequestIdAndFromPool(r)
      PROVE  Schedule!SchedNext
  <2>1. PICK p \in RequestIdMatch(r) :
           /\ RemoveEntry(p)
           /\ mem' \in {mem, PoolDelete(mem, InfoAt(p).addr)}
           /\ UNCHANGED <<current_time, enabled, executed>>
    BY <1>7 DEF DeleteByRequestId, DeleteByRequestIdAndFromPool, history
  <2>2. p \in Positions
    BY DEF RequestIdMatch
  <2>3. Pending' = Pending \ {<<TcAt(p), p[1]>>}
    BY <2>1, <2>2, RemovePending
  <2>4. PICK removed \in SUBSET Pending : removed = {<<TcAt(p), p[1]>>}
    BY <2>2 DEF Pending
  <2> QED
    BY <2>1, <2>3, <2>4 DEF Schedule!SchedNext, Schedule!Withdraw
<1>8. CASE Reset
  <2>1. Positions' = {}
    BY SMTT(60), <1>8 DEF Reset, EmptyMap, Positions
  <2>2. Pending' = {}
    BY <2>1 DEF Pending
  <2> QED
    BY <1>8, <2>2 DEF Reset, history, Schedule!SchedNext, Schedule!Clear
<1>9. ASSUME NEW kept \in SUBSET TelecommandsToRelease, NEW with_buffer \in BOOLEAN,
             ReleaseTelecommands(kept, with_buffer)
      PROVE  Schedule!SchedNext
  BY <1>9, ReleaseRefines DEF Schedule!SchedNext
<1>10. CASE ReleaseTelecommandsNoDeletion
  BY <1>9, <1>10 DEF ReleaseTelecommandsNoDeletion
<1> QED
  BY <1>1, <1>2, <1>3, <1>4, <1>5, <1>6, <1>7, <1>8, <1>9, <1>10 DEF Next

\* For every pool, margin and set of telecommands, the scheduler and its pool
\* implement the abstract schedule (ImplementsSchedule of the run).
THEOREM SchedulerImplementsSchedule ==
    ASSUME IndicesFit, BufferLargeEnough
    PROVE  Spec => ImplementsSchedule
<1>1. Init => Schedule!SchedInit
  <2>1. Init => Positions = {}
    BY SMTT(60) DEF Init, EmptyMap, Positions
  <2> QED
    BY <2>1 DEF Init, Schedule!SchedInit, Pending, Tcs
<1>2. IndInv /\ IndInv' /\ [Next]_vars => [Schedule!SchedNext]_(Schedule!svars)
  BY StepRefines DEF Unseen, Schedule!svars
<1> QED
  BY <1>1, <1>2, InductiveInvariant, PTL DEF Spec, ImplementsSchedule, Schedule!SchedSpec

=============================================================================
