----------------------------- MODULE PoolProofs -----------------------------
(***************************************************************************)
(* What the allocator guarantees for every word width, pool size, program  *)
(* and sequence of requests, those included for which the sum in its       *)
(* assertion wraps.                                                        *)
(***************************************************************************)
EXTENDS Pool, TLAPS

\* Rounding up moves an address by less than the alignment.
LEMMA AlignUpBounds ==
  ASSUME NEW address \in Nat, NEW align \in Nat \ {0},
         address + align <= AddressSpace
  PROVE  /\ AlignUp(address, align) \in Nat
         /\ address <= AlignUp(address, align)
         /\ AlignUp(address, align) < address + align
<1> DEFINE bumped == address + align - 1
<1>1. Word(bumped) = bumped
  BY PoolAssumption DEF Word
<1>2. bumped \in Nat /\ bumped % align \in 0..(align - 1)
  OBVIOUS
<1> QED
  BY <1>1, <1>2 DEF AlignUp

\* What is left when the remainder is taken away is a multiple.
LEMMA RemainderTaken ==
  ASSUME NEW x \in Nat, NEW align \in Nat \ {0}
  PROVE  (x - (x % align)) % align = 0
<1> DEFINE q == x \div align
<1>1. q \in Int /\ x - (x % align) = align * q
  OBVIOUS
<1>2. ASSUME NEW k \in Int PROVE (align * k) % align = 0
  OBVIOUS
<1> QED
  BY <1>1, <1>2

\* Rounding up gives a multiple of the alignment.
LEMMA AlignUpAligned ==
  ASSUME NEW address \in Nat, NEW align \in Nat \ {0}
  PROVE  AlignUp(address, align) % align = 0
<1>1. Word(address + align - 1) \in Nat
  BY PoolAssumption DEF Word
<1> QED
  BY <1>1, RemainderTaken DEF AlignUp

\* Of two multiples the one that is not smaller than the other by a whole
\* alignment is not smaller.
LEMMA MultiplesApart ==
  ASSUME NEW align \in Nat \ {0}, NEW j \in Int, NEW k \in Int,
         align * j < align * k + align
  PROVE  align * j <= align * k
<1>1. align * k + align = align * (k + 1)
  OBVIOUS
<1>2. j < k + 1
  <2>1. SUFFICES ASSUME k + 1 <= j PROVE FALSE
    OBVIOUS
  <2>2. align * (k + 1) <= align * j
    BY <2>1
  <2> QED
    BY <1>1, <2>2
<1>3. j <= k
  BY <1>2
<1> QED
  BY <1>3

\* No multiple of the alignment lies between an address and what it is rounded to.
LEMMA AlignUpLeast ==
  ASSUME NEW address \in Nat, NEW align \in Nat \ {0}, address + align <= AddressSpace,
         NEW m \in Nat, address <= m, m % align = 0
  PROVE  AlignUp(address, align) <= m
<1> DEFINE bumped == address + align - 1
<1> DEFINE j == bumped \div align
<1> DEFINE k == m \div align
<1>1. Word(bumped) = bumped
  BY PoolAssumption DEF Word
<1>2. j \in Int /\ k \in Int
  OBVIOUS
<1>3. bumped - (bumped % align) = align * j /\ m = align * k
  OBVIOUS
<1>4. AlignUp(address, align) = align * j
  BY <1>1, <1>3 DEF AlignUp
<1>5. align * j <= bumped
  <2>1. bumped % align \in Nat
    OBVIOUS
  <2> QED
    BY <1>3, <2>1
<1>6. align * j < align * k + align
  BY <1>3, <1>5
<1> HIDE DEF j, k
<1>7. align * j <= align * k
  BY <1>2, <1>6, MultiplesApart
<1> QED
  BY <1>3, <1>4, <1>7

(***************************************************************************)
(* The inductive invariant: every block lies between the start of the pool *)
(* and the bump pointer, so the next one cannot touch it.                  *)
(***************************************************************************)
BlocksBelowCurrent ==
  \A b \in blocks : pool_base <= b.ptr /\ b.ptr + b.size <= pool_current

Fresh ==
  phase = "start" => pool_base = NULL /\ pool_current = NULL /\ blocks = {}

PoolInv ==
  /\ TypeOK
  /\ BlocksBelowCurrent
  /\ BlocksDisjoint
  /\ BlocksAligned
  /\ AbortOnlyWhenFull
  /\ FaultOnlyWhenBlind
  /\ Fresh

LEMMA PoolInvInit == Init => PoolInv
BY PoolAssumption DEF Init, PoolInv, TypeOK, BlocksBelowCurrent, BlocksDisjoint,
   BlocksAligned, AbortOnlyWhenFull, FaultOnlyWhenBlind, Fresh, NULL, NoRequest, Blocks, Phases

\* A call of pool_init happens before any allocation.
LEMMA PoolInitInv ==
  ASSUME PoolInv, phase = "start", NEW address \in {NULL, Base}, PoolInit(address),
         phase' \in {"run", "exit"}, UNCHANGED <<program, blocks, request>>
  PROVE  PoolInv'
BY PoolAssumption DEF PoolInv, TypeOK, BlocksBelowCurrent, BlocksDisjoint, BlocksAligned,
   AbortOnlyWhenFull, FaultOnlyWhenBlind, Fresh, NULL, Blocks, Phases, PoolInit

\* An allocation takes its block from above the bump pointer, or ends the program.
LEMMA PoolAllocInv ==
  ASSUME PoolInv, NEW r \in Requests, PoolAlloc(r)
  PROVE  PoolInv'
<1> DEFINE address == AlignUp(pool_current, r.align)
<1> DEFINE block == [ptr |-> address, size |-> r.size, align |-> r.align]
<1> DEFINE limit == pool_base + pool_size
<1>1. /\ r \in [size : Nat, align : Nat \ {0}]
      /\ r.size \in Nat /\ r.align \in Nat \ {0}
      /\ Base + PoolSize + r.align <= AddressSpace
  BY PoolAssumption
<1>2. /\ pool_base \in Nat /\ pool_size \in Nat /\ pool_current \in Nat
      /\ pool_base <= pool_current /\ pool_current <= limit
      /\ limit <= Base + PoolSize /\ limit < AddressSpace
      /\ AddressSpace \in Nat
  BY PoolAssumption DEF PoolInv, TypeOK, NULL
<1>3. address \in Nat /\ pool_current <= address /\ address < AddressSpace
  <2>1. pool_current + r.align <= AddressSpace
    BY <1>1, <1>2, PoolAssumption
  <2>2. address \in Nat /\ pool_current <= address /\ address < pool_current + r.align
    BY <2>1, <1>1, <1>2, AlignUpBounds
  <2> QED
    BY <2>1, <2>2, <1>1, <1>2
<1>4. address % r.align = 0
  BY <1>1, <1>2, AlignUpAligned
<1>5. ASSUME NEW m \in Nat, pool_current <= m, m % r.align = 0
      PROVE  address <= m
  <2>1. pool_current + r.align <= AddressSpace
    BY <1>1, <1>2, PoolAssumption
  <2> QED
    BY <2>1, <1>1, <1>2, <1>5, AlignUpLeast
<1>6. /\ phase = "run"
      /\ request' = r
      /\ phase' \in IF Fits(address, r.size) THEN Cleared(address, r.size) ELSE {"abort"}
      /\ phase' = "run" => /\ blocks' = blocks \cup {block}
                           /\ pool_current' = Word(address + r.size)
      /\ phase' # "run" => UNCHANGED <<blocks, pool_current>>
      /\ UNCHANGED <<program, pool_base, pool_size>>
  BY DEF PoolAlloc, address
<1>7. phase' \in {"run", "fault", "abort"}
  BY <1>6 DEF Cleared
<1>8. phase' # "fault" => FaultOnlyWhenBlind'
  BY DEF FaultOnlyWhenBlind
<1>9. phase' = "fault" => FaultOnlyWhenBlind'
  <2>1. SUFFICES ASSUME phase' = "fault", pool_base # NULL, ~Wraps(address, r.size) PROVE FALSE
    BY <1>6 DEF FaultOnlyWhenBlind, Wraps
  <2>2. Fits(address, r.size) /\ ~InPool(address, r.size)
    BY <1>6, <2>1 DEF Cleared
  <2>3. address + r.size <= limit
    BY <2>1, <2>2, <1>1, <1>2, <1>3, PoolAssumption DEF Fits, Word, Wraps
  <2> QED
    BY <2>1, <2>2, <2>3, <1>2, <1>3 DEF InPool
<1>10. CASE phase' = "run"
  <2>1. Fits(address, r.size)
    BY <1>6, <1>10
  <2>2. r.size = 0 \/ ~Wraps(address, r.size)
    BY <1>6, <1>10, <2>1, <1>1, <1>2, <1>3 DEF Cleared, InPool, Wraps
  <2>3. address + r.size < AddressSpace
    BY <2>2, <2>1, <1>1, <1>2, <1>3 DEF Wraps
  <2>4. address + r.size <= limit
    BY <2>1, <2>3, <1>1, <1>2, <1>3 DEF Fits, Word
  <2>5. pool_current' = address + r.size /\ blocks' = blocks \cup {block}
    BY <2>3, <1>1, <1>2, <1>3, <1>6, <1>10 DEF Word
  <2> QED
    <3> HIDE DEF address
    <3>1. TypeOK'
      BY <2>4, <2>5, <1>1, <1>2, <1>3, <1>6, <1>10 DEF PoolInv, TypeOK, Blocks, Phases
    <3>2. BlocksBelowCurrent'
      BY <2>5, <1>1, <1>2, <1>3, <1>6 DEF PoolInv, TypeOK, Blocks, BlocksBelowCurrent
    <3>3. BlocksDisjoint'
      BY <2>5, <1>1, <1>2, <1>3 DEF PoolInv, TypeOK, Blocks, BlocksBelowCurrent, BlocksDisjoint
    <3>4. BlocksAligned'
      BY <2>5, <1>4 DEF PoolInv, BlocksAligned
    <3>5. AbortOnlyWhenFull' /\ Fresh'
      BY <1>10 DEF AbortOnlyWhenFull, Fresh
    <3> QED
      BY <3>1, <3>2, <3>3, <3>4, <3>5, <1>8, <1>10 DEF PoolInv
<1>11. CASE phase' # "run"
  <2> HIDE DEF address
  <2>1. TypeOK'
    BY <1>1, <1>6, <1>7, <1>11 DEF PoolInv, TypeOK, Blocks, Phases
  <2>2. BlocksBelowCurrent' /\ BlocksDisjoint' /\ BlocksAligned' /\ Fresh'
    BY <1>6, <1>7, <1>11 DEF PoolInv, BlocksBelowCurrent, BlocksDisjoint, BlocksAligned, Fresh
  <2>3. AbortOnlyWhenFull'
    <3>1. ASSUME phase' = "abort", NEW m \in pool_current..(pool_base + pool_size - r.size)
          PROVE  m % r.align # 0
      <4>1. ~Fits(address, r.size)
        BY <3>1, <1>6 DEF Cleared
      <4>2. m \in Nat /\ pool_current <= m /\ m + r.size <= limit
        BY <1>1, <1>2
      <4>3. address <= m => Fits(address, r.size)
        BY <4>2, <1>1, <1>2, <1>3 DEF Fits, Word
      <4> QED
        BY <4>1, <4>2, <4>3, <1>5
    <3>2. UNCHANGED <<pool_current, pool_base, pool_size>> /\ request' = r
      BY <1>6, <1>11
    <3> QED
      BY <3>1, <3>2, Zenon DEF AbortOnlyWhenFull
  <2> QED
    BY <2>1, <2>2, <2>3, <1>8, <1>9 DEF PoolInv
<1> QED
  BY <1>10, <1>11

LEMMA PoolInvNext ==
  ASSUME PoolInv, [Next]_vars
  PROVE  PoolInv'
<1>1. CASE StartZhaba
  BY <1>1 DEF StartZhaba, PoolInv, TypeOK, BlocksBelowCurrent, BlocksDisjoint, BlocksAligned,
     AbortOnlyWhenFull, FaultOnlyWhenBlind, Fresh, Phases
<1>2. CASE StartExpand
  BY <1>2, PoolInitInv DEF StartExpand
<1>3. CASE StartTest
  BY <1>3, PoolInitInv DEF StartTest
<1>4. ASSUME NEW r \in Requests, PoolAlloc(r)
      PROVE  PoolInv'
  BY <1>4, PoolAllocInv
<1>5. CASE UNCHANGED vars
  BY <1>5 DEF vars, PoolInv, TypeOK, BlocksBelowCurrent, BlocksDisjoint, BlocksAligned,
     AbortOnlyWhenFull, FaultOnlyWhenBlind, Fresh
<1> QED
  BY <1>1, <1>2, <1>3, <1>4, <1>5 DEF Next

\* The invariant holds of every run of every program.
THEOREM PoolCorrect == Spec => []PoolInv
<1>1. PoolInv /\ [Next]_vars => PoolInv'
  BY PoolInvNext
<1> QED
  BY PoolInvInit, <1>1, PTL DEF Spec

\* pool_init and pool_alloc_align keep the statics in their types and the bump
\* pointer inside the pool.
THEOREM PoolTypeCorrect == Spec => []TypeOK
<1>1. PoolInv => TypeOK
  BY DEF PoolInv
<1> QED
  BY PoolCorrect, <1>1, PTL

\* No two allocations of one process share a byte.
THEOREM PoolBlocksDisjoint == Spec => []BlocksDisjoint
<1>1. PoolInv => BlocksDisjoint
  BY DEF PoolInv
<1> QED
  BY PoolCorrect, <1>1, PTL

\* Where there is a pool, allocations stay inside it.
THEOREM PoolContainment == Spec => []BlocksInPool
<1>1. PoolInv => BlocksInPool
  BY PoolAssumption DEF PoolInv, TypeOK, Blocks, BlocksBelowCurrent, BlocksInPool,
     InPool, NULL
<1> QED
  BY PoolCorrect, <1>1, PTL

\* A block starts at a multiple of its alignment.
THEOREM PoolBlocksAligned == Spec => []BlocksAligned
<1>1. PoolInv => BlocksAligned
  BY DEF PoolInv
<1> QED
  BY PoolCorrect, <1>1, PTL

\* The assertion of pool_alloc_align ends no program whose pool has an aligned
\* place for the request.
THEOREM PoolAbortsWhenFull == Spec => []AbortOnlyWhenFull
<1>1. PoolInv => AbortOnlyWhenFull
  BY DEF PoolInv
<1> QED
  BY PoolCorrect, <1>1, PTL

\* The memset faults without a pool, or for a size that wraps the sum of the
\* assertion, and never else.
THEOREM PoolFaults == Spec => []FaultOnlyWhenBlind
<1>1. PoolInv => FaultOnlyWhenBlind
  BY DEF PoolInv
<1> QED
  BY PoolCorrect, <1>1, PTL
=============================================================================
