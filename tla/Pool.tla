-------------------------------- MODULE Pool --------------------------------
(***************************************************************************)
(* The bump allocator of lib/common.c and the way each of the repository's *)
(* three programs starts it: "test" (test/main.c) calls pool_init and      *)
(* leaves when it fails, "zhaba_expand" (expand.c) calls it and ignores    *)
(* the result, "zhaba" (main.c) never calls it.                            *)
(*                                                                         *)
(* Addresses are unsigned machine words of Width bits; address 0 is NULL.  *)
(* blocks records what pool_alloc_align returned, and request what the     *)
(* last call asked for; the other variables are the file's statics.        *)
(***************************************************************************)
EXTENDS Integers

CONSTANTS
  Width,     \* bits of a uintptr_t and of a size_t
  Base,      \* the address malloc returns when it succeeds
  PoolSize,  \* the argument of pool_init
  Requests,  \* the sizes the program asks for, with the alignments of their types
  Programs   \* the programs the run starts

VARIABLES program, pool_base, pool_current, pool_size, blocks, request, phase

vars == <<program, pool_base, pool_current, pool_size, blocks, request, phase>>

NULL == 0
AddressSpace == 2 ^ Width
Word(x) == x % AddressSpace

ASSUME PoolAssumption ==
  /\ Width \in Nat
  /\ AddressSpace \in Nat \ {0}
  /\ Base \in Nat \ {0}
  /\ PoolSize \in Nat
  /\ Base + PoolSize < AddressSpace
  /\ Requests \subseteq [size : 0..(AddressSpace - 1), align : Nat \ {0}]
  /\ \A r \in Requests : Base + PoolSize + r.align <= AddressSpace
  /\ Programs \subseteq {"test", "zhaba_expand", "zhaba"}

NoRequest == [size |-> 0, align |-> 1]

Init ==
  /\ program \in Programs
  /\ pool_base = NULL
  /\ pool_current = NULL
  /\ pool_size = 0
  /\ blocks = {}
  /\ request = NoRequest
  /\ phase = "start"

(***************************************************************************)
(* pool_init: the size is recorded before malloc is known to have failed.  *)
(***************************************************************************)
PoolInit(address) ==
  /\ pool_size' = PoolSize
  /\ pool_base' = address
  /\ pool_current' = IF address = NULL THEN pool_current ELSE address

\* main.c allocates without having called pool_init.
StartZhaba ==
  /\ phase = "start"
  /\ program = "zhaba"
  /\ phase' = "run"
  /\ UNCHANGED <<program, pool_base, pool_current, pool_size, blocks, request>>

\* expand.c calls pool_init and goes on whatever it returned.
StartExpand ==
  /\ phase = "start"
  /\ program = "zhaba_expand"
  /\ \E address \in {NULL, Base} : PoolInit(address)
  /\ phase' = "run"
  /\ UNCHANGED <<program, blocks, request>>

\* test/main.c leaves when pool_init returned -1.
StartTest ==
  /\ phase = "start"
  /\ program = "test"
  /\ \E address \in {NULL, Base} : 
       /\ PoolInit(address)
       /\ phase' = IF address = NULL THEN "exit" ELSE "run"
  /\ UNCHANGED <<program, blocks, request>>

\* Two slips in the rounding: towards the bytes already given out, and none.
AlignDown(address, align) == address - (address % align)
AlignNot(address, align) == address

(***************************************************************************)
(* (current + align - 1) & ~(align - 1): clearing the low bits subtracts   *)
(* the remainder.                                                          *)
(***************************************************************************)
AlignUp(address, align) ==
  LET bumped == Word(address + align - 1) IN bumped - (bumped % align)

\* Two slips in the assertion: the start of the block instead of its end, and
\* a pool that may not be used to its last byte.
FitsStart(address, size) == Word(address) <= Word(pool_base + pool_size)
FitsStrictly(address, size) == Word(address + size) < Word(pool_base + pool_size)

\* The condition of the assertion, in machine words.
Fits(address, size) == Word(address + size) <= Word(pool_base + pool_size)

\* The bytes of the block malloc returned: what memset may write.
InPool(address, size) ==
  /\ pool_base # NULL
  /\ pool_base <= address
  /\ address + size <= pool_base + pool_size

\* The sum in the assertion does not fit a word: the size is as large as the -1
\* of a failed ftell.
Wraps(address, size) == address + size >= AddressSpace

(***************************************************************************)
(* What comes of the memset: outside the pool it is undefined.  From NULL  *)
(* on, or to the end of the address space, it meets memory that is not     *)
(* there; behind the pool it may or may not.                               *)
(***************************************************************************)
Cleared(address, size) ==
  IF size = 0 \/ InPool(address, size) THEN {"run"}
  ELSE IF pool_base = NULL \/ Wraps(address, size) THEN {"fault"}
  ELSE {"run", "fault"}

\* pool_alloc_align.  The assertion or the memset may end the program.
PoolAlloc(r) ==
  LET address == AlignUp(pool_current, r.align) IN
  /\ phase = "run"
  /\ request' = r
  /\ phase' \in IF Fits(address, r.size) THEN Cleared(address, r.size) ELSE {"abort"}
  /\ IF phase' = "run"
       THEN /\ blocks' = blocks \cup {[ptr |-> address, size |-> r.size, align |-> r.align]}
            /\ pool_current' = Word(address + r.size)
       ELSE UNCHANGED <<blocks, pool_current>>
  /\ UNCHANGED <<program, pool_base, pool_size>>

Next ==
  \/ StartZhaba
  \/ StartExpand
  \/ StartTest
  \/ \E r \in Requests : PoolAlloc(r)

Spec == Init /\ [][Next]_vars

-----------------------------------------------------------------------------
(***************************************************************************)
(* Properties                                                              *)
(***************************************************************************)

Phases == {"start", "run", "exit", "abort", "fault"}
Blocks == [ptr : Nat, size : Nat, align : Nat \ {0}]

\* The statics hold words, and the bump pointer of pool_alloc_align stays
\* between the two ends of what the program takes for its pool.
TypeOK ==
  /\ program \in Programs
  /\ pool_base \in {NULL, Base}
  /\ pool_size \in {0, PoolSize}
  /\ pool_current \in pool_base..(pool_base + pool_size)
  /\ blocks \subseteq Blocks
  /\ request \in [size : Nat, align : Nat \ {0}]
  /\ phase \in Phases

\* Every byte of every block pool_alloc_align hands out lies in the memory
\* malloc returned to pool_init, once it returned some.
BlocksInPool ==
  pool_base # NULL => \A b \in blocks : b.size > 0 => InPool(b.ptr, b.size)

\* Two blocks of the pool never share a byte: tokens, nodes and buffers that
\* are written through one pointer are never changed through another.
BlocksDisjoint ==
  \A b, c \in blocks : b # c => \/ b.ptr + b.size <= c.ptr
                                \/ c.ptr + c.size <= b.ptr

\* A block starts at a multiple of the alignment of its type, as the cast in
\* the pool_alloc macro needs.
BlocksAligned == \A b \in blocks : b.ptr % b.align = 0

\* The assertion of pool_alloc_align ends the program only when what is left
\* of the pool, after alignment, is smaller than the request.
AbortOnlyWhenFull ==
  phase = "abort" =>
    \A address \in pool_current..(pool_base + pool_size - request.size) :
      address % request.align # 0

\* The memset of pool_alloc_align leaves the pool only in a program that goes on
\* without one, and for a size with which the sum in the assertion wraps.
FaultOnlyWhenBlind ==
  phase = "fault" =>
    pool_base = NULL \/ Wraps(AlignUp(pool_current, request.align), request.size)
=============================================================================
