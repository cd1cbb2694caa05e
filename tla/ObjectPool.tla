----------------------------- MODULE ObjectPool -----------------------------
(* ObjectPool, the allocator of sessions and database jobs, as operators   *)
(* on the pool of one class: memory is a sequence of blocks, a block holds *)
(* an object or, when it is free, the link to the next free one, and       *)
(* pointers are places in memory.  mTotalAllocCount is Len(memory).        *)
EXTENDS Integers, Sequences

CONSTANT ALLOC_COUNT     \* blocks of a chunk

ASSUME AllocCountAssumption == ALLOC_COUNT \in Nat \ {0}

NULL == 0

EmptyPool == [mFreeList |-> NULL, memory |-> <<>>, mCurrentUseCount |-> 0]

Link(p) == [next |-> p]

\* The blocks of a new chunk, linked in order, the first one at n + 1.
Chunk(n) == [i \in 1 .. ALLOC_COUNT |-> Link(IF i < ALLOC_COUNT THEN n + i + 1 ELSE NULL)]

Refilled(pool) ==
  IF pool.mFreeList # NULL THEN pool
  ELSE [pool EXCEPT !.mFreeList = Len(pool.memory) + 1,
                    !.memory = @ \o Chunk(Len(@))]

\* The block operator new returns.
Available(pool) == Refilled(pool).mFreeList

\* The pool once object has been constructed in that block.
New(pool, object) ==
  LET b == Available(pool)
      p == Refilled(pool)
  IN [p EXCEPT !.mFreeList = p.memory[b].next, !.memory[b] = object,
               !.mCurrentUseCount = @ + 1]

\* The pool after operator delete of block b.
Delete(pool, b) ==
  [pool EXCEPT !.mFreeList = b, !.memory[b] = Link(pool.mFreeList),
               !.mCurrentUseCount = @ - 1]

\* The blocks on the free list.
FreeBlocks(pool) ==
  LET nth[i \in 0 .. Len(pool.memory)] ==
        IF i = 0 THEN pool.mFreeList
        ELSE IF nth[i - 1] = NULL THEN NULL ELSE pool.memory[nth[i - 1]].next
  IN {nth[i] : i \in 0 .. Len(pool.memory)} \ {NULL}
=============================================================================
