--------------------------- MODULE PlayersProofs ---------------------------
(* Proofs about Players, for any clients, players, steps and bounds, and   *)
(* any number of blocks of a chunk.                                        *)
EXTENDS Players, FiniteSetTheorems, SequenceTheorems, TLAPS

Even == {x \in Int : x % 2 = 0}
Name == Player \cup {""}
Comment == {"", "updated_test"}

JobRecord ==
  [kind : Kind, mSockKey : Client \cup {NoPlayer}, mPlayerId : Player, mPos : Int,
   mPosZ : {0}, mPlayerName : Name, mComment : Comment, mSuccess : BOOLEAN,
   expected : {<<>>} \cup (BOOLEAN \X Name \X Int)]

\* What a block of memory holds.
Cell == [next : Nat] \cup JobRecord

PoolType == [mFreeList : Nat, memory : Seq(Cell), mCurrentUseCount : Int]
-----------------------------------------------------------------------------
(* The allocator.                                                          *)

\* The free list of p is F[1], ..., F[n].
FreeList(p, n, F) ==
  /\ p.mFreeList = IF n = 0 THEN NULL ELSE F[1]
  /\ \A i \in 1 .. n : p.memory[F[i]].next = IF i = n THEN NULL ELSE F[i + 1]
  /\ \A i, j \in 1 .. n : F[i] = F[j] => i = j
  /\ n + p.mCurrentUseCount = Len(p.memory)

\* The blocks in use are those of U, and the others are on the free list.
Owns(p, U) ==
  \E n \in Nat : \E F \in [1 .. n -> 1 .. Len(p.memory)] :
    FreeList(p, n, F) /\ U = (1 .. Len(p.memory)) \ {F[i] : i \in 1 .. n}

(* An empty pool has no block in use.                                      *)
LEMMA EmptyOwns == EmptyPool \in PoolType /\ Owns(EmptyPool, {})
<1> DEFINE F == [i \in 1 .. 0 |-> 0]
<1>1. EmptyPool \in PoolType /\ Len(EmptyPool.memory) = 0
  BY DEF EmptyPool, PoolType, NULL
<1>2. F \in [1 .. 0 -> 1 .. Len(EmptyPool.memory)] /\ 1 .. 0 = {} /\ 0 \in Nat
  BY <1>1
<1>3. FreeList(EmptyPool, 0, F)
  BY <1>1, <1>2 DEF FreeList, EmptyPool
<1>4. {} = (1 .. Len(EmptyPool.memory)) \ {F[i] : i \in 1 .. 0}
  BY <1>1, <1>2
<1> HIDE DEF F
<1> QED  BY <1>1, <1>2, <1>3, <1>4 DEF Owns

(* The blocks of a new chunk link each to the next and the last to none.   *)
LEMMA ChunkLinks ==
  ASSUME NEW n \in Nat
  PROVE  /\ Chunk(n) \in Seq(Cell) /\ Len(Chunk(n)) = ALLOC_COUNT
         /\ \A i \in 1 .. ALLOC_COUNT :
              Chunk(n)[i].next = IF i = ALLOC_COUNT THEN NULL ELSE n + i + 1
<1>1. \A i \in 1 .. ALLOC_COUNT :
        Link(IF i < ALLOC_COUNT THEN n + i + 1 ELSE NULL) \in Cell
  BY AllocCountAssumption DEF Link, Cell, NULL
<1>2. Chunk(n) \in [1 .. ALLOC_COUNT -> Cell]
  BY <1>1 DEF Chunk
<1>3. Chunk(n) \in Seq(Cell) /\ Len(Chunk(n)) = ALLOC_COUNT
  BY <1>2, AllocCountAssumption
<1>4. \A i \in 1 .. ALLOC_COUNT : ~(i < ALLOC_COUNT) <=> i = ALLOC_COUNT
  BY AllocCountAssumption
<1>5. \A i \in 1 .. ALLOC_COUNT :
        Chunk(n)[i].next = IF i < ALLOC_COUNT THEN n + i + 1 ELSE NULL
  BY DEF Chunk, Link
<1> QED  BY <1>3, <1>4, <1>5

(* A pool that is refilled has a free block, and the same blocks in use    *)
(* with the same content.                                                  *)
LEMMA RefilledOwns ==
  ASSUME NEW p \in PoolType, NEW U, Owns(p, U)
  PROVE  /\ Refilled(p) \in PoolType /\ Refilled(p).mFreeList # NULL
         /\ Owns(Refilled(p), U)
         /\ \A b \in U : Refilled(p).memory[b] = p.memory[b]
<1>1. CASE p.mFreeList # NULL
  BY <1>1 DEF Refilled
<1>2. CASE p.mFreeList = NULL
  <2> DEFINE len == Len(p.memory)
             q == Refilled(p)
             G == [i \in 1 .. ALLOC_COUNT |-> len + i]
  <2>0. PICK n \in Nat : \E F \in [1 .. n -> 1 .. Len(p.memory)] :
          FreeList(p, n, F) /\ U = (1 .. Len(p.memory)) \ {F[i] : i \in 1 .. n}
    BY DEF Owns
  <2>1. PICK F \in [1 .. n -> 1 .. Len(p.memory)] :
          FreeList(p, n, F) /\ U = (1 .. Len(p.memory)) \ {F[i] : i \in 1 .. n}
    BY <2>0
  <2>2. n = 0
    BY <1>2, <2>1 DEF FreeList, NULL, PoolType
  <2>3. len \in Nat /\ U = 1 .. len /\ p.mCurrentUseCount = len
    BY <2>1, <2>2 DEF FreeList, PoolType
  <2>4. q = [p EXCEPT !.mFreeList = len + 1, !.memory = @ \o Chunk(len)]
    BY <1>2 DEF Refilled
  <2>5. /\ q.memory = p.memory \o Chunk(len) /\ q.mFreeList = len + 1
        /\ q.mCurrentUseCount = len /\ p.memory \in Seq(Cell)
    BY <2>3, <2>4 DEF PoolType
  <2>6. /\ q.memory \in Seq(Cell) /\ Len(q.memory) = len + ALLOC_COUNT
        /\ \A i \in 1 .. len + ALLOC_COUNT :
             q.memory[i] = IF i <= len THEN p.memory[i] ELSE Chunk(len)[i - len]
    <3>1. Chunk(len) \in Seq(Cell) /\ Len(Chunk(len)) = ALLOC_COUNT
      BY <2>3, ChunkLinks
    <3>2. \A s, t \in Seq(Cell) :
            /\ s \o t \in Seq(Cell) /\ Len(s \o t) = Len(s) + Len(t)
            /\ \A i \in 1 .. Len(s) + Len(t) :
                 (s \o t)[i] = IF i <= Len(s) THEN s[i] ELSE t[i - Len(s)]
      BY ConcatProperties
    <3> DEFINE m == p.memory
               ch == Chunk(len)
    <3>3. m \in Seq(Cell) /\ Len(m) = len /\ q.memory = m \o ch
      BY <2>5
    <3> HIDE DEF q, len, ch, m
    <3>4. /\ m \o ch \in Seq(Cell) /\ Len(m \o ch) = Len(m) + Len(ch)
          /\ \A i \in 1 .. Len(m) + Len(ch) :
               (m \o ch)[i] = IF i <= Len(m) THEN m[i] ELSE ch[i - Len(m)]
      BY <3>1, <3>2, <3>3, Zenon DEF ch
    <3>5. /\ q.memory \in Seq(Cell) /\ Len(q.memory) = len + ALLOC_COUNT
          /\ \A i \in 1 .. len + ALLOC_COUNT :
               q.memory[i] = IF i <= len THEN m[i] ELSE ch[i - len]
      BY <3>1, <3>3, <3>4, Zenon DEF ch
    <3> QED  BY <3>5, Zenon DEF m, ch
  <2>7. q \in PoolType /\ q.mFreeList # NULL
    <3>1. q.mFreeList \in Nat /\ q.mFreeList # NULL /\ q.mCurrentUseCount \in Int
      BY <2>3, <2>5 DEF NULL
    <3>2. q = [mFreeList |-> q.mFreeList, memory |-> q.memory,
               mCurrentUseCount |-> q.mCurrentUseCount]
      BY <2>4 DEF PoolType
    <3> HIDE DEF q
    <3> QED  BY <2>6, <3>1, <3>2 DEF PoolType
  <2>8. \A b \in U : q.memory[b] = p.memory[b]
    BY <2>3, <2>6, AllocCountAssumption
  <2>9. \A i \in 1 .. ALLOC_COUNT : len + i \in 1 .. len + ALLOC_COUNT
    BY <2>3, AllocCountAssumption
  <2>10. \A i \in 1 .. ALLOC_COUNT :
           q.memory[len + i].next = IF i = ALLOC_COUNT THEN NULL ELSE len + i + 1
    <3> SUFFICES ASSUME NEW i \in 1 .. ALLOC_COUNT
                 PROVE  q.memory[len + i].next = IF i = ALLOC_COUNT THEN NULL ELSE len + i + 1
      OBVIOUS
    <3>1. q.memory[len + i] = Chunk(len)[(len + i) - len]
      <4>1. ~(len + i <= len)
        BY <2>3, AllocCountAssumption
      <4>5. PICK b : b = len + i
        OBVIOUS
      <4>2. b \in 1 .. len + ALLOC_COUNT /\ ~(b <= len)
        BY <2>9, <4>1, <4>5
      <4> HIDE DEF len, q
      <4>3. q.memory[b] = Chunk(len)[b - len]
        BY <2>6, <4>2, Zenon
      <4> QED  BY <4>3, <4>5
    <3>2. (len + i) - len = i
      BY <2>3, AllocCountAssumption
    <3> HIDE DEF len, q
    <3> QED  BY <2>3, <3>1, <3>2, ChunkLinks
  <2>11. FreeList(q, ALLOC_COUNT, G)
    <3> HIDE DEF q, len
    <3>1. \A i, j \in 1 .. ALLOC_COUNT : G[i] = G[j] => i = j
      BY <2>3, AllocCountAssumption
    <3>2. G[1] = len + 1 /\ ALLOC_COUNT # 0
      BY AllocCountAssumption
    <3>3. \A i \in 1 .. ALLOC_COUNT :
            q.memory[G[i]].next = IF i = ALLOC_COUNT THEN NULL ELSE G[i + 1]
      BY <2>3, <2>10, AllocCountAssumption
    <3>4. ALLOC_COUNT + q.mCurrentUseCount = Len(q.memory)
      BY <2>3, <2>5, <2>6, AllocCountAssumption
    <3> HIDE DEF G
    <3> QED  BY <2>5, <3>1, <3>2, <3>3, <3>4 DEF FreeList
  <2>12. G \in [1 .. ALLOC_COUNT -> 1 .. Len(q.memory)]
    BY <2>6, <2>9
  <2>13. U = (1 .. Len(q.memory)) \ {G[i] : i \in 1 .. ALLOC_COUNT}
    <3>1. {G[i] : i \in 1 .. ALLOC_COUNT} = len + 1 .. len + ALLOC_COUNT
      <4>1. \A x \in len + 1 .. len + ALLOC_COUNT :
              x - len \in 1 .. ALLOC_COUNT /\ G[x - len] = x
        BY <2>3, AllocCountAssumption
      <4>2. \A i \in 1 .. ALLOC_COUNT : G[i] \in len + 1 .. len + ALLOC_COUNT
        BY <2>3, AllocCountAssumption
      <4> HIDE DEF G, len
      <4> QED  BY <4>1, <4>2
    <3> HIDE DEF G, q, len
    <3> QED  BY <2>3, <2>6, <3>1, AllocCountAssumption
  <2>14. Owns(q, U)
    <3> HIDE DEF q, G
    <3> QED  BY <2>11, <2>12, <2>13, AllocCountAssumption DEF Owns
  <2> QED  BY <2>7, <2>8, <2>14
<1> QED  BY <1>1, <1>2

\* operator new takes a block that U has not, and writes only that.
Takes(p, U, object) ==
  /\ New(p, object) \in PoolType
  /\ Available(p) \in Nat /\ Available(p) \notin U
  /\ Owns(New(p, object), U \cup {Available(p)})
  /\ New(p, object).memory[Available(p)] = object
  /\ \A b \in U : New(p, object).memory[b] = p.memory[b]

(* New takes a block that is not in use, puts the object there and leaves  *)
(* the objects of the blocks in use alone.                                 *)
LEMMA NewOwns ==
  ASSUME NEW p \in PoolType, NEW U, Owns(p, U), NEW object \in Cell
  PROVE  Takes(p, U, object)
<1>1. /\ Refilled(p) \in PoolType /\ Refilled(p).mFreeList # NULL
      /\ Owns(Refilled(p), U) /\ \A b \in U : Refilled(p).memory[b] = p.memory[b]
  BY RefilledOwns
<1>2. PICK q \in PoolType : q = Refilled(p)
  BY <1>1
<1>3. q.mFreeList # NULL /\ Owns(q, U) /\ \A b \in U : q.memory[b] = p.memory[b]
  BY <1>1, <1>2
<1>4. PICK n \in Nat : \E F \in [1 .. n -> 1 .. Len(q.memory)] :
        FreeList(q, n, F) /\ U = (1 .. Len(q.memory)) \ {F[i] : i \in 1 .. n}
  BY <1>3 DEF Owns
<1>5. PICK F \in [1 .. n -> 1 .. Len(q.memory)] :
        FreeList(q, n, F) /\ U = (1 .. Len(q.memory)) \ {F[i] : i \in 1 .. n}
  BY <1>4
<1>6. n > 0 /\ F[1] = q.mFreeList /\ F[1] \in 1 .. Len(q.memory)
  BY <1>3, <1>5 DEF FreeList
<1>7. PICK a : a = F[1]
  OBVIOUS
<1>8. Available(p) = a /\ a \in 1 .. Len(q.memory) /\ a \notin U /\ a \in Nat
  BY <1>2, <1>5, <1>6, <1>7 DEF Available
<1>9. PICK r : r = [q EXCEPT !.mFreeList = q.memory[a].next, !.memory[a] = object,
                             !.mCurrentUseCount = @ + 1]
  OBVIOUS
<1>10. New(p, object) = r
  BY <1>2, <1>8, <1>9 DEF New
<1>11. PICK m : m = [q.memory EXCEPT ![a] = object]
  OBVIOUS
<1>12. /\ q.memory \in Seq(Cell) /\ q.mFreeList \in Nat /\ q.mCurrentUseCount \in Int
       /\ q.memory[a].next = IF n = 1 THEN NULL ELSE F[2]
  BY <1>5, <1>6, <1>7 DEF PoolType, FreeList
<1>13. /\ m \in Seq(Cell) /\ Len(m) = Len(q.memory) /\ m[a] = object
       /\ \A b \in 1 .. Len(q.memory) : b # a => m[b] = q.memory[b]
  BY <1>8, <1>11, <1>12, ExceptSeq
<1>14. q.memory[a].next \in Nat
  BY <1>6, <1>12 DEF NULL
<1>15. r = [mFreeList |-> q.memory[a].next, memory |-> m,
            mCurrentUseCount |-> q.mCurrentUseCount + 1]
  BY <1>9, <1>11, <1>12 DEF PoolType
<1>16. r \in PoolType
  BY <1>12, <1>13, <1>14, <1>15 DEF PoolType
<1>17. \A b \in U : r.memory[b] = p.memory[b]
  <2>1. \A b \in U : b \in 1 .. Len(q.memory) /\ b # a
    BY <1>5, <1>8
  <2> QED  BY <1>3, <1>13, <1>15, <2>1
<1>18. Owns(r, U \cup {a})
  <2> DEFINE G == [i \in 1 .. n - 1 |-> F[i + 1]]
  <2>1. \A i \in 1 .. n - 1 : i + 1 \in 1 .. n /\ i + 1 # 1
    BY <1>6
  <2>2. n - 1 \in Nat /\ G \in [1 .. n - 1 -> 1 .. Len(r.memory)]
    BY <1>6, <1>13, <1>15, <2>1
  <2>3. \A i \in 1 .. n - 1 : F[i + 1] # a
    BY <1>5, <1>6, <1>7, <2>1, SMTT(30) DEF FreeList
  <2>4. FreeList(r, n - 1, G)
    <3>1. r.mFreeList = IF n - 1 = 0 THEN NULL ELSE G[1]
      BY <1>6, <1>12, <1>15
    <3>2. ASSUME NEW i \in 1 .. n - 1
          PROVE  r.memory[G[i]].next = IF i = n - 1 THEN NULL ELSE G[i + 1]
      <4>1. r.memory[G[i]] = q.memory[F[i + 1]]
        BY <1>13, <1>15, <2>1, <2>3
      <4>2. q.memory[F[i + 1]].next = IF i + 1 = n THEN NULL ELSE F[(i + 1) + 1]
        BY <1>5, <2>1 DEF FreeList
      <4>3. i # n - 1 => G[i + 1] = F[(i + 1) + 1]
        BY <1>6
      <4>4. i + 1 = n <=> i = n - 1
        BY <1>6
      <4> HIDE DEF G
      <4> QED  BY <4>1, <4>2, <4>3, <4>4
    <3>3. ASSUME NEW i \in 1 .. n - 1, NEW j \in 1 .. n - 1, G[i] = G[j] PROVE i = j
      <4>1. i + 1 = j + 1
        BY <1>5, <2>1, <3>3 DEF FreeList
      <4> QED  BY <4>1
    <3>4. (n - 1) + r.mCurrentUseCount = Len(r.memory)
      BY <1>5, <1>6, <1>12, <1>13, <1>15, SMTT(30) DEF FreeList
    <3> HIDE DEF G
    <3> QED  BY <3>1, <3>2, <3>3, <3>4 DEF FreeList
  <2>5. {F[i] : i \in 1 .. n} = {a} \cup {G[i] : i \in 1 .. n - 1}
    <3>1. ASSUME NEW i \in 1 .. n PROVE F[i] = a \/ \E j \in 1 .. n - 1 : F[i] = G[j]
      <4>1. CASE i = 1  BY <1>7, <4>1
      <4>2. CASE i # 1
        <5>1. i - 1 \in 1 .. n - 1 /\ G[i - 1] = F[i]
          BY <1>6, <4>2
        <5> QED  BY <5>1
      <4> QED  BY <4>1, <4>2
    <3>2. \A j \in 1 .. n - 1 : \E i \in 1 .. n : F[i] = G[j]
      BY <2>1
    <3>3. \E i \in 1 .. n : F[i] = a
      BY <1>6, <1>7
    <3> HIDE DEF G
    <3>4. {F[i] : i \in 1 .. n} \subseteq {a} \cup {G[i] : i \in 1 .. n - 1}
      BY <3>1, Zenon
    <3>5. {a} \cup {G[i] : i \in 1 .. n - 1} \subseteq {F[i] : i \in 1 .. n}
      BY <3>2, <3>3, Zenon
    <3> QED  BY <3>4, <3>5, Zenon
  <2>6. \A j \in 1 .. n - 1 : G[j] # a
    BY <2>3
  <2>7. U \cup {a} = (1 .. Len(r.memory)) \ {G[i] : i \in 1 .. n - 1}
    <3>1. Len(r.memory) = Len(q.memory)
      BY <1>13, <1>15
    <3> HIDE DEF G
    <3> QED  BY <1>5, <1>8, <2>5, <2>6, <3>1
  <2> HIDE DEF G
  <2> QED  BY <2>2, <2>4, <2>7 DEF Owns
<1> QED  BY <1>8, <1>10, <1>13, <1>15, <1>16, <1>17, <1>18 DEF Takes

(* Writing a block in use changes nothing else.                            *)
LEMMA StoreOwns ==
  ASSUME NEW p \in PoolType, NEW U, Owns(p, U), NEW b \in U, NEW object \in Cell
  PROVE  /\ [p EXCEPT !.memory[b] = object] \in PoolType
         /\ Owns([p EXCEPT !.memory[b] = object], U)
         /\ [p EXCEPT !.memory[b] = object].memory[b] = object
         /\ \A c \in U \ {b} : [p EXCEPT !.memory[b] = object].memory[c] = p.memory[c]
<1>1. PICK n \in Nat : \E F \in [1 .. n -> 1 .. Len(p.memory)] :
        FreeList(p, n, F) /\ U = (1 .. Len(p.memory)) \ {F[i] : i \in 1 .. n}
  BY DEF Owns
<1>2. PICK F \in [1 .. n -> 1 .. Len(p.memory)] :
        FreeList(p, n, F) /\ U = (1 .. Len(p.memory)) \ {F[i] : i \in 1 .. n}
  BY <1>1
<1>3. PICK m : m = [p.memory EXCEPT ![b] = object]
  OBVIOUS
<1>4. PICK r : r = [p EXCEPT !.memory[b] = object]
  OBVIOUS
<1>5. p.memory \in Seq(Cell) /\ b \in 1 .. Len(p.memory) /\ U \subseteq 1 .. Len(p.memory)
  BY <1>2 DEF PoolType
<1>6. /\ m \in Seq(Cell) /\ Len(m) = Len(p.memory) /\ m[b] = object
      /\ \A c \in 1 .. Len(p.memory) : c # b => m[c] = p.memory[c]
  BY <1>3, <1>5, ExceptSeq
<1>7. r = [mFreeList |-> p.mFreeList, memory |-> m, mCurrentUseCount |-> p.mCurrentUseCount]
  BY <1>3, <1>4 DEF PoolType
<1>8. r \in PoolType
  BY <1>6, <1>7 DEF PoolType
<1>9. FreeList(r, n, F)
  <2>1. \A i \in 1 .. n : r.memory[F[i]] = p.memory[F[i]]
    BY <1>2, <1>6, <1>7
  <2> QED  BY <1>2, <1>6, <1>7, <2>1 DEF FreeList
<1>10. Owns(r, U)
  <2>1. Len(r.memory) = Len(p.memory)
    BY <1>6, <1>7
  <2>2. F \in [1 .. n -> 1 .. Len(r.memory)]
    BY <2>1
  <2>3. U = (1 .. Len(r.memory)) \ {F[i] : i \in 1 .. n}
    BY <1>2, <2>1, Zenon
  <2> QED  BY <1>9, <2>2, <2>3, Zenon DEF Owns
<1> QED  BY <1>4, <1>5, <1>6, <1>7, <1>8, <1>10

(* Delete puts the block in front of the free list.                        *)
LEMMA DeleteOwns ==
  ASSUME NEW p \in PoolType, NEW U, Owns(p, U), NEW b \in U
  PROVE  /\ Delete(p, b) \in PoolType /\ Owns(Delete(p, b), U \ {b})
         /\ \A c \in U \ {b} : Delete(p, b).memory[c] = p.memory[c]
<1>1. PICK n \in Nat : \E F \in [1 .. n -> 1 .. Len(p.memory)] :
        FreeList(p, n, F) /\ U = (1 .. Len(p.memory)) \ {F[i] : i \in 1 .. n}
  BY DEF Owns
<1>2. PICK F \in [1 .. n -> 1 .. Len(p.memory)] :
        FreeList(p, n, F) /\ U = (1 .. Len(p.memory)) \ {F[i] : i \in 1 .. n}
  BY <1>1
<1>3. PICK m : m = [p.memory EXCEPT ![b] = Link(p.mFreeList)]
  OBVIOUS
<1>4. PICK r : r = Delete(p, b)
  OBVIOUS
<1>5. /\ p.memory \in Seq(Cell) /\ b \in 1 .. Len(p.memory) /\ U \subseteq 1 .. Len(p.memory)
      /\ p.mFreeList \in Nat /\ p.mCurrentUseCount \in Int
      /\ \A i \in 1 .. n : F[i] # b
  BY <1>2 DEF PoolType
<1>6. Link(p.mFreeList) \in Cell /\ Link(p.mFreeList).next = p.mFreeList
  BY <1>5 DEF Link, Cell
<1>7. /\ m \in Seq(Cell) /\ Len(m) = Len(p.memory) /\ m[b] = Link(p.mFreeList)
      /\ \A c \in 1 .. Len(p.memory) : c # b => m[c] = p.memory[c]
  BY <1>3, <1>5, <1>6, ExceptSeq
<1>8. r = [mFreeList |-> b, memory |-> m, mCurrentUseCount |-> p.mCurrentUseCount - 1]
  BY <1>3, <1>4 DEF Delete, PoolType
<1>9. r \in PoolType
  BY <1>5, <1>7, <1>8 DEF PoolType
<1>10. Owns(r, U \ {b})
  <2> DEFINE G == [i \in 1 .. n + 1 |-> IF i = 1 THEN b ELSE F[i - 1]]
  <2>1. \A i \in 1 .. n + 1 : i # 1 => i - 1 \in 1 .. n
    OBVIOUS
  <2>2. n + 1 \in Nat /\ G \in [1 .. n + 1 -> 1 .. Len(r.memory)]
    BY <1>5, <1>7, <1>8, <2>1
  <2>3. FreeList(r, n + 1, G)
    <3>1. r.mFreeList = IF n + 1 = 0 THEN NULL ELSE G[1]
      BY <1>8
    <3>2. ASSUME NEW i \in 1 .. n + 1
          PROVE  r.memory[G[i]].next = IF i = n + 1 THEN NULL ELSE G[i + 1]
      <4>1. CASE i = 1
        <5>1. r.memory[G[i]].next = p.mFreeList
          BY <1>6, <1>7, <1>8, <4>1
        <5>2. n # 0 => G[i + 1] = F[1]
          BY <4>1
        <5>3. p.mFreeList = IF n = 0 THEN NULL ELSE F[1]
          BY <1>2 DEF FreeList
        <5> HIDE DEF G
        <5> QED  BY <4>1, <5>1, <5>2, <5>3
      <4>2. CASE i # 1
        <5>1. i - 1 \in 1 .. n /\ G[i] = F[i - 1] /\ F[i - 1] \in 1 .. Len(p.memory)
          BY <2>1, <4>2
        <5>2. r.memory[G[i]] = p.memory[F[i - 1]]
          BY <1>5, <1>7, <1>8, <5>1
        <5>3. p.memory[F[i - 1]].next = IF i - 1 = n THEN NULL ELSE F[(i - 1) + 1]
          BY <1>2, <5>1 DEF FreeList
        <5>4. i # n + 1 => G[i + 1] = F[(i - 1) + 1]
          BY <4>2
        <5>5. i - 1 = n <=> i = n + 1
          OBVIOUS
        <5> HIDE DEF G
        <5> QED  BY <5>2, <5>3, <5>4, <5>5
      <4> QED  BY <4>1, <4>2
    <3>3. ASSUME NEW i \in 1 .. n + 1, NEW j \in 1 .. n + 1, G[i] = G[j] PROVE i = j
      <4>1. \A k \in 1 .. n : F[k] # b
        BY <1>5
      <4>2. i # 1 /\ j # 1 => i - 1 = j - 1
        BY <1>2, <2>1, <3>3 DEF FreeList
      <4>3. (i = 1) <=> (j = 1)
        BY <2>1, <3>3, <4>1
      <4> QED  BY <4>2, <4>3
    <3>4. (n + 1) + r.mCurrentUseCount = Len(r.memory)
      BY <1>2, <1>5, <1>7, <1>8, SMTT(30) DEF FreeList
    <3> HIDE DEF G
    <3> QED  BY <3>1, <3>2, <3>3, <3>4 DEF FreeList
  <2>4. {G[i] : i \in 1 .. n + 1} = {b} \cup {F[i] : i \in 1 .. n}
    <3>1. \A i \in 1 .. n + 1 : G[i] = b \/ \E j \in 1 .. n : G[i] = F[j]
      BY <2>1
    <3>2. ASSUME NEW j \in 1 .. n PROVE \E i \in 1 .. n + 1 : G[i] = F[j]
      <4>1. j + 1 \in 1 .. n + 1 /\ G[j + 1] = F[j]
        OBVIOUS
      <4> HIDE DEF G
      <4> QED  BY <4>1
    <3>3. \E i \in 1 .. n + 1 : G[i] = b
      <4>1. 1 \in 1 .. n + 1 /\ G[1] = b
        OBVIOUS
      <4> HIDE DEF G
      <4> QED  BY <4>1
    <3> HIDE DEF G
    <3>4. {G[i] : i \in 1 .. n + 1} \subseteq {b} \cup {F[i] : i \in 1 .. n}
      BY <3>1, Zenon
    <3>5. {b} \cup {F[i] : i \in 1 .. n} \subseteq {G[i] : i \in 1 .. n + 1}
      BY <3>2, <3>3, Zenon
    <3> QED  BY <3>4, <3>5, Zenon
  <2>5. U \ {b} = (1 .. Len(r.memory)) \ {G[i] : i \in 1 .. n + 1}
    <3> HIDE DEF G
    <3> QED  BY <1>2, <1>7, <1>8, <2>4
  <2> HIDE DEF G
  <2> QED  BY <2>2, <2>3, <2>5 DEF Owns
<1> QED  BY <1>4, <1>5, <1>7, <1>8, <1>9, <1>10

(* A set of natural numbers that is not empty has a least element.         *)
LEMMA LeastElement ==
  ASSUME NEW T, T \subseteq Nat, T # {}
  PROVE  \E n \in T : \A m \in T : n <= m
<1> DEFINE Less == OpToRel(<, Nat)
<1>1. PICK n \in T : \A m \in T : ~ (<<m, n>> \in Less)
  <2>1. IsWellFoundedOn(Less, Nat)
    BY NatLessThanWellFounded
  <2> HIDE DEF Less
  <2> QED  BY <2>1, WFMin
<1>2. \A m, k \in Nat : m < k => <<m, k>> \in Less
  BY DEF OpToRel
<1> HIDE DEF Less
<1>3. \A m \in T : n <= m
  <2> SUFFICES ASSUME NEW m \in T, ~(n <= m) PROVE FALSE  OBVIOUS
  <2>1. m \in Nat /\ n \in Nat /\ m < n
    OBVIOUS
  <2>2. <<m, n>> \in Less
    BY <1>2, <2>1
  <2> QED  BY <1>1, <2>2
<1> QED  BY <1>3

(* The numbers up to k are k.                                              *)
LEMMA CountTo ==
  ASSUME NEW k \in Nat PROVE IsFiniteSet(1 .. k) /\ Cardinality(1 .. k) = k
<1>1. IsFiniteSet(1 .. k) /\ Cardinality(1 .. k) = IF 1 > k THEN 0 ELSE k - 1 + 1
  BY FS_Interval
<1> QED  BY <1>1

(* There are no more free blocks than blocks.                              *)
LEMMA FreeListFits ==
  ASSUME NEW n \in Nat, NEW l \in Nat, NEW F \in [1 .. n -> 1 .. l],
         \A i, j \in 1 .. n : F[i] = F[j] => i = j
  PROVE  /\ n <= l
         /\ IsFiniteSet({F[i] : i \in 1 .. n}) /\ Cardinality({F[i] : i \in 1 .. n}) = n
<1>1. /\ IsFiniteSet(1 .. n) /\ Cardinality(1 .. n) = n
      /\ IsFiniteSet(1 .. l) /\ Cardinality(1 .. l) = l
  BY CountTo
<1>2. F \in Injection(1 .. n, 1 .. l)
  BY DEF Injection, IsInjective
<1>3. n <= l
  BY <1>1, <1>2, FS_Injection
<1> DEFINE R == {F[i] : i \in 1 .. n}
<1>4. F \in Bijection(1 .. n, R)
  BY DEF Bijection, Injection, Surjection, IsInjective
<1>5. ExistsBijection(1 .. n, R)
  BY <1>4 DEF ExistsBijection
<1> HIDE DEF R
<1>6. IsFiniteSet(R) /\ Cardinality(R) = n
  BY <1>1, <1>5, FS_Bijection
<1> QED  BY <1>3, <1>6 DEF R

(* FreeBlocks finds the blocks of the free list by following the links,    *)
(* so a block is either in use or free, and mCurrentUseCount is the number *)
(* of those in use.                                                        *)
LEMMA FreeBlocksOfOwns ==
  ASSUME NEW p \in PoolType, NEW U, Owns(p, U)
  PROVE  /\ FreeBlocks(p) = (1 .. Len(p.memory)) \ U
         /\ U = (1 .. Len(p.memory)) \ FreeBlocks(p)
         /\ Cardinality(FreeBlocks(p)) + p.mCurrentUseCount = Len(p.memory)
         /\ IsFiniteSet(U) /\ Cardinality(U) = p.mCurrentUseCount
<1> DEFINE len == Len(p.memory)
           Body(f) == [i \in 0 .. Len(p.memory) |->
                         IF i = 0 THEN p.mFreeList
                         ELSE IF f[i - 1] = NULL THEN NULL ELSE p.memory[f[i - 1]].next]
           nth == CHOOSE f : f = Body(f)
<1>1. FreeBlocks(p) = {nth[i] : i \in 0 .. Len(p.memory)} \ {NULL}
  BY Zenon DEF FreeBlocks
<1>2. PICK n \in Nat : \E F \in [1 .. n -> 1 .. Len(p.memory)] :
        FreeList(p, n, F) /\ U = (1 .. Len(p.memory)) \ {F[i] : i \in 1 .. n}
  BY DEF Owns
<1>3. PICK F \in [1 .. n -> 1 .. Len(p.memory)] :
        FreeList(p, n, F) /\ U = (1 .. Len(p.memory)) \ {F[i] : i \in 1 .. n}
  BY <1>2
<1> DEFINE R == {F[i] : i \in 1 .. n}
           g == [i \in 0 .. Len(p.memory) |-> IF i < n THEN F[i + 1] ELSE NULL]
<1>4. len \in Nat /\ p.mCurrentUseCount \in Int
  BY DEF PoolType
<1>5. n <= len /\ IsFiniteSet(R) /\ Cardinality(R) = n
  <2>1. \A i, j \in 1 .. n : F[i] = F[j] => i = j
    BY <1>3 DEF FreeList
  <2> QED  BY <1>4, <2>1, FreeListFits
<1>6. \A i \in 0 .. len : i # 0 =>
        g[i] = IF g[i - 1] = NULL THEN NULL ELSE p.memory[g[i - 1]].next
  <2> SUFFICES ASSUME NEW i \in 0 .. len, i # 0
               PROVE  g[i] = IF g[i - 1] = NULL THEN NULL ELSE p.memory[g[i - 1]].next
    OBVIOUS
  <2>1. i - 1 \in 0 .. len
    BY <1>4
  <2>2. CASE i - 1 < n
    <3>1. i \in 1 .. n /\ F[i] \in 1 .. len /\ (i - 1) + 1 = i
      BY <1>4, <2>2
    <3>2. g[i - 1] = F[i] /\ F[i] # NULL
      BY <2>1, <2>2, <3>1 DEF NULL
    <3>3. p.memory[F[i]].next = IF i = n THEN NULL ELSE F[i + 1]
      BY <1>3, <3>1 DEF FreeList
    <3>4. g[i] = IF i = n THEN NULL ELSE F[i + 1]
      BY <3>1
    <3> HIDE DEF g
    <3> QED  BY <3>2, <3>3, <3>4
  <2>3. CASE ~(i - 1 < n)
    <3>1. g[i - 1] = NULL /\ g[i] = NULL
      BY <1>4, <2>1, <2>3
    <3> HIDE DEF g
    <3> QED  BY <3>1
  <2> QED  BY <2>2, <2>3
<1>7. g[0] = p.mFreeList
  <2>1. p.mFreeList = IF n = 0 THEN NULL ELSE F[1]
    BY <1>3 DEF FreeList
  <2>2. g[0] = IF n = 0 THEN NULL ELSE F[1]
    BY <1>4
  <2> QED  BY <2>1, <2>2
<1>8. g = Body(g)
  <2>1. \A i \in 0 .. Len(p.memory) : g[i] = Body(g)[i]
    <3> HIDE DEF g
    <3> QED  BY <1>6, <1>7
  <2> QED  BY <2>1
<1>9. nth = Body(nth)
  <2>1. \E f : f = Body(f)
    BY <1>8, Zenon
  <2> HIDE DEF Body
  <2> QED BY <2>1, Zenon
<1>10. /\ nth[0] = p.mFreeList
       /\ \A i \in 0 .. len : i # 0 =>
            nth[i] = IF nth[i - 1] = NULL THEN NULL ELSE p.memory[nth[i - 1]].next
  <2>1. PICK f : f = nth
    OBVIOUS
  <2> HIDE DEF nth
  <2>2. f = Body(f)
    <3> HIDE DEF Body
    <3> QED  BY <1>9, <2>1
  <2>3. /\ f[0] = p.mFreeList
        /\ \A i \in 0 .. len : i # 0 =>
             f[i] = IF f[i - 1] = NULL THEN NULL ELSE p.memory[f[i - 1]].next
    <3>1. PICK h : h = Body(f)
      OBVIOUS
    <3>2. \A i \in 0 .. len : h[i] = IF i = 0 THEN p.mFreeList ELSE
            IF f[i - 1] = NULL THEN NULL ELSE p.memory[f[i - 1]].next
      BY <3>1
    <3>3. f = h
      BY <2>2, <3>1, Zenon
    <3>4. 0 \in 0 .. len
      BY <1>4
    <3> HIDE DEF Body, len
    <3> QED  BY <3>2, <3>3, <3>4, Zenon
  <2> QED  BY <2>1, <2>3
<1>11. \A i \in 0 .. len : nth[i] = g[i]
  <2> DEFINE T == {i \in 0 .. len : nth[i] # g[i]}
  <2> SUFFICES ASSUME T # {} PROVE FALSE
    BY Zenon
  <2>1. T \subseteq Nat
    BY <1>4
  <2>2. PICK k \in T : \A m \in T : k <= m
    <3> HIDE DEF T
    <3> QED  BY <2>1, LeastElement
  <2> HIDE DEF g, nth
  <2>3. k \in 0 .. len /\ nth[k] # g[k] /\ k # 0
    BY <1>7, <1>10
  <2>4. k - 1 \in 0 .. len /\ k - 1 \notin T
    BY <1>4, <2>2, <2>3
  <2>5. nth[k - 1] = g[k - 1]
    BY <2>4
  <2> QED  BY <1>6, <1>10, <2>3, <2>5
<1>12. FreeBlocks(p) = R
  <2>1. ASSUME NEW i \in 1 .. n PROVE \E j \in 0 .. len : g[j] = F[i] /\ F[i] # NULL
    <3>1. i - 1 \in 0 .. len /\ i - 1 < n /\ (i - 1) + 1 = i
      BY <1>4, <1>5
    <3>2. g[i - 1] = F[i] /\ F[i] # NULL
      BY <3>1 DEF NULL
    <3> HIDE DEF g
    <3> QED  BY <3>1, <3>2
  <2>2. ASSUME NEW j \in 0 .. len, g[j] # NULL PROVE \E i \in 1 .. n : g[j] = F[i]
    <3>1. j + 1 \in 1 .. n /\ g[j] = F[j + 1]
      BY <1>4, <2>2
    <3> HIDE DEF g
    <3> QED  BY <3>1
  <2> HIDE DEF g, nth
  <2>3. FreeBlocks(p) \subseteq R
    BY <1>1, <1>11, <2>2
  <2>4. R \subseteq FreeBlocks(p)
    BY <1>1, <1>11, <2>1
  <2> QED  BY <2>3, <2>4
<1>13. R \subseteq 1 .. len
  OBVIOUS
<1>14. U = (1 .. len) \ R /\ R = (1 .. len) \ U
  <2>1. U = (1 .. len) \ R
    BY <1>3
  <2> HIDE DEF R
  <2> QED  BY <1>13, <2>1
<1>15. n + p.mCurrentUseCount = len
  BY <1>3 DEF FreeList
<1>16. IsFiniteSet(U) /\ Cardinality(U) = len - n
  <2>1. IsFiniteSet(1 .. len) /\ Cardinality(1 .. len) = len
    BY <1>4, CountTo
  <2>2. (1 .. len) \cap R = R
    BY <1>13
  <2> DEFINE S == 1 .. len
  <2> HIDE DEF R, S
  <2>3. IsFiniteSet(S \ R) /\ Cardinality(S \ R) = Cardinality(S) - Cardinality(S \cap R)
    <3>1. IsFiniteSet(S)
      BY <2>1 DEF S
    <3> QED  BY <3>1, FS_Difference
  <2> QED  BY <1>5, <1>14, <2>1, <2>2, <2>3 DEF S
<1> HIDE DEF R, len
<1>17. Cardinality(FreeBlocks(p)) + p.mCurrentUseCount = len /\ Cardinality(U) = p.mCurrentUseCount
  BY <1>4, <1>5, <1>12, <1>15, <1>16
<1> QED  BY <1>12, <1>14, <1>16, <1>17 DEF len
-----------------------------------------------------------------------------
(* Statements and jobs.                                                    *)

(* Appending keeps the elements a sequence has.                            *)
LEMMA Appended ==
  ASSUME NEW S, NEW s \in Seq(S), NEW x \in S, NEW n \in Nat, Len(s) = n
  PROVE  /\ Append(s, x) \in Seq(S) /\ Len(Append(s, x)) = n + 1
         /\ \A i \in 1 .. n : Append(s, x)[i] = s[i]
         /\ Append(s, x)[n + 1] = x
<1>1. Append(s, x) \in Seq(S) /\ Len(Append(s, x)) = Len(s) + 1
  BY AppendProperties
<1>2. \A i \in 1 .. Len(s) : Append(s, x)[i] = s[i]
  BY AppendProperties
<1>3. Append(s, x)[Len(s) + 1] = x
  BY AppendProperties
<1> QED  BY <1>1, <1>2, <1>3

\* The parameters of a statement with four, and with five of them.
Bound4(a, b, c, d) == Append(Append(Append(Append(<<>>, a), b), c), d)
Bound5(a, b, c, d, e) == Append(Bound4(a, b, c, d), e)

(* The parameters of a statement are the values bound, in order.           *)
LEMMA BoundInOrder ==
  \A a, b, c, d, e :
    /\ LET p4 == Bound4(a, b, c, d) IN
       p4[1] = a /\ p4[2] = b /\ p4[3] = c /\ p4[4] = d
    /\ LET p5 == Bound5(a, b, c, d, e) IN
       p5[1] = a /\ p5[2] = b /\ p5[3] = c /\ p5[4] = d /\ p5[5] = e
<1> TAKE a, b, c, d, e
<1> DEFINE S == {a, b, c, d, e}
<1>1. a \in S /\ b \in S /\ c \in S /\ d \in S /\ e \in S
  OBVIOUS
<1> HIDE DEF S
<1>2. PICK p1 : p1 = Append(<<>>, a)  OBVIOUS
<1>3. PICK p2 : p2 = Append(p1, b)  OBVIOUS
<1>4. PICK p3 : p3 = Append(p2, c)  OBVIOUS
<1>5. PICK p4 : p4 = Append(p3, d)  OBVIOUS
<1>6. PICK p5 : p5 = Append(p4, e)  OBVIOUS
<1>7. p1 \in Seq(S) /\ Len(p1) = 1 /\ p1[1] = a
  BY <1>1, <1>2
<1>8. p2 \in Seq(S) /\ Len(p2) = 2 /\ p2[2] = b /\ \A i \in 1 .. 1 : p2[i] = p1[i]
  <2>1. p2 \in Seq(S)  BY <1>1, <1>3, <1>7, Appended
  <2>2. Len(p2) = 2  BY <1>1, <1>3, <1>7, Appended
  <2>3. p2[2] = b  BY <1>1, <1>3, <1>7, Appended
  <2>4. \A i \in 1 .. 1 : p2[i] = p1[i]  BY <1>1, <1>3, <1>7, Appended
  <2> QED  BY <2>1, <2>2, <2>3, <2>4
<1>9. p3 \in Seq(S) /\ Len(p3) = 3 /\ p3[3] = c /\ \A i \in 1 .. 2 : p3[i] = p2[i]
  <2>1. p3 \in Seq(S)  BY <1>1, <1>4, <1>8, Appended
  <2>2. Len(p3) = 3  BY <1>1, <1>4, <1>8, Appended
  <2>3. p3[3] = c  BY <1>1, <1>4, <1>8, Appended
  <2>4. \A i \in 1 .. 2 : p3[i] = p2[i]  BY <1>1, <1>4, <1>8, Appended
  <2> QED  BY <2>1, <2>2, <2>3, <2>4
<1>10. p4 \in Seq(S) /\ Len(p4) = 4 /\ p4[4] = d /\ \A i \in 1 .. 3 : p4[i] = p3[i]
  <2>1. p4 \in Seq(S)  BY <1>1, <1>5, <1>9, Appended
  <2>2. Len(p4) = 4  BY <1>1, <1>5, <1>9, Appended
  <2>3. p4[4] = d  BY <1>1, <1>5, <1>9, Appended
  <2>4. \A i \in 1 .. 3 : p4[i] = p3[i]  BY <1>1, <1>5, <1>9, Appended
  <2> QED  BY <2>1, <2>2, <2>3, <2>4
<1>11. p5 \in Seq(S) /\ Len(p5) = 5 /\ p5[5] = e /\ \A i \in 1 .. 4 : p5[i] = p4[i]
  <2>1. p5 \in Seq(S)  BY <1>1, <1>6, <1>10, Appended
  <2>2. Len(p5) = 5  BY <1>1, <1>6, <1>10, Appended
  <2>3. p5[5] = e  BY <1>1, <1>6, <1>10, Appended
  <2>4. \A i \in 1 .. 4 : p5[i] = p4[i]  BY <1>1, <1>6, <1>10, Appended
  <2> QED  BY <2>1, <2>2, <2>3, <2>4
<1>12. /\ p4[1] = a /\ p4[2] = b /\ p4[3] = c
       /\ p5[1] = a /\ p5[2] = b /\ p5[3] = c /\ p5[4] = d
  BY <1>7, <1>8, <1>9, <1>10, <1>11
<1> QED  BY <1>2, <1>3, <1>4, <1>5, <1>6, <1>7, <1>10, <1>11, <1>12, Zenon
         DEF Bound4, Bound5

(* A Load reads the first row of its player, if there is one.              *)
LEMMA ExecuteLoad ==
  ASSUME NEW job, NEW t, job.kind = "Load"
  PROVE  LET rows == t[job.mPlayerId] IN
         /\ OnExecute(job, t).table = t
         /\ rows = <<>> => OnExecute(job, t).job = [job EXCEPT !.mSuccess = FALSE]
         /\ rows # <<>> => OnExecute(job, t).job =
              [job EXCEPT !.mSuccess = TRUE, !.mPlayerName = rows[1].name,
                          !.mPos = rows[1].pos, !.mPosZ = rows[1].posZ]
<1>1. PICK stmt : stmt = Statement(job)
  OBVIOUS
<1>2. stmt.sql = "Select" /\ stmt.params[1] = job.mPlayerId
  <2>1. stmt = [sql |-> "Select", params |-> Append(<<>>, job.mPlayerId)]
    BY <1>1 DEF Statement, BindParam, Prepare
  <2>2. Append(<<>>, job.mPlayerId)[1] = job.mPlayerId
    OBVIOUS
  <2> QED  BY <2>1, <2>2
<1>3. PICK rows : rows = t[job.mPlayerId]
  OBVIOUS
<1>4. /\ Stepped(t, stmt).table = t
      /\ rows = <<>> => Stepped(t, stmt).row = <<>>
      /\ rows # <<>> => Stepped(t, stmt).row = <<rows[1].name, rows[1].pos, rows[1].posZ>>
  BY <1>2, <1>3 DEF Stepped, SQL_SelectTest
<1>5. CASE rows = <<>>
  <2>1. FetchRow(t, stmt) # "RESULT_ROW"
    BY <1>4, <1>5 DEF FetchRow
  <2> QED  BY <1>1, <1>3, <1>4, <1>5, <2>1 DEF OnExecute
<1>6. CASE rows # <<>>
  <2>1. FetchRow(t, stmt) = "RESULT_ROW"
    <3>1. \A x, y, z : <<x, y, z>> # <<>>
      <4> TAKE x, y, z
      <4>1. Len(<<x, y, z>>) = 3 /\ Len(<<>>) = 0
        OBVIOUS
      <4> QED  BY <4>1
    <3>2. Stepped(t, stmt).row # <<>>
      BY <1>4, <1>6, <3>1, Zenon
    <3> QED  BY <3>2 DEF FetchRow
  <2>2. GetResultParams(Stepped(t, stmt).row) =
          [name |-> rows[1].name, pos |-> rows[1].pos, posZ |-> rows[1].posZ]
    BY <1>4, <1>6 DEF GetResultParams
  <2> QED  BY <1>1, <1>3, <1>4, <1>6, <2>1, <2>2 DEF OnExecute
<1> QED  BY <1>5, <1>6

(* Every other job succeeds, and writes the rows of its player.            *)
LEMMA ExecuteOther ==
  ASSUME NEW job, NEW t, job.kind # "Load"
  PROVE  OnExecute(job, t).job = [job EXCEPT !.mSuccess = TRUE]
BY DEF OnExecute

(* A Create inserts a row.                                                 *)
LEMMA ExecuteCreate ==
  ASSUME NEW job, NEW t, job.kind = "Create"
  PROVE  OnExecute(job, t).table = [t EXCEPT ![job.mPlayerId] =
           Append(@, [name |-> job.mPlayerName, pos |-> job.mPos, posZ |-> job.mPosZ,
                      comment |-> job.mComment])]
<1>1. PICK stmt : stmt = Statement(job)
  OBVIOUS
<1> DEFINE p5 == Bound5(job.mPlayerId, job.mPlayerName, job.mPos, job.mPosZ, job.mComment)
<1>2. stmt.sql = "Insert" /\ stmt.params = p5
  BY <1>1 DEF Statement, BindParam, Prepare, Bound4, Bound5
<1>3. /\ p5[1] = job.mPlayerId /\ p5[2] = job.mPlayerName /\ p5[3] = job.mPos
      /\ p5[4] = job.mPosZ /\ p5[5] = job.mComment
  BY BoundInOrder
<1> HIDE DEF p5
<1>4. Stepped(t, stmt).table = [t EXCEPT ![job.mPlayerId] =
        Append(@, [name |-> job.mPlayerName, pos |-> job.mPos, posZ |-> job.mPosZ,
                   comment |-> job.mComment])]
  BY <1>2, <1>3 DEF Stepped, SQL_InsertTest
<1> QED  BY <1>1, <1>4, Zenon DEF OnExecute

(* An Update writes position and comment of every row.                     *)
LEMMA ExecuteUpdate ==
  ASSUME NEW job, NEW t, job.kind = "Update"
  PROVE  OnExecute(job, t).table = [t EXCEPT ![job.mPlayerId] =
           [i \in DOMAIN @ |-> [@[i] EXCEPT !.pos = job.mPos, !.posZ = job.mPosZ,
                                            !.comment = job.mComment]]]
<1>1. PICK stmt : stmt = Statement(job)
  OBVIOUS
<1> DEFINE p4 == Bound4(job.mPos, job.mPosZ, job.mComment, job.mPlayerId)
<1>2. stmt.sql = "Update" /\ stmt.params = p4
  BY <1>1 DEF Statement, BindParam, Prepare, Bound4
<1>3. p4[1] = job.mPos /\ p4[2] = job.mPosZ /\ p4[3] = job.mComment /\ p4[4] = job.mPlayerId
  BY BoundInOrder
<1> HIDE DEF p4
<1>4. Stepped(t, stmt).table = [t EXCEPT ![job.mPlayerId] =
        [i \in DOMAIN @ |-> [@[i] EXCEPT !.pos = job.mPos, !.posZ = job.mPosZ,
                                         !.comment = job.mComment]]]
  BY <1>2, <1>3 DEF Stepped, SQL_UpdateTest
<1> QED  BY <1>1, <1>4, Zenon DEF OnExecute

(* A Delete removes all rows.                                              *)
LEMMA ExecuteDelete ==
  ASSUME NEW job, NEW t, job.kind = "Delete"
  PROVE  OnExecute(job, t).table = [t EXCEPT ![job.mPlayerId] = <<>>]
<1>1. PICK stmt : stmt = Statement(job)
  OBVIOUS
<1>2. stmt.sql = "Delete" /\ stmt.params[1] = job.mPlayerId
  <2>1. stmt = [sql |-> "Delete", params |-> Append(<<>>, job.mPlayerId)]
    BY <1>1 DEF Statement, BindParam, Prepare
  <2>2. Append(<<>>, job.mPlayerId)[1] = job.mPlayerId
    OBVIOUS
  <2> QED  BY <2>1, <2>2
<1>3. Stepped(t, stmt).table = [t EXCEPT ![job.mPlayerId] = <<>>]
  BY <1>2 DEF Stepped, SQL_DeleteTest
<1> QED  BY <1>1, <1>3, Zenon DEF OnExecute

RowRecord == [name : Player, pos : Int, posZ : {0}, comment : Comment]

\* Rows carry the name of their player, and positions it has had.
GoodTable(t, V) ==
  /\ t \in [Player -> Seq(RowRecord)]
  /\ \A p \in Player : \A i \in DOMAIN t[p] : t[p][i].name = p /\ t[p][i].pos \in V[p]

\* So does a job that writes a row, or has read one.
GoodJob(job, V) ==
  /\ job \in JobRecord
  /\ job.kind \in {"Update", "Create"} => job.mPos \in V[job.mPlayerId]
  /\ job.kind = "Create" => job.mPlayerName = job.mPlayerId
  /\ job.kind = "Load" => job.mSockKey \in Client
  /\ job.kind = "Load" /\ job.mSuccess =>
       job.mPlayerName = job.mPlayerId /\ job.mPos \in V[job.mPlayerId]

(* Executing a job keeps the names and positions of table and job.         *)
LEMMA ExecuteGood ==
  ASSUME NEW job, NEW t, NEW V, GoodJob(job, V), GoodTable(t, V)
  PROVE  /\ GoodTable(OnExecute(job, t).table, V) /\ GoodJob(OnExecute(job, t).job, V)
         /\ OnExecute(job, t).job.kind = job.kind
         /\ OnExecute(job, t).job.expected = job.expected
<1> DEFINE id == job.mPlayerId
<1>1. /\ job \in JobRecord /\ id \in Player /\ job.mPos \in Int /\ job.mPosZ = 0
      /\ job.mComment \in Comment /\ job.kind \in Kind
  BY DEF GoodJob, JobRecord
<1>2. t \in [Player -> Seq(RowRecord)] /\ t[id] \in Seq(RowRecord)
  BY <1>1 DEF GoodTable
<1>3. GoodJob([job EXCEPT !.mSuccess = FALSE], V)
  BY <1>1 DEF GoodJob, JobRecord
<1>4. CASE job.kind = "Load"
  <2>1. GoodTable(OnExecute(job, t).table, V)
    BY <1>4, ExecuteLoad
  <2>2. CASE t[id] = <<>>
    <3>1. OnExecute(job, t).job = [job EXCEPT !.mSuccess = FALSE]
      BY <1>4, <2>2, ExecuteLoad
    <3> QED  BY <1>1, <1>3, <2>1, <3>1 DEF JobRecord
  <2>3. CASE t[id] # <<>>
    <3>1. PICK row : row = t[id][1]
      OBVIOUS
    <3>2. row \in RowRecord /\ row.name = id /\ row.pos \in V[id]
      <4>1. 1 \in DOMAIN t[id]
        BY <1>2, <2>3
      <4> QED  BY <1>1, <1>2, <3>1, <4>1 DEF GoodTable
    <3>3. OnExecute(job, t).job = [job EXCEPT !.mSuccess = TRUE, !.mPlayerName = row.name,
                                              !.mPos = row.pos, !.mPosZ = row.posZ]
      BY <1>4, <2>3, <3>1, ExecuteLoad
    <3>4. row.name \in Name /\ row.pos \in Int /\ row.posZ \in {0}
      BY <1>1, <3>2 DEF RowRecord, Name
    <3>5. PICK j : j = OnExecute(job, t).job
      OBVIOUS
    <3>6. /\ j \in JobRecord /\ j.kind = job.kind /\ j.expected = job.expected
          /\ j.mPlayerName = id /\ j.mPos = row.pos /\ j.mPlayerId = id
          /\ j.mSockKey = job.mSockKey
      BY <1>1, <3>2, <3>3, <3>4, <3>5 DEF JobRecord
    <3>7. GoodJob(j, V)
      BY <1>4, <3>2, <3>6 DEF GoodJob
    <3> QED  BY <2>1, <3>5, <3>6, <3>7
  <2> QED  BY <2>2, <2>3
<1>5. CASE job.kind # "Load"
  <2>1. OnExecute(job, t).job = [job EXCEPT !.mSuccess = TRUE]
    BY <1>5, ExecuteOther
  <2>2. PICK j : j = OnExecute(job, t).job
    OBVIOUS
  <2>3. /\ j \in JobRecord /\ j.kind = job.kind /\ j.expected = job.expected
        /\ j.mPlayerName = job.mPlayerName /\ j.mPos = job.mPos /\ j.mPlayerId = id
    BY <1>1, <2>1, <2>2 DEF JobRecord
  <2>4. GoodJob(j, V)
    BY <1>5, <2>3 DEF GoodJob
  <2>5. GoodTable(OnExecute(job, t).table, V)
    <3> DEFINE Good(rows) ==
          rows \in Seq(RowRecord) /\ \A i \in DOMAIN rows : rows[i].name = id /\ rows[i].pos \in V[id]
    <3>1. ASSUME NEW rows, Good(rows) PROVE GoodTable([t EXCEPT ![id] = rows], V)
      BY <1>1, <1>2, <3>1 DEF GoodTable
    <3>2. Good(t[id])
      BY <1>1, <1>2 DEF GoodTable
    <3>3. CASE job.kind = "Create"
      <4>1. PICK row : row = [name |-> job.mPlayerName, pos |-> job.mPos, posZ |-> job.mPosZ,
                              comment |-> job.mComment]
        OBVIOUS
      <4>2. row \in RowRecord /\ row.name = id /\ row.pos \in V[id]
        BY <1>1, <3>3, <4>1 DEF RowRecord, GoodJob
      <4>3. Good(Append(t[id], row))
        <5>1. PICK s \in Seq(RowRecord) : s = t[id]
          BY <1>2
        <5>2. Append(s, row) \in Seq(RowRecord) /\ Len(Append(s, row)) = Len(s) + 1
          BY <4>2, AppendProperties
        <5>3. \A i \in 1 .. Len(s) : Append(s, row)[i] = s[i]
          BY <4>2, AppendProperties
        <5>4. Append(s, row)[Len(s) + 1] = row
          BY <4>2, AppendProperties
        <5>5. \A i \in DOMAIN Append(s, row) : i \in 1 .. Len(s) \/ i = Len(s) + 1
          BY <5>2
        <5>6. \A i \in 1 .. Len(s) : s[i].name = id /\ s[i].pos \in V[id]
          BY <3>2, <5>1
        <5> QED  BY <4>2, <5>1, <5>2, <5>3, <5>4, <5>5, <5>6
      <4> HIDE DEF Good
      <4>4. OnExecute(job, t).table = [t EXCEPT ![id] = Append(t[id], row)]
        BY <1>1, <1>2, <3>3, <4>1, ExecuteCreate
      <4> QED  BY <3>1, <4>3, <4>4
    <3>4. CASE job.kind = "Update"
      <4> DEFINE rows == [i \in DOMAIN t[id] |-> [t[id][i] EXCEPT !.pos = job.mPos,
                            !.posZ = job.mPosZ, !.comment = job.mComment]]
      <4>1. \A i \in DOMAIN t[id] : /\ rows[i] \in RowRecord /\ rows[i].name = t[id][i].name
                                    /\ rows[i].pos = job.mPos
        <5> DEFINE Written(r) == [r EXCEPT !.pos = job.mPos, !.posZ = job.mPosZ,
                                           !.comment = job.mComment]
        <5>1. \A r \in RowRecord : /\ Written(r) \in RowRecord /\ Written(r).name = r.name
                                   /\ Written(r).pos = job.mPos
          BY <1>1 DEF RowRecord
        <5>2. \A i \in DOMAIN t[id] : t[id][i] \in RowRecord
          BY <1>2
        <5>3. \A i \in DOMAIN t[id] : rows[i] = Written(t[id][i])
          OBVIOUS
        <5> HIDE DEF rows, Written
        <5> QED  BY <5>1, <5>2, <5>3
      <4>2. job.mPos \in V[id]
        BY <3>4 DEF GoodJob
      <4>3. rows \in Seq(RowRecord) /\ DOMAIN rows = DOMAIN t[id]
        <5>1. DOMAIN t[id] = 1 .. Len(t[id]) /\ Len(t[id]) \in Nat
          BY <1>2
        <5>2. rows \in [1 .. Len(t[id]) -> RowRecord]
          BY <4>1, <5>1
        <5> HIDE DEF rows
        <5> QED  BY <5>1, <5>2
      <4>4. Good(rows)
        <5> HIDE DEF rows
        <5> QED  BY <3>2, <4>1, <4>2, <4>3
      <4>5. OnExecute(job, t).table = [t EXCEPT ![id] = rows]
        BY <1>1, <1>2, <3>4, ExecuteUpdate
      <4> HIDE DEF rows, Good
      <4> QED  BY <3>1, <4>4, <4>5
    <3>5. CASE job.kind = "Delete"
      <4>1. Good(<<>>)
        OBVIOUS
      <4>2. OnExecute(job, t).table = [t EXCEPT ![id] = <<>>]
        BY <3>5, ExecuteDelete
      <4> HIDE DEF Good
      <4> QED  BY <3>1, <4>1, <4>2
    <3> QED  BY <1>1, <1>5, <3>3, <3>4, <3>5 DEF Kind
  <2> QED  BY <2>2, <2>3, <2>4, <2>5
<1> QED  BY <1>4, <1>5

(* A job that has failed is as good.                                       *)
LEMMA ExecuteErrorGood ==
  ASSUME NEW job, NEW t, NEW V, GoodJob(job, V), GoodTable(t, V)
  PROVE  /\ GoodTable(OnExecuteError(job, t).table, V)
         /\ GoodJob(OnExecuteError(job, t).job, V)
         /\ OnExecuteError(job, t).job.kind = job.kind
BY DEF OnExecuteError, GoodJob, JobRecord

\* A job with the outcome it will have, which PushDatabaseJobRequest adds.
Expecting(job, e) == [job EXCEPT !.expected = e]

(* What a job does and what comes of it do not depend on what is expected. *)
LEMMA ExpectedIsGhost ==
  ASSUME NEW job, NEW t, NEW V, NEW e, GoodJob(job, V)
  PROVE  /\ OnExecute(Expecting(job, e), t).table = OnExecute(job, t).table
         /\ Outcome(OnExecute(Expecting(job, e), t).job) = Outcome(OnExecute(job, t).job)
<1>1. PICK j : j = Expecting(job, e)
  OBVIOUS
<1>2. job \in JobRecord /\ job.kind \in Kind
  BY DEF GoodJob, JobRecord
<1>3. /\ j.kind = job.kind /\ j.mPlayerId = job.mPlayerId /\ j.mPos = job.mPos
      /\ j.mPosZ = job.mPosZ /\ j.mPlayerName = job.mPlayerName /\ j.mComment = job.mComment
      /\ j.mSuccess = job.mSuccess
  BY <1>1, <1>2 DEF Expecting, JobRecord
<1>4. OnExecute(j, t).table = OnExecute(job, t).table
  <2>1. Statement(j) = Statement(job)
    BY <1>3 DEF Statement
  <2> QED  BY <2>1 DEF OnExecute
<1>5. Outcome(OnExecute(j, t).job) = Outcome(OnExecute(job, t).job)
  <2>1. \A x \in BOOLEAN : Outcome([j EXCEPT !.mSuccess = x]) = Outcome([job EXCEPT !.mSuccess = x])
    BY <1>1, <1>2 DEF Outcome, Expecting, JobRecord
  <2> DEFINE Loaded(x, row) == [x EXCEPT !.mSuccess = TRUE, !.mPlayerName = row.name,
                                         !.mPos = row.pos, !.mPosZ = row.posZ]
  <2>2. \A row : Outcome(Loaded(j, row)) = Outcome(Loaded(job, row))
    BY <1>1, <1>2 DEF Outcome, Expecting, JobRecord
  <2>3. CASE job.kind = "Load"
    <3>1. CASE t[job.mPlayerId] = <<>>
      <4>1. OnExecute(job, t).job = [job EXCEPT !.mSuccess = FALSE]
        BY <2>3, <3>1, ExecuteLoad
      <4>2. OnExecute(j, t).job = [j EXCEPT !.mSuccess = FALSE]
        <5>1. j.kind = "Load" /\ t[j.mPlayerId] = <<>>
          BY <1>3, <2>3, <3>1
        <5> QED  BY <5>1, ExecuteLoad
      <4> QED  BY <2>1, <4>1, <4>2
    <3>2. CASE t[job.mPlayerId] # <<>>
      <4>1. PICK row : row = t[job.mPlayerId][1]
        OBVIOUS
      <4>2. OnExecute(job, t).job = Loaded(job, row)
        BY <2>3, <3>2, <4>1, ExecuteLoad
      <4>3. OnExecute(j, t).job = Loaded(j, row)
        <5>1. j.kind = "Load" /\ t[j.mPlayerId] # <<>> /\ row = t[j.mPlayerId][1]
          BY <1>3, <2>3, <3>2, <4>1
        <5> QED  BY <5>1, ExecuteLoad
      <4> HIDE DEF Loaded
      <4> QED  BY <2>2, <4>2, <4>3
    <3> QED  BY <3>1, <3>2
  <2>4. CASE job.kind # "Load"
    BY <1>3, <2>1, <2>4, ExecuteOther
  <2> QED  BY <2>3, <2>4
<1> QED  BY <1>1, <1>4, <1>5
-----------------------------------------------------------------------------
(* The pools of all kinds of jobs.                                         *)

Ref == [kind : Kind, block : Nat]
BlocksOf(S, k) == {b \in Nat : [kind |-> k, block |-> b] \in S}
At(pools, ref) == pools[ref.kind].memory[ref.block]

\* The blocks in use are those that the references of S name.
PoolsHold(pools, S) ==
  /\ S \subseteq Ref /\ pools \in [Kind -> PoolType]
  /\ \A k \in Kind : Owns(pools[k], BlocksOf(S, k))

\* What new, a job done and delete make of the pools.
NewRef(pools, k) == [kind |-> k, block |-> Available(pools[k])]
Allocated(pools, k, job) == [pools EXCEPT ![k] = New(@, job)]
Written(pools, ref, job) == [pools EXCEPT ![ref.kind].memory[ref.block] = job]
Freed(pools, ref) == [pools EXCEPT ![ref.kind] = Delete(@, ref.block)]

\* What they do to the references of S and to the objects these refer to.
AllocatesFor(pools, S, k, job) ==
  LET ref == NewRef(pools, k)
      new == Allocated(pools, k, job)
  IN /\ ref \in Ref /\ ref \notin S /\ PoolsHold(new, S \cup {ref})
     /\ At(new, ref) = job /\ \A x \in S : At(new, x) = At(pools, x)

WritesFor(pools, S, ref, job) ==
  LET new == Written(pools, ref, job)
  IN /\ PoolsHold(new, S) /\ At(new, ref) = job
     /\ \A x \in S \ {ref} : At(new, x) = At(pools, x)

FreesFor(pools, S, ref) ==
  LET new == Freed(pools, ref)
  IN PoolsHold(new, S \ {ref}) /\ \A x \in S \ {ref} : At(new, x) = At(pools, x)

(* new gives a block that no reference names.                              *)
LEMMA AllocHold ==
  ASSUME NEW pools, NEW S, PoolsHold(pools, S), NEW k \in Kind, NEW job \in JobRecord
  PROVE  AllocatesFor(pools, S, k, job)
<1> DEFINE ref == NewRef(pools, k)  new == Allocated(pools, k, job)
<1>1. /\ S \subseteq Ref /\ pools \in [Kind -> PoolType] /\ pools[k] \in PoolType
      /\ Owns(pools[k], BlocksOf(S, k)) /\ job \in Cell
  BY DEF PoolsHold, Cell
<1>2. PICK b : b = Available(pools[k])
  OBVIOUS
<1>3. PICK p : p = New(pools[k], job)
  OBVIOUS
<1>4. /\ p \in PoolType /\ b \in Nat /\ b \notin BlocksOf(S, k)
      /\ Owns(p, BlocksOf(S, k) \cup {b}) /\ p.memory[b] = job
      /\ \A c \in BlocksOf(S, k) : p.memory[c] = pools[k].memory[c]
  <2>1. Takes(pools[k], BlocksOf(S, k), job)
    BY <1>1, NewOwns, Zenon
  <2> QED  BY <1>2, <1>3, <2>1 DEF Takes
<1>5. ref \in Ref /\ ref \notin S /\ ref.kind = k /\ ref.block = b
  <2>1. ref = [kind |-> k, block |-> b]
    BY <1>2 DEF NewRef
  <2>2. ref \in Ref /\ ref.kind = k /\ ref.block = b
    BY <1>4, <2>1 DEF Ref
  <2>3. ref \notin S
    BY <1>4, <2>1 DEF BlocksOf
  <2> QED  BY <2>2, <2>3
<1>6. new \in [Kind -> PoolType] /\ new[k] = p /\ \A l \in Kind : l # k => new[l] = pools[l]
  <2>1. new = [pools EXCEPT ![k] = p]
    BY <1>1, <1>3 DEF Allocated
  <2> QED  BY <1>1, <1>4, <2>1
<1> HIDE DEF ref, new
<1>7. ASSUME NEW l \in Kind PROVE Owns(new[l], BlocksOf(S \cup {ref}, l))
  <2>1. CASE l = k
    <3>1. BlocksOf(S \cup {ref}, k) = BlocksOf(S, k) \cup {b}
      BY <1>4, <1>5 DEF BlocksOf, Ref
    <3> QED  BY <1>4, <1>6, <2>1, <3>1
  <2>2. CASE l # k
    <3>1. BlocksOf(S \cup {ref}, l) = BlocksOf(S, l)
      BY <1>5, <2>2 DEF BlocksOf, Ref
    <3> QED  BY <1>6, <2>2, <3>1 DEF PoolsHold
  <2> QED  BY <2>1, <2>2
<1>8. PoolsHold(new, S \cup {ref})
  BY <1>1, <1>5, <1>6, <1>7 DEF PoolsHold
<1>9. ASSUME NEW x \in S PROVE At(new, x) = At(pools, x)
  <2>1. x \in Ref /\ x.kind \in Kind /\ x.block \in Nat
        /\ x = [kind |-> x.kind, block |-> x.block]
    BY <1>1 DEF Ref
  <2>2. CASE x.kind = k
    <3>1. x.block \in BlocksOf(S, k)
      BY <2>1, <2>2 DEF BlocksOf
    <3>2. p.memory[x.block] = pools[k].memory[x.block]
      BY <1>4, <3>1
    <3> QED  BY <1>6, <2>2, <3>2 DEF At
  <2>3. CASE x.kind # k
    BY <1>6, <2>1, <2>3 DEF At
  <2> QED  BY <2>2, <2>3
<1>10. At(new, ref) = job
  BY <1>4, <1>5, <1>6 DEF At
<1> QED  BY <1>5, <1>8, <1>9, <1>10 DEF AllocatesFor, ref, new

(* Writing the object of one reference leaves the others alone.            *)
LEMMA StoreHold ==
  ASSUME NEW pools, NEW S, PoolsHold(pools, S), NEW ref \in S, NEW job \in JobRecord
  PROVE  WritesFor(pools, S, ref, job)
<1> DEFINE new == Written(pools, ref, job)
<1>1. PICK k, b : k = ref.kind /\ b = ref.block
  OBVIOUS
<1>2. /\ S \subseteq Ref /\ pools \in [Kind -> PoolType] /\ k \in Kind /\ b \in Nat
      /\ pools[k] \in PoolType /\ Owns(pools[k], BlocksOf(S, k)) /\ job \in Cell
      /\ ref = [kind |-> k, block |-> b]
  BY <1>1 DEF PoolsHold, Cell, Ref
<1>3. b \in BlocksOf(S, k)
  BY <1>2 DEF BlocksOf
<1>4. PICK p : p = [pools[k] EXCEPT !.memory[b] = job]
  OBVIOUS
<1>5. /\ p \in PoolType /\ Owns(p, BlocksOf(S, k)) /\ p.memory[b] = job
      /\ \A c \in BlocksOf(S, k) \ {b} : p.memory[c] = pools[k].memory[c]
  BY <1>2, <1>3, <1>4, StoreOwns
<1>6. new = [pools EXCEPT ![k] = p]
  BY <1>1, <1>2, <1>4 DEF Written
<1>7. new \in [Kind -> PoolType] /\ new[k] = p /\ \A l \in Kind : l # k => new[l] = pools[l]
  BY <1>2, <1>5, <1>6
<1> HIDE DEF new
<1>8. PoolsHold(new, S)
  BY <1>2, <1>5, <1>7 DEF PoolsHold
<1>9. ASSUME NEW x \in S \ {ref} PROVE At(new, x) = At(pools, x)
  <2>1. x \in Ref /\ x.kind \in Kind /\ x.block \in Nat
        /\ x = [kind |-> x.kind, block |-> x.block]
    BY <1>2 DEF Ref
  <2>2. CASE x.kind = k
    <3>1. x.block \in BlocksOf(S, k) /\ x.block # b
      BY <1>2, <2>1, <2>2 DEF BlocksOf
    <3>2. p.memory[x.block] = pools[k].memory[x.block]
      BY <1>5, <3>1
    <3> QED  BY <1>7, <2>2, <3>2 DEF At
  <2>3. CASE x.kind # k
    BY <1>7, <2>1, <2>3 DEF At
  <2> QED  BY <2>2, <2>3
<1>10. At(new, ref) = job
  BY <1>1, <1>5, <1>7 DEF At
<1> QED  BY <1>8, <1>9, <1>10 DEF WritesFor, new

(* So does deleting it.                                                    *)
LEMMA FreeHold ==
  ASSUME NEW pools, NEW S, PoolsHold(pools, S), NEW ref \in S
  PROVE  FreesFor(pools, S, ref)
<1> DEFINE new == Freed(pools, ref)
<1>1. PICK k, b : k = ref.kind /\ b = ref.block
  OBVIOUS
<1>2. /\ S \subseteq Ref /\ pools \in [Kind -> PoolType] /\ k \in Kind /\ b \in Nat
      /\ pools[k] \in PoolType /\ Owns(pools[k], BlocksOf(S, k))
      /\ ref = [kind |-> k, block |-> b]
  BY <1>1 DEF PoolsHold, Ref
<1>3. b \in BlocksOf(S, k)
  BY <1>2 DEF BlocksOf
<1>4. PICK p : p = Delete(pools[k], b)
  OBVIOUS
<1>5. /\ p \in PoolType /\ Owns(p, BlocksOf(S, k) \ {b})
      /\ \A c \in BlocksOf(S, k) \ {b} : p.memory[c] = pools[k].memory[c]
  BY <1>2, <1>3, <1>4, DeleteOwns
<1>6. new \in [Kind -> PoolType] /\ new[k] = p /\ \A l \in Kind : l # k => new[l] = pools[l]
  BY <1>1, <1>2, <1>4, <1>5 DEF Freed
<1> HIDE DEF new
<1>7. ASSUME NEW l \in Kind PROVE Owns(new[l], BlocksOf(S \ {ref}, l))
  <2>1. CASE l = k
    <3>1. BlocksOf(S \ {ref}, k) = BlocksOf(S, k) \ {b}
      BY <1>2 DEF BlocksOf
    <3> QED  BY <1>5, <1>6, <2>1, <3>1
  <2>2. CASE l # k
    <3>1. BlocksOf(S \ {ref}, l) = BlocksOf(S, l)
      BY <1>2, <2>2 DEF BlocksOf
    <3> QED  BY <1>6, <2>2, <3>1 DEF PoolsHold
  <2> QED  BY <2>1, <2>2
<1>8. PoolsHold(new, S \ {ref})
  BY <1>2, <1>6, <1>7 DEF PoolsHold
<1>9. ASSUME NEW x \in S \ {ref} PROVE At(new, x) = At(pools, x)
  <2>1. x \in Ref /\ x.kind \in Kind /\ x.block \in Nat
        /\ x = [kind |-> x.kind, block |-> x.block]
    BY <1>2 DEF Ref
  <2>2. CASE x.kind = k
    <3>1. x.block \in BlocksOf(S, k) /\ x.block # b
      BY <1>2, <2>1, <2>2 DEF BlocksOf
    <3>2. p.memory[x.block] = pools[k].memory[x.block]
      BY <1>5, <3>1
    <3> QED  BY <1>6, <2>2, <3>2 DEF At
  <2>3. CASE x.kind # k
    BY <1>6, <2>1, <2>3 DEF At
  <2> QED  BY <2>2, <2>3
<1> QED  BY <1>8, <1>9 DEF FreesFor, new
-----------------------------------------------------------------------------
(* The queues.                                                             *)

Elems(s) == {s[i] : i \in DOMAIN s}
Distinct(s) == \A i, j \in DOMAIN s : s[i] = s[j] => i = j

(* What is put at the end of a queue is one more element of it.            *)
LEMMA AppendElems ==
  ASSUME NEW s \in Seq(Ref), NEW x \in Ref
  PROVE  /\ Append(s, x) \in Seq(Ref) /\ Elems(Append(s, x)) = Elems(s) \cup {x}
         /\ Distinct(s) /\ x \notin Elems(s) => Distinct(Append(s, x))
<1>1. PICK n \in Nat : n = Len(s)
  OBVIOUS
<1>2. PICK a : a = Append(s, x)
  OBVIOUS
<1>3. a \in Seq(Ref) /\ Len(a) = n + 1
  BY <1>1, <1>2, Appended
<1>4. \A i \in 1 .. n : a[i] = s[i]
  BY <1>1, <1>2, Appended
<1>5. a[n + 1] = x
  BY <1>1, <1>2, Appended
<1>6. DOMAIN a = 1 .. n + 1 /\ DOMAIN s = 1 .. n
  BY <1>1, <1>3
<1>7. \A i \in 1 .. n + 1 : i \in 1 .. n \/ i = n + 1
  OBVIOUS
<1>8. n + 1 \in 1 .. n + 1 /\ 1 .. n \subseteq 1 .. n + 1
  OBVIOUS
<1>9. Elems(a) = Elems(s) \cup {x}
  <2>1. Elems(a) \subseteq Elems(s) \cup {x}
    BY <1>4, <1>5, <1>6, <1>7, Zenon DEF Elems
  <2>2. Elems(s) \cup {x} \subseteq Elems(a)
    BY <1>4, <1>5, <1>6, <1>8 DEF Elems
  <2> QED  BY <2>1, <2>2
<1>10. ASSUME Distinct(s), x \notin Elems(s) PROVE Distinct(a)
  <2>1. \A i \in 1 .. n : a[i] # x
    BY <1>4, <1>6, <1>10 DEF Elems
  <2> QED  BY <1>4, <1>5, <1>6, <1>7, <1>10, <2>1 DEF Distinct
<1> QED  BY <1>2, <1>3, <1>9, <1>10

(* What is taken off the front of a queue whose elements differ is no      *)
(* longer an element.                                                      *)
LEMMA TailElems ==
  ASSUME NEW s \in Seq(Ref), s # <<>>, Distinct(s)
  PROVE  /\ Tail(s) \in Seq(Ref) /\ Head(s) \in Ref /\ Head(s) \in Elems(s)
         /\ Elems(Tail(s)) = Elems(s) \ {Head(s)} /\ Distinct(Tail(s))
<1>1. PICK n \in Nat : Len(s) = n /\ n > 0
  BY EmptySeq
<1>2. PICK a : a = Tail(s)
  OBVIOUS
<1>3. a \in Seq(Ref) /\ Len(a) = n - 1 /\ Head(s) = s[1] /\ Head(s) \in Ref
  BY <1>1, <1>2
<1>4. \A i \in 1 .. n - 1 : a[i] = s[i + 1]
  BY <1>1, <1>2
<1>5. DOMAIN a = 1 .. n - 1 /\ DOMAIN s = 1 .. n /\ 1 \in 1 .. n
  BY <1>1, <1>3
<1>6. \A i \in 1 .. n - 1 : i + 1 \in 1 .. n /\ i + 1 # 1
  BY <1>1
<1>7. Elems(a) = Elems(s) \ {Head(s)}
  <2>1. ASSUME NEW i \in 1 .. n - 1 PROVE a[i] \in Elems(s) /\ a[i] # Head(s)
    <3>1. i + 1 \in DOMAIN s /\ 1 \in DOMAIN s /\ i + 1 # 1
      BY <1>5, <1>6
    <3>2. a[i] = s[i + 1]
      BY <1>4
    <3>3. s[i + 1] \in Elems(s)
      BY <3>1 DEF Elems
    <3>4. s[i + 1] # s[1]
      BY <3>1 DEF Distinct
    <3> QED  BY <1>3, <3>2, <3>3, <3>4
  <2>2. ASSUME NEW i \in 1 .. n, s[i] # s[1] PROVE \E j \in 1 .. n - 1 : a[j] = s[i]
    <3>1. i - 1 \in 1 .. n - 1 /\ (i - 1) + 1 = i
      BY <2>2
    <3> QED  BY <1>4, <3>1
  <2>3. Elems(a) \subseteq Elems(s) \ {Head(s)}
    BY <1>5, <2>1 DEF Elems
  <2>4. Elems(s) \ {Head(s)} \subseteq Elems(a)
    BY <1>3, <1>5, <2>2 DEF Elems
  <2> QED  BY <2>3, <2>4
<1>8. Distinct(a)
  <2> SUFFICES ASSUME NEW i \in 1 .. n - 1, NEW j \in 1 .. n - 1, a[i] = a[j] PROVE i = j
    BY <1>5 DEF Distinct
  <2>1. i + 1 = j + 1
    BY <1>4, <1>5, <1>6 DEF Distinct
  <2> QED  BY <2>1
<1>9. Head(s) \in Elems(s)
  BY <1>3, <1>5 DEF Elems
<1> QED  BY <1>2, <1>3, <1>7, <1>8, <1>9

(* T[0], ..., T[Len(q)] are the tables that the jobs of q make, one after  *)
(* the other, each with the outcome expected of it.                        *)
Trace(T, q, pools, t, u) ==
  /\ T[0] = t /\ T[Len(q)] = u
  /\ \A i \in 1 .. Len(q) :
       /\ T[i] = OnExecute(At(pools, q[i]), T[i - 1]).table
       /\ At(pools, q[i]).expected = Outcome(OnExecute(At(pools, q[i]), T[i - 1]).job)

\* The jobs of q make table u of table t.
Leads(q, pools, t, u) == \E T : Trace(T, q, pools, t, u)

(* No jobs change nothing.                                                 *)
LEMMA NoJobsLead == ASSUME NEW pools, NEW t PROVE Leads(<<>>, pools, t, t)
<1> DEFINE T == [i \in {0} |-> t]
<1>1. Len(<<>>) = 0 /\ 1 .. 0 = {} /\ T[0] = t
  OBVIOUS
<1> HIDE DEF T
<1>2. Trace(T, <<>>, pools, t, t)
  BY <1>1 DEF Trace
<1> QED  BY <1>2, Zenon DEF Leads

(* One more job leads one table further.                                   *)
LEMMA AppendLeads ==
  ASSUME NEW q \in Seq(Ref), NEW pools, NEW t, NEW u, Leads(q, pools, t, u),
         NEW new, \A x \in Elems(q) : At(new, x) = At(pools, x),
         NEW ref \in Ref, At(new, ref).expected = Outcome(OnExecute(At(new, ref), u).job)
  PROVE  Leads(Append(q, ref), new, t, OnExecute(At(new, ref), u).table)
<1>1. PICK T : Trace(T, q, pools, t, u)
  BY Zenon DEF Leads
<1>2. PICK n \in Nat : n = Len(q)
  OBVIOUS
<1>3. PICK a : a = Append(q, ref)
  OBVIOUS
<1>4. Len(a) = n + 1
  BY <1>2, <1>3, Appended
<1>5. \A i \in 1 .. n : a[i] = q[i]
  BY <1>2, <1>3, Appended
<1>6. a[n + 1] = ref
  BY <1>2, <1>3, Appended
<1>7. PICK v : v = OnExecute(At(new, ref), u).table
  OBVIOUS
<1> DEFINE G == [i \in 0 .. n + 1 |-> IF i = n + 1 THEN v ELSE T[i]]
<1>8. G[0] = t /\ G[n + 1] = v /\ G[n] = u
  BY <1>1, <1>2 DEF Trace
<1>9. \A i \in 1 .. n : G[i] = T[i] /\ G[i - 1] = T[i - 1]
  OBVIOUS
<1> HIDE DEF G
<1>10. ASSUME NEW i \in 1 .. n + 1
       PROVE  /\ G[i] = OnExecute(At(new, a[i]), G[i - 1]).table
              /\ At(new, a[i]).expected = Outcome(OnExecute(At(new, a[i]), G[i - 1]).job)
  <2>1. CASE i = n + 1
    <3>1. i - 1 = n
      BY <2>1
    <3> QED  BY <1>6, <1>7, <1>8, <2>1, <3>1
  <2>2. CASE i # n + 1
    <3>1. i \in 1 .. n
      BY <2>2
    <3>2. At(new, a[i]) = At(pools, q[i])
      BY <1>2, <1>5, <3>1 DEF Elems
    <3>3. /\ T[i] = OnExecute(At(pools, q[i]), T[i - 1]).table
          /\ At(pools, q[i]).expected = Outcome(OnExecute(At(pools, q[i]), T[i - 1]).job)
      BY <1>1, <1>2, <3>1 DEF Trace
    <3>4. G[i] = T[i] /\ G[i - 1] = T[i - 1]
      BY <1>9, <3>1
    <3> QED  BY <3>2, <3>3, <3>4
  <2> QED  BY <2>1, <2>2
<1>11. Trace(G, a, new, t, v)
  BY <1>4, <1>8, <1>10 DEF Trace
<1> QED  BY <1>3, <1>7, <1>11, Zenon DEF Leads

(* The first job has the outcome expected, and the others lead on.         *)
LEMMA TailLeads ==
  ASSUME NEW q \in Seq(Ref), q # <<>>, NEW pools, NEW t, NEW u, Leads(q, pools, t, u),
         NEW new, \A x \in Elems(Tail(q)) : At(new, x) = At(pools, x)
  PROVE  LET job == At(pools, Head(q)) IN
         /\ job.expected = Outcome(OnExecute(job, t).job)
         /\ Leads(Tail(q), new, OnExecute(job, t).table, u)
<1>1. PICK T : Trace(T, q, pools, t, u)
  BY Zenon DEF Leads
<1>2. PICK n \in Nat : Len(q) = n /\ n > 0
  BY EmptySeq
<1>3. PICK a : a = Tail(q)
  OBVIOUS
<1>4. Len(a) = n - 1 /\ a \in Seq(Ref) /\ Head(q) = q[1]
  BY <1>2, <1>3
<1>5. \A i \in 1 .. n - 1 : a[i] = q[i + 1]
  BY <1>2, <1>3
<1>6. PICK job : job = At(pools, Head(q))
  OBVIOUS
<1>7. T[1] = OnExecute(job, t).table /\ job.expected = Outcome(OnExecute(job, t).job)
  <2>1. 1 \in 1 .. n /\ 1 - 1 = 0
    BY <1>2
  <2>2. /\ T[1] = OnExecute(At(pools, q[1]), T[1 - 1]).table
        /\ At(pools, q[1]).expected = Outcome(OnExecute(At(pools, q[1]), T[1 - 1]).job)
    BY <1>1, <1>2, <2>1 DEF Trace
  <2>3. T[1 - 1] = t
    BY <1>1, <2>1 DEF Trace
  <2> QED  BY <1>4, <1>6, <2>2, <2>3
<1> DEFINE G == [i \in 0 .. n - 1 |-> T[i + 1]]
<1>8. G[0] = T[1] /\ G[n - 1] = u
  BY <1>1, <1>2 DEF Trace
<1>9. \A i \in 1 .. n - 1 : G[i] = T[i + 1] /\ G[i - 1] = T[(i + 1) - 1]
  BY <1>2
<1> HIDE DEF G
<1>10. ASSUME NEW i \in 1 .. n - 1
       PROVE  /\ G[i] = OnExecute(At(new, a[i]), G[i - 1]).table
              /\ At(new, a[i]).expected = Outcome(OnExecute(At(new, a[i]), G[i - 1]).job)
  <2>1. i + 1 \in 1 .. n
    BY <1>2
  <2>2. At(new, a[i]) = At(pools, q[i + 1])
    BY <1>3, <1>4, <1>5 DEF Elems
  <2>3. /\ T[i + 1] = OnExecute(At(pools, q[i + 1]), T[(i + 1) - 1]).table
        /\ At(pools, q[i + 1]).expected =
             Outcome(OnExecute(At(pools, q[i + 1]), T[(i + 1) - 1]).job)
    BY <1>1, <1>2, <2>1 DEF Trace
  <2> QED  BY <1>9, <2>2, <2>3
<1>11. Trace(G, a, new, T[1], u)
  BY <1>4, <1>8, <1>10 DEF Trace
<1> QED  BY <1>3, <1>6, <1>7, <1>11, Zenon DEF Leads

(* What is done to the other jobs does not matter.                         *)
LEMMA SameLeads ==
  ASSUME NEW q \in Seq(Ref), NEW pools, NEW t, NEW u, Leads(q, pools, t, u),
         NEW new, \A x \in Elems(q) : At(new, x) = At(pools, x)
  PROVE  Leads(q, new, t, u)
<1>1. PICK T : Trace(T, q, pools, t, u)
  BY Zenon DEF Leads
<1>2. \A i \in 1 .. Len(q) : At(new, q[i]) = At(pools, q[i])
  BY DEF Elems
<1>3. Trace(T, q, new, t, u)
  BY <1>1, <1>2 DEF Trace
<1> QED  BY <1>3, Zenon DEF Leads
-----------------------------------------------------------------------------
(* The jobs.                                                               *)

(* Pools, requests q, results r, table t and the table u it will be.       *)
(* Unless the database has failed, the jobs of q lead from t to u, and     *)
(* those of r have had the outcome expected of them.                       *)
QueuesOK(pools, q, r) ==
  /\ q \in Seq(Ref) /\ r \in Seq(Ref) /\ Distinct(q) /\ Distinct(r)
  /\ Elems(q) \cap Elems(r) = {} /\ PoolsHold(pools, Elems(q) \cup Elems(r))

JobsOK(pools, S, V) == \A x \in S : GoodJob(At(pools, x), V) /\ At(pools, x).kind = x.kind

Settled(pools, S) == \A x \in S : Outcome(At(pools, x)) = At(pools, x).expected

JobState(pools, q, r, t, u, failed, V) ==
  /\ QueuesOK(pools, q, r) /\ JobsOK(pools, Elems(q) \cup Elems(r), V)
  /\ ~failed => Leads(q, pools, t, u) /\ Settled(pools, Elems(r))
  /\ GoodTable(t, V) /\ GoodTable(u, V)

(* The outcome of a good job can be expected of it.                        *)
LEMMA ExpectingGood ==
  ASSUME NEW job, NEW t, NEW V, GoodJob(job, V), GoodTable(t, V)
  PROVE  LET e == Outcome(OnExecute(job, t).job) IN
         /\ GoodJob(Expecting(job, e), V) /\ Expecting(job, e).kind = job.kind
         /\ Expecting(job, e).expected = e
<1>1. PICK e : e = Outcome(OnExecute(job, t).job)
  OBVIOUS
<1>2. OnExecute(job, t).job \in JobRecord
  BY ExecuteGood DEF GoodJob
<1>3. e \in BOOLEAN \X Name \X Int
  BY <1>1, <1>2 DEF Outcome, JobRecord
<1>4. job \in JobRecord
  BY DEF GoodJob
<1>5. /\ Expecting(job, e) \in JobRecord /\ Expecting(job, e).expected = e
      /\ Expecting(job, e).kind = job.kind /\ Expecting(job, e).mPos = job.mPos
      /\ Expecting(job, e).mPlayerId = job.mPlayerId
      /\ Expecting(job, e).mPlayerName = job.mPlayerName
      /\ Expecting(job, e).mSockKey = job.mSockKey /\ Expecting(job, e).mSuccess = job.mSuccess
  BY <1>3, <1>4 DEF Expecting, JobRecord
<1>6. GoodJob(Expecting(job, e), V)
  BY <1>5 DEF GoodJob
<1> QED  BY <1>1, <1>5, <1>6

(* PushDatabaseJobRequest.                                                 *)
LEMMA PushState ==
  ASSUME NEW pools, NEW q, NEW r, NEW t, NEW u, NEW f, NEW V,
         JobState(pools, q, r, t, u, f, V), NEW job, GoodJob(job, V),
         NEW ref, ref = NewRef(pools, job.kind),
         NEW new, new = Allocated(pools, job.kind, Expecting(job, Outcome(OnExecute(job, u).job)))
  PROVE  JobState(new, Append(q, ref), r, t, OnExecute(job, u).table, f, V)
<1>1. PICK j : j = Expecting(job, Outcome(OnExecute(job, u).job))
  OBVIOUS
<1>2. QueuesOK(pools, q, r) /\ GoodTable(u, V) /\ GoodTable(t, V) /\ job.kind \in Kind
  BY DEF JobState, GoodJob, JobRecord
<1>3. /\ GoodJob(j, V) /\ j.kind = job.kind /\ j.expected = Outcome(OnExecute(job, u).job)
      /\ j \in JobRecord
  <2>1. GoodJob(j, V) /\ j.kind = job.kind /\ j.expected = Outcome(OnExecute(job, u).job)
    BY <1>1, <1>2, ExpectingGood
  <2> QED  BY <2>1 DEF GoodJob
<1>4. PICK S : S = Elems(q) \cup Elems(r)
  OBVIOUS
<1>5. PoolsHold(pools, S)
  BY <1>2, <1>4 DEF QueuesOK
<1>6. /\ ref \in Ref /\ ref \notin S /\ PoolsHold(new, S \cup {ref})
      /\ At(new, ref) = j /\ \A x \in S : At(new, x) = At(pools, x)
  <2>1. PICK k : k = job.kind
    OBVIOUS
  <2>2. k \in Kind /\ j \in JobRecord /\ ref = NewRef(pools, k) /\ new = Allocated(pools, k, j)
    BY <1>1, <1>2, <1>3, <2>1
  <2>3. AllocatesFor(pools, S, k, j)
    BY <1>5, <2>2, AllocHold, Zenon
  <2> QED  BY <2>2, <2>3 DEF AllocatesFor
<1>7. PICK a : a = Append(q, ref)
  OBVIOUS
<1>8. a \in Seq(Ref) /\ Elems(a) = Elems(q) \cup {ref} /\ Distinct(a)
  <2>1. q \in Seq(Ref) /\ Distinct(q) /\ ref \notin Elems(q)
    BY <1>2, <1>4, <1>6 DEF QueuesOK
  <2> QED  BY <1>6, <1>7, <2>1, AppendElems
<1>9. Elems(a) \cup Elems(r) = S \cup {ref} /\ Elems(a) \cap Elems(r) = {}
  BY <1>2, <1>4, <1>6, <1>8 DEF QueuesOK
<1>10. QueuesOK(new, a, r)
  BY <1>2, <1>6, <1>8, <1>9 DEF QueuesOK
<1>11. JobsOK(new, Elems(a) \cup Elems(r), V)
  <2>1. JobsOK(pools, S, V)
    BY <1>4 DEF JobState
  <2>2. ref.kind = job.kind
    BY DEF NewRef
  <2> QED  BY <1>3, <1>6, <1>9, <2>1, <2>2 DEF JobsOK
<1>12. ASSUME ~f
       PROVE  Leads(a, new, t, OnExecute(job, u).table) /\ Settled(new, Elems(r))
  <2>1. Leads(q, pools, t, u) /\ Settled(pools, Elems(r)) /\ q \in Seq(Ref)
    BY <1>2, <1>12 DEF JobState, QueuesOK
  <2>2. \A x \in Elems(q) : At(new, x) = At(pools, x)
    BY <1>4, <1>6
  <2>3. \A x \in Elems(r) : At(new, x) = At(pools, x)
    BY <1>4, <1>6
  <2>4. Settled(new, Elems(r))
    BY <2>1, <2>3 DEF Settled
  <2>5. /\ OnExecute(j, u).table = OnExecute(job, u).table
        /\ Outcome(OnExecute(j, u).job) = Outcome(OnExecute(job, u).job)
    BY <1>1, ExpectedIsGhost
  <2>6. At(new, ref).expected = Outcome(OnExecute(At(new, ref), u).job)
    BY <1>3, <1>6, <2>5
  <2>7. Leads(a, new, t, OnExecute(At(new, ref), u).table)
    BY <1>6, <1>7, <2>1, <2>2, <2>6, AppendLeads
  <2>8. Leads(a, new, t, OnExecute(job, u).table)
    BY <1>6, <2>5, <2>7
  <2> QED  BY <2>4, <2>8
<1>13. GoodTable(OnExecute(job, u).table, V)
  BY <1>2, ExecuteGood
<1> QED  BY <1>2, <1>7, <1>10, <1>11, <1>12, <1>13 DEF JobState

(* One job of the database thread, whose result is the job done, the table *)
(* made and whether the database failed.                                   *)
LEMMA ExecuteState ==
  ASSUME NEW pools, NEW q, NEW r, NEW t, NEW u, NEW f, NEW V,
         JobState(pools, q, r, t, u, f, V), q # <<>>,
         NEW ref, ref = Head(q), NEW result, NEW g \in BOOLEAN,
         \/ result = OnExecute(At(pools, ref), t) /\ g = f
         \/ result = OnExecuteError(At(pools, ref), t) /\ g = TRUE,
         NEW new, new = Written(pools, ref, result.job)
  PROVE  JobState(new, Tail(q), Append(r, ref), result.table, u, g, V)
<1>1. PICK job : job = At(pools, ref)
  OBVIOUS
<1>2. QueuesOK(pools, q, r) /\ GoodTable(u, V) /\ GoodTable(t, V)
  BY DEF JobState
<1>3. PICK S : S = Elems(q) \cup Elems(r)
  OBVIOUS
<1>4. PICK a : a = Tail(q)
  OBVIOUS
<1>5. /\ a \in Seq(Ref) /\ ref \in Ref /\ ref \in Elems(q)
      /\ Elems(a) = Elems(q) \ {ref} /\ Distinct(a)
  <2>1. q \in Seq(Ref) /\ Distinct(q)
    BY <1>2 DEF QueuesOK
  <2> QED  BY <1>4, <2>1, TailElems
<1>6. PICK b : b = Append(r, ref)
  OBVIOUS
<1>7. b \in Seq(Ref) /\ Elems(b) = Elems(r) \cup {ref} /\ Distinct(b)
  <2>1. r \in Seq(Ref) /\ Distinct(r) /\ ref \notin Elems(r)
    BY <1>2, <1>5 DEF QueuesOK
  <2> QED  BY <1>5, <1>6, <2>1, AppendElems
<1>8. Elems(a) \cup Elems(b) = S /\ Elems(a) \cap Elems(b) = {}
  BY <1>2, <1>3, <1>5, <1>7 DEF QueuesOK
<1>9. GoodJob(job, V) /\ job.kind = ref.kind
  BY <1>1, <1>5 DEF JobState, JobsOK
<1>10. /\ GoodTable(result.table, V) /\ GoodJob(result.job, V) /\ result.job.kind = ref.kind
       /\ result.job \in JobRecord
  <2>1. CASE result = OnExecute(job, t)
    BY <1>2, <1>9, <2>1, ExecuteGood DEF GoodJob
  <2>2. CASE result = OnExecuteError(job, t)
    BY <1>2, <1>9, <2>2, ExecuteErrorGood DEF GoodJob
  <2> QED  BY <1>1, <2>1, <2>2
<1>11. /\ PoolsHold(new, S) /\ At(new, ref) = result.job
       /\ \A x \in S \ {ref} : At(new, x) = At(pools, x)
  <2>1. PoolsHold(pools, S) /\ ref \in S
    BY <1>2, <1>3, <1>5 DEF QueuesOK
  <2>2. WritesFor(pools, S, ref, result.job)
    BY <1>10, <2>1, StoreHold, Zenon
  <2> QED  BY <2>2 DEF WritesFor
<1>12. QueuesOK(new, a, b)
  BY <1>5, <1>7, <1>8, <1>11 DEF QueuesOK
<1>13. JobsOK(new, Elems(a) \cup Elems(b), V)
  <2>1. JobsOK(pools, S, V)
    BY <1>3 DEF JobState
  <2> QED  BY <1>8, <1>10, <1>11, <2>1 DEF JobsOK
<1>14. ASSUME ~g PROVE Leads(a, new, result.table, u) /\ Settled(new, Elems(b))
  <2>1. result = OnExecute(job, t) /\ ~f
    BY <1>1, <1>14
  <2>2. Leads(q, pools, t, u) /\ Settled(pools, Elems(r)) /\ q \in Seq(Ref)
    BY <1>2, <2>1 DEF JobState, QueuesOK
  <2>3. \A x \in Elems(Tail(q)) : At(new, x) = At(pools, x)
    BY <1>3, <1>4, <1>5, <1>11
  <2>4. job.expected = Outcome(result.job) /\ Leads(a, new, result.table, u)
    BY <1>1, <1>4, <2>1, <2>2, <2>3, TailLeads
  <2>5. result.job.expected = job.expected
    BY <1>2, <1>9, <2>1, ExecuteGood
  <2>6. \A x \in Elems(r) : At(new, x) = At(pools, x)
    BY <1>2, <1>3, <1>5, <1>11 DEF QueuesOK
  <2>7. Settled(new, Elems(b))
    BY <1>7, <1>11, <2>2, <2>4, <2>5, <2>6 DEF Settled
  <2> QED  BY <2>4, <2>7
<1> QED  BY <1>2, <1>4, <1>6, <1>10, <1>12, <1>13, <1>14 DEF JobState

(* A result is taken and its job deleted.                                  *)
LEMMA DispatchState ==
  ASSUME NEW pools, NEW q, NEW r, NEW t, NEW u, NEW f, NEW V,
         JobState(pools, q, r, t, u, f, V), r # <<>>, NEW ref, ref = Head(r),
         NEW new, new = Freed(pools, ref)
  PROVE  JobState(new, q, Tail(r), t, u, f, V)
<1>1. QueuesOK(pools, q, r)
  BY DEF JobState
<1>2. PICK S : S = Elems(q) \cup Elems(r)
  OBVIOUS
<1>3. PICK a : a = Tail(r)
  OBVIOUS
<1>4. /\ a \in Seq(Ref) /\ ref \in Ref /\ ref \in Elems(r)
      /\ Elems(a) = Elems(r) \ {ref} /\ Distinct(a)
  <2>1. r \in Seq(Ref) /\ Distinct(r)
    BY <1>1 DEF QueuesOK
  <2> QED  BY <1>3, <2>1, TailElems
<1>5. PoolsHold(new, S \ {ref}) /\ \A x \in S \ {ref} : At(new, x) = At(pools, x)
  <2>1. PoolsHold(pools, S) /\ ref \in S
    BY <1>1, <1>2, <1>4 DEF QueuesOK
  <2>2. FreesFor(pools, S, ref)
    BY <2>1, FreeHold, Zenon
  <2> QED  BY <2>2 DEF FreesFor
<1>6. Elems(q) \cup Elems(a) = S \ {ref} /\ Elems(q) \cap Elems(a) = {}
  BY <1>1, <1>2, <1>4 DEF QueuesOK
<1>7. QueuesOK(new, q, a)
  BY <1>1, <1>4, <1>5, <1>6 DEF QueuesOK
<1>8. JobsOK(new, Elems(q) \cup Elems(a), V)
  <2>1. JobsOK(pools, S, V)
    BY <1>2 DEF JobState
  <2> QED  BY <1>5, <1>6, <2>1 DEF JobsOK
<1>9. ASSUME ~f PROVE Leads(q, new, t, u) /\ Settled(new, Elems(a))
  <2>1. Leads(q, pools, t, u) /\ Settled(pools, Elems(r)) /\ q \in Seq(Ref)
    BY <1>1, <1>9 DEF JobState, QueuesOK
  <2>2. \A x \in Elems(q) : At(new, x) = At(pools, x)
    BY <1>5, <1>6
  <2>3. Leads(q, new, t, u)
    BY <2>1, <2>2, SameLeads
  <2>4. Settled(new, Elems(a))
    BY <1>4, <1>5, <1>6, <2>1 DEF Settled
  <2> QED  BY <2>3, <2>4
<1> QED  BY <1>3, <1>7, <1>8, <1>9 DEF JobState

(* Positions that are added to the ones a player has had do no harm.       *)
LEMMA GrowState ==
  ASSUME NEW pools, NEW q, NEW r, NEW t, NEW u, NEW f, NEW V, NEW W,
         JobState(pools, q, r, t, u, f, V), \A p \in Player : V[p] \subseteq W[p]
  PROVE  JobState(pools, q, r, t, u, f, W)
<1>1. \A job : GoodJob(job, V) => GoodJob(job, W)
  BY DEF GoodJob, JobRecord
<1>2. \A x : GoodTable(x, V) => GoodTable(x, W)
  BY DEF GoodTable
<1> QED  BY <1>1, <1>2 DEF JobState, JobsOK
-----------------------------------------------------------------------------
(* The invariant.                                                          *)

UpPacket ==
  [type : {"login", "chat"}, id : Player] \cup [type : {"move"}, id : Player, pos : Even]

DownPacket ==
  [type : {"login", "move"}, id : Player, pos : Even]
    \cup {[type |-> "chat", id |-> p, name |-> p] : p \in Player}

Callback ==
  [call : {"chatDraw"}] \cup [call : {"updateMe"}, pos : Even]
    \cup [call : {"updatePeer"}, id : Player, pos : Even]

\* What the clients hold and what is on its way: floats, and ids of players.
ClientInv ==
  /\ m_loginId \in [Client -> Player \cup {NoPlayer}]
  /\ \A d \in Dummy : m_loginId[d] \in Player
  /\ mPlayerSprite \in [Client -> Even] /\ callbacks \in [Client -> Seq(Callback)]
  /\ up \in [Client -> Seq(UpPacket)] /\ down \in [Client -> Seq(DownPacket)]
  /\ mConnected \in [Client -> BOOLEAN]

\* A session that plays a player has its name, and a position that it has had.
SessionInv ==
  /\ mPlayerId \in [Client -> Player \cup {NoPlayer}] /\ mPlayerName \in [Client -> Name]
  /\ mPos \in [Client -> Int] /\ updates \in [Client -> Nat]
  /\ \A c \in Client : mPlayerId[c] # NoPlayer =>
       mPlayerName[c] = mPlayerId[c] /\ mPos[c] \in visited[mPlayerId[c]]
  /\ \A c \in Client : updates[c] > 0 => mPlayerId[c] # NoPlayer

\* A position stays one that the player has had when it is loaded.
VisitedInv ==
  /\ visited \in [Player -> SUBSET Int]
  /\ \A p \in Player : \A x \in visited[p] : Float(x) \in visited[p]

JobInv == JobState(pool, mDbJobRequestQueue, mDbJobResultQueue, table, promised, dbFailed, visited)

IInv == ClientInv /\ SessionInv /\ VisitedInv /\ JobInv /\ dbFailed \in BOOLEAN

(* A position that is rounded is a float, and a float is not changed.      *)
LEMMA Rounding ==
  \A x \in Int : Float(x) \in Even /\ (x \in Even => Float(x) = x)
BY DEF Float, Even

(* A job as it is pushed.                                                  *)
LEMMA NewJob ==
  ASSUME NEW k \in Kind, NEW c \in Client \cup {NoPlayer}, NEW p \in Player, NEW x \in Int, NEW V,
         k \in {"Update", "Create"} => x \in V[p], k = "Load" => c \in Client
  PROVE  GoodJob(Job(k, c, p, x), V)
<1>1. PICK name, comment : /\ name = (IF k = "Create" THEN p ELSE "")
                           /\ comment = (IF k = "Update" THEN "updated_test" ELSE "")
  OBVIOUS
<1>2. name \in Name /\ comment \in Comment
  BY <1>1 DEF Name, Comment
<1>3. PICK job : job = Job(k, c, p, x)
  OBVIOUS
<1>4. job = [kind |-> k, mSockKey |-> c, mPlayerId |-> p, mPos |-> x, mPosZ |-> 0,
             mPlayerName |-> name, mComment |-> comment, mSuccess |-> FALSE, expected |-> <<>>]
  BY <1>1, <1>3 DEF Job
<1>5. <<>> \in {<<>>} \cup (BOOLEAN \X Name \X Int)
  OBVIOUS
<1>6. job \in JobRecord
  BY <1>2, <1>4, <1>5 DEF JobRecord
<1>7. /\ job.kind = k /\ job.mSockKey = c /\ job.mPlayerId = p /\ job.mPos = x
      /\ job.mPlayerName = name /\ job.mSuccess = FALSE
  BY <1>4
<1>8. GoodJob(job, V)
  BY <1>1, <1>6, <1>7 DEF GoodJob
<1> QED  BY <1>3, <1>8

(* PushDatabaseJobRequest, with any pools and any queue of results.        *)
LEMMA PushStep ==
  ASSUME NEW pools, NEW r, NEW V, NEW job, GoodJob(job, V),
         JobState(pools, mDbJobRequestQueue, r, table, promised, dbFailed, V),
         PushDatabaseJobRequest(job, pools)
  PROVE  JobState(pool', mDbJobRequestQueue', r, table, promised', dbFailed, V)
<1>1. PICK e : e = Outcome(OnExecute(job, promised).job)
  OBVIOUS
<1>2. PICK ref : ref = NewRef(pools, job.kind)
  OBVIOUS
<1>3. mDbJobRequestQueue' = Append(mDbJobRequestQueue, ref)
  BY <1>2 DEF PushDatabaseJobRequest, NewRef
<1>4. pool' = Allocated(pools, job.kind, Expecting(job, e))
  BY <1>1 DEF PushDatabaseJobRequest, Allocated, Expecting
<1>5. promised' = OnExecute(job, promised).table
  BY DEF PushDatabaseJobRequest
<1>6. PICK q, t, u, f, n : /\ q = mDbJobRequestQueue /\ t = table /\ u = promised /\ f = dbFailed
                           /\ n = Allocated(pools, job.kind, Expecting(job, e))
  OBVIOUS
<1>7. JobState(n, Append(q, ref), r, t, OnExecute(job, u).table, f, V)
  <2>1. /\ JobState(pools, q, r, t, u, f, V)
        /\ n = Allocated(pools, job.kind, Expecting(job, Outcome(OnExecute(job, u).job)))
    BY <1>1, <1>6
  <2> QED  BY <1>2, <2>1, PushState, Zenon
<1> QED  BY <1>3, <1>4, <1>5, <1>6, <1>7

(* What a step leaves alone.                                               *)
LEMMA Unchanged ==
  /\ ClientInv /\ UNCHANGED <<clientVars, up, down, mConnected>> => ClientInv'
  /\ SessionInv /\ UNCHANGED <<sessionVars, visited>> => SessionInv'
  /\ VisitedInv /\ UNCHANGED visited => VisitedInv'
  /\ JobInv /\ UNCHANGED <<dbVars, visited>> => JobInv'
<1>1. ClientInv /\ UNCHANGED <<clientVars, up, down, mConnected>> => ClientInv'
  BY DEF ClientInv, clientVars
<1>2. SessionInv /\ UNCHANGED <<sessionVars, visited>> => SessionInv'
  BY DEF SessionInv, sessionVars
<1>3. VisitedInv /\ UNCHANGED visited => VisitedInv'
  BY DEF VisitedInv
<1>4. JobInv /\ UNCHANGED <<dbVars, visited>> => JobInv'
  BY DEF JobInv, dbVars, jobVars
<1> QED  BY <1>1, <1>2, <1>3, <1>4

(* At first.                                                               *)
LEMMA InitInv == Init => IInv
<1> SUFFICES ASSUME Init PROVE IInv
  OBVIOUS
<1>1. ClientInv
  <2>1. Start \in Even
    BY PlayersAssumption DEF Even
  <2>2. \A S : [c \in Client |-> <<>>] \in [Client -> Seq(S)]
    OBVIOUS
  <2>3. callbacks \in [Client -> Seq(Callback)] /\ up \in [Client -> Seq(UpPacket)]
        /\ down \in [Client -> Seq(DownPacket)]
    BY <2>2 DEF Init
  <2> QED  BY <2>1, <2>3, PlayersAssumption DEF Init, DummyIds, ClientInv
<1>2. \A p \in Player : StoredPos(p) \in Int
  BY PlayersAssumption DEF StoredPos
<1>3. VisitedInv
  <2>1. \A p \in Player : visited[p] = {StoredPos(p), Float(StoredPos(p))}
    BY DEF Init
  <2>2. \A x \in Int : Float(x) \in Int /\ Float(Float(x)) = Float(x)
    BY Rounding DEF Even
  <2>3. visited \in [Player -> SUBSET Int]
    BY <1>2, <2>2 DEF Init
  <2> QED  BY <1>2, <2>1, <2>2, <2>3 DEF VisitedInv
<1>4. SessionInv
  <2>1. mPlayerId \in [Client -> Player \cup {NoPlayer}] /\ mPlayerName \in [Client -> Name]
    <3>1. "" \in Name /\ NoPlayer \in Player \cup {NoPlayer}
      BY Zenon DEF Name
    <3>2. mPlayerId \in [Client -> Player \cup {NoPlayer}]
      BY DEF Init
    <3>3. mPlayerName = [c \in Client |-> ""]
      BY DEF Init
    <3>4. mPlayerName \in [Client -> Name]
      BY <3>1, <3>3
    <3> QED  BY <3>2, <3>4
  <2>2. mPos \in [Client -> Int] /\ updates \in [Client -> Nat]
    <3>1. mPos = [c \in Client |-> 0] /\ updates = [c \in Client |-> 0]
      BY DEF Init
    <3> QED  BY <3>1
  <2>3. \A c \in Client : mPlayerId[c] = NoPlayer /\ updates[c] = 0
    BY DEF Init
  <2> QED  BY <2>1, <2>2, <2>3 DEF SessionInv
<1>5. JobInv
  <2>1. /\ pool = [k \in Kind |-> EmptyPool] /\ mDbJobRequestQueue = <<>>
        /\ mDbJobResultQueue = <<>> /\ promised = table
    BY DEF Init
  <2>2. GoodTable(table, visited)
    <3>1. table = [p \in Player |-> <<Row(p)>>]
      BY DEF Init
    <3>2. \A p \in Player : Row(p) \in RowRecord /\ Row(p).name = p /\ Row(p).pos = StoredPos(p)
      <4>1. ASSUME NEW p \in Player PROVE Row(p) \in RowRecord
        <5>1. PICK x \in Int : x = StoredPos(p)
          BY <1>2
        <5>2. PICK y \in Comment : y = ""
          BY DEF Comment
        <5>3. Row(p) = [name |-> p, pos |-> x, posZ |-> 0, comment |-> y]
          BY <5>1, <5>2 DEF Row
        <5> QED  BY <5>3 DEF RowRecord
      <4> QED  BY <4>1 DEF Row
    <3>3. \A p \in Player : table[p] = <<Row(p)>>
      BY <3>1
    <3>4. table \in [Player -> Seq(RowRecord)]
      BY <3>1, <3>2
    <3>5. ASSUME NEW p \in Player, NEW i \in DOMAIN table[p]
          PROVE  table[p][i].name = p /\ table[p][i].pos \in visited[p]
      <4>1. table[p][i] = Row(p)
        BY <3>3, <3>5
      <4>2. StoredPos(p) \in visited[p]
        BY DEF Init
      <4> QED  BY <3>2, <4>1, <4>2
    <3> QED  BY <3>4, <3>5 DEF GoodTable
  <2>3. <<>> \in Seq(Ref) /\ Elems(<<>>) = {} /\ Distinct(<<>>)
    BY DEF Elems, Distinct
  <2>4. PoolsHold(pool, {})
    <3>1. \A k \in Kind : pool[k] = EmptyPool /\ BlocksOf({}, k) = {}
      BY <2>1 DEF BlocksOf
    <3>2. pool \in [Kind -> PoolType]
      BY <2>1, EmptyOwns
    <3> QED  BY <3>1, <3>2, EmptyOwns DEF PoolsHold
  <2>5. QueuesOK(pool, <<>>, <<>>)
    BY <2>3, <2>4 DEF QueuesOK
  <2>6. JobsOK(pool, {}, visited) /\ Settled(pool, {})
    BY DEF JobsOK, Settled
  <2>7. Leads(<<>>, pool, table, table)
    BY NoJobsLead
  <2> QED  BY <2>1, <2>2, <2>3, <2>5, <2>6, <2>7 DEF JobInv, JobState
<1> QED  BY <1>1, <1>3, <1>4, <1>5 DEF IInv, Init
-----------------------------------------------------------------------------
(* The clients.                                                            *)

(* A packet is sent: what is on its way to the server alone changes.       *)
LEMMA SendStep ==
  ASSUME IInv, NEW c \in Client, NEW packet \in UpPacket, Send(c, packet),
         UNCHANGED <<clientVars, down, sessionVars, dbVars, visited>>
  PROVE  IInv'
<1>1. up' \in [Client -> Seq(UpPacket)]
  BY DEF IInv, ClientInv, Send
<1>2. ClientInv'
  BY <1>1 DEF IInv, ClientInv, clientVars, sessionVars
<1>3. SessionInv' /\ VisitedInv' /\ JobInv'
  BY Unchanged DEF IInv
<1> QED  BY <1>2, <1>3 DEF IInv, dbVars

(* Each request is a packet of that kind.                                  *)
LEMMA MoveStep ==
  ASSUME IInv, NEW c \in Client, NEW x \in Even, MoveRequest(c, x)
  PROVE  IInv'
<1>1. m_loginId[c] \in Player
  BY DEF IInv, ClientInv, MoveRequest
<1>2. [type |-> "move", id |-> m_loginId[c], pos |-> x] \in UpPacket
  BY <1>1 DEF UpPacket
<1> QED  BY <1>2, SendStep DEF MoveRequest

(* So is a chat.                                                           *)
LEMMA ChatStep ==
  ASSUME IInv, NEW c \in Client, ChatRequest(c)
  PROVE  IInv'
<1>1. m_loginId[c] \in Player
  BY DEF IInv, ClientInv, ChatRequest
<1>2. [type |-> "chat", id |-> m_loginId[c]] \in UpPacket
  BY <1>1 DEF UpPacket
<1> QED  BY <1>2, SendStep DEF ChatRequest

(* So is a login.                                                          *)
LEMMA LoginStep ==
  ASSUME IInv, NEW c \in Client, NEW p \in Player, LoginRequest(c, p)
  PROVE  IInv'
<1>1. [type |-> "login", id |-> p] \in UpPacket
  BY DEF UpPacket
<1> QED  BY <1>1, SendStep DEF LoginRequest

(* A step from where the sprite is drawn is a float.                       *)
LEMMA StepIsEven ==
  ASSUME IInv, NEW c \in Client, NEW n \in Steps
  PROVE  mPlayerSprite[c] + n \in Even
<1>1. mPlayerSprite[c] \in Int /\ mPlayerSprite[c] % 2 = 0 /\ n \in Int /\ n % 2 = 0
  BY PlayersAssumption DEF IInv, ClientInv, Even
<1> QED  BY <1>1 DEF Even

(* A key of a game client.                                                 *)
LEMMA KeyStep ==
  ASSUME IInv, NEW c \in Client, OnKeyReleased(c)
  PROVE  IInv'
<1>1. ASSUME NEW n \in Steps, MoveRequest(c, mPlayerSprite[c] + n) PROVE IInv'
  BY <1>1, StepIsEven, MoveStep
<1>2. ASSUME NEW p \in Player, LoginRequest(c, p) PROVE IInv'
  BY <1>2, LoginStep
<1>3. ASSUME ChatRequest(c) PROVE IInv'
  BY <1>3, ChatStep
<1> QED  BY <1>1, <1>2, <1>3 DEF OnKeyReleased

(* The timer of a dummy client.                                            *)
LEMMA TickStep ==
  ASSUME IInv, NEW c \in Client, OnTick(c)
  PROVE  IInv'
<1>1. ASSUME NEW n \in Steps, MoveRequest(c, mPlayerSprite[c] + n) PROVE IInv'
  BY <1>1, StepIsEven, MoveStep
<1>2. ASSUME ChatRequest(c) PROVE IInv'
  BY <1>2, ChatStep
<1> QED  BY <1>1, <1>2 DEF OnTick

(* The first packet on its way to a client.                                *)
LEMMA FirstDown ==
  ASSUME IInv, NEW c \in Client, down[c] # <<>>
  PROVE  /\ Head(down[c]) \in DownPacket
         /\ [down EXCEPT ![c] = Tail(@)] \in [Client -> Seq(DownPacket)]
<1>1. down \in [Client -> Seq(DownPacket)] /\ down[c] \in Seq(DownPacket)
  BY DEF IInv, ClientInv
<1>2. Head(down[c]) \in DownPacket /\ Tail(down[c]) \in Seq(DownPacket)
  BY <1>1
<1> QED  BY <1>1, <1>2

(* What a packet holds.                                                    *)
LEMMA DownFields ==
  ASSUME NEW x \in DownPacket
  PROVE  x.id \in Player /\ (x.type # "chat" => x.pos \in Even) /\ (x.type = "chat" => x.name = x.id)
<1>1. CASE x \in [type : {"login", "move"}, id : Player, pos : Even]
  BY <1>1
<1>2. CASE x \in {[type |-> "chat", id |-> p, name |-> p] : p \in Player}
  BY <1>2
<1> QED  BY <1>1, <1>2 DEF DownPacket

(* A game client takes a packet.                                           *)
LEMMA ProcessStep ==
  ASSUME IInv, NEW c \in Client, ProcessPacket(c)
  PROVE  IInv'
<1>1. PICK packet \in DownPacket : packet = Head(down[c])
  BY FirstDown DEF ProcessPacket
<1>2. down' \in [Client -> Seq(DownPacket)]
  BY FirstDown DEF ProcessPacket
<1>3. packet.id \in Player /\ (packet.type = "move" => packet.pos \in Even)
  BY DownFields
<1>4. /\ m_loginId' \in [Client -> Player \cup {NoPlayer}]
      /\ \A d \in Dummy : m_loginId'[d] \in Player
      /\ callbacks' \in [Client -> Seq(Callback)]
  <2>1. /\ m_loginId \in [Client -> Player \cup {NoPlayer}]
        /\ \A d \in Dummy : m_loginId[d] \in Player
        /\ callbacks \in [Client -> Seq(Callback)] /\ c \notin Dummy
    BY DEF IInv, ClientInv, ProcessPacket
  <2>2. CASE packet.type = "login"
    <3>1. m_loginId' = [m_loginId EXCEPT ![c] = packet.id] /\ UNCHANGED callbacks
      BY <1>1, <2>2 DEF ProcessPacket
    <3> QED  BY <1>3, <2>1, <3>1, PlayersAssumption
  <2>3. CASE packet.type = "chat"
    <3>1. /\ callbacks' = [callbacks EXCEPT ![c] = Append(@, [call |-> "chatDraw"])]
          /\ UNCHANGED m_loginId
      BY <1>1, <2>3 DEF ProcessPacket
    <3>2. [call |-> "chatDraw"] \in Callback
      BY DEF Callback
    <3> QED  BY <2>1, <3>1, <3>2
  <2>4. CASE packet.type = "move"
    <3>1. PICK f : f = IF packet.id = m_loginId[c]
                       THEN [call |-> "updateMe", pos |-> packet.pos]
                       ELSE [call |-> "updatePeer", id |-> packet.id, pos |-> packet.pos]
      OBVIOUS
    <3>2. callbacks' = [callbacks EXCEPT ![c] = Append(@, f)] /\ UNCHANGED m_loginId
      BY <1>1, <2>4, <3>1 DEF ProcessPacket
    <3>3. f \in Callback
      BY <1>3, <2>4, <3>1 DEF Callback
    <3> QED  BY <2>1, <3>2, <3>3
  <2> QED  BY <1>1, <2>2, <2>3, <2>4 DEF ProcessPacket
<1>5. UNCHANGED <<mPlayerSprite, up, sessionVars, dbVars, visited>>
  BY DEF ProcessPacket
<1>6. ClientInv'
  BY <1>2, <1>4, <1>5 DEF IInv, ClientInv, sessionVars
<1>7. SessionInv' /\ VisitedInv' /\ JobInv'
  BY <1>5, Unchanged DEF IInv
<1> QED  BY <1>5, <1>6, <1>7 DEF IInv, dbVars

(* The cocos thread runs a function.                                       *)
LEMMA CallbackStep ==
  ASSUME IInv, NEW c \in Client, RunCallback(c)
  PROVE  IInv'
<1>1. /\ callbacks \in [Client -> Seq(Callback)] /\ mPlayerSprite \in [Client -> Even]
      /\ callbacks[c] # <<>>
  BY DEF IInv, ClientInv, RunCallback
<1>2. PICK f \in Callback : f = Head(callbacks[c])
  BY <1>1
<1>3. callbacks' \in [Client -> Seq(Callback)]
  BY <1>1 DEF RunCallback
<1>4. mPlayerSprite' \in [Client -> Even]
  <2>1. CASE f.call = "updateMe"
    <3>1. f.pos \in Even
      BY <2>1 DEF Callback
    <3>2. mPlayerSprite' = [mPlayerSprite EXCEPT ![c] = f.pos]
      BY <1>2, <2>1 DEF RunCallback
    <3> QED  BY <1>1, <3>1, <3>2
  <2>2. CASE f.call # "updateMe"
    BY <1>1, <1>2, <2>2 DEF RunCallback
  <2> QED  BY <2>1, <2>2
<1>5. UNCHANGED <<m_loginId, up, down, sessionVars, dbVars, visited>>
  BY DEF RunCallback
<1>6. ClientInv'
  BY <1>3, <1>4, <1>5 DEF IInv, ClientInv, sessionVars
<1>7. SessionInv' /\ VisitedInv' /\ JobInv'
  BY <1>5, Unchanged DEF IInv
<1> QED  BY <1>5, <1>6, <1>7 DEF IInv, dbVars

(* A dummy client takes a packet.                                          *)
LEMMA ReadStep ==
  ASSUME IInv, NEW c \in Client, HandleReadPayload(c)
  PROVE  IInv'
<1>1. PICK packet \in DownPacket : packet = Head(down[c])
  BY FirstDown DEF HandleReadPayload, ReadPacket
<1>2. down' \in [Client -> Seq(DownPacket)]
  BY FirstDown DEF HandleReadPayload, ReadPacket
<1>3. packet.type = "move" => packet.pos \in Even
  BY DownFields
<1>4. mPlayerSprite' \in [Client -> Even]
  <2>1. mPlayerSprite' = [mPlayerSprite EXCEPT ![c] =
          IF packet.type = "move" /\ packet.id = m_loginId[c] THEN packet.pos ELSE @]
    BY <1>1 DEF HandleReadPayload
  <2>2. mPlayerSprite \in [Client -> Even]
    BY DEF IInv, ClientInv
  <2> QED  BY <1>3, <2>1, <2>2
<1>5. UNCHANGED <<m_loginId, callbacks, up, sessionVars, dbVars, visited>>
  BY DEF HandleReadPayload
<1>6. ClientInv'
  BY <1>2, <1>4, <1>5 DEF IInv, ClientInv, sessionVars
<1>7. SessionInv' /\ VisitedInv' /\ JobInv'
  BY <1>5, Unchanged DEF IInv
<1> QED  BY <1>5, <1>6, <1>7 DEF IInv, dbVars

(* The dummy clients' process ends.                                        *)
LEMMA ThrowStep ==
  ASSUME IInv, NEW c \in Client, SendPacketThrows(c)
  PROVE  IInv'
<1>1. UNCHANGED <<m_loginId, mPlayerSprite, callbacks, up, down, sessionVars, dbVars, visited>>
  BY DEF SendPacketThrows
<1>2. ClientInv'
  BY <1>1 DEF IInv, ClientInv, sessionVars
<1>3. SessionInv' /\ VisitedInv' /\ JobInv'
  BY <1>1, Unchanged DEF IInv
<1> QED  BY <1>1, <1>2, <1>3 DEF IInv, dbVars
-----------------------------------------------------------------------------
(* The sessions.                                                           *)

(* A client connects.                                                      *)
LEMMA ConnectStep ==
  ASSUME IInv, NEW c \in Client, NEW packets \in Seq(UpPacket), OnConnect(c, packets)
  PROVE  IInv'
<1>1. up' \in [Client -> Seq(UpPacket)] /\ mConnected' \in [Client -> BOOLEAN]
  BY DEF IInv, ClientInv, OnConnect
<1>2. UNCHANGED <<clientVars, down, mPlayerId, mPlayerName, mPos, updates, dbVars, visited>>
  BY DEF OnConnect
<1>3. ClientInv'
  BY <1>1, <1>2 DEF IInv, ClientInv, clientVars
<1>4. SessionInv'
  BY <1>2 DEF IInv, SessionInv
<1>5. VisitedInv' /\ JobInv'
  BY <1>2, Unchanged DEF IInv
<1> QED  BY <1>2, <1>3, <1>4, <1>5 DEF IInv, dbVars

(* A game client connects, or a dummy client, which logs in at once.       *)
LEMMA JoinStep ==
  ASSUME IInv, NEW c \in Client, GetInstance(c) \/ HandleConnect(c)
  PROVE  IInv'
<1>1. CASE GetInstance(c)
  <2>1. <<>> \in Seq(UpPacket)
    OBVIOUS
  <2> QED  BY <1>1, <2>1, ConnectStep DEF GetInstance
<1>2. CASE HandleConnect(c)
  <2>1. m_loginId[c] \in Player
    BY <1>2 DEF IInv, ClientInv, HandleConnect
  <2>2. [type |-> "login", id |-> m_loginId[c]] \in UpPacket
    BY <2>1 DEF UpPacket
  <2>3. <<[type |-> "login", id |-> m_loginId[c]]>> \in Seq(UpPacket)
    BY <2>2
  <2> QED  BY <1>2, <2>3, ConnectStep DEF HandleConnect
<1> QED  BY <1>1, <1>2

(* A session disconnects.                                                  *)
LEMMA DisconnectStep ==
  ASSUME IInv, NEW c \in Client, Disconnect(c)
  PROVE  IInv'
<1>1. /\ up' \in [Client -> Seq(UpPacket)] /\ down' \in [Client -> Seq(DownPacket)]
      /\ mConnected' \in [Client -> BOOLEAN]
  <2>1. <<>> \in Seq(UpPacket) /\ <<>> \in Seq(DownPacket)
    OBVIOUS
  <2> QED  BY <2>1 DEF IInv, ClientInv, Disconnect
<1>2. UNCHANGED <<clientVars, mPlayerId, mPlayerName, mPos, updates, dbVars, visited>>
  BY DEF Disconnect
<1>3. ClientInv'
  BY <1>1, <1>2 DEF IInv, ClientInv, clientVars
<1>4. SessionInv'
  BY <1>2 DEF IInv, SessionInv
<1>5. VisitedInv' /\ JobInv'
  BY <1>2, Unchanged DEF IInv
<1> QED  BY <1>2, <1>3, <1>4, <1>5 DEF IInv, dbVars

(* A session takes a packet.                                               *)
LEMMA TakeStep ==
  ASSUME IInv, NEW c \in Client, NEW type, Take(c, type)
  PROVE  /\ up' \in [Client -> Seq(UpPacket)] /\ Head(up[c]) \in UpPacket
         /\ Head(up[c]).type = type /\ Head(up[c]).id \in Player
         /\ type = "move" => Head(up[c]) \in [type : {"move"}, id : Player, pos : Even]
<1>1. up \in [Client -> Seq(UpPacket)] /\ up[c] # <<>> /\ Head(up[c]).type = type
  BY DEF IInv, ClientInv, Take
<1>2. Head(up[c]) \in UpPacket
  BY <1>1
<1>3. up' \in [Client -> Seq(UpPacket)]
  BY <1>1 DEF Take
<1>4. PICK x \in UpPacket : x = Head(up[c])
  BY <1>2
<1>5. /\ x.id \in Player
      /\ x.type = "move" => x \in [type : {"move"}, id : Player, pos : Even]
  BY DEF UpPacket
<1> QED  BY <1>1, <1>2, <1>3, <1>4, <1>5

(* A packet is broadcast.                                                  *)
LEMMA BroadcastStep ==
  ASSUME IInv, NEW packet \in DownPacket, Broadcast(packet)
  PROVE  down' \in [Client -> Seq(DownPacket)]
<1>1. down \in [Client -> Seq(DownPacket)]
  BY DEF IInv, ClientInv
<1>2. \A d \in Client : Append(down[d], packet) \in Seq(DownPacket) /\ down[d] \in Seq(DownPacket)
  BY <1>1
<1> QED  BY <1>2 DEF Broadcast

(* A login request.                                                        *)
LEMMA OnLoginStep ==
  ASSUME IInv, NEW c \in Client, OnLogin(c)
  PROVE  IInv'
<1>1. up' \in [Client -> Seq(UpPacket)] /\ Head(up[c]).id \in Player
  BY TakeStep DEF OnLogin
<1>2. UNCHANGED <<clientVars, down, sessionVars, mDbJobResultQueue, table, dbFailed, visited>>
  BY DEF OnLogin
<1>3. ClientInv'
  BY <1>1, <1>2 DEF IInv, ClientInv, clientVars, sessionVars
<1>4. PICK p \in Player : p = Head(up[c]).id
  BY <1>1
<1>5. PICK job : job = Job("Load", c, p, 0)
  OBVIOUS
<1>6. GoodJob(job, visited)
  BY <1>5, NewJob DEF Kind
<1>7. JobState(pool', mDbJobRequestQueue', mDbJobResultQueue, table, promised', dbFailed, visited)
  BY <1>4, <1>5, <1>6, PushStep DEF IInv, JobInv, OnLogin
<1>8. JobInv'
  BY <1>2, <1>7 DEF JobInv
<1>9. SessionInv' /\ VisitedInv'
  BY <1>2, Unchanged DEF IInv
<1> QED  BY <1>2, <1>3, <1>8, <1>9 DEF IInv

(* A chat: its name is the player's.                                       *)
LEMMA OnChatStep ==
  ASSUME IInv, NEW c \in Client, OnChat(c)
  PROVE  IInv'
<1>1. up' \in [Client -> Seq(UpPacket)] /\ Head(up[c]).id \in Player
  BY TakeStep DEF OnChat
<1>2. UNCHANGED <<clientVars, sessionVars, dbVars, visited>>
  BY DEF OnChat
<1>3. down' \in [Client -> Seq(DownPacket)]
  <2>1. CASE Head(up[c]).id # mPlayerId[c]
    BY <2>1 DEF IInv, ClientInv, OnChat
  <2>2. CASE Head(up[c]).id = mPlayerId[c]
    <3>1. mPlayerName[c] = Head(up[c]).id
      BY <1>1, <2>2, PlayersAssumption DEF IInv, SessionInv
    <3>2. PICK packet : packet = [type |-> "chat", id |-> Head(up[c]).id, name |-> mPlayerName[c]]
      OBVIOUS
    <3>3. packet \in DownPacket
      BY <1>1, <3>1, <3>2 DEF DownPacket
    <3>4. Broadcast(packet)
      BY <2>2, <3>2 DEF OnChat
    <3> QED  BY <3>3, <3>4, BroadcastStep
  <2> QED  BY <2>1, <2>2
<1>4. ClientInv'
  BY <1>1, <1>2, <1>3 DEF IInv, ClientInv, clientVars, sessionVars
<1>5. SessionInv' /\ VisitedInv' /\ JobInv'
  BY <1>2, Unchanged DEF IInv
<1> QED  BY <1>2, <1>4, <1>5 DEF IInv, dbVars

(* A move: the session has the position, and so has the player.            *)
LEMMA OnMoveStep ==
  ASSUME IInv, NEW c \in Client, OnMove(c)
  PROVE  IInv'
<1>1. PICK packet \in [type : {"move"}, id : Player, pos : Even] : packet = Head(up[c])
  BY TakeStep DEF OnMove
<1>2. up' \in [Client -> Seq(UpPacket)]
  BY TakeStep DEF OnMove
<1>3. UNCHANGED <<clientVars, mConnected, mPlayerId, mPlayerName, updates, dbVars>>
  BY DEF OnMove
<1>4. packet.id \in Player /\ packet.pos \in Even /\ packet.pos \in Int
  BY DEF Even
<1>5. CASE packet.id # mPlayerId[c]
  <2>1. UNCHANGED <<down, mPos, visited>>
    BY <1>1, <1>5 DEF OnMove
  <2>2. ClientInv'
    BY <1>2, <1>3, <2>1 DEF IInv, ClientInv, clientVars
  <2>3. SessionInv'
    BY <1>3, <2>1 DEF IInv, SessionInv
  <2>4. VisitedInv' /\ JobInv'
    BY <1>3, <2>1, Unchanged DEF IInv
  <2> QED  BY <1>3, <2>2, <2>3, <2>4 DEF IInv, dbVars
<1>6. CASE packet.id = mPlayerId[c]
  <2>1. mPos' = [mPos EXCEPT ![c] = packet.pos] /\ Broadcast(packet)
    BY <1>1, <1>6 DEF OnMove
  <2>2. visited' = [p \in Player |->
          IF p = packet.id THEN visited[p] \cup {packet.pos} ELSE visited[p]]
    BY <1>1, <1>6 DEF OnMove
  <2>3. packet \in DownPacket
    BY DEF DownPacket
  <2>4. down' \in [Client -> Seq(DownPacket)]
    BY <2>1, <2>3, BroadcastStep
  <2>5. ClientInv'
    BY <1>2, <1>3, <2>4 DEF IInv, ClientInv, clientVars
  <2>6. /\ \A p \in Player : visited[p] \subseteq visited'[p]
        /\ packet.pos \in visited'[packet.id]
    BY <1>4, <2>2
  <2>7. VisitedInv'
    <3>1. visited \in [Player -> SUBSET Int]
      BY DEF IInv, VisitedInv
    <3>2. visited' \in [Player -> SUBSET Int]
      BY <1>4, <2>2, <3>1
    <3>3. ASSUME NEW p \in Player, NEW x \in visited'[p] PROVE Float(x) \in visited'[p]
      <4>1. CASE x \in visited[p]
        BY <2>6, <4>1 DEF IInv, VisitedInv
      <4>2. CASE x \notin visited[p]
        <5>1. x = packet.pos
          BY <2>2, <3>3, <4>2
        <5> QED  BY <1>4, <3>3, <5>1, Rounding
      <4> QED  BY <4>1, <4>2
    <3> QED  BY <3>2, <3>3 DEF VisitedInv
  <2>8. SessionInv'
    <3>1. mPos' \in [Client -> Int]
      BY <1>4, <2>1 DEF IInv, SessionInv
    <3>2. ASSUME NEW d \in Client, mPlayerId[d] # NoPlayer
          PROVE  mPos'[d] \in visited'[mPlayerId[d]]
      <4>1. CASE d = c
        <5>1. mPos'[d] = packet.pos
          BY <2>1, <4>1 DEF IInv, SessionInv
        <5> QED  BY <1>6, <2>6, <4>1, <5>1
      <4>2. CASE d # c
        <5>1. mPos'[d] = mPos[d]
          BY <2>1, <4>2 DEF IInv, SessionInv
        <5>2. mPos[d] \in visited[mPlayerId[d]] /\ mPlayerId[d] \in Player
          BY <3>2 DEF IInv, SessionInv
        <5> QED  BY <2>6, <5>1, <5>2
      <4> QED  BY <4>1, <4>2
    <3> QED  BY <1>3, <3>1, <3>2 DEF IInv, SessionInv
  <2>9. JobInv'
    <3>1. JobState(pool, mDbJobRequestQueue, mDbJobResultQueue, table, promised, dbFailed, visited')
      BY <2>6, GrowState DEF IInv, JobInv
    <3> QED  BY <1>3, <3>1 DEF JobInv, dbVars, jobVars
  <2> QED  BY <1>3, <2>5, <2>7, <2>8, <2>9 DEF IInv, dbVars
<1> QED  BY <1>5, <1>6
-----------------------------------------------------------------------------
(* The jobs.                                                               *)

(* A periodic save.                                                        *)
LEMMA UpdateStep ==
  ASSUME IInv, NEW c \in Client, OnDbUpdate(c)
  PROVE  IInv'
<1>1. UNCHANGED <<clientVars, up, down, mConnected, mPlayerId, mPlayerName, mPos,
                  mDbJobResultQueue, table, dbFailed, visited>>
  BY DEF OnDbUpdate
<1>2. mPlayerId[c] \in Player /\ mPos[c] \in Int /\ mPos[c] \in visited[mPlayerId[c]]
  BY DEF IInv, SessionInv, OnDbUpdate
<1>3. updates' \in [Client -> Nat] /\ \A d \in Client : updates'[d] > 0 => updates[d] > 0
  <2>1. updates \in [Client -> Nat] /\ updates[c] > 0
    BY DEF IInv, SessionInv, OnDbUpdate
  <2>2. CASE updates' = updates
    BY <2>1, <2>2
  <2>3. CASE updates' = [updates EXCEPT ![c] = @ - 1]
    BY <2>1, <2>3
  <2> QED  BY <2>2, <2>3 DEF OnDbUpdate
<1>4. SessionInv'
  BY <1>1, <1>3 DEF IInv, SessionInv
<1>5. ClientInv' /\ VisitedInv'
  BY <1>1, Unchanged DEF IInv
<1>6. JobInv'
  <2>1. CASE PushDatabaseJobRequest(Job("Update", c, mPlayerId[c], mPos[c]), pool)
    <3>1. PICK job : job = Job("Update", c, mPlayerId[c], mPos[c])
      OBVIOUS
    <3>2. GoodJob(job, visited)
      BY <1>2, <3>1, NewJob DEF Kind
    <3>3. JobState(pool', mDbJobRequestQueue', mDbJobResultQueue, table, promised', dbFailed,
                   visited)
      BY <2>1, <3>1, <3>2, PushStep DEF IInv, JobInv
    <3> QED  BY <1>1, <3>3 DEF JobInv
  <2>2. CASE UNCHANGED <<pool, mDbJobRequestQueue, promised>>
    BY <1>1, <2>2 DEF IInv, JobInv
  <2> QED  BY <2>1, <2>2 DEF OnDbUpdate
<1> QED  BY <1>1, <1>4, <1>5, <1>6 DEF IInv

(* CreatePlayer: the player will have had the position it is given.        *)
LEMMA CreateStep ==
  ASSUME IInv, NEW p \in Player, NEW x \in Int, CreatePlayer(p, x)
  PROVE  IInv'
<1>1. UNCHANGED <<clientVars, up, down, sessionVars, mDbJobResultQueue, table, dbFailed>>
  BY DEF CreatePlayer
<1>2. visited' = [visited EXCEPT ![p] = @ \cup {x, Float(x)}] /\ visited \in [Player -> SUBSET Int]
  BY DEF IInv, VisitedInv, CreatePlayer
<1>3. Float(x) \in Int /\ Float(Float(x)) = Float(x)
  BY Rounding DEF Even
<1>4. (\A q \in Player : visited[q] \subseteq visited'[q]) /\ x \in visited'[p]
  BY <1>2
<1>5. VisitedInv'
  <2>1. visited' \in [Player -> SUBSET Int]
    BY <1>2, <1>3
  <2>2. ASSUME NEW q \in Player, NEW y \in visited'[q] PROVE Float(y) \in visited'[q]
    <3>1. CASE y \in visited[q]
      BY <1>4, <3>1 DEF IInv, VisitedInv
    <3>2. CASE y \notin visited[q]
      <4>1. q = p /\ y \in {x, Float(x)} /\ Float(x) \in visited'[p]
        BY <1>2, <2>2, <3>2
      <4> QED  BY <1>3, <4>1
    <3> QED  BY <3>1, <3>2
  <2> QED  BY <2>1, <2>2 DEF VisitedInv
<1>6. ClientInv'
  BY <1>1, Unchanged DEF IInv, sessionVars
<1>7. SessionInv'
  BY <1>1, <1>4 DEF IInv, SessionInv, sessionVars
<1>8. JobInv'
  <2>1. PICK V : V = visited'
    OBVIOUS
  <2>2. JobState(pool, mDbJobRequestQueue, mDbJobResultQueue, table, promised, dbFailed, V)
    BY <1>4, <2>1, GrowState DEF IInv, JobInv
  <2>3. PICK job : job = Job("Create", NoPlayer, p, x)
    OBVIOUS
  <2>4. GoodJob(job, V)
    BY <1>4, <2>1, <2>3, NewJob DEF Kind
  <2>5. JobState(pool', mDbJobRequestQueue', mDbJobResultQueue, table, promised', dbFailed, V)
    BY <2>2, <2>3, <2>4, PushStep DEF CreatePlayer
  <2> QED  BY <1>1, <2>1, <2>5 DEF JobInv
<1> QED  BY <1>1, <1>5, <1>6, <1>7, <1>8 DEF IInv

(* DeletePlayer.                                                           *)
LEMMA DeleteStep ==
  ASSUME IInv, NEW p \in Player, DeletePlayer(p)
  PROVE  IInv'
<1>1. UNCHANGED <<clientVars, up, down, sessionVars, mDbJobResultQueue, table, dbFailed, visited>>
  BY DEF DeletePlayer
<1>2. PICK job : job = Job("Delete", NoPlayer, p, 0)
  OBVIOUS
<1>3. GoodJob(job, visited)
  BY <1>2, NewJob DEF Kind
<1>4. JobState(pool', mDbJobRequestQueue', mDbJobResultQueue, table, promised', dbFailed, visited)
  BY <1>2, <1>3, PushStep DEF IInv, JobInv, DeletePlayer
<1>5. JobInv'
  BY <1>1, <1>4 DEF JobInv
<1>6. ClientInv' /\ SessionInv' /\ VisitedInv'
  BY <1>1, Unchanged DEF IInv, sessionVars
<1> QED  BY <1>1, <1>5, <1>6 DEF IInv

(* The database thread.                                                    *)
LEMMA ExecuteStep ==
  ASSUME IInv, ExecuteDatabaseJob
  PROVE  IInv'
<1>1. UNCHANGED <<clientVars, up, down, sessionVars, promised, visited>>
  BY DEF ExecuteDatabaseJob
<1>2. PICK ref : ref = Head(mDbJobRequestQueue)
  OBVIOUS
<1>3. mDbJobRequestQueue # <<>> /\ mDbJobRequestQueue' = Tail(mDbJobRequestQueue)
  BY DEF ExecuteDatabaseJob
<1>4. PICK result :
        /\ \/ result = OnExecute(At(pool, ref), table) /\ dbFailed' = dbFailed
           \/ result = OnExecuteError(At(pool, ref), table) /\ dbFailed' = TRUE
        /\ pool' = Written(pool, ref, result.job) /\ table' = result.table
        /\ mDbJobResultQueue' = Append(mDbJobResultQueue, ref)
  <2>1. CASE dbFailed' = TRUE /\ pool' = Written(pool, ref, OnExecuteError(At(pool, ref), table).job)
             /\ table' = OnExecuteError(At(pool, ref), table).table
    BY <1>2, <2>1 DEF ExecuteDatabaseJob
  <2>2. CASE dbFailed' = dbFailed /\ pool' = Written(pool, ref, OnExecute(At(pool, ref), table).job)
             /\ table' = OnExecute(At(pool, ref), table).table
    BY <1>2, <2>2 DEF ExecuteDatabaseJob
  <2> QED  BY <1>2, <2>1, <2>2 DEF ExecuteDatabaseJob, JobOf, At, Written
<1>5. dbFailed' \in BOOLEAN
  BY <1>4 DEF IInv
<1>6. PICK P, q, r, t, u, f, V, g :
        /\ P = pool /\ q = mDbJobRequestQueue /\ r = mDbJobResultQueue /\ t = table
        /\ u = promised /\ f = dbFailed /\ V = visited /\ g = dbFailed'
  OBVIOUS
<1>7. PICK n : n = Written(P, ref, result.job)
  OBVIOUS
<1>8. JobState(n, Tail(q), Append(r, ref), result.table, u, g, V)
  <2>1. JobState(P, q, r, t, u, f, V) /\ q # <<>> /\ ref = Head(q) /\ g \in BOOLEAN
    BY <1>2, <1>3, <1>5, <1>6 DEF IInv, JobInv
  <2>2. \/ result = OnExecute(At(P, ref), t) /\ g = f
        \/ result = OnExecuteError(At(P, ref), t) /\ g = TRUE
    BY <1>4, <1>6
  <2> QED  BY <1>7, <2>1, <2>2, ExecuteState, Zenon
<1>9. JobInv'
  BY <1>1, <1>3, <1>4, <1>6, <1>7, <1>8 DEF JobInv
<1>10. ClientInv' /\ SessionInv' /\ VisitedInv'
  BY <1>1, Unchanged DEF IInv, sessionVars
<1> QED  BY <1>5, <1>9, <1>10 DEF IInv

(* A result is dispatched: a login, or nothing.                            *)
LEMMA DispatchStep ==
  ASSUME IInv, DispatchDatabaseJobResult
  PROVE  IInv'
<1>1. UNCHANGED <<clientVars, up, joined, mConnected, table, dbFailed, visited>>
  BY DEF DispatchDatabaseJobResult
<1>2. PICK ref : ref = Head(mDbJobResultQueue)
  OBVIOUS
<1>3. PICK job : job = At(pool, ref)
  OBVIOUS
<1>4. PICK deleted : deleted = Freed(pool, ref)
  OBVIOUS
<1>5. mDbJobResultQueue # <<>> /\ mDbJobResultQueue' = Tail(mDbJobResultQueue)
  BY DEF DispatchDatabaseJobResult
<1>6. JobState(deleted, mDbJobRequestQueue, mDbJobResultQueue', table, promised, dbFailed, visited)
  <2>1. PICK P, q, r, t, u, f, V :
          /\ P = pool /\ q = mDbJobRequestQueue /\ r = mDbJobResultQueue /\ t = table
          /\ u = promised /\ f = dbFailed /\ V = visited
    OBVIOUS
  <2>2. JobState(P, q, r, t, u, f, V) /\ r # <<>> /\ ref = Head(r) /\ deleted = Freed(P, ref)
    BY <1>2, <1>4, <1>5, <2>1 DEF IInv, JobInv
  <2>3. JobState(deleted, q, Tail(r), t, u, f, V)
    BY <2>2, DispatchState, Zenon
  <2> QED  BY <1>5, <2>1, <2>3
<1>7. GoodJob(job, visited) /\ job.kind = ref.kind
  <2>1. mDbJobResultQueue \in Seq(Ref) /\ JobsOK(pool, Elems(mDbJobResultQueue), visited)
    BY DEF IInv, JobInv, JobState, QueuesOK, JobsOK
  <2>2. ref \in Elems(mDbJobResultQueue)
    BY <1>2, <1>5, <2>1, EmptySeq DEF Elems
  <2> QED  BY <1>3, <2>1, <2>2 DEF JobsOK
<1>8. \/ ref.kind = "Load" /\ job.mSuccess /\ LoginDone(job.mSockKey, job, deleted)
      \/ /\ pool' = deleted
         /\ UNCHANGED <<mPlayerId, mPlayerName, mPos, down, updates, mDbJobRequestQueue, promised>>
  BY <1>2, <1>3, <1>4 DEF DispatchDatabaseJobResult, JobOf, At, Freed
<1>9. CASE ref.kind = "Load" /\ job.mSuccess /\ LoginDone(job.mSockKey, job, deleted)
  <2>1. PICK c, p, x : c = job.mSockKey /\ p = job.mPlayerId /\ x = Float(job.mPos)
    OBVIOUS
  <2>2. /\ c \in Client /\ p \in Player /\ job.mPlayerName = p /\ job.mPos \in visited[p]
        /\ job.mPos \in Int
    BY <1>7, <1>9, <2>1 DEF GoodJob, JobRecord
  <2>3. x \in Even /\ x \in Int /\ x \in visited[p]
    BY <2>1, <2>2, Rounding DEF IInv, VisitedInv, Even
  <2>4. /\ mPlayerId' = [mPlayerId EXCEPT ![c] = p] /\ mPlayerName' = [mPlayerName EXCEPT ![c] = p]
        /\ mPos' = [mPos EXCEPT ![c] = x] /\ updates' = [updates EXCEPT ![c] = @ + 1]
    BY <1>9, <2>1, <2>2 DEF LoginDone
  <2>5. down' = [down EXCEPT ![c] = Append(@, [type |-> "login", id |-> p, pos |-> x])]
    BY <1>9, <2>1, <2>2 DEF LoginDone
  <2>6. PushDatabaseJobRequest(Job("Update", c, p, x), deleted)
    BY <1>9, <2>1, <2>2 DEF LoginDone
  <2>7. ClientInv'
    <3>1. [type |-> "login", id |-> p, pos |-> x] \in DownPacket
      BY <2>2, <2>3 DEF DownPacket
    <3>2. down' \in [Client -> Seq(DownPacket)]
      BY <2>2, <2>5, <3>1 DEF IInv, ClientInv
    <3> QED  BY <1>1, <3>2 DEF IInv, ClientInv, clientVars
  <2>8. SessionInv'
    <3>1. /\ mPlayerId \in [Client -> Player \cup {NoPlayer}] /\ mPlayerName \in [Client -> Name]
          /\ mPos \in [Client -> Int] /\ updates \in [Client -> Nat]
      BY DEF IInv, SessionInv
    <3>2. /\ mPlayerId' \in [Client -> Player \cup {NoPlayer}] /\ mPlayerName' \in [Client -> Name]
          /\ mPos' \in [Client -> Int] /\ updates' \in [Client -> Nat]
      <4>1. p \in Name
        BY <2>2 DEF Name
      <4>2. mPlayerId' \in [Client -> Player \cup {NoPlayer}] /\ mPlayerName' \in [Client -> Name]
        BY <2>2, <2>4, <3>1, <4>1
      <4>3. mPos' \in [Client -> Int] /\ updates' \in [Client -> Nat]
        BY <2>2, <2>3, <2>4, <3>1
      <4> QED  BY <4>2, <4>3
    <3>3. ASSUME NEW d \in Client
          PROVE  /\ mPlayerId'[d] # NoPlayer =>
                      mPlayerName'[d] = mPlayerId'[d] /\ mPos'[d] \in visited[mPlayerId'[d]]
                 /\ updates'[d] > 0 => mPlayerId'[d] # NoPlayer
      <4>1. CASE d = c
        <5>1. mPlayerId'[d] = p /\ mPlayerName'[d] = p /\ mPos'[d] = x
          BY <2>2, <2>4, <3>1, <4>1
        <5> QED  BY <2>2, <2>3, <5>1, PlayersAssumption
      <4>2. CASE d # c
        <5>1. /\ mPlayerId'[d] = mPlayerId[d] /\ mPlayerName'[d] = mPlayerName[d]
              /\ mPos'[d] = mPos[d] /\ updates'[d] = updates[d]
          BY <2>4, <3>1, <4>2
        <5> QED  BY <5>1 DEF IInv, SessionInv
      <4> QED  BY <4>1, <4>2
    <3> QED  BY <1>1, <3>2, <3>3 DEF SessionInv
  <2>9. JobInv'
    <3>1. PICK j : j = Job("Update", c, p, x)
      OBVIOUS
    <3>2. GoodJob(j, visited)
      BY <2>2, <2>3, <3>1, NewJob DEF Kind
    <3>3. PICK r : r = mDbJobResultQueue'
      OBVIOUS
    <3>4. JobState(pool', mDbJobRequestQueue', r, table, promised', dbFailed, visited)
      <4>1. JobState(deleted, mDbJobRequestQueue, r, table, promised, dbFailed, visited)
        BY <1>6, <3>3
      <4>2. PushDatabaseJobRequest(j, deleted)
        BY <2>6, <3>1
      <4> QED  BY <3>2, <4>1, <4>2, PushStep, Zenon
    <3> QED  BY <1>1, <3>3, <3>4 DEF JobInv
  <2>10. VisitedInv'
    BY <1>1, Unchanged DEF IInv
  <2> QED  BY <1>1, <2>7, <2>8, <2>9, <2>10 DEF IInv
<1>10. CASE /\ pool' = deleted
            /\ UNCHANGED <<mPlayerId, mPlayerName, mPos, down, updates, mDbJobRequestQueue, promised>>
  <2>1. JobInv'
    BY <1>1, <1>6, <1>10 DEF JobInv
  <2>2. ClientInv' /\ SessionInv' /\ VisitedInv'
    BY <1>1, <1>10, Unchanged DEF IInv, sessionVars
  <2> QED  BY <1>1, <2>1, <2>2 DEF IInv
<1> QED  BY <1>8, <1>9, <1>10
-----------------------------------------------------------------------------
(* The theorems.                                                           *)

(* Every step keeps the invariant.                                         *)
LEMMA NextInv == IInv /\ [Next]_vars => IInv'
<1> SUFFICES ASSUME IInv, [Next]_vars PROVE IInv'
  OBVIOUS
<1>1. ASSUME NEW c \in Client,
             \/ OnKeyReleased(c) \/ ProcessPacket(c) \/ RunCallback(c)
             \/ HandleReadPayload(c) \/ OnTick(c) \/ SendPacketThrows(c)
             \/ GetInstance(c) \/ HandleConnect(c) \/ Disconnect(c)
             \/ OnLogin(c) \/ OnChat(c) \/ OnMove(c) \/ OnDbUpdate(c)
      PROVE  IInv'
  BY <1>1, KeyStep, ProcessStep, CallbackStep, ReadStep, TickStep, ThrowStep, JoinStep,
     DisconnectStep, OnLoginStep, OnChatStep, OnMoveStep, UpdateStep
<1>2. ASSUME NEW p \in Player, CreatePlayer(p, Start + 1) \/ DeletePlayer(p) PROVE IInv'
  <2>1. Start + 1 \in Int
    BY PlayersAssumption
  <2> QED  BY <1>2, <2>1, CreateStep, DeleteStep
<1>3. ASSUME UNCHANGED vars PROVE IInv'
  <2>1. UNCHANGED <<clientVars, up, down, sessionVars, dbVars, visited>>
    BY <1>3 DEF vars
  <2>2. UNCHANGED mConnected /\ UNCHANGED dbFailed
    BY <2>1 DEF sessionVars, dbVars
  <2> QED  BY <2>1, <2>2, Unchanged DEF IInv
<1> QED  BY <1>1, <1>2, <1>3, ExecuteStep, DispatchStep DEF Next

(* The invariant holds in every state.                                     *)
LEMMA Invariance == Spec => []IInv
BY InitInv, NextInv, PTL DEF Spec

(* The invariant gives the property of packets.                            *)
LEMMA PacketsFollow == IInv => PacketsOfPlayers
<1> SUFFICES ASSUME IInv, NEW c \in Client, NEW i \in DOMAIN down[c]
             PROVE  /\ down[c][i].id \in Player
                    /\ down[c][i].type = "chat" => down[c][i].name = down[c][i].id
  BY DEF PacketsOfPlayers
<1>1. PICK x \in DownPacket : x = down[c][i]
  BY DEF IInv, ClientInv
<1> QED  BY <1>1, DownFields

(* It gives the property of positions.                                     *)
LEMMA PositionsFollow == IInv => OwnPositions
BY DEF IInv, SessionInv, JobInv, JobState, GoodTable, OwnPositions

(* It gives the property of logins.                                        *)
LEMMA LoginsFollow == IInv => LoginsSeeSaves
<1> SUFFICES ASSUME IInv, NEW i \in DOMAIN mDbJobResultQueue, ~dbFailed
             PROVE  Outcome(JobOf(mDbJobResultQueue[i])) = JobOf(mDbJobResultQueue[i]).expected
  BY DEF LoginsSeeSaves
<1>1. PICK x : x = mDbJobResultQueue[i]
  OBVIOUS
<1>2. Settled(pool, Elems(mDbJobResultQueue)) /\ x \in Elems(mDbJobResultQueue)
  BY <1>1 DEF IInv, JobInv, JobState, Elems
<1>3. Outcome(At(pool, x)) = At(pool, x).expected
  BY <1>2 DEF Settled
<1> QED  BY <1>1, <1>3 DEF JobOf, At

\* The references of kind k in the two queues, and the blocks U that they name.
RefsName(q, r, k, U) ==
  LET refs == q \o r
      Refs == {i \in DOMAIN refs : refs[i].kind = k}
  IN {refs[i].block : i \in Refs} = U /\ Cardinality(Refs) = Cardinality(U)

(* The references of a kind are as many as the blocks they name.           *)
LEMMA RefsOfKind ==
  ASSUME NEW q \in Seq(Ref), NEW r \in Seq(Ref), Distinct(q), Distinct(r),
         Elems(q) \cap Elems(r) = {}, NEW k \in Kind, IsFiniteSet(BlocksOf(Elems(q) \cup Elems(r), k))
  PROVE  RefsName(q, r, k, BlocksOf(Elems(q) \cup Elems(r), k))
<1>1. PICK refs \in Seq(Ref) : refs = q \o r
  BY ConcatProperties
<1>2. PICK n \in Nat : n = Len(q)
  OBVIOUS
<1>3. PICK m \in Nat : m = Len(r)
  OBVIOUS
<1>4. Len(refs) = n + m /\ DOMAIN refs = 1 .. n + m
  BY <1>1, <1>2, <1>3
<1>5. \A i \in 1 .. n : refs[i] = q[i] /\ q[i] \in Elems(q)
  BY <1>1, <1>2, <1>3, SMTT(30) DEF Elems
<1>6. \A i \in n + 1 .. n + m : refs[i] = r[i - n] /\ i - n \in 1 .. m /\ r[i - n] \in Elems(r)
  <2> SUFFICES ASSUME NEW i \in n + 1 .. n + m
               PROVE  refs[i] = r[i - n] /\ i - n \in 1 .. m /\ r[i - n] \in Elems(r)
    OBVIOUS
  <2>1. i \in 1 .. n + m /\ ~(i <= n) /\ i - n \in 1 .. m
    OBVIOUS
  <2>2. refs[i] = r[i - n]
    BY <1>1, <1>2, <1>3, <2>1, ConcatProperties
  <2>3. r[i - n] \in Elems(r)
    BY <1>3, <2>1, SMTT(30) DEF Elems
  <2> QED  BY <2>1, <2>2, <2>3
<1>7. \A i \in 1 .. n + m : refs[i] \in Elems(q) \cup Elems(r) /\ refs[i] \in Ref
  BY <1>1, <1>4, <1>5, <1>6
<1>8. \A x \in Elems(q) \cup Elems(r) : \E i \in 1 .. n + m : refs[i] = x
  <2>1. ASSUME NEW x \in Elems(q) PROVE \E i \in 1 .. n + m : refs[i] = x
    <3>1. PICK i \in 1 .. n : x = q[i]
      BY <1>2 DEF Elems
    <3>2. i \in 1 .. n + m /\ refs[i] = x
      BY <1>5, <3>1
    <3> QED  BY <3>2
  <2>2. ASSUME NEW x \in Elems(r) PROVE \E i \in 1 .. n + m : refs[i] = x
    <3>1. PICK i \in 1 .. m : x = r[i]
      BY <1>3 DEF Elems
    <3>2. n + i \in n + 1 .. n + m /\ (n + i) - n = i /\ n + i \in 1 .. n + m
      OBVIOUS
    <3>3. refs[n + i] = x
      BY <1>6, <3>1, <3>2
    <3> QED  BY <3>2, <3>3
  <2> QED  BY <2>1, <2>2
<1>9. ASSUME NEW i \in 1 .. n + m, NEW j \in 1 .. n + m, refs[i] = refs[j] PROVE i = j
  <2>1. CASE i \in 1 .. n /\ j \in 1 .. n
    BY <1>2, <1>5, <1>9, <2>1, SMTT(30) DEF Distinct
  <2>2. CASE i \in n + 1 .. n + m /\ j \in n + 1 .. n + m
    <3>1. i - n \in 1 .. m /\ j - n \in 1 .. m /\ r[i - n] = r[j - n]
      BY <1>6, <1>9, <2>2
    <3>2. i - n = j - n
      <4>1. PICK a \in 1 .. m : a = i - n
        BY <3>1
      <4>2. PICK b \in 1 .. m : b = j - n
        BY <3>1
      <4>3. a \in DOMAIN r /\ b \in DOMAIN r /\ r[a] = r[b]
        BY <1>3, <3>1, <4>1, <4>2
      <4>4. a = b
        BY <4>3 DEF Distinct
      <4> QED  BY <4>1, <4>2, <4>4
    <3> QED  BY <3>2
  <2>3. CASE i \in 1 .. n /\ j \in n + 1 .. n + m
    BY <1>5, <1>6, <1>9, <2>3
  <2>4. CASE j \in 1 .. n /\ i \in n + 1 .. n + m
    BY <1>5, <1>6, <1>9, <2>4
  <2> QED  BY <2>1, <2>2, <2>3, <2>4
<1> DEFINE Refs == {i \in 1 .. n + m : refs[i].kind = k}
           blocks == BlocksOf(Elems(q) \cup Elems(r), k)
           f == [i \in Refs |-> refs[i].block]
<1>10. \A i \in Refs : refs[i] = [kind |-> k, block |-> refs[i].block] /\ refs[i].block \in blocks
  BY <1>7 DEF BlocksOf, Ref
<1>11. \A b \in blocks : \E i \in Refs : refs[i].block = b
  <2> SUFFICES ASSUME NEW b \in blocks PROVE \E i \in Refs : refs[i].block = b
    OBVIOUS
  <2>1. [kind |-> k, block |-> b] \in Elems(q) \cup Elems(r)
    BY DEF BlocksOf
  <2>2. PICK i \in 1 .. n + m : refs[i] = [kind |-> k, block |-> b]
    BY <1>8, <2>1
  <2> QED  BY <2>2
<1>12. {refs[i].block : i \in Refs} = blocks
  BY <1>10, <1>11
<1>13. f \in Bijection(Refs, blocks)
  <2>1. f \in [Refs -> blocks]
    BY <1>10
  <2>2. ASSUME NEW i \in Refs, NEW j \in Refs, f[i] = f[j] PROVE i = j
    <3>1. refs[i] = refs[j]
      BY <1>10, <2>2
    <3> QED  BY <1>9, <3>1
  <2>3. \A b \in blocks : \E i \in Refs : f[i] = b
    BY <1>11
  <2>4. DOMAIN f = Refs
    OBVIOUS
  <2> HIDE DEF f, Refs, blocks
  <2>5. f \in Injection(Refs, blocks)
    BY <2>1, <2>2, <2>4 DEF Injection, IsInjective
  <2>6. f \in Surjection(Refs, blocks)
    BY <2>1, <2>3 DEF Surjection
  <2> QED  BY <2>5, <2>6 DEF Bijection
<1>14. IsFiniteSet(Refs)
  <2>1. IsFiniteSet(1 .. n + m)
    BY FS_Interval
  <2> QED  BY <2>1, FS_Subset
<1>15. Cardinality(Refs) = Cardinality(blocks)
  <2> HIDE DEF f, Refs, blocks
  <2>1. ExistsBijection(Refs, blocks)
    BY <1>13, Zenon DEF ExistsBijection
  <2> QED  BY <1>14, <2>1, FS_Bijection
<1>16. Refs = {i \in DOMAIN refs : refs[i].kind = k}
  BY <1>4
<1> QED  BY <1>1, <1>12, <1>15, <1>16 DEF RefsName

(* It gives the property of blocks.                                        *)
LEMMA BlocksFollow == IInv => JobsOwned
<1> SUFFICES ASSUME IInv PROVE JobsOwned
  OBVIOUS
<1>1. PICK q, r : q = mDbJobRequestQueue /\ r = mDbJobResultQueue
  OBVIOUS
<1>2. QueuesOK(pool, q, r)
  BY <1>1 DEF IInv, JobInv, JobState
<1> DEFINE refs == mDbJobRequestQueue \o mDbJobResultQueue
           Refs(k) == {i \in DOMAIN refs : refs[i].kind = k}
<1>3. ASSUME NEW k \in Kind
      PROVE  /\ {refs[i].block : i \in Refs(k)} = DOMAIN pool[k].memory \ FreeBlocks(pool[k])
             /\ Cardinality(Refs(k)) = pool[k].mCurrentUseCount
             /\ Cardinality(FreeBlocks(pool[k])) + pool[k].mCurrentUseCount = Len(pool[k].memory)
  <2>1. PICK U : U = BlocksOf(Elems(q) \cup Elems(r), k)
    OBVIOUS
  <2>2. PICK p \in PoolType : p = pool[k] /\ Owns(p, U)
    BY <1>2, <2>1 DEF QueuesOK, PoolsHold
  <2>3. /\ U = (1 .. Len(p.memory)) \ FreeBlocks(p)
        /\ Cardinality(FreeBlocks(p)) + p.mCurrentUseCount = Len(p.memory)
        /\ IsFiniteSet(U) /\ Cardinality(U) = p.mCurrentUseCount
    BY <2>2, FreeBlocksOfOwns
  <2>4. DOMAIN p.memory = 1 .. Len(p.memory)
    BY DEF PoolType
  <2>5. {refs[i].block : i \in Refs(k)} = U /\ Cardinality(Refs(k)) = Cardinality(U)
    <3>1. /\ q \in Seq(Ref) /\ r \in Seq(Ref) /\ Distinct(q) /\ Distinct(r)
          /\ Elems(q) \cap Elems(r) = {} /\ IsFiniteSet(BlocksOf(Elems(q) \cup Elems(r), k))
      BY <1>2, <2>1, <2>3 DEF QueuesOK
    <3>2. RefsName(q, r, k, BlocksOf(Elems(q) \cup Elems(r), k))
      BY <3>1, RefsOfKind, Zenon
    <3> QED  BY <1>1, <2>1, <3>2 DEF RefsName
  <2> QED  BY <2>2, <2>3, <2>4, <2>5
<1> QED  BY <1>3, Zenon DEF JobsOwned

(* No packet to a client carries an id that is no player's, and a chat     *)
(* carries its player's name.  A session takes part only under the id of a *)
(* login that succeeded, and its name is the one of the row loaded, which  *)
(* the table keeps for each id (PKT_CS_CHAT, PKT_CS_MOVE, LoginDone).      *)
THEOREM PacketSafety == Spec => []PacketsOfPlayers
BY Invariance, PacketsFollow, PTL

(* Unless the database fails, every job that is done came out as it would  *)
(* have, had each job been executed at once when it was pushed             *)
(* (PushDatabaseJobRequest, ExecuteDatabaseJobs).                          *)
THEOREM OrderSafety == Spec => []LoginsSeeSaves
BY Invariance, LoginsFollow, PTL

(* Rows and sessions hold only positions that their player has had,        *)
(* whatever is queued (LoginDone, OnDbUpdate, PKT_CS_MOVE).                *)
THEOREM PositionSafety == Spec => []OwnPositions
BY Invariance, PositionsFollow, PTL

(* The jobs in the queues and the free list share the blocks of a pool out *)
(* between them, for any ALLOC_COUNT (operator new, operator delete).      *)
THEOREM BlockSafety == Spec => []JobsOwned
BY Invariance, BlocksFollow, PTL
-----------------------------------------------------------------------------
(* What the clients see.                                                   *)

\* g is in s and nothing after it is in B; nothing in s is in B.
LastIn(s, B, g) == \E i \in DOMAIN s : s[i] = g /\ \A j \in DOMAIN s : j > i => s[j] \notin B
NoneIn(s, B) == \A i \in DOMAIN s : s[i] \notin B

Logins == {m \in DownPacket : m.type = "login"}
MovesOf(p) == {m \in DownPacket : m.type = "move" /\ m.id = p}
MoveTo(p, x) == [type |-> "move", id |-> p, pos |-> x]

Mine == {f \in Callback : f.call = "updateMe"}
Theirs(p) == {f \in Callback : f.call = "updatePeer" /\ f.id = p}
DrawMe(x) == [call |-> "updateMe", pos |-> x]
DrawPeer(p, x) == [call |-> "updatePeer", id |-> p, pos |-> x]

(* A client has packets s and functions f before it, draws itself at       *)
(* sprite and its peers as peers says, and has the id id.  Once s is taken *)
(* it has the id me.                                                       *)
IdView(s, id, me) ==
  \/ \E g \in Elems(s) : g \in Logins /\ g.id = me /\ LastIn(s, Logins, g)
  \/ NoneIn(s, Logins) /\ id = me

\* Once s is taken and f is run, it draws itself, as p, at x.
OwnView(s, f, sprite, p, x) ==
  \/ LastIn(s, Logins \cup MovesOf(p), MoveTo(p, x))
  \/ NoneIn(s, Logins \cup MovesOf(p)) /\ LastIn(f, Mine, DrawMe(x))
  \/ NoneIn(s, Logins \cup MovesOf(p)) /\ NoneIn(f, Mine) /\ sprite = x

\* The last move of p on the way is to x, and finds the client with another id.
Pending(s, id, p, x) ==
  \E i \in DOMAIN s :
    /\ s[i] = MoveTo(p, x) /\ \A j \in DOMAIN s : j > i => s[j] \notin MovesOf(p)
    /\ \/ \E k \in DOMAIN s : /\ k < i /\ s[k] \in Logins /\ s[k].id # p
                              /\ \A j \in DOMAIN s : k < j /\ j < i => s[j] \notin Logins
       \/ id # p /\ \A j \in DOMAIN s : j < i => s[j] \notin Logins

\* Once s is taken and f is run, it draws a peer p at x.
PeerView(s, f, peers, id, p, x) ==
  \/ Pending(s, id, p, x)
  \/ NoneIn(s, MovesOf(p)) /\ LastIn(f, Theirs(p), DrawPeer(p, x))
  \/ NoneIn(s, MovesOf(p)) /\ NoneIn(f, Theirs(p)) /\ p \in DOMAIN peers /\ peers[p] = x

\* Connections: nothing is on its way before and after.
LinkInv ==
  /\ joined \in [Client -> BOOLEAN] /\ told \in [Client -> SUBSET Client]
  /\ mPeerMap = [c \in Client |-> mPeerMap[c]]
  /\ \A c \in Client :
       /\ ~joined[c] => ~mConnected[c] /\ mPlayerId[c] = NoPlayer
                        /\ (c \notin Dummy => m_loginId[c] = NoPlayer)
       /\ ~mConnected[c] => up[c] = <<>> /\ down[c] = <<>>
       /\ \A d \in told[c] : mConnected[d]
       /\ told[c] # {} => mConnected[c] /\ mPlayerId[c] \in Player

\* Every login on its way is of the player id.
OwnLogins(s, id) == \A i \in DOMAIN s : s[i].type = "login" => s[i].id = id

\* A dummy client plays the player it has from the start, and draws nothing.
DummyInv ==
  \A d \in Dummy :
    /\ callbacks[d] = <<>> /\ OwnLogins(up[d], m_loginId[d])
    /\ mPlayerId[d] # NoPlayer => mPlayerId[d] = m_loginId[d]

\* So does a login of it that is at the database.
OwnLoad(job, ids) ==
  job.kind = "Load" /\ job.mSockKey \in Dummy => job.mPlayerId = ids[job.mSockKey]

OwnLoads(pools, S, ids) == \A x \in S : OwnLoad(At(pools, x), ids)

LoadInv == OwnLoads(pool, Elems(mDbJobRequestQueue) \cup Elems(mDbJobResultQueue), m_loginId)

IdInv ==
  \A c \in Client \ Dummy : mConnected[c] => IdView(down[c], m_loginId[c], mPlayerId[c])

OwnInv ==
  \A c \in Client : told[c] # {} =>
    OwnView(down[c], callbacks[c], mPlayerSprite[c], mPlayerId[c], mPos[c])

PeerInv ==
  \A c \in Client : \A d \in told[c] \ (Dummy \cup {c}) :
    PeerView(down[d], callbacks[d], mPeerMap[d], m_loginId[d], mPlayerId[c], mPos[c])

ViewInv == LinkInv /\ DummyInv /\ LoadInv /\ IdInv /\ OwnInv /\ PeerInv

(* A queue with one more element, which is not in B.                       *)
LEMMA AppendNone ==
  ASSUME NEW S, NEW s \in Seq(S), NEW x \in S, NEW B, x \notin B, NoneIn(s, B)
  PROVE  NoneIn(Append(s, x), B)
<1>1. PICK n \in Nat : n = Len(s)
  OBVIOUS
<1>2. PICK a : a = Append(s, x)
  OBVIOUS
<1>3. DOMAIN a = 1 .. n + 1 /\ a[n + 1] = x /\ \A i \in 1 .. n : a[i] = s[i]
  BY <1>1, <1>2
<1>4. \A i \in 1 .. n : s[i] \notin B
  BY <1>1 DEF NoneIn
<1>5. NoneIn(a, B)
  BY <1>3, <1>4 DEF NoneIn
<1> QED  BY <1>2, <1>5

(* What was last stays last.                                               *)
LEMMA AppendKeeps ==
  ASSUME NEW S, NEW s \in Seq(S), NEW x \in S, NEW B, x \notin B, NEW g, LastIn(s, B, g)
  PROVE  LastIn(Append(s, x), B, g)
<1>1. PICK n \in Nat : n = Len(s)
  OBVIOUS
<1>2. PICK a : a = Append(s, x)
  OBVIOUS
<1>3. DOMAIN a = 1 .. n + 1 /\ a[n + 1] = x /\ \A i \in 1 .. n : a[i] = s[i]
  BY <1>1, <1>2
<1>4. PICK i \in 1 .. n : s[i] = g /\ \A j \in 1 .. n : j > i => s[j] \notin B
  BY <1>1 DEF LastIn
<1>5. i \in DOMAIN a /\ a[i] = g
  BY <1>3, <1>4
<1>6. ASSUME NEW j \in DOMAIN a, j > i PROVE a[j] \notin B
  <2>1. CASE j = n + 1
    BY <1>3, <2>1
  <2>2. CASE j # n + 1
    BY <1>3, <1>4, <1>6, <2>2
  <2> QED  BY <2>1, <2>2
<1>7. LastIn(a, B, g)
  BY <1>5, <1>6 DEF LastIn
<1> QED  BY <1>2, <1>7

(* The element put at the end is last.                                     *)
LEMMA AppendLast ==
  ASSUME NEW S, NEW s \in Seq(S), NEW g \in S, NEW B
  PROVE  LastIn(Append(s, g), B, g) /\ g \in Elems(Append(s, g))
<1>1. PICK n \in Nat : n = Len(s)
  OBVIOUS
<1>2. PICK a : a = Append(s, g)
  OBVIOUS
<1>3. DOMAIN a = 1 .. n + 1 /\ a[n + 1] = g /\ n + 1 \in DOMAIN a
  BY <1>1, <1>2
<1>4. \A j \in DOMAIN a : ~(j > n + 1)
  BY <1>3
<1>5. LastIn(a, B, g) /\ g \in Elems(a)
  BY <1>3, <1>4 DEF LastIn, Elems
<1> QED  BY <1>2, <1>5

(* The first of a queue is taken.                                          *)
LEMMA TailParts ==
  ASSUME NEW S, NEW s \in Seq(S), s # <<>>
  PROVE  /\ Head(s) \in S /\ Tail(s) \in Seq(S) /\ Head(s) \in Elems(s)
         /\ \E n \in Nat : /\ DOMAIN s = 1 .. n + 1 /\ DOMAIN Tail(s) = 1 .. n
                           /\ s[1] = Head(s) /\ \A i \in 1 .. n : Tail(s)[i] = s[i + 1]
<1>1. PICK m \in Nat : m = Len(s) /\ m > 0
  BY EmptySeq
<1>2. PICK t : t = Tail(s)
  OBVIOUS
<1>3. /\ t \in Seq(S) /\ Len(t) = m - 1 /\ Head(s) = s[1] /\ Head(s) \in S
      /\ \A i \in 1 .. m - 1 : t[i] = s[i + 1]
  BY <1>1, <1>2
<1>4. PICK n \in Nat : n = m - 1 /\ m = n + 1
  <2>1. m - 1 \in Nat /\ m = (m - 1) + 1
    BY <1>1
  <2> QED  BY <2>1
<1>5. DOMAIN s = 1 .. n + 1 /\ DOMAIN t = 1 .. n /\ 1 \in 1 .. n + 1
  BY <1>1, <1>3, <1>4
<1>6. Head(s) \in Elems(s)
  BY <1>3, <1>5 DEF Elems
<1>7. \A i \in 1 .. n : t[i] = s[i + 1]
  BY <1>3, <1>4
<1> QED  BY <1>2, <1>3, <1>5, <1>6, <1>7

(* What is in none of it is not in the rest.                               *)
LEMMA TailNone ==
  ASSUME NEW S, NEW s \in Seq(S), s # <<>>, NEW B, NoneIn(s, B)
  PROVE  NoneIn(Tail(s), B) /\ Head(s) \notin B
<1>1. PICK t : t = Tail(s)
  OBVIOUS
<1>2. PICK n \in Nat : /\ DOMAIN s = 1 .. n + 1 /\ DOMAIN t = 1 .. n
                       /\ s[1] = Head(s) /\ \A i \in 1 .. n : t[i] = s[i + 1]
  BY <1>1, TailParts
<1>3. 1 \in 1 .. n + 1 /\ \A i \in 1 .. n : i + 1 \in 1 .. n + 1
  OBVIOUS
<1>4. \A i \in 1 .. n + 1 : s[i] \notin B
  BY <1>2 DEF NoneIn
<1>5. NoneIn(t, B)
  BY <1>2, <1>3, <1>4 DEF NoneIn
<1> QED  BY <1>1, <1>2, <1>3, <1>4, <1>5

(* What was last is last in the rest, or was taken.                        *)
LEMMA TailLast ==
  ASSUME NEW S, NEW s \in Seq(S), s # <<>>, NEW B, NEW g, LastIn(s, B, g)
  PROVE  \/ LastIn(Tail(s), B, g) /\ g \in Elems(Tail(s))
         \/ Head(s) = g /\ NoneIn(Tail(s), B)
<1>1. PICK t : t = Tail(s)
  OBVIOUS
<1>2. PICK n \in Nat : /\ DOMAIN s = 1 .. n + 1 /\ DOMAIN t = 1 .. n
                       /\ s[1] = Head(s) /\ \A i \in 1 .. n : t[i] = s[i + 1]
  BY <1>1, TailParts
<1>3. PICK i \in 1 .. n + 1 : s[i] = g /\ \A j \in 1 .. n + 1 : j > i => s[j] \notin B
  BY <1>2 DEF LastIn
<1>4. CASE i = 1
  <2>1. \A j \in 1 .. n : j + 1 \in 1 .. n + 1 /\ j + 1 > i
    BY <1>4
  <2>2. NoneIn(t, B)
    BY <1>2, <1>3, <2>1 DEF NoneIn
  <2> QED  BY <1>1, <1>2, <1>3, <1>4, <2>2
<1>5. CASE i # 1
  <2>1. PICK k \in 1 .. n : k + 1 = i
    <3>1. i - 1 \in 1 .. n /\ (i - 1) + 1 = i
      BY <1>5
    <3> QED  BY <3>1
  <2>2. t[k] = g
    BY <1>2, <1>3, <2>1
  <2>3. \A j \in 1 .. n : j > k => t[j] \notin B
    <3>1. \A j \in 1 .. n : j > k => j + 1 \in 1 .. n + 1 /\ j + 1 > i
      BY <2>1
    <3> QED  BY <1>2, <1>3, <3>1
  <2>4. LastIn(t, B, g) /\ g \in Elems(t)
    BY <1>2, <2>2, <2>3 DEF LastIn, Elems
  <2> QED  BY <1>1, <2>4
<1> QED  BY <1>4, <1>5

\* What a game client makes of a packet, and of a function.
NewId(h, id) == IF h.type = "login" THEN h.id ELSE id

Call(h, id) ==
  IF h.type = "chat" THEN [call |-> "chatDraw"]
  ELSE IF h.id = id THEN DrawMe(h.pos) ELSE DrawPeer(h.id, h.pos)

NewCalls(h, id, f) == IF h.type = "login" THEN f ELSE Append(f, Call(h, id))

NewSprite(h, sprite) == IF h.call = "updateMe" THEN h.pos ELSE sprite

NewPeers(h, peers) ==
  IF h.call = "updatePeer"
  THEN [q \in DOMAIN peers \cup {h.id} |-> IF q = h.id THEN h.pos ELSE peers[q]]
  ELSE peers

(* The kinds of packets and functions.                                     *)
LEMMA Kinds ==
  /\ \A h \in DownPacket :
       /\ h.type \in {"login", "chat", "move"} /\ h.id \in Player
       /\ h.type # "chat" => h.pos \in Even
       /\ h.type = "login" <=> h \in Logins
       /\ \A p : h \in MovesOf(p) <=> h.type = "move" /\ h.id = p
  /\ \A f \in Callback :
       /\ f.call \in {"chatDraw", "updateMe", "updatePeer"}
       /\ f \in Mine <=> f.call = "updateMe"
       /\ \A p : f \in Theirs(p) <=> f.call = "updatePeer" /\ f.id = p
<1>1. ASSUME NEW h \in DownPacket
      PROVE  h.type \in {"login", "chat", "move"} /\ h.id \in Player /\ (h.type # "chat" => h.pos \in Even)
  <2>1. CASE h \in [type : {"login", "move"}, id : Player, pos : Even]
    BY <2>1
  <2>2. CASE h \in {[type |-> "chat", id |-> p, name |-> p] : p \in Player}
    BY <2>2
  <2> QED  BY <2>1, <2>2 DEF DownPacket
<1>2. ASSUME NEW h \in DownPacket
      PROVE  /\ h.type = "login" <=> h \in Logins
             /\ \A p : h \in MovesOf(p) <=> h.type = "move" /\ h.id = p
  BY DEF Logins, MovesOf
<1>3. ASSUME NEW f \in Callback PROVE f.call \in {"chatDraw", "updateMe", "updatePeer"}
  BY DEF Callback
<1>4. ASSUME NEW f \in Callback
      PROVE  /\ f \in Mine <=> f.call = "updateMe"
             /\ \A p : f \in Theirs(p) <=> f.call = "updatePeer" /\ f.id = p
  BY DEF Mine, Theirs
<1> QED  BY <1>1, <1>2, <1>3, <1>4

(* What is drawn for a packet.                                             *)
LEMMA Calls ==
  ASSUME NEW h \in DownPacket, h.type # "login", NEW id
  PROVE  /\ Call(h, id) \in Callback
         /\ Call(h, id) \in Mine => h.type = "move" /\ h.id = id
         /\ \A p : Call(h, id) \in Theirs(p) => h.type = "move" /\ h.id = p
<1>1. h.type \in {"chat", "move"} /\ h.id \in Player /\ (h.type # "chat" => h.pos \in Even)
  BY Kinds
<1>2. CASE h.type = "chat"
  <2>1. Call(h, id) = [call |-> "chatDraw"]
    BY <1>2 DEF Call
  <2> QED  BY <2>1 DEF Callback, Mine, Theirs
<1>3. CASE h.type = "move" /\ h.id = id
  <2>1. Call(h, id) = [call |-> "updateMe", pos |-> h.pos]
    BY <1>3 DEF Call, DrawMe
  <2> QED  BY <1>1, <1>3, <2>1 DEF Callback, Mine, Theirs
<1>4. CASE h.type = "move" /\ h.id # id
  <2>1. Call(h, id) = [call |-> "updatePeer", id |-> h.id, pos |-> h.pos]
    BY <1>4 DEF Call, DrawPeer
  <2> QED  BY <1>1, <1>4, <2>1 DEF Callback, Mine, Theirs
<1> QED  BY <1>1, <1>2, <1>3, <1>4

(* A packet that is no login leaves the id that a client will have.        *)
LEMMA AppendId ==
  ASSUME NEW s \in Seq(DownPacket), NEW y \in DownPacket, y \notin Logins, NEW id, NEW me,
         IdView(s, id, me)
  PROVE  IdView(Append(s, y), id, me)
<1>1. CASE NoneIn(s, Logins) /\ id = me
  <2>1. NoneIn(Append(s, y), Logins)
    BY <1>1, AppendNone
  <2> QED  BY <1>1, <2>1 DEF IdView
<1>2. ASSUME NEW g \in Elems(s), g \in Logins, g.id = me, LastIn(s, Logins, g)
      PROVE  IdView(Append(s, y), id, me)
  <2>1. LastIn(Append(s, y), Logins, g)
    BY <1>2, AppendKeeps
  <2>2. g \in Elems(Append(s, y))
    BY <2>1 DEF LastIn, Elems
  <2> QED  BY <1>2, <2>1, <2>2 DEF IdView
<1> QED  BY <1>1, <1>2 DEF IdView

(* A login gives it its id.                                                *)
LEMMA AppendLogin ==
  ASSUME NEW s \in Seq(DownPacket), NEW y \in Logins, NEW id
  PROVE  IdView(Append(s, y), id, y.id)
<1>1. y \in DownPacket
  BY DEF Logins
<1>2. LastIn(Append(s, y), Logins, y) /\ y \in Elems(Append(s, y))
  BY <1>1, AppendLast
<1> QED  BY <1>2 DEF IdView

(* Taking a packet leaves it.                                              *)
LEMMA TakenId ==
  ASSUME NEW s \in Seq(DownPacket), s # <<>>, NEW id, NEW me, IdView(s, id, me)
  PROVE  IdView(Tail(s), NewId(Head(s), id), me)
<1>1. PICK h \in DownPacket : h = Head(s)
  BY TailParts
<1>2. CASE NoneIn(s, Logins) /\ id = me
  <2>1. NoneIn(Tail(s), Logins) /\ h \notin Logins
    BY <1>1, <1>2, TailNone
  <2>2. NewId(h, id) = me
    BY <1>2, <2>1, Kinds DEF NewId
  <2> QED  BY <1>1, <2>1, <2>2 DEF IdView
<1>3. ASSUME NEW g \in Elems(s), g \in Logins, g.id = me, LastIn(s, Logins, g)
      PROVE  IdView(Tail(s), NewId(h, id), me)
  <2>1. CASE LastIn(Tail(s), Logins, g) /\ g \in Elems(Tail(s))
    BY <1>3, <2>1 DEF IdView
  <2>2. CASE h = g /\ NoneIn(Tail(s), Logins)
    <3>1. NewId(h, id) = me
      BY <1>3, <2>2, Kinds DEF NewId
    <3> QED  BY <2>2, <3>1 DEF IdView
  <2> QED  BY <1>1, <1>3, <2>1, <2>2, TailLast
<1> QED  BY <1>1, <1>2, <1>3 DEF IdView

(* A packet that is not about p leaves where a client will draw itself.    *)
LEMMA AppendOwn ==
  ASSUME NEW s \in Seq(DownPacket), NEW y \in DownPacket, NEW p, y \notin Logins, y \notin MovesOf(p),
         NEW f, NEW sprite, NEW x, OwnView(s, f, sprite, p, x)
  PROVE  OwnView(Append(s, y), f, sprite, p, x)
<1>1. PICK B : B = Logins \cup MovesOf(p)
  OBVIOUS
<1>2. y \notin B
  BY <1>1
<1>3. PICK g : g = MoveTo(p, x)
  OBVIOUS
<1>4. LastIn(s, B, g) => LastIn(Append(s, y), B, g)
  BY <1>2, AppendKeeps
<1>5. NoneIn(s, B) => NoneIn(Append(s, y), B)
  BY <1>2, AppendNone
<1> QED  BY <1>1, <1>3, <1>4, <1>5 DEF OwnView

(* A game client takes a packet: if it will have the id p, this leaves     *)
(* where it will draw itself as p.                                         *)
LEMMA TakenOwn ==
  ASSUME NEW s \in Seq(DownPacket), s # <<>>, NEW f \in Seq(Callback), NEW id, NEW p, NEW x,
         NEW sprite, IdView(s, id, p), OwnView(s, f, sprite, p, x)
  PROVE  OwnView(Tail(s), NewCalls(Head(s), id, f), sprite, p, x)
<1>1. PICK h \in DownPacket : h = Head(s)
  BY TailParts
<1>2. PICK B : B = Logins \cup MovesOf(p)
  OBVIOUS
<1>3. PICK g : g = MoveTo(p, x)
  OBVIOUS
<1>4. ASSUME NoneIn(Tail(s), B), h \notin Logins PROVE id = p
  <2>1. NoneIn(Tail(s), Logins)
    BY <1>2, <1>4 DEF NoneIn
  <2>2. IdView(Tail(s), NewId(h, id), p)
    BY <1>1, TakenId
  <2>3. NewId(h, id) = p
    BY <2>1, <2>2 DEF IdView, LastIn, NoneIn, Elems
  <2> QED  BY <1>4, <2>3, Kinds DEF NewId
<1>5. CASE LastIn(s, B, g)
  <2>1. CASE LastIn(Tail(s), B, g)
    BY <1>2, <1>3, <2>1 DEF OwnView
  <2>2. CASE h = g /\ NoneIn(Tail(s), B)
    <3>1. h.type = "move" /\ h.id = p /\ h.pos = x
      BY <1>3, <2>2 DEF MoveTo
    <3>2. id = p
      BY <1>4, <2>2, <3>1, Kinds
    <3>3. NewCalls(h, id, f) = Append(f, DrawMe(x)) /\ DrawMe(x) \in Callback
      <4>1. Call(h, id) = DrawMe(x)
        BY <3>1, <3>2 DEF Call
      <4>2. h.type # "login" /\ Call(h, id) \in Callback
        BY <3>1, Calls
      <4>3. NewCalls(h, id, f) = Append(f, Call(h, id))
        BY <4>2 DEF NewCalls
      <4>4. DrawMe(x) \in Callback
        BY <4>1, <4>2, Zenon
      <4> QED  BY <4>1, <4>3, <4>4, Zenon
    <3>4. LastIn(NewCalls(h, id, f), Mine, DrawMe(x))
      BY <3>3, AppendLast
    <3> QED  BY <1>1, <1>2, <2>2, <3>4 DEF OwnView
  <2> QED  BY <1>1, <1>5, <2>1, <2>2, TailLast
<1>6. CASE NoneIn(s, B)
  <2>1. NoneIn(Tail(s), B) /\ h \notin B
    BY <1>1, <1>6, TailNone
  <2>2. h \notin Logins /\ h \notin MovesOf(p) /\ id = p
    BY <1>2, <1>4, <2>1
  <2>3. NewCalls(h, id, f) = Append(f, Call(h, id)) /\ Call(h, id) \in Callback /\ Call(h, id) \notin Mine
    BY <2>2, Calls, Kinds DEF NewCalls
  <2>4. LastIn(f, Mine, DrawMe(x)) => LastIn(NewCalls(h, id, f), Mine, DrawMe(x))
    BY <2>3, AppendKeeps
  <2>5. NoneIn(f, Mine) => NoneIn(NewCalls(h, id, f), Mine)
    BY <2>3, AppendNone
  <2>6. \/ NoneIn(s, B) /\ LastIn(f, Mine, DrawMe(x))
        \/ NoneIn(s, B) /\ NoneIn(f, Mine) /\ sprite = x
        \/ LastIn(s, B, g)
    BY <1>2, <1>3 DEF OwnView
  <2>7. CASE LastIn(s, B, g)
    BY <1>1, <1>5, <2>7
  <2> QED  BY <1>1, <1>2, <1>3, <1>5, <2>1, <2>4, <2>5, <2>6, <2>7 DEF OwnView
<1> QED  BY <1>1, <1>2, <1>3, <1>5, <1>6 DEF OwnView

(* A dummy client takes a packet.                                          *)
LEMMA ReadOwn ==
  ASSUME NEW s \in Seq(DownPacket), s # <<>>, NEW p, NEW x, NEW sprite, OwnView(s, <<>>, sprite, p, x),
         NEW new, new = IF Head(s).type = "move" /\ Head(s).id = p THEN Head(s).pos ELSE sprite
  PROVE  OwnView(Tail(s), <<>>, new, p, x)
<1>1. PICK h \in DownPacket : h = Head(s)
  BY TailParts
<1>2. PICK B : B = Logins \cup MovesOf(p)
  OBVIOUS
<1>3. PICK g : g = MoveTo(p, x)
  OBVIOUS
<1>4. NoneIn(<<>>, Mine) /\ ~LastIn(<<>>, Mine, DrawMe(x))
  BY DEF NoneIn, LastIn
<1>5. CASE LastIn(s, B, g)
  <2>1. CASE LastIn(Tail(s), B, g)
    BY <1>2, <1>3, <2>1 DEF OwnView
  <2>2. CASE h = g /\ NoneIn(Tail(s), B)
    <3>1. new = x
      BY <1>1, <1>3, <2>2 DEF MoveTo
    <3> QED  BY <1>2, <1>4, <2>2, <3>1 DEF OwnView
  <2> QED  BY <1>1, <1>5, <2>1, <2>2, TailLast
<1>6. CASE NoneIn(s, B) /\ sprite = x
  <2>1. NoneIn(Tail(s), B) /\ h \notin B
    BY <1>1, <1>6, TailNone
  <2>2. new = x
    BY <1>1, <1>2, <1>6, <2>1, Kinds
  <2> QED  BY <1>2, <1>4, <2>1, <2>2 DEF OwnView
<1> QED  BY <1>2, <1>3, <1>4, <1>5, <1>6 DEF OwnView

(* A function is run.                                                      *)
LEMMA RunOwn ==
  ASSUME NEW s, NEW f \in Seq(Callback), f # <<>>, NEW p, NEW x, NEW sprite, OwnView(s, f, sprite, p, x)
  PROVE  OwnView(s, Tail(f), NewSprite(Head(f), sprite), p, x)
<1>1. PICK h \in Callback : h = Head(f)
  BY TailParts
<1>2. CASE LastIn(f, Mine, DrawMe(x)) /\ NoneIn(s, Logins \cup MovesOf(p))
  <2>1. CASE LastIn(Tail(f), Mine, DrawMe(x))
    BY <1>2, <2>1 DEF OwnView
  <2>2. CASE h = DrawMe(x) /\ NoneIn(Tail(f), Mine)
    <3>1. NewSprite(h, sprite) = x
      BY <2>2 DEF NewSprite, DrawMe
    <3> QED  BY <1>1, <1>2, <2>2, <3>1 DEF OwnView
  <2> QED  BY <1>1, <1>2, <2>1, <2>2, TailLast
<1>3. CASE NoneIn(f, Mine) /\ NoneIn(s, Logins \cup MovesOf(p)) /\ sprite = x
  <2>1. NoneIn(Tail(f), Mine) /\ h \notin Mine
    BY <1>1, <1>3, TailNone
  <2>2. NewSprite(h, sprite) = x
    BY <1>3, <2>1, Kinds DEF NewSprite
  <2> QED  BY <1>1, <1>3, <2>1, <2>2 DEF OwnView
<1> QED  BY <1>2, <1>3 DEF OwnView

(* A packet that is no move of p leaves the one on its way.                *)
LEMMA AppendPending ==
  ASSUME NEW s \in Seq(DownPacket), NEW y \in DownPacket, NEW p, y \notin MovesOf(p), NEW id, NEW x,
         Pending(s, id, p, x)
  PROVE  Pending(Append(s, y), id, p, x)
<1>1. PICK n \in Nat : n = Len(s)
  OBVIOUS
<1>2. PICK a : a = Append(s, y)
  OBVIOUS
<1>3. DOMAIN a = 1 .. n + 1 /\ a[n + 1] = y /\ DOMAIN s = 1 .. n /\ \A i \in 1 .. n : a[i] = s[i]
  BY <1>1, <1>2
<1>4. PICK i \in 1 .. n :
        /\ s[i] = MoveTo(p, x) /\ \A j \in 1 .. n : j > i => s[j] \notin MovesOf(p)
        /\ \/ \E k \in 1 .. n : /\ k < i /\ s[k] \in Logins /\ s[k].id # p
                                /\ \A j \in 1 .. n : k < j /\ j < i => s[j] \notin Logins
           \/ id # p /\ \A j \in 1 .. n : j < i => s[j] \notin Logins
  BY <1>3 DEF Pending
<1>5. i \in 1 .. n + 1 /\ a[i] = MoveTo(p, x)
  BY <1>3, <1>4
<1>6. ASSUME NEW j \in 1 .. n + 1, j > i PROVE a[j] \notin MovesOf(p)
  <2>1. CASE j = n + 1
    BY <1>3, <2>1
  <2>2. CASE j # n + 1
    BY <1>3, <1>4, <1>6, <2>2
  <2> QED  BY <2>1, <2>2
<1>7. \A j \in 1 .. n + 1 : j < i => j \in 1 .. n
  OBVIOUS
<1>8. CASE id # p /\ \A j \in 1 .. n : j < i => s[j] \notin Logins
  <2>1. \A j \in 1 .. n + 1 : j < i => a[j] \notin Logins
    BY <1>3, <1>7, <1>8
  <2>2. Pending(a, id, p, x)
    BY <1>3, <1>5, <1>6, <1>8, <2>1 DEF Pending
  <2> QED  BY <1>2, <2>2
<1>9. ASSUME NEW k \in 1 .. n, k < i, s[k] \in Logins, s[k].id # p,
             \A j \in 1 .. n : k < j /\ j < i => s[j] \notin Logins
      PROVE  Pending(Append(s, y), id, p, x)
  <2>1. \A j \in 1 .. n + 1 : k < j /\ j < i => a[j] \notin Logins
    BY <1>3, <1>7, <1>9
  <2>2. k \in 1 .. n + 1 /\ a[k] \in Logins /\ a[k].id # p
    BY <1>3, <1>9
  <2>3. Pending(a, id, p, x)
    BY <1>3, <1>5, <1>6, <1>9, <2>1, <2>2 DEF Pending
  <2> QED  BY <1>2, <2>3
<1> QED  BY <1>4, <1>8, <1>9

(* A move of p to a client that will have another id.                      *)
LEMMA NewPending ==
  ASSUME NEW s \in Seq(DownPacket), NEW p, NEW x, MoveTo(p, x) \in DownPacket, NEW id, NEW me, me # p,
         IdView(s, id, me)
  PROVE  Pending(Append(s, MoveTo(p, x)), id, p, x)
<1>1. PICK n \in Nat : n = Len(s)
  OBVIOUS
<1>2. PICK g \in DownPacket : g = MoveTo(p, x)
  OBVIOUS
<1>3. PICK a : a = Append(s, g)
  OBVIOUS
<1>4. DOMAIN a = 1 .. n + 1 /\ a[n + 1] = g /\ DOMAIN s = 1 .. n /\ \A i \in 1 .. n : a[i] = s[i]
  BY <1>1, <1>3
<1>5. n + 1 \in 1 .. n + 1 /\ \A j \in 1 .. n + 1 : ~(j > n + 1) /\ (j < n + 1 => j \in 1 .. n)
  OBVIOUS
<1>6. CASE NoneIn(s, Logins) /\ id = me
  <2>1. \A j \in 1 .. n + 1 : j < n + 1 => a[j] \notin Logins
    BY <1>4, <1>5, <1>6 DEF NoneIn
  <2>2. Pending(a, id, p, x)
    BY <1>2, <1>4, <1>5, <1>6, <2>1 DEF Pending
  <2> QED  BY <1>2, <1>3, <2>2
<1>7. ASSUME NEW h, h \in Logins, h.id = me, LastIn(s, Logins, h)
      PROVE  Pending(Append(s, MoveTo(p, x)), id, p, x)
  <2>1. PICK k \in 1 .. n : s[k] = h /\ \A j \in 1 .. n : j > k => s[j] \notin Logins
    BY <1>4, <1>7 DEF LastIn
  <2>2. k \in 1 .. n + 1 /\ k < n + 1 /\ a[k] \in Logins /\ a[k].id # p
    BY <1>4, <1>7, <2>1
  <2>3. \A j \in 1 .. n + 1 : k < j /\ j < n + 1 => a[j] \notin Logins
    BY <1>4, <1>5, <2>1
  <2>4. Pending(a, id, p, x)
    BY <1>2, <1>4, <1>5, <2>2, <2>3 DEF Pending
  <2> QED  BY <1>2, <1>3, <2>4
<1> QED  BY <1>6, <1>7 DEF IdView

(* A packet is taken, which may be the move.                               *)
LEMMA TailPending ==
  ASSUME NEW s \in Seq(DownPacket), s # <<>>, NEW id, NEW p, NEW x, Pending(s, id, p, x)
  PROVE  \/ Pending(Tail(s), NewId(Head(s), id), p, x)
         \/ Head(s) = MoveTo(p, x) /\ id # p /\ NoneIn(Tail(s), MovesOf(p))
<1>1. PICK t : t = Tail(s)
  OBVIOUS
<1>2. PICK n \in Nat : /\ DOMAIN s = 1 .. n + 1 /\ DOMAIN t = 1 .. n
                       /\ s[1] = Head(s) /\ \A i \in 1 .. n : t[i] = s[i + 1]
  BY <1>1, TailParts
<1>3. PICK h \in DownPacket : h = Head(s)
  BY TailParts
<1>4. PICK i \in 1 .. n + 1 :
        /\ s[i] = MoveTo(p, x) /\ \A j \in 1 .. n + 1 : j > i => s[j] \notin MovesOf(p)
        /\ \/ \E k \in 1 .. n + 1 : /\ k < i /\ s[k] \in Logins /\ s[k].id # p
                                    /\ \A j \in 1 .. n + 1 : k < j /\ j < i => s[j] \notin Logins
           \/ id # p /\ \A j \in 1 .. n + 1 : j < i => s[j] \notin Logins
  BY <1>2 DEF Pending
<1>5. CASE i = 1
  <2>1. \A k \in 1 .. n + 1 : ~(k < i)
    BY <1>5
  <2>2. \A j \in 1 .. n : j + 1 \in 1 .. n + 1 /\ j + 1 > i
    BY <1>5
  <2>3. NoneIn(t, MovesOf(p))
    BY <1>2, <1>4, <2>2 DEF NoneIn
  <2> QED  BY <1>1, <1>2, <1>4, <1>5, <2>1, <2>3
<1>6. CASE i # 1
  <2>1. PICK m \in 1 .. n : m + 1 = i
    <3>1. i - 1 \in 1 .. n /\ (i - 1) + 1 = i
      BY <1>6
    <3> QED  BY <3>1
  <2>2. t[m] = MoveTo(p, x)
    BY <1>2, <1>4, <2>1
  <2>3. \A j \in 1 .. n : j > m => t[j] \notin MovesOf(p)
    <3>1. \A j \in 1 .. n : j > m => j + 1 \in 1 .. n + 1 /\ j + 1 > i
      BY <2>1
    <3> QED  BY <1>2, <1>4, <3>1
  <2>4. \A j \in 1 .. n : j < m => j + 1 \in 1 .. n + 1 /\ j + 1 < i
    BY <2>1
  <2>5. CASE id # p /\ \A j \in 1 .. n + 1 : j < i => s[j] \notin Logins
    <3>1. \A j \in 1 .. n : j < m => t[j] \notin Logins
      BY <1>2, <2>4, <2>5
    <3>2. 1 \in 1 .. n + 1 /\ 1 < i
      BY <1>6
    <3>3. h \notin Logins
      BY <1>2, <1>3, <2>5, <3>2
    <3>4. NewId(h, id) # p
      BY <2>5, <3>3, Kinds DEF NewId
    <3>5. Pending(t, NewId(h, id), p, x)
      BY <1>2, <2>2, <2>3, <3>1, <3>4 DEF Pending
    <3> QED  BY <1>1, <1>3, <3>5
  <2>6. ASSUME NEW k \in 1 .. n + 1, k < i, s[k] \in Logins, s[k].id # p,
               \A j \in 1 .. n + 1 : k < j /\ j < i => s[j] \notin Logins
        PROVE  Pending(t, NewId(h, id), p, x)
    <3>1. CASE k = 1
      <4>1. h \in Logins /\ h.id # p
        BY <1>2, <1>3, <2>6, <3>1
      <4>2. NewId(h, id) # p
        BY <4>1, Kinds DEF NewId
      <4>3. \A j \in 1 .. n : j < m => t[j] \notin Logins
        <5>1. \A j \in 1 .. n : k < j + 1
          BY <3>1
        <5> QED  BY <1>2, <2>4, <2>6, <5>1
      <4> QED  BY <1>2, <2>2, <2>3, <4>2, <4>3 DEF Pending
    <3>2. CASE k # 1
      <4>1. PICK l \in 1 .. n : l + 1 = k /\ l < m
        <5>1. k - 1 \in 1 .. n /\ (k - 1) + 1 = k /\ k - 1 < m
          BY <2>1, <2>6, <3>2
        <5> QED  BY <5>1
      <4>2. t[l] \in Logins /\ t[l].id # p
        BY <1>2, <2>6, <4>1
      <4>3. \A j \in 1 .. n : l < j /\ j < m => t[j] \notin Logins
        <5>1. \A j \in 1 .. n : l < j => k < j + 1
          BY <4>1
        <5> QED  BY <1>2, <2>4, <2>6, <5>1
      <4> QED  BY <1>2, <2>2, <2>3, <4>1, <4>2, <4>3 DEF Pending
    <3> QED  BY <3>1, <3>2
  <2> QED  BY <1>1, <1>3, <1>4, <2>5, <2>6
<1> QED  BY <1>5, <1>6

(* A packet that is no move of p leaves where a client will draw p.        *)
LEMMA AppendPeer ==
  ASSUME NEW s \in Seq(DownPacket), NEW y \in DownPacket, NEW p, y \notin MovesOf(p),
         NEW f, NEW peers, NEW id, NEW x, PeerView(s, f, peers, id, p, x)
  PROVE  PeerView(Append(s, y), f, peers, id, p, x)
<1>1. Pending(s, id, p, x) => Pending(Append(s, y), id, p, x)
  BY AppendPending
<1>2. NoneIn(s, MovesOf(p)) => NoneIn(Append(s, y), MovesOf(p))
  BY AppendNone
<1> QED  BY <1>1, <1>2 DEF PeerView

(* So does taking a packet.                                                *)
LEMMA TakenPeer ==
  ASSUME NEW s \in Seq(DownPacket), s # <<>>, NEW f \in Seq(Callback), NEW peers, NEW id, NEW p, NEW x,
         PeerView(s, f, peers, id, p, x)
  PROVE  PeerView(Tail(s), NewCalls(Head(s), id, f), peers, NewId(Head(s), id), p, x)
<1>1. PICK h \in DownPacket : h = Head(s)
  BY TailParts
<1>2. PICK B : B = MovesOf(p)
  OBVIOUS
<1>3. CASE Pending(s, id, p, x)
  <2>1. CASE Pending(Tail(s), NewId(h, id), p, x)
    BY <1>1, <2>1 DEF PeerView
  <2>2. CASE h = MoveTo(p, x) /\ id # p /\ NoneIn(Tail(s), B)
    <3>1. h.type = "move" /\ h.id = p /\ h.pos = x
      BY <2>2 DEF MoveTo
    <3>2. NewCalls(h, id, f) = Append(f, DrawPeer(p, x)) /\ DrawPeer(p, x) \in Callback
      <4>1. Call(h, id) = DrawPeer(p, x)
        BY <2>2, <3>1 DEF Call
      <4>2. h.type # "login" /\ Call(h, id) \in Callback
        BY <3>1, Calls
      <4> QED  BY <4>1, <4>2 DEF NewCalls
    <3>3. LastIn(NewCalls(h, id, f), Theirs(p), DrawPeer(p, x))
      BY <3>2, AppendLast
    <3> QED  BY <1>1, <1>2, <2>2, <3>3 DEF PeerView
  <2> QED  BY <1>1, <1>2, <1>3, <2>1, <2>2, TailPending
<1>4. CASE NoneIn(s, B)
  <2>1. NoneIn(Tail(s), B) /\ h \notin B
    BY <1>1, <1>4, TailNone
  <2>2. CASE h.type = "login"
    <3>1. NewCalls(h, id, f) = f
      BY <2>2 DEF NewCalls
    <3>2. CASE Pending(s, id, p, x)
      BY <1>3, <3>2
    <3> QED  BY <1>1, <1>2, <2>1, <3>1, <3>2 DEF PeerView
  <2>3. CASE h.type # "login"
    <3>1. NewCalls(h, id, f) = Append(f, Call(h, id)) /\ Call(h, id) \in Callback
      BY <2>3, Calls DEF NewCalls
    <3>2. Call(h, id) \notin Theirs(p)
      BY <1>2, <2>1, <2>3, Calls, Kinds
    <3>3. LastIn(f, Theirs(p), DrawPeer(p, x)) => LastIn(NewCalls(h, id, f), Theirs(p), DrawPeer(p, x))
      BY <3>1, <3>2, AppendKeeps
    <3>4. NoneIn(f, Theirs(p)) => NoneIn(NewCalls(h, id, f), Theirs(p))
      BY <3>1, <3>2, AppendNone
    <3>5. CASE Pending(s, id, p, x)
      BY <1>3, <3>5
    <3> QED  BY <1>1, <1>2, <2>1, <3>3, <3>4, <3>5 DEF PeerView
  <2> QED  BY <2>2, <2>3
<1> QED  BY <1>2, <1>3, <1>4 DEF PeerView

(* So does running a function.                                             *)
LEMMA RunPeer ==
  ASSUME NEW s, NEW f \in Seq(Callback), f # <<>>, NEW peers, NEW id, NEW p, NEW x,
         PeerView(s, f, peers, id, p, x)
  PROVE  PeerView(s, Tail(f), NewPeers(Head(f), peers), id, p, x)
<1>1. PICK h \in Callback : h = Head(f)
  BY TailParts
<1>2. CASE LastIn(f, Theirs(p), DrawPeer(p, x)) /\ NoneIn(s, MovesOf(p))
  <2>1. CASE LastIn(Tail(f), Theirs(p), DrawPeer(p, x))
    BY <1>2, <2>1 DEF PeerView
  <2>2. CASE h = DrawPeer(p, x) /\ NoneIn(Tail(f), Theirs(p))
    <3>1. h.call = "updatePeer" /\ h.id = p /\ h.pos = x
      BY <2>2 DEF DrawPeer
    <3>2. p \in DOMAIN NewPeers(h, peers) /\ NewPeers(h, peers)[p] = x
      BY <3>1 DEF NewPeers
    <3> QED  BY <1>1, <1>2, <2>2, <3>2 DEF PeerView
  <2> QED  BY <1>1, <1>2, <2>1, <2>2, TailLast
<1>3. CASE NoneIn(f, Theirs(p)) /\ NoneIn(s, MovesOf(p)) /\ p \in DOMAIN peers /\ peers[p] = x
  <2>1. NoneIn(Tail(f), Theirs(p)) /\ h \notin Theirs(p)
    BY <1>1, <1>3, TailNone
  <2>2. p \in DOMAIN NewPeers(h, peers) /\ NewPeers(h, peers)[p] = x
    BY <1>3, <2>1, Kinds DEF NewPeers
  <2> QED  BY <1>1, <1>3, <2>1, <2>2 DEF PeerView
<1> QED  BY <1>2, <1>3 DEF PeerView

(* What a step leaves alone.                                               *)
LEMMA SameViews ==
  /\ LinkInv /\ UNCHANGED <<joined, told, mPeerMap, mConnected, mPlayerId, m_loginId, up, down>> => LinkInv'
  /\ DummyInv /\ UNCHANGED <<callbacks, up, m_loginId, mPlayerId>> => DummyInv'
  /\ LoadInv /\ UNCHANGED <<pool, mDbJobRequestQueue, mDbJobResultQueue, m_loginId>> => LoadInv'
  /\ IdInv /\ UNCHANGED <<mConnected, down, m_loginId, mPlayerId>> => IdInv'
  /\ OwnInv /\ UNCHANGED <<told, down, callbacks, mPlayerSprite, mPlayerId, mPos>> => OwnInv'
  /\ PeerInv /\ UNCHANGED <<told, down, callbacks, mPeerMap, m_loginId, mPlayerId, mPos>> => PeerInv'
<1>1. LinkInv /\ UNCHANGED <<joined, told, mPeerMap, mConnected, mPlayerId, m_loginId, up, down>> => LinkInv'
  BY DEF LinkInv
<1>2. DummyInv /\ UNCHANGED <<callbacks, up, m_loginId, mPlayerId>> => DummyInv'
  BY DEF DummyInv
<1>3. LoadInv /\ UNCHANGED <<pool, mDbJobRequestQueue, mDbJobResultQueue, m_loginId>> => LoadInv'
  BY DEF LoadInv
<1>4. IdInv /\ UNCHANGED <<mConnected, down, m_loginId, mPlayerId>> => IdInv'
  BY DEF IdInv
<1>5. OwnInv /\ UNCHANGED <<told, down, callbacks, mPlayerSprite, mPlayerId, mPos>> => OwnInv'
  BY DEF OwnInv
<1>6. PeerInv /\ UNCHANGED <<told, down, callbacks, mPeerMap, m_loginId, mPlayerId, mPos>> => PeerInv'
  BY DEF PeerInv
<1> QED  BY <1>1, <1>2, <1>3, <1>4, <1>5, <1>6

(* At first nothing is on its way and nobody has moved.                    *)
LEMMA InitViews == Init => ViewInv
<1> SUFFICES ASSUME Init PROVE ViewInv
  OBVIOUS
<1>1. LinkInv
  BY DEF Init, DummyIds, LinkInv
<1>2. DummyInv
  <2>1. \A id : OwnLogins(<<>>, id)
    BY DEF OwnLogins
  <2>2. \A c \in Client : callbacks[c] = <<>> /\ up[c] = <<>> /\ mPlayerId[c] = NoPlayer
    BY DEF Init
  <2> QED  BY <2>1, <2>2, PlayersAssumption DEF DummyInv
<1>3. LoadInv
  <2>1. mDbJobRequestQueue = <<>> /\ mDbJobResultQueue = <<>>
    BY DEF Init
  <2>2. Elems(<<>>) = {}
    BY DEF Elems
  <2> QED  BY <2>1, <2>2 DEF LoadInv, OwnLoads
<1>4. IdInv
  BY DEF Init, IdInv
<1>5. OwnInv /\ PeerInv
  BY DEF Init, OwnInv, PeerInv
<1> QED  BY <1>1, <1>2, <1>3, <1>4, <1>5 DEF ViewInv

(* One more packet to the server, of a kind or of the player.              *)
LEMMA AppendLogins ==
  ASSUME NEW s \in Seq(UpPacket), NEW y \in UpPacket, NEW id, OwnLogins(s, id),
         y.type = "login" => y.id = id
  PROVE  OwnLogins(Append(s, y), id)
<1>1. PICK n \in Nat : n = Len(s)
  OBVIOUS
<1>2. PICK a : a = Append(s, y)
  OBVIOUS
<1>3. DOMAIN a = 1 .. n + 1 /\ a[n + 1] = y /\ DOMAIN s = 1 .. n /\ \A i \in 1 .. n : a[i] = s[i]
  BY <1>1, <1>2
<1>4. OwnLogins(a, id)
  BY <1>3 DEF OwnLogins
<1> QED  BY <1>2, <1>4

(* A packet of the server is taken.                                        *)
LEMMA TailLogins ==
  ASSUME NEW s \in Seq(UpPacket), s # <<>>, NEW id, OwnLogins(s, id)
  PROVE  OwnLogins(Tail(s), id) /\ (Head(s).type = "login" => Head(s).id = id)
<1>1. PICK t : t = Tail(s)
  OBVIOUS
<1>2. PICK n \in Nat : /\ DOMAIN s = 1 .. n + 1 /\ DOMAIN t = 1 .. n
                       /\ s[1] = Head(s) /\ \A i \in 1 .. n : t[i] = s[i + 1]
  BY <1>1, TailParts
<1>3. 1 \in 1 .. n + 1 /\ \A i \in 1 .. n : i + 1 \in 1 .. n + 1
  OBVIOUS
<1>4. OwnLogins(t, id)
  BY <1>2, <1>3 DEF OwnLogins
<1> QED  BY <1>1, <1>2, <1>3, <1>4 DEF OwnLogins

(* What is on its way to the server alone changes.                         *)
LEMMA UpViews ==
  ASSUME ViewInv, LoadInv', UNCHANGED <<clientVars, down, sessionVars, told>>,
         \A c \in Client : ~mConnected[c] => up'[c] = <<>>,
         \A d \in Dummy : OwnLogins(up'[d], m_loginId[d])
  PROVE  ViewInv'
<1>1. LinkInv'
  BY DEF ViewInv, LinkInv, clientVars, sessionVars
<1>2. DummyInv'
  BY DEF ViewInv, DummyInv, clientVars, sessionVars
<1>3. IdInv' /\ OwnInv' /\ PeerInv'
  BY SameViews DEF ViewInv, clientVars, sessionVars
<1> QED  BY <1>1, <1>2, <1>3 DEF ViewInv

(* A packet is sent: a dummy client asks for no login.                     *)
LEMMA SendViews ==
  ASSUME IInv, ViewInv, NEW c \in Client, NEW packet \in UpPacket, Send(c, packet),
         c \in Dummy => packet.type # "login",
         UNCHANGED <<clientVars, down, sessionVars, dbVars, told>>
  PROVE  ViewInv'
<1>1. up \in [Client -> Seq(UpPacket)]
  BY DEF IInv, ClientInv
<1>2. ASSUME NEW d \in Client, ~mConnected[d] PROVE up'[d] = <<>>
  BY <1>1, <1>2 DEF Send, ViewInv, LinkInv
<1>3. ASSUME NEW d \in Dummy PROVE OwnLogins(up'[d], m_loginId[d])
  <2>1. OwnLogins(up[d], m_loginId[d]) /\ d \in Client
    BY PlayersAssumption DEF ViewInv, DummyInv
  <2>2. CASE up'[d] = up[d]
    BY <2>1, <2>2
  <2>3. CASE d = c /\ up'[d] = Append(up[d], packet)
    <3>1. up[d] \in Seq(UpPacket) /\ packet.type # "login"
      BY <1>1, <2>1, <2>3
    <3> QED  BY <2>1, <2>3, <3>1, AppendLogins
  <2> QED  BY <1>1, <2>1, <2>2, <2>3 DEF Send
<1>4. LoadInv'
  BY SameViews DEF ViewInv, clientVars, dbVars, jobVars
<1> QED  BY <1>2, <1>3, <1>4, UpViews

(* A move is no login.                                                     *)
LEMMA MoveViews ==
  ASSUME IInv, ViewInv, NEW c \in Client, NEW x \in Even, MoveRequest(c, x)
  PROVE  ViewInv'
<1>1. m_loginId[c] \in Player
  BY DEF IInv, ClientInv, MoveRequest
<1>2. PICK packet : packet = [type |-> "move", id |-> m_loginId[c], pos |-> x]
  OBVIOUS
<1>3. packet \in UpPacket /\ packet.type # "login"
  BY <1>1, <1>2 DEF UpPacket
<1> QED  BY <1>2, <1>3, SendViews DEF MoveRequest

(* Nor is a chat.                                                          *)
LEMMA ChatViews ==
  ASSUME IInv, ViewInv, NEW c \in Client, ChatRequest(c)
  PROVE  ViewInv'
<1>1. m_loginId[c] \in Player
  BY DEF IInv, ClientInv, ChatRequest
<1>2. PICK packet : packet = [type |-> "chat", id |-> m_loginId[c]]
  OBVIOUS
<1>3. packet \in UpPacket /\ packet.type # "login"
  BY <1>1, <1>2 DEF UpPacket
<1> QED  BY <1>2, <1>3, SendViews DEF ChatRequest

(* A key of a game client.                                                 *)
LEMMA KeyViews ==
  ASSUME IInv, ViewInv, NEW c \in Client, OnKeyReleased(c)
  PROVE  ViewInv'
<1>1. ASSUME NEW n \in Steps, MoveRequest(c, mPlayerSprite[c] + n) PROVE ViewInv'
  BY <1>1, StepIsEven, MoveViews
<1>2. ASSUME NEW p \in Player, LoginRequest(c, p) PROVE ViewInv'
  <2>1. PICK packet : packet = [type |-> "login", id |-> p]
    OBVIOUS
  <2>2. packet \in UpPacket /\ c \notin Dummy
    BY <2>1 DEF UpPacket, OnKeyReleased
  <2> QED  BY <1>2, <2>1, <2>2, SendViews DEF LoginRequest
<1>3. ASSUME ChatRequest(c) PROVE ViewInv'
  BY <1>3, ChatViews
<1> QED  BY <1>1, <1>2, <1>3 DEF OnKeyReleased

(* The timer of a dummy client.                                            *)
LEMMA TickViews ==
  ASSUME IInv, ViewInv, NEW c \in Client, OnTick(c)
  PROVE  ViewInv'
<1>1. ASSUME NEW n \in Steps, MoveRequest(c, mPlayerSprite[c] + n) PROVE ViewInv'
  BY <1>1, StepIsEven, MoveViews
<1>2. ASSUME ChatRequest(c) PROVE ViewInv'
  BY <1>2, ChatViews
<1> QED  BY <1>1, <1>2 DEF OnTick

(* The dummy clients' process ends.                                        *)
LEMMA ThrowViews ==
  ASSUME ViewInv, NEW c \in Client, SendPacketThrows(c)
  PROVE  ViewInv'
<1>1. UNCHANGED <<m_loginId, mPlayerSprite, mPeerMap, callbacks, up, down, sessionVars, dbVars, told>>
  BY DEF SendPacketThrows
<1> QED  BY <1>1, SameViews DEF ViewInv, sessionVars, dbVars, jobVars

(* The clients have the packets and functions that the channels can hold.  *)
LEMMA ViewTypes ==
  ASSUME IInv, NEW c \in Client
  PROVE  /\ down[c] \in Seq(DownPacket) /\ callbacks[c] \in Seq(Callback) /\ up[c] \in Seq(UpPacket)
         /\ mPlayerId[c] \in Player \cup {NoPlayer}
BY DEF IInv, ClientInv, SessionInv

(* The logins at the database are of the dummy clients' players as long as *)
(* these have the same ids.                                                *)
LEMMA SameLoads ==
  ASSUME NEW pools, NEW S, NEW ids, NEW new, OwnLoads(pools, S, ids), \A d \in Dummy : new[d] = ids[d]
  PROVE  OwnLoads(pools, S, new)
BY DEF OwnLoads, OwnLoad

(* A game client takes a packet.                                           *)
LEMMA ProcessViews ==
  ASSUME IInv, ViewInv, NEW c \in Client, ProcessPacket(c)
  PROVE  ViewInv'
<1>1. c \notin Dummy /\ down[c] # <<>>
  BY DEF ProcessPacket
<1>2. PICK h \in DownPacket : h = Head(down[c])
  BY <1>1, FirstDown
<1>3. UNCHANGED <<mPlayerSprite, mPeerMap, up, sessionVars, dbVars, told>>
  BY DEF ProcessPacket
<1>4. /\ m_loginId \in [Client -> Player \cup {NoPlayer}] /\ down \in [Client -> Seq(DownPacket)]
      /\ callbacks \in [Client -> Seq(Callback)]
  BY DEF IInv, ClientInv
<1>5. PICK id : id = m_loginId[c]
  OBVIOUS
<1>6. m_loginId' = [m_loginId EXCEPT ![c] = NewId(h, id)]
  <2>1. CASE h.type = "login"
    BY <1>2, <2>1 DEF ProcessPacket, NewId
  <2>2. CASE h.type # "login"
    <3>1. m_loginId' = m_loginId /\ NewId(h, id) = id
      BY <1>2, <2>2 DEF ProcessPacket, NewId
    <3> QED  BY <1>4, <1>5, <3>1
  <2> QED  BY <2>1, <2>2
<1>7. callbacks' = [callbacks EXCEPT ![c] = NewCalls(h, id, callbacks[c])]
  <2>1. CASE h.type = "login"
    <3>1. callbacks' = callbacks /\ NewCalls(h, id, callbacks[c]) = callbacks[c]
      BY <1>2, <2>1 DEF ProcessPacket, NewCalls
    <3> QED  BY <1>4, <3>1
  <2>2. CASE h.type = "chat"
    BY <1>2, <1>5, <2>2 DEF ProcessPacket, NewCalls, Call
  <2>3. CASE h.type = "move"
    BY <1>2, <1>5, <2>3 DEF ProcessPacket, NewCalls, Call, DrawMe, DrawPeer
  <2> QED  BY <2>1, <2>2, <2>3, Kinds
<1>8. down' = [down EXCEPT ![c] = Tail(down[c])]
  BY DEF ProcessPacket
<1>9. /\ m_loginId'[c] = NewId(h, id) /\ down'[c] = Tail(down[c])
      /\ callbacks'[c] = NewCalls(h, id, callbacks[c])
      /\ \A d \in Client \ {c} : /\ m_loginId'[d] = m_loginId[d] /\ down'[d] = down[d]
                                 /\ callbacks'[d] = callbacks[d]
  BY <1>4, <1>6, <1>7, <1>8
<1>10. mConnected[c]
  BY <1>1 DEF ViewInv, LinkInv
<1>11. LinkInv'
  BY <1>3, <1>9, <1>10 DEF ViewInv, LinkInv, sessionVars
<1>12. DummyInv'
  BY <1>1, <1>3, <1>9, PlayersAssumption DEF ViewInv, DummyInv, sessionVars
<1>13. LoadInv'
  <2>1. \A d \in Dummy : m_loginId'[d] = m_loginId[d]
    BY <1>1, <1>9, PlayersAssumption
  <2>2. UNCHANGED <<pool, mDbJobRequestQueue, mDbJobResultQueue>>
    BY <1>3 DEF dbVars, jobVars
  <2> QED  BY <2>1, <2>2, SameLoads DEF ViewInv, LoadInv
<1>14. IdView(down[c], id, mPlayerId[c])
  BY <1>1, <1>5, <1>10 DEF ViewInv, IdInv
<1>15. IdInv'
  <2>1. IdView(down'[c], m_loginId'[c], mPlayerId[c])
    BY <1>1, <1>2, <1>4, <1>9, <1>14, TakenId
  <2> QED  BY <1>3, <1>9, <2>1 DEF ViewInv, IdInv, sessionVars
<1>16. OwnInv'
  <2>1. ASSUME told[c] # {}
        PROVE  OwnView(down'[c], callbacks'[c], mPlayerSprite[c], mPlayerId[c], mPos[c])
    <3>1. OwnView(down[c], callbacks[c], mPlayerSprite[c], mPlayerId[c], mPos[c])
      BY <2>1 DEF ViewInv, OwnInv
    <3>2. PICK s, f, y, p, x : /\ s = down[c] /\ f = callbacks[c] /\ y = mPlayerSprite[c]
                               /\ p = mPlayerId[c] /\ x = mPos[c]
      OBVIOUS
    <3>3. OwnView(Tail(s), NewCalls(Head(s), id, f), y, p, x)
      <4>1. s \in Seq(DownPacket) /\ s # <<>> /\ f \in Seq(Callback)
        BY <1>1, <1>4, <3>2
      <4>2. IdView(s, id, p) /\ OwnView(s, f, y, p, x)
        BY <1>14, <3>1, <3>2
      <4> QED  BY <4>1, <4>2, TakenOwn, Zenon
    <3> QED  BY <1>2, <1>9, <3>2, <3>3
  <2> QED  BY <1>3, <1>9, <2>1 DEF ViewInv, OwnInv, sessionVars
<1>17. PeerInv'
  <2>1. ASSUME NEW e \in Client, c \in told[e], c # e
        PROVE  PeerView(down'[c], callbacks'[c], mPeerMap[c], m_loginId'[c], mPlayerId[e], mPos[e])
    <3>1. PeerView(down[c], callbacks[c], mPeerMap[c], m_loginId[c], mPlayerId[e], mPos[e])
      BY <1>1, <2>1 DEF ViewInv, PeerInv
    <3>2. PICK s, f, y, p, x : /\ s = down[c] /\ f = callbacks[c] /\ y = mPeerMap[c]
                               /\ p = mPlayerId[e] /\ x = mPos[e]
      OBVIOUS
    <3>3. PeerView(Tail(s), NewCalls(Head(s), id, f), y, NewId(Head(s), id), p, x)
      <4>1. s \in Seq(DownPacket) /\ s # <<>> /\ f \in Seq(Callback)
        BY <1>1, <1>4, <3>2
      <4>2. PeerView(s, f, y, id, p, x)
        BY <1>5, <3>1, <3>2
      <4> QED  BY <4>1, <4>2, TakenPeer, Zenon
    <3> QED  BY <1>2, <1>9, <3>2, <3>3
  <2>2. told \in [Client -> SUBSET Client]
    BY DEF ViewInv, LinkInv
  <2> QED  BY <1>3, <1>9, <2>1, <2>2 DEF ViewInv, PeerInv, sessionVars
<1> QED  BY <1>11, <1>12, <1>13, <1>15, <1>16, <1>17 DEF ViewInv

(* The cocos thread runs a function.                                       *)
LEMMA CallbackViews ==
  ASSUME IInv, ViewInv, NEW c \in Client, RunCallback(c)
  PROVE  ViewInv'
<1>1. /\ callbacks \in [Client -> Seq(Callback)] /\ mPlayerSprite \in [Client -> Even]
      /\ callbacks[c] # <<>> /\ mPeerMap = [d \in Client |-> mPeerMap[d]]
  BY DEF IInv, ClientInv, RunCallback, ViewInv, LinkInv
<1>2. c \notin Dummy
  BY <1>1 DEF ViewInv, DummyInv
<1>3. PICK h \in Callback : h = Head(callbacks[c])
  BY <1>1
<1>4. UNCHANGED <<m_loginId, up, down, sessionVars, dbVars, told>>
  BY DEF RunCallback
<1>5. mPlayerSprite' = [mPlayerSprite EXCEPT ![c] = NewSprite(h, mPlayerSprite[c])]
  <2>1. CASE h.call = "updateMe"
    BY <1>3, <2>1 DEF RunCallback, NewSprite
  <2>2. CASE h.call # "updateMe"
    <3>1. mPlayerSprite' = mPlayerSprite /\ NewSprite(h, mPlayerSprite[c]) = mPlayerSprite[c]
      BY <1>3, <2>2 DEF RunCallback, NewSprite
    <3> QED  BY <1>1, <3>1
  <2> QED  BY <2>1, <2>2
<1>6. mPeerMap' = [mPeerMap EXCEPT ![c] = NewPeers(h, mPeerMap[c])]
  <2>1. CASE h.call = "updatePeer"
    BY <1>3, <2>1 DEF RunCallback, NewPeers, PeerMoved
  <2>2. CASE h.call # "updatePeer"
    <3>1. mPeerMap' = mPeerMap /\ NewPeers(h, mPeerMap[c]) = mPeerMap[c]
      BY <1>3, <2>2 DEF RunCallback, NewPeers
    <3> QED  BY <1>1, <3>1
  <2> QED  BY <2>1, <2>2
<1>7. callbacks' = [callbacks EXCEPT ![c] = Tail(callbacks[c])]
  BY DEF RunCallback
<1>8. /\ callbacks'[c] = Tail(callbacks[c]) /\ mPlayerSprite'[c] = NewSprite(h, mPlayerSprite[c])
      /\ \A d \in Client \ {c} : callbacks'[d] = callbacks[d] /\ mPlayerSprite'[d] = mPlayerSprite[d]
  BY <1>1, <1>5, <1>7
<1>9. /\ mPeerMap'[c] = NewPeers(h, mPeerMap[c]) /\ mPeerMap' = [d \in Client |-> mPeerMap'[d]]
      /\ \A d \in Client \ {c} : mPeerMap'[d] = mPeerMap[d]
  BY <1>1, <1>6
<1>10. LinkInv'
  BY <1>4, <1>9 DEF ViewInv, LinkInv, sessionVars
<1>11. DummyInv'
  BY <1>2, <1>4, <1>8, PlayersAssumption DEF ViewInv, DummyInv, sessionVars
<1>12. LoadInv' /\ IdInv'
  BY <1>4, SameViews DEF ViewInv, sessionVars, dbVars, jobVars
<1>13. OwnInv'
  <2>1. ASSUME told[c] # {}
        PROVE  OwnView(down[c], callbacks'[c], mPlayerSprite'[c], mPlayerId[c], mPos[c])
    <3>1. OwnView(down[c], callbacks[c], mPlayerSprite[c], mPlayerId[c], mPos[c])
      BY <2>1 DEF ViewInv, OwnInv
    <3>2. PICK s, f, y, p, x : /\ s = down[c] /\ f = callbacks[c] /\ y = mPlayerSprite[c]
                               /\ p = mPlayerId[c] /\ x = mPos[c]
      OBVIOUS
    <3>3. OwnView(s, Tail(f), NewSprite(Head(f), y), p, x)
      <4>1. f \in Seq(Callback) /\ f # <<>> /\ OwnView(s, f, y, p, x)
        BY <1>1, <3>1, <3>2
      <4> QED  BY <4>1, RunOwn, Zenon
    <3> QED  BY <1>3, <1>8, <3>2, <3>3
  <2> QED  BY <1>4, <1>8, <2>1 DEF ViewInv, OwnInv, sessionVars
<1>14. PeerInv'
  <2>1. ASSUME NEW e \in Client, c \in told[e], c # e
        PROVE  PeerView(down[c], callbacks'[c], mPeerMap'[c], m_loginId[c], mPlayerId[e], mPos[e])
    <3>1. PeerView(down[c], callbacks[c], mPeerMap[c], m_loginId[c], mPlayerId[e], mPos[e])
      BY <1>2, <2>1 DEF ViewInv, PeerInv
    <3>2. PICK s, f, y, p, x : /\ s = down[c] /\ f = callbacks[c] /\ y = mPeerMap[c]
                               /\ p = mPlayerId[e] /\ x = mPos[e]
      OBVIOUS
    <3>3. PICK id : id = m_loginId[c]
      OBVIOUS
    <3>4. PeerView(s, Tail(f), NewPeers(Head(f), y), id, p, x)
      <4>1. f \in Seq(Callback) /\ f # <<>> /\ PeerView(s, f, y, id, p, x)
        BY <1>1, <3>1, <3>2, <3>3
      <4> QED  BY <4>1, RunPeer, Zenon
    <3> QED  BY <1>3, <1>8, <1>9, <3>2, <3>3, <3>4
  <2>2. told \in [Client -> SUBSET Client]
    BY DEF ViewInv, LinkInv
  <2> QED  BY <1>4, <1>8, <1>9, <2>1, <2>2 DEF ViewInv, PeerInv, sessionVars
<1> QED  BY <1>10, <1>11, <1>12, <1>13, <1>14 DEF ViewInv

(* A dummy client takes a packet.                                          *)
LEMMA ReadViews ==
  ASSUME IInv, ViewInv, NEW c \in Client, HandleReadPayload(c)
  PROVE  ViewInv'
<1>1. c \in Dummy /\ down[c] # <<>> /\ down' = [down EXCEPT ![c] = Tail(down[c])]
  BY DEF HandleReadPayload, ReadPacket
<1>2. UNCHANGED <<m_loginId, mPeerMap, callbacks, up, sessionVars, dbVars, told>>
  BY DEF HandleReadPayload
<1>3. /\ down \in [Client -> Seq(DownPacket)] /\ mPlayerSprite \in [Client -> Even]
      /\ m_loginId[c] \in Player
  BY <1>1 DEF IInv, ClientInv
<1>4. PICK h : h = Head(down[c])
  OBVIOUS
<1>5. mPlayerSprite' = [mPlayerSprite EXCEPT ![c] =
        IF h.type = "move" /\ h.id = m_loginId[c] THEN h.pos ELSE mPlayerSprite[c]]
  BY <1>3, <1>4 DEF HandleReadPayload
<1>6. /\ down'[c] = Tail(down[c])
      /\ mPlayerSprite'[c] =
           IF h.type = "move" /\ h.id = m_loginId[c] THEN h.pos ELSE mPlayerSprite[c]
      /\ \A d \in Client \ {c} : down'[d] = down[d] /\ mPlayerSprite'[d] = mPlayerSprite[d]
  BY <1>1, <1>3, <1>5
<1>7. mConnected[c]
  BY <1>1 DEF ViewInv, LinkInv
<1>8. LinkInv'
  BY <1>2, <1>6, <1>7 DEF ViewInv, LinkInv, sessionVars
<1>9. DummyInv' /\ LoadInv'
  BY <1>2, SameViews DEF ViewInv, sessionVars, dbVars, jobVars
<1>10. IdInv'
  BY <1>1, <1>2, <1>6 DEF ViewInv, IdInv, sessionVars
<1>11. OwnInv'
  <2>1. ASSUME told[c] # {}
        PROVE  OwnView(down'[c], callbacks[c], mPlayerSprite'[c], mPlayerId[c], mPos[c])
    <3>1. OwnView(down[c], callbacks[c], mPlayerSprite[c], mPlayerId[c], mPos[c])
      BY <2>1 DEF ViewInv, OwnInv
    <3>2. callbacks[c] = <<>> /\ mPlayerId[c] = m_loginId[c]
      BY <1>1, <2>1, PlayersAssumption DEF ViewInv, DummyInv, LinkInv
    <3>3. PICK s, y, p, x, n : /\ s = down[c] /\ y = mPlayerSprite[c] /\ p = mPlayerId[c]
                               /\ x = mPos[c] /\ n = mPlayerSprite'[c]
      OBVIOUS
    <3>4. OwnView(Tail(s), <<>>, n, p, x)
      <4>1. s \in Seq(DownPacket) /\ s # <<>> /\ OwnView(s, <<>>, y, p, x)
        BY <1>1, <1>3, <3>1, <3>2, <3>3
      <4>2. n = IF Head(s).type = "move" /\ Head(s).id = p THEN Head(s).pos ELSE y
        BY <1>4, <1>6, <3>2, <3>3
      <4> QED  BY <4>1, <4>2, ReadOwn, Zenon
    <3> QED  BY <1>6, <3>2, <3>3, <3>4
  <2> QED  BY <1>2, <1>6, <2>1 DEF ViewInv, OwnInv, sessionVars
<1>12. PeerInv'
  <2>1. told \in [Client -> SUBSET Client]
    BY DEF ViewInv, LinkInv
  <2> QED  BY <1>1, <1>2, <1>6, <2>1 DEF ViewInv, PeerInv, sessionVars
<1> QED  BY <1>8, <1>9, <1>10, <1>11, <1>12 DEF ViewInv

(* A client connects: nothing is on its way yet, and neither side has a    *)
(* player, unless it is a dummy client.                                    *)
LEMMA ConnectViews ==
  ASSUME IInv, ViewInv, NEW c \in Client, NEW packets, OnConnect(c, packets),
         c \in Dummy => OwnLogins(packets, m_loginId[c])
  PROVE  ViewInv'
<1>1. /\ joined \in [Client -> BOOLEAN] /\ mConnected \in [Client -> BOOLEAN]
      /\ up \in [Client -> Seq(UpPacket)]
  BY DEF IInv, ClientInv, ViewInv, LinkInv
<1>2. UNCHANGED <<clientVars, down, mPlayerId, mPlayerName, mPos, updates, dbVars, told>>
  BY DEF OnConnect
<1>3. /\ ~joined[c] /\ joined' = [joined EXCEPT ![c] = TRUE]
      /\ mConnected' = [mConnected EXCEPT ![c] = TRUE] /\ up' = [up EXCEPT ![c] = packets]
  BY DEF OnConnect
<1>4. /\ joined'[c] /\ mConnected'[c] /\ up'[c] = packets /\ joined' \in [Client -> BOOLEAN]
      /\ \A d \in Client \ {c} : /\ joined'[d] = joined[d] /\ mConnected'[d] = mConnected[d]
                                 /\ up'[d] = up[d]
  BY <1>1, <1>3
<1>5. /\ ~mConnected[c] /\ down[c] = <<>> /\ mPlayerId[c] = NoPlayer
      /\ (c \notin Dummy => m_loginId[c] = NoPlayer)
  BY <1>3 DEF ViewInv, LinkInv
<1>6. LinkInv'
  BY <1>2, <1>4 DEF ViewInv, LinkInv, clientVars
<1>7. DummyInv'
  BY <1>2, <1>4, PlayersAssumption DEF ViewInv, DummyInv, clientVars
<1>8. LoadInv' /\ OwnInv' /\ PeerInv'
  BY <1>2, SameViews DEF ViewInv, clientVars, dbVars, jobVars
<1>9. IdInv'
  <2>1. IdView(<<>>, NoPlayer, NoPlayer)
    BY DEF IdView, NoneIn
  <2> QED  BY <1>2, <1>4, <1>5, <2>1 DEF ViewInv, IdInv, clientVars
<1> QED  BY <1>6, <1>7, <1>8, <1>9 DEF ViewInv

(* A game client connects, or a dummy client, which asks for its player.   *)
LEMMA JoinViews ==
  ASSUME IInv, ViewInv, NEW c \in Client, GetInstance(c) \/ HandleConnect(c)
  PROVE  ViewInv'
<1>1. CASE GetInstance(c)
  BY <1>1, ConnectViews DEF GetInstance
<1>2. CASE HandleConnect(c)
  <2>1. PICK packets : packets = <<[type |-> "login", id |-> m_loginId[c]]>>
    OBVIOUS
  <2>2. OwnLogins(packets, m_loginId[c])
    <3>1. DOMAIN packets = {1} /\ packets[1].id = m_loginId[c]
      BY <2>1
    <3> QED  BY <3>1 DEF OwnLogins
  <2> QED  BY <1>2, <2>1, <2>2, ConnectViews DEF HandleConnect
<1> QED  BY <1>1, <1>2

(* A session disconnects: nobody counts on what it has moved, and it has   *)
(* not been told of any move.                                              *)
LEMMA DisconnectViews ==
  ASSUME IInv, ViewInv, NEW c \in Client, Disconnect(c)
  PROVE  ViewInv'
<1>1. /\ told \in [Client -> SUBSET Client] /\ mConnected \in [Client -> BOOLEAN]
      /\ up \in [Client -> Seq(UpPacket)] /\ down \in [Client -> Seq(DownPacket)]
  BY DEF IInv, ClientInv, ViewInv, LinkInv
<1>2. UNCHANGED <<clientVars, joined, mPlayerId, mPlayerName, mPos, updates, dbVars>>
  BY DEF Disconnect
<1>3. /\ mConnected[c] /\ mConnected' = [mConnected EXCEPT ![c] = FALSE]
      /\ up' = [up EXCEPT ![c] = <<>>] /\ down' = [down EXCEPT ![c] = <<>>]
      /\ told' = [d \in Client |-> IF d = c THEN {} ELSE told[d] \ {c}]
  BY DEF Disconnect
<1>4. /\ ~mConnected'[c] /\ up'[c] = <<>> /\ down'[c] = <<>>
      /\ \A d \in Client \ {c} : /\ mConnected'[d] = mConnected[d] /\ up'[d] = up[d]
                                 /\ down'[d] = down[d]
  BY <1>1, <1>3
<1>5. /\ told'[c] = {} /\ told' \in [Client -> SUBSET Client]
      /\ \A d \in Client \ {c} : told'[d] = told[d] \ {c}
  BY <1>1, <1>3
<1>6. LinkInv'
  <2>1. ASSUME NEW d \in Client
        PROVE  /\ ~joined[d] => ~mConnected'[d] /\ mPlayerId[d] = NoPlayer
                                /\ (d \notin Dummy => m_loginId[d] = NoPlayer)
               /\ ~mConnected'[d] => up'[d] = <<>> /\ down'[d] = <<>>
               /\ \A e \in told'[d] : mConnected'[e]
               /\ told'[d] # {} => mConnected'[d] /\ mPlayerId[d] \in Player
    <3>1. CASE d = c
      BY <1>4, <1>5, <3>1 DEF ViewInv, LinkInv
    <3>2. CASE d # c
      BY <1>1, <1>4, <1>5, <3>2 DEF ViewInv, LinkInv
    <3> QED  BY <3>1, <3>2
  <2> QED  BY <1>2, <1>5, <2>1 DEF ViewInv, LinkInv, clientVars
<1>7. DummyInv'
  <2>1. \A id : OwnLogins(<<>>, id)
    BY DEF OwnLogins
  <2> QED  BY <1>2, <1>4, <2>1, PlayersAssumption DEF ViewInv, DummyInv, clientVars
<1>8. LoadInv'
  BY <1>2, SameViews DEF ViewInv, clientVars, dbVars, jobVars
<1>9. IdInv'
  BY <1>2, <1>4 DEF ViewInv, IdInv, clientVars
<1>10. OwnInv'
  BY <1>2, <1>4, <1>5 DEF ViewInv, OwnInv, clientVars
<1>11. PeerInv'
  <2>1. ASSUME NEW d \in Client, NEW e \in told'[d] \ (Dummy \cup {d})
        PROVE  PeerView(down'[e], callbacks[e], mPeerMap[e], m_loginId[e], mPlayerId[d], mPos[d])
    <3>1. d # c /\ e \in told[d] /\ e # c /\ e \in Client
      BY <1>1, <1>5, <2>1
    <3> QED  BY <1>4, <2>1, <3>1 DEF ViewInv, PeerInv
  <2> QED  BY <1>2, <2>1 DEF PeerInv, clientVars
<1> QED  BY <1>6, <1>7, <1>8, <1>9, <1>10, <1>11 DEF ViewInv
-----------------------------------------------------------------------------
(* The logins of dummy clients at the database.                            *)

(* A job is pushed.                                                        *)
LEMMA PushLoads ==
  ASSUME NEW pools, NEW q, NEW r, QueuesOK(pools, q, r), NEW job, NEW k \in Kind,
         job \in JobRecord, NEW ids, OwnLoads(pools, Elems(q) \cup Elems(r), ids), OwnLoad(job, ids)
  PROVE  OwnLoads(Allocated(pools, k, job), Elems(Append(q, NewRef(pools, k))) \cup Elems(r), ids)
<1>1. PICK S : S = Elems(q) \cup Elems(r)
  OBVIOUS
<1>2. PICK ref : ref = NewRef(pools, k)
  OBVIOUS
<1>3. PICK new : new = Allocated(pools, k, job)
  OBVIOUS
<1>4. PoolsHold(pools, S)
  BY <1>1 DEF QueuesOK
<1>5. AllocatesFor(pools, S, k, job)
  BY <1>4, AllocHold, Zenon
<1>6. ref \in Ref /\ At(new, ref) = job /\ \A x \in S : At(new, x) = At(pools, x)
  BY <1>2, <1>3, <1>5 DEF AllocatesFor
<1>7. Elems(Append(q, ref)) = Elems(q) \cup {ref}
  BY <1>6, AppendElems DEF QueuesOK
<1>8. OwnLoads(new, Elems(q) \cup {ref} \cup Elems(r), ids)
  BY <1>1, <1>6 DEF OwnLoads
<1> QED  BY <1>2, <1>3, <1>7, <1>8

(* PushDatabaseJobRequest: what is expected of a job is not the player it  *)
(* loads.                                                                  *)
LEMMA PushOwn ==
  ASSUME NEW pools, NEW r, NEW job, NEW V, GoodJob(job, V), GoodTable(promised, V),
         QueuesOK(pools, mDbJobRequestQueue, r), PushDatabaseJobRequest(job, pools),
         OwnLoads(pools, Elems(mDbJobRequestQueue) \cup Elems(r), m_loginId), OwnLoad(job, m_loginId)
  PROVE  OwnLoads(pool', Elems(mDbJobRequestQueue') \cup Elems(r), m_loginId)
<1>1. PICK e : e = Outcome(OnExecute(job, promised).job)
  OBVIOUS
<1>2. PICK j : j = Expecting(job, e)
  OBVIOUS
<1>3. job.kind \in Kind /\ j \in JobRecord
  BY <1>1, <1>2, ExpectingGood DEF GoodJob, JobRecord
<1>4. OwnLoad(j, m_loginId)
  <2>1. job \in JobRecord
    BY DEF GoodJob
  <2>2. j.kind = job.kind /\ j.mSockKey = job.mSockKey /\ j.mPlayerId = job.mPlayerId
    BY <1>2, <2>1 DEF Expecting, JobRecord
  <2> QED  BY <2>2 DEF OwnLoad
<1>5. mDbJobRequestQueue' = Append(mDbJobRequestQueue, NewRef(pools, job.kind))
  BY DEF PushDatabaseJobRequest, NewRef
<1>6. pool' = Allocated(pools, job.kind, j)
  BY <1>1, <1>2 DEF PushDatabaseJobRequest, Allocated, Expecting
<1>7. PICK q, k, ids : q = mDbJobRequestQueue /\ k = job.kind /\ ids = m_loginId
  OBVIOUS
<1>8. OwnLoads(Allocated(pools, k, j), Elems(Append(q, NewRef(pools, k))) \cup Elems(r), ids)
  <2>1. /\ QueuesOK(pools, q, r) /\ k \in Kind /\ j \in JobRecord
        /\ OwnLoads(pools, Elems(q) \cup Elems(r), ids) /\ OwnLoad(j, ids)
    BY <1>3, <1>4, <1>7
  <2> QED  BY <2>1, PushLoads, Zenon
<1> QED  BY <1>5, <1>6, <1>7, <1>8

(* Nothing but the queue of requests and the pools changes, by a push.     *)
LEMMA PushViews ==
  ASSUME IInv, ViewInv, NEW job, NEW V, GoodJob(job, V), GoodTable(promised, V),
         PushDatabaseJobRequest(job, pool), OwnLoad(job, m_loginId), UNCHANGED mDbJobResultQueue,
         UNCHANGED m_loginId
  PROVE  LoadInv'
<1>1. QueuesOK(pool, mDbJobRequestQueue, mDbJobResultQueue)
  BY DEF IInv, JobInv, JobState
<1>2. OwnLoads(pool, Elems(mDbJobRequestQueue) \cup Elems(mDbJobResultQueue), m_loginId)
  BY DEF ViewInv, LoadInv
<1>3. OwnLoads(pool', Elems(mDbJobRequestQueue') \cup Elems(mDbJobResultQueue), m_loginId)
  BY <1>1, <1>2, PushOwn
<1> QED  BY <1>3 DEF LoadInv

(* A session takes a packet.                                               *)
LEMMA TakeViews ==
  ASSUME IInv, ViewInv, NEW c \in Client, NEW type, Take(c, type)
  PROVE  /\ mConnected[c] /\ \A d \in Client : ~mConnected[d] => up'[d] = <<>>
         /\ \A d \in Dummy : OwnLogins(up'[d], m_loginId[d])
         /\ c \in Dummy /\ type = "login" => Head(up[c]).id = m_loginId[c]
<1>1. up \in [Client -> Seq(UpPacket)] /\ up[c] # <<>> /\ Head(up[c]).type = type
  BY DEF IInv, ClientInv, Take
<1>2. up'[c] = Tail(up[c]) /\ \A d \in Client \ {c} : up'[d] = up[d]
  BY <1>1 DEF Take
<1>3. mConnected[c]
  BY <1>1 DEF ViewInv, LinkInv
<1>4. \A d \in Client : ~mConnected[d] => up'[d] = <<>>
  BY <1>2, <1>3 DEF ViewInv, LinkInv
<1>5. ASSUME c \in Dummy
      PROVE  OwnLogins(up'[c], m_loginId[c]) /\ (type = "login" => Head(up[c]).id = m_loginId[c])
  <2>1. OwnLogins(up[c], m_loginId[c]) /\ up[c] \in Seq(UpPacket)
    BY <1>1, <1>5 DEF ViewInv, DummyInv
  <2> QED  BY <1>1, <1>2, <2>1, TailLogins
<1>6. ASSUME NEW d \in Dummy PROVE OwnLogins(up'[d], m_loginId[d])
  <2>1. d \in Client /\ OwnLogins(up[d], m_loginId[d])
    BY PlayersAssumption DEF ViewInv, DummyInv
  <2> QED  BY <1>2, <1>5, <2>1
<1> QED  BY <1>3, <1>4, <1>5, <1>6

(* A login request: the job is to load the player that is asked for.       *)
LEMMA OnLoginViews ==
  ASSUME IInv, ViewInv, NEW c \in Client, OnLogin(c)
  PROVE  ViewInv'
<1>1. PICK p \in Player : p = Head(up[c]).id
  BY TakeStep DEF OnLogin
<1>2. UNCHANGED <<clientVars, down, sessionVars, mDbJobResultQueue, told>>
  BY DEF OnLogin
<1>3. PICK job : job = Job("Load", c, p, 0)
  OBVIOUS
<1>4. GoodJob(job, visited) /\ GoodTable(promised, visited)
  BY <1>3, NewJob DEF Kind, IInv, JobInv, JobState
<1>5. OwnLoad(job, m_loginId)
  <2>1. job.mSockKey = c /\ job.mPlayerId = p
    BY <1>3 DEF Job
  <2>2. c \in Dummy => p = m_loginId[c]
    BY <1>1, TakeViews DEF OnLogin
  <2> QED  BY <2>1, <2>2 DEF OwnLoad
<1>6. LoadInv'
  <2>1. PushDatabaseJobRequest(job, pool)
    BY <1>1, <1>3 DEF OnLogin
  <2> QED  BY <1>2, <1>4, <1>5, <2>1, PushViews DEF clientVars
<1>7. /\ \A d \in Client : ~mConnected[d] => up'[d] = <<>>
      /\ \A d \in Dummy : OwnLogins(up'[d], m_loginId[d])
  BY TakeViews DEF OnLogin
<1> QED  BY <1>2, <1>6, <1>7, UpViews

(* A periodic save.                                                        *)
LEMMA UpdateViews ==
  ASSUME IInv, ViewInv, NEW c \in Client, OnDbUpdate(c)
  PROVE  ViewInv'
<1>1. UNCHANGED <<clientVars, up, down, joined, mConnected, mPlayerId, mPos, mDbJobResultQueue, told>>
  BY DEF OnDbUpdate
<1>2. mPlayerId[c] \in Player /\ mPos[c] \in Int /\ mPos[c] \in visited[mPlayerId[c]]
  BY DEF IInv, SessionInv, OnDbUpdate
<1>3. LoadInv'
  <2>1. CASE PushDatabaseJobRequest(Job("Update", c, mPlayerId[c], mPos[c]), pool)
    <3>1. PICK job : job = Job("Update", c, mPlayerId[c], mPos[c])
      OBVIOUS
    <3>2. GoodJob(job, visited) /\ GoodTable(promised, visited)
      BY <1>2, <3>1, NewJob DEF Kind, IInv, JobInv, JobState
    <3>3. OwnLoad(job, m_loginId)
      BY <3>1 DEF OwnLoad, Job
    <3> QED  BY <1>1, <2>1, <3>1, <3>2, <3>3, PushViews DEF clientVars
  <2>2. CASE UNCHANGED <<pool, mDbJobRequestQueue>>
    BY <1>1, <2>2, SameViews DEF ViewInv, clientVars
  <2> QED  BY <2>1, <2>2 DEF OnDbUpdate
<1> QED  BY <1>1, <1>3, SameViews DEF ViewInv, clientVars

(* CreatePlayer and DeletePlayer.                                          *)
LEMMA TableViews ==
  ASSUME IInv, ViewInv, NEW p \in Player, NEW x \in Int, CreatePlayer(p, x) \/ DeletePlayer(p)
  PROVE  ViewInv'
<1>1. UNCHANGED <<clientVars, up, down, sessionVars, mDbJobResultQueue, told>>
  BY DEF CreatePlayer, DeletePlayer
<1>2. CASE CreatePlayer(p, x)
  <2>1. visited' = [visited EXCEPT ![p] = @ \cup {x, Float(x)}] /\ visited \in [Player -> SUBSET Int]
    BY <1>2 DEF IInv, VisitedInv, CreatePlayer
  <2>2. PICK V : V = visited'
    OBVIOUS
  <2>3. (\A q \in Player : visited[q] \subseteq V[q]) /\ x \in V[p]
    BY <2>1, <2>2
  <2>4. PICK job : job = Job("Create", NoPlayer, p, x)
    OBVIOUS
  <2>5. GoodJob(job, V)
    BY <2>3, <2>4, NewJob DEF Kind
  <2>6. GoodTable(promised, V)
    BY <2>3, GrowState DEF IInv, JobInv, JobState
  <2>7. OwnLoad(job, m_loginId) /\ PushDatabaseJobRequest(job, pool)
    BY <1>2, <2>4 DEF OwnLoad, Job, CreatePlayer
  <2>8. LoadInv'
    BY <1>1, <2>5, <2>6, <2>7, PushViews DEF clientVars
  <2> QED  BY <1>1, <2>8, SameViews DEF ViewInv, clientVars, sessionVars
<1>3. CASE DeletePlayer(p)
  <2>1. PICK job : job = Job("Delete", NoPlayer, p, 0)
    OBVIOUS
  <2>2. GoodJob(job, visited) /\ GoodTable(promised, visited)
    BY <2>1, NewJob DEF Kind, IInv, JobInv, JobState
  <2>3. OwnLoad(job, m_loginId) /\ PushDatabaseJobRequest(job, pool)
    BY <1>3, <2>1 DEF OwnLoad, Job, DeletePlayer
  <2>4. LoadInv'
    BY <1>1, <2>2, <2>3, PushViews DEF clientVars
  <2> QED  BY <1>1, <2>4, SameViews DEF ViewInv, clientVars, sessionVars
<1> QED  BY <1>2, <1>3

(* A job that has been executed is for the same session and player.        *)
LEMMA ExecuteOwn ==
  ASSUME NEW job \in JobRecord, NEW t, NEW result,
         result = OnExecute(job, t) \/ result = OnExecuteError(job, t), NEW ids, OwnLoad(job, ids)
  PROVE  OwnLoad(result.job, ids)
<1>1. CASE result = OnExecuteError(job, t)
  BY <1>1 DEF OnExecuteError, OwnLoad, JobRecord
<1>2. CASE result = OnExecute(job, t) /\ job.kind # "Load"
  <2>1. result.job = [job EXCEPT !.mSuccess = TRUE]
    BY <1>2, ExecuteOther
  <2> QED  BY <1>2, <2>1 DEF OwnLoad, JobRecord
<1>3. CASE result = OnExecute(job, t) /\ job.kind = "Load"
  <2>1. PICK rows : rows = t[job.mPlayerId]
    OBVIOUS
  <2>2. \/ result.job = [job EXCEPT !.mSuccess = FALSE]
        \/ result.job = [job EXCEPT !.mSuccess = TRUE, !.mPlayerName = rows[1].name,
                                    !.mPos = rows[1].pos, !.mPosZ = rows[1].posZ]
    BY <1>3, <2>1, ExecuteLoad
  <2>3. /\ result.job.kind = job.kind /\ result.job.mSockKey = job.mSockKey
        /\ result.job.mPlayerId = job.mPlayerId
    BY <2>2 DEF JobRecord
  <2> QED  BY <2>3 DEF OwnLoad
<1> QED  BY <1>1, <1>2, <1>3

(* The database thread.                                                    *)
LEMMA ExecuteLoads ==
  ASSUME NEW pools, NEW q, NEW r, QueuesOK(pools, q, r), q # <<>>, NEW ref, ref = Head(q),
         NEW job \in JobRecord, NEW ids, OwnLoads(pools, Elems(q) \cup Elems(r), ids), OwnLoad(job, ids)
  PROVE  OwnLoads(Written(pools, ref, job), Elems(Tail(q)) \cup Elems(Append(r, ref)), ids)
<1>1. PICK S : S = Elems(q) \cup Elems(r)
  OBVIOUS
<1>2. PICK new : new = Written(pools, ref, job)
  OBVIOUS
<1>3. /\ PoolsHold(pools, S) /\ q \in Seq(Ref) /\ r \in Seq(Ref) /\ Distinct(q)
  BY <1>1 DEF QueuesOK
<1>4. ref \in Ref /\ ref \in S /\ Elems(Tail(q)) = Elems(q) \ {ref}
  BY <1>1, <1>3, TailElems
<1>5. Elems(Append(r, ref)) = Elems(r) \cup {ref}
  BY <1>3, <1>4, AppendElems
<1>6. WritesFor(pools, S, ref, job)
  BY <1>3, <1>4, StoreHold, Zenon
<1>7. At(new, ref) = job /\ \A x \in S \ {ref} : At(new, x) = At(pools, x)
  BY <1>2, <1>6 DEF WritesFor
<1>8. OwnLoads(new, S, ids)
  BY <1>1, <1>7 DEF OwnLoads
<1>9. Elems(Tail(q)) \cup Elems(Append(r, ref)) = S
  BY <1>1, <1>4, <1>5
<1> QED  BY <1>2, <1>8, <1>9

(* The database thread executes a job.                                     *)
LEMMA ExecuteViews ==
  ASSUME IInv, ViewInv, ExecuteDatabaseJob
  PROVE  ViewInv'
<1>1. UNCHANGED <<clientVars, up, down, sessionVars, told>>
  BY DEF ExecuteDatabaseJob
<1>2. PICK ref : ref = Head(mDbJobRequestQueue)
  OBVIOUS
<1>3. mDbJobRequestQueue # <<>> /\ mDbJobRequestQueue' = Tail(mDbJobRequestQueue)
  BY DEF ExecuteDatabaseJob
<1>4. PICK result :
        /\ result = OnExecute(At(pool, ref), table) \/ result = OnExecuteError(At(pool, ref), table)
        /\ pool' = Written(pool, ref, result.job) /\ mDbJobResultQueue' = Append(mDbJobResultQueue, ref)
  BY <1>2 DEF ExecuteDatabaseJob, JobOf, At, Written
<1>5. PICK P, q, r, ids : /\ P = pool /\ q = mDbJobRequestQueue /\ r = mDbJobResultQueue
                          /\ ids = m_loginId
  OBVIOUS
<1>6. /\ QueuesOK(P, q, r) /\ q # <<>> /\ ref = Head(q) /\ OwnLoads(P, Elems(q) \cup Elems(r), ids)
      /\ JobsOK(P, Elems(q) \cup Elems(r), visited) /\ GoodTable(table, visited)
  BY <1>2, <1>3, <1>5 DEF IInv, JobInv, JobState, ViewInv, LoadInv
<1>7. PICK job : job = At(P, ref)
  OBVIOUS
<1>8. GoodJob(job, visited) /\ OwnLoad(job, ids) /\ job \in JobRecord
  <2>1. ref \in Elems(q)
    BY <1>6, TailElems DEF QueuesOK
  <2> QED  BY <1>6, <1>7, <2>1 DEF JobsOK, OwnLoads, GoodJob
<1>9. result.job \in JobRecord /\ OwnLoad(result.job, ids)
  <2>1. result = OnExecute(job, table) \/ result = OnExecuteError(job, table)
    BY <1>4, <1>5, <1>7
  <2>2. result.job \in JobRecord
    BY <1>6, <1>8, <2>1, ExecuteGood, ExecuteErrorGood DEF GoodJob
  <2> QED  BY <1>8, <2>1, <2>2, ExecuteOwn
<1>10. OwnLoads(Written(P, ref, result.job), Elems(Tail(q)) \cup Elems(Append(r, ref)), ids)
  BY <1>6, <1>9, ExecuteLoads, Zenon
<1>11. LoadInv'
  BY <1>1, <1>3, <1>4, <1>5, <1>10 DEF LoadInv, clientVars
<1> QED  BY <1>1, <1>11, SameViews DEF ViewInv, clientVars, sessionVars

(* A result is taken and its job deleted.                                  *)
LEMMA FreeLoads ==
  ASSUME NEW pools, NEW q, NEW r, QueuesOK(pools, q, r), r # <<>>, NEW ref, ref = Head(r),
         NEW ids, OwnLoads(pools, Elems(q) \cup Elems(r), ids)
  PROVE  /\ OwnLoads(Freed(pools, ref), Elems(q) \cup Elems(Tail(r)), ids)
         /\ OwnLoad(At(pools, ref), ids)
<1>1. PICK S : S = Elems(q) \cup Elems(r)
  OBVIOUS
<1>2. PICK new : new = Freed(pools, ref)
  OBVIOUS
<1>3. PoolsHold(pools, S) /\ r \in Seq(Ref) /\ Distinct(r) /\ Elems(q) \cap Elems(r) = {}
  BY <1>1 DEF QueuesOK
<1>4. ref \in Elems(r) /\ Elems(Tail(r)) = Elems(r) \ {ref}
  BY <1>3, TailElems
<1>5. ref \in S /\ Elems(q) \cup Elems(Tail(r)) = S \ {ref}
  BY <1>1, <1>3, <1>4
<1>6. FreesFor(pools, S, ref)
  BY <1>3, <1>5, FreeHold, Zenon
<1>7. \A x \in S \ {ref} : At(new, x) = At(pools, x)
  BY <1>2, <1>6 DEF FreesFor
<1>8. OwnLoads(new, S \ {ref}, ids) /\ OwnLoad(At(pools, ref), ids)
  BY <1>1, <1>5, <1>7 DEF OwnLoads
<1> QED  BY <1>2, <1>5, <1>8

(* LoginDone: the login is the last one on its way to its client, and what *)
(* the session has moved before it counts no more.                         *)
LEMMA LoginViews ==
  ASSUME IInv, ViewInv, NEW c \in Client, NEW p \in Player, NEW x \in Even, mConnected[c], LoadInv',
         c \in Dummy => p = m_loginId[c],
         UNCHANGED <<clientVars, up, joined, mConnected>>,
         mPlayerId' = [mPlayerId EXCEPT ![c] = p], mPos' = [mPos EXCEPT ![c] = x],
         down' = [down EXCEPT ![c] = Append(@, [type |-> "login", id |-> p, pos |-> x])],
         told' = [told EXCEPT ![c] = {}]
  PROVE  ViewInv'
<1>1. PICK y : y = [type |-> "login", id |-> p, pos |-> x]
  OBVIOUS
<1>2. y \in DownPacket /\ y.type = "login" /\ y.id = p /\ y \in Logins
  BY <1>1 DEF DownPacket, Logins
<1>3. /\ down \in [Client -> Seq(DownPacket)] /\ told \in [Client -> SUBSET Client]
      /\ mPlayerId \in [Client -> Player \cup {NoPlayer}] /\ mPos \in [Client -> Int]
  BY DEF IInv, ClientInv, SessionInv, ViewInv, LinkInv
<1>4. /\ mPlayerId'[c] = p /\ told'[c] = {} /\ down'[c] = Append(down[c], y)
      /\ \A d \in Client \ {c} : /\ mPlayerId'[d] = mPlayerId[d] /\ mPos'[d] = mPos[d]
                                 /\ down'[d] = down[d] /\ told'[d] = told[d]
      /\ told' \in [Client -> SUBSET Client]
  BY <1>1, <1>3
<1>5. LinkInv'
  <2>1. joined[c]
    BY DEF ViewInv, LinkInv
  <2>2. ASSUME NEW d \in Client
        PROVE  /\ ~joined[d] => ~mConnected[d] /\ mPlayerId'[d] = NoPlayer
                                /\ (d \notin Dummy => m_loginId[d] = NoPlayer)
               /\ ~mConnected[d] => up[d] = <<>> /\ down'[d] = <<>>
               /\ \A e \in told'[d] : mConnected[e]
               /\ told'[d] # {} => mConnected[d] /\ mPlayerId'[d] \in Player
    <3>1. CASE d = c
      BY <1>4, <2>1, <3>1
    <3>2. CASE d # c
      BY <1>4, <3>2 DEF ViewInv, LinkInv
    <3> QED  BY <3>1, <3>2
  <2> QED  BY <1>4, <2>2 DEF ViewInv, LinkInv, clientVars
<1>6. DummyInv'
  BY <1>4, PlayersAssumption DEF ViewInv, DummyInv, clientVars
<1>7. IdInv'
  <2>1. IdView(Append(down[c], y), m_loginId[c], p)
    <3>1. down[c] \in Seq(DownPacket)
      BY <1>3
    <3>2. IdView(Append(down[c], y), m_loginId[c], y.id)
      BY <1>2, <3>1, AppendLogin
    <3> QED  BY <1>2, <3>2
  <2> QED  BY <1>4, <2>1 DEF ViewInv, IdInv, clientVars
<1>8. OwnInv'
  BY <1>4 DEF ViewInv, OwnInv, clientVars
<1>9. PeerInv'
  <2>1. ASSUME NEW e \in Client, NEW d \in told'[e] \ (Dummy \cup {e})
        PROVE  PeerView(down'[d], callbacks[d], mPeerMap[d], m_loginId[d], mPlayerId'[e], mPos'[e])
    <3>1. e # c /\ d \in told[e] /\ d \in Client
      BY <1>3, <1>4, <2>1
    <3>2. PeerView(down[d], callbacks[d], mPeerMap[d], m_loginId[d], mPlayerId[e], mPos[e])
      BY <2>1, <3>1 DEF ViewInv, PeerInv
    <3>3. CASE d = c
      <4>1. PICK s, f, peers, id, q, z :
              /\ s = down[d] /\ f = callbacks[d] /\ peers = mPeerMap[d] /\ id = m_loginId[d]
              /\ q = mPlayerId[e] /\ z = mPos[e]
        OBVIOUS
      <4>2. s \in Seq(DownPacket) /\ y \notin MovesOf(q) /\ PeerView(s, f, peers, id, q, z)
        BY <1>2, <1>3, <3>1, <3>2, <4>1, Kinds
      <4>3. PeerView(Append(s, y), f, peers, id, q, z)
        BY <1>2, <4>2, AppendPeer, Zenon
      <4> QED  BY <1>4, <3>1, <3>3, <4>1, <4>3
    <3>4. CASE d # c
      BY <1>4, <3>1, <3>2, <3>4
    <3> QED  BY <3>3, <3>4
  <2> QED  BY <2>1 DEF PeerInv, clientVars
<1> QED  BY <1>5, <1>6, <1>7, <1>8, <1>9 DEF ViewInv

(* A result is dispatched: a login, or nothing.                            *)
LEMMA DispatchViews ==
  ASSUME IInv, ViewInv, DispatchDatabaseJobResult
  PROVE  ViewInv'
<1>1. UNCHANGED <<clientVars, up, joined, mConnected, table, dbFailed, visited>>
  BY DEF DispatchDatabaseJobResult
<1>2. PICK ref : ref = Head(mDbJobResultQueue)
  OBVIOUS
<1>3. PICK job : job = At(pool, ref)
  OBVIOUS
<1>4. PICK deleted : deleted = Freed(pool, ref)
  OBVIOUS
<1>5. mDbJobResultQueue # <<>> /\ mDbJobResultQueue' = Tail(mDbJobResultQueue)
  BY DEF DispatchDatabaseJobResult
<1>6. PICK P, q, r, t, u, f, V, ids :
        /\ P = pool /\ q = mDbJobRequestQueue /\ r = mDbJobResultQueue /\ t = table
        /\ u = promised /\ f = dbFailed /\ V = visited /\ ids = m_loginId
  OBVIOUS
<1>7. /\ JobState(P, q, r, t, u, f, V) /\ QueuesOK(P, q, r) /\ r # <<>> /\ ref = Head(r)
      /\ deleted = Freed(P, ref) /\ OwnLoads(P, Elems(q) \cup Elems(r), ids)
  BY <1>2, <1>4, <1>5, <1>6 DEF IInv, JobInv, JobState, ViewInv, LoadInv
<1>8. JobState(deleted, q, Tail(r), t, u, f, V)
  BY <1>7, DispatchState, Zenon
<1>9. OwnLoads(deleted, Elems(q) \cup Elems(Tail(r)), ids) /\ OwnLoad(job, ids)
  <2>1. /\ OwnLoads(Freed(P, ref), Elems(q) \cup Elems(Tail(r)), ids)
        /\ OwnLoad(At(P, ref), ids)
    BY <1>7, FreeLoads, Zenon
  <2> QED  BY <1>3, <1>6, <1>7, <2>1
<1>10. GoodJob(job, visited) /\ job.kind = ref.kind
  <2>1. ref \in Elems(r) /\ JobsOK(P, Elems(q) \cup Elems(r), V)
    BY <1>7, TailElems DEF QueuesOK, JobState
  <2> QED  BY <1>3, <1>6, <2>1 DEF JobsOK
<1>11. \/ /\ ref.kind = "Load" /\ job.mSuccess /\ mConnected[job.mSockKey]
          /\ LoginDone(job.mSockKey, job, deleted)
       \/ pool' = deleted /\ UNCHANGED <<mPlayerId, mPos, down, told, mDbJobRequestQueue>>
  BY <1>2, <1>3, <1>4 DEF DispatchDatabaseJobResult, JobOf, At, Freed
<1>12. CASE /\ ref.kind = "Load" /\ job.mSuccess /\ mConnected[job.mSockKey]
            /\ LoginDone(job.mSockKey, job, deleted)
  <2>1. PICK c, p, x : c = job.mSockKey /\ p = job.mPlayerId /\ x = Float(job.mPos)
    OBVIOUS
  <2>2. /\ c \in Client /\ p \in Player /\ job.mPos \in visited[p] /\ job.mPos \in Int
        /\ mConnected[c]
    BY <1>10, <1>12, <2>1 DEF GoodJob, JobRecord
  <2>3. x \in Even /\ x \in Int /\ x \in visited[p]
    BY <2>1, <2>2, Rounding DEF IInv, VisitedInv, Even
  <2>4. /\ mPlayerId' = [mPlayerId EXCEPT ![c] = p] /\ mPos' = [mPos EXCEPT ![c] = x]
        /\ told' = [told EXCEPT ![c] = {}]
        /\ down' = [down EXCEPT ![c] = Append(@, [type |-> "login", id |-> p, pos |-> x])]
    BY <1>12, <2>1 DEF LoginDone
  <2>5. PushDatabaseJobRequest(Job("Update", c, p, x), deleted)
    BY <1>12, <2>1 DEF LoginDone
  <2>6. c \in Dummy => p = m_loginId[c]
    BY <1>6, <1>9, <1>10, <1>12, <2>1 DEF OwnLoad
  <2>7. LoadInv'
    <3>1. PICK j : j = Job("Update", c, p, x)
      OBVIOUS
    <3>2. GoodJob(j, visited)
      BY <2>2, <2>3, <3>1, NewJob DEF Kind
    <3>3. OwnLoad(j, m_loginId) /\ GoodTable(promised, visited)
      BY <3>1 DEF OwnLoad, Job, IInv, JobInv, JobState
    <3>4. PICK n : n = Tail(r)
      OBVIOUS
    <3>5. /\ QueuesOK(deleted, mDbJobRequestQueue, n)
          /\ OwnLoads(deleted, Elems(mDbJobRequestQueue) \cup Elems(n), m_loginId)
      BY <1>6, <1>8, <1>9, <3>4 DEF JobState
    <3>6. OwnLoads(pool', Elems(mDbJobRequestQueue') \cup Elems(n), m_loginId)
      BY <2>5, <3>1, <3>2, <3>3, <3>5, PushOwn
    <3> QED  BY <1>1, <1>5, <1>6, <3>4, <3>6 DEF LoadInv, clientVars
  <2> QED  BY <1>1, <2>2, <2>3, <2>4, <2>6, <2>7, LoginViews
<1>13. CASE pool' = deleted /\ UNCHANGED <<mPlayerId, mPos, down, told, mDbJobRequestQueue>>
  <2>1. LoadInv'
    BY <1>1, <1>5, <1>6, <1>9, <1>13 DEF LoadInv, clientVars
  <2> QED  BY <1>1, <1>13, <2>1, SameViews DEF ViewInv, clientVars
<1> QED  BY <1>11, <1>12, <1>13
-----------------------------------------------------------------------------
(* Broadcasts.                                                             *)

(* A client d that is connected gets the packet y, which is no login: this *)
(* leaves what it will draw of the players that have not moved by it.      *)
LEMMA Heard ==
  ASSUME IInv, ViewInv, NEW y \in DownPacket, y \notin Logins, NEW d \in Client,
         NEW s, s = IF mConnected[d] THEN Append(down[d], y) ELSE down[d]
  PROVE  /\ d \notin Dummy /\ mConnected[d] => IdView(s, m_loginId[d], mPlayerId[d])
         /\ told[d] # {} /\ y \notin MovesOf(mPlayerId[d]) =>
              OwnView(s, callbacks[d], mPlayerSprite[d], mPlayerId[d], mPos[d])
         /\ \A e \in Client : d \in told[e] \ (Dummy \cup {e}) /\ y \notin MovesOf(mPlayerId[e]) =>
              PeerView(s, callbacks[d], mPeerMap[d], m_loginId[d], mPlayerId[e], mPos[e])
<1>1. PICK t \in Seq(DownPacket) : t = down[d]
  BY ViewTypes
<1>2. PICK f, id, me : f = callbacks[d] /\ id = m_loginId[d] /\ me = mPlayerId[d]
  OBVIOUS
<1>3. s = t \/ s = Append(t, y)
  BY <1>1
<1>4. ASSUME d \notin Dummy, mConnected[d] PROVE IdView(s, id, me)
  <2>1. IdView(t, id, me)
    BY <1>1, <1>2, <1>4 DEF ViewInv, IdInv
  <2>2. IdView(Append(t, y), id, me)
    BY <2>1, AppendId, Zenon
  <2> QED  BY <1>3, <2>1, <2>2
<1>5. ASSUME told[d] # {}, y \notin MovesOf(mPlayerId[d])
      PROVE  OwnView(s, callbacks[d], mPlayerSprite[d], mPlayerId[d], mPos[d])
  <2>1. PICK sprite, x : sprite = mPlayerSprite[d] /\ x = mPos[d]
    OBVIOUS
  <2>2. OwnView(t, f, sprite, me, x) /\ y \notin MovesOf(me)
    BY <1>1, <1>2, <1>5, <2>1 DEF ViewInv, OwnInv
  <2>3. OwnView(Append(t, y), f, sprite, me, x)
    BY <2>2, AppendOwn, Zenon
  <2> QED  BY <1>2, <1>3, <2>1, <2>2, <2>3
<1>6. ASSUME NEW e \in Client, d \in told[e] \ (Dummy \cup {e}), y \notin MovesOf(mPlayerId[e])
      PROVE  PeerView(s, callbacks[d], mPeerMap[d], m_loginId[d], mPlayerId[e], mPos[e])
  <2>1. PICK peers, p, x : peers = mPeerMap[d] /\ p = mPlayerId[e] /\ x = mPos[e]
    OBVIOUS
  <2>2. PeerView(t, f, peers, id, p, x) /\ y \notin MovesOf(p)
    BY <1>1, <1>2, <1>6, <2>1 DEF ViewInv, PeerInv
  <2>3. PeerView(Append(t, y), f, peers, id, p, x)
    BY <2>2, AppendPeer, Zenon
  <2> QED  BY <1>2, <1>3, <2>1, <2>2, <2>3
<1> QED  BY <1>2, <1>4, <1>5, <1>6

(* A chat.                                                                 *)
LEMMA OnChatViews ==
  ASSUME IInv, ViewInv, NEW c \in Client, OnChat(c)
  PROVE  ViewInv'
<1>1. UNCHANGED <<clientVars, sessionVars, dbVars, told>>
  BY DEF OnChat
<1>2. /\ \A d \in Client : ~mConnected[d] => up'[d] = <<>>
      /\ \A d \in Dummy : OwnLogins(up'[d], m_loginId[d])
  BY TakeViews DEF OnChat
<1>3. LoadInv'
  BY <1>1, SameViews DEF ViewInv, clientVars, dbVars, jobVars
<1>4. CASE UNCHANGED down
  BY <1>1, <1>2, <1>3, <1>4, UpViews
<1>5. ASSUME Head(up[c]).id = mPlayerId[c],
             Broadcast([type |-> "chat", id |-> Head(up[c]).id, name |-> mPlayerName[c]])
      PROVE  ViewInv'
  <2>1. PICK y : y = [type |-> "chat", id |-> Head(up[c]).id, name |-> mPlayerName[c]]
    OBVIOUS
  <2>2. y \in DownPacket
    <3>1. Head(up[c]).id \in Player
      BY TakeStep DEF OnChat
    <3>2. mPlayerName[c] = Head(up[c]).id
      BY <1>5, <3>1, PlayersAssumption DEF IInv, SessionInv
    <3> QED  BY <2>1, <3>1, <3>2 DEF DownPacket
  <2>3. y.type = "chat"
    BY <2>1
  <2>4. y \notin Logins /\ \A p : y \notin MovesOf(p)
    BY <2>2, <2>3, Kinds
  <2>5. \A d \in Client : down'[d] = IF mConnected[d] THEN Append(down[d], y) ELSE down[d]
    BY <1>5, <2>1 DEF Broadcast
  <2>6. told \in [Client -> SUBSET Client]
    BY DEF ViewInv, LinkInv
  <2>7. LinkInv'
    BY <1>1, <1>2, <2>5 DEF ViewInv, LinkInv, clientVars, sessionVars
  <2>8. DummyInv'
    BY <1>1, <1>2 DEF ViewInv, DummyInv, clientVars, sessionVars
  <2>9. IdInv'
    <3>1. \A d \in Client \ Dummy : mConnected[d] => IdView(down'[d], m_loginId[d], mPlayerId[d])
      BY <2>2, <2>4, <2>5, Heard
    <3> QED  BY <1>1, <3>1 DEF IdInv, clientVars, sessionVars
  <2>10. OwnInv'
    <3>1. \A d \in Client : told[d] # {} =>
            OwnView(down'[d], callbacks[d], mPlayerSprite[d], mPlayerId[d], mPos[d])
      BY <2>2, <2>4, <2>5, Heard
    <3> QED  BY <1>1, <3>1 DEF OwnInv, clientVars, sessionVars
  <2>11. PeerInv'
    <3>1. ASSUME NEW e \in Client, NEW d \in told[e] \ (Dummy \cup {e})
          PROVE  PeerView(down'[d], callbacks[d], mPeerMap[d], m_loginId[d], mPlayerId[e], mPos[e])
      BY <2>2, <2>4, <2>5, <2>6, <3>1, Heard
    <3> QED  BY <1>1, <3>1 DEF PeerInv, clientVars, sessionVars
  <2> QED  BY <1>3, <2>7, <2>8, <2>9, <2>10, <2>11 DEF ViewInv
<1> QED  BY <1>4, <1>5 DEF OnChat

(* A move: the session's own client and the others that are connected get  *)
(* it, and it is the last one of its player to each of them.               *)
LEMMA OnMoveViews ==
  ASSUME IInv, ViewInv, NEW c \in Client, OnMove(c)
  PROVE  ViewInv'
<1>1. PICK y \in [type : {"move"}, id : Player, pos : Even] : y = Head(up[c])
  BY TakeStep DEF OnMove
<1>2. UNCHANGED <<clientVars, joined, mConnected, mPlayerId, mPlayerName, updates, dbVars>>
  BY DEF OnMove
<1>3. /\ mConnected[c] /\ \A d \in Client : ~mConnected[d] => up'[d] = <<>>
      /\ \A d \in Dummy : OwnLogins(up'[d], m_loginId[d])
  BY TakeViews DEF OnMove
<1>4. LoadInv'
  BY <1>2, SameViews DEF ViewInv, clientVars, dbVars, jobVars
<1>5. DummyInv'
  BY <1>2, <1>3 DEF ViewInv, DummyInv, clientVars
<1>6. CASE y.id # mPlayerId[c]
  <2>1. UNCHANGED <<down, mPos, told>>
    BY <1>1, <1>6 DEF OnMove
  <2>2. UNCHANGED <<clientVars, down, sessionVars, told>>
    BY <1>2, <2>1 DEF sessionVars
  <2> QED  BY <1>3, <1>4, <2>2, UpViews
<1>7. CASE y.id = mPlayerId[c]
  <2>1. PICK p, x : p = y.id /\ x = y.pos
    OBVIOUS
  <2>2. p \in Player /\ x \in Even /\ p = mPlayerId[c] /\ y = MoveTo(p, x) /\ y.type = "move"
    BY <1>7, <2>1 DEF MoveTo
  <2>3. y \in DownPacket
    BY DEF DownPacket
  <2>4. y \notin Logins /\ \A q : q # p => y \notin MovesOf(q)
    BY <2>1, <2>2, <2>3, Kinds
  <2>5. \A d \in Client : down'[d] = IF mConnected[d] THEN Append(down[d], y) ELSE down[d]
    BY <1>1, <1>7 DEF OnMove, Broadcast
  <2>6. mPos'[c] = x /\ \A d \in Client \ {c} : mPos'[d] = mPos[d]
    BY <1>1, <1>7, <2>1 DEF OnMove, IInv, SessionInv
  <2>7. told' = [e \in Client |->
          IF e = c THEN {d \in Client : mConnected[d] /\ (d = c \/ mPlayerId[d] # p)}
          ELSE IF mPlayerId[e] = p THEN {} ELSE told[e]]
    BY <1>1, <1>7, <2>1 DEF OnMove
  <2>8. /\ told \in [Client -> SUBSET Client] /\ told' \in [Client -> SUBSET Client]
        /\ told'[c] = {d \in Client : mConnected[d] /\ (d = c \/ mPlayerId[d] # p)}
        /\ \A e \in Client \ {c} : told'[e] # {} => mPlayerId[e] # p /\ told'[e] = told[e]
    <3>1. told \in [Client -> SUBSET Client]
      BY DEF ViewInv, LinkInv
    <3> QED  BY <2>7, <3>1
  <2>9. LinkInv'
    <3>1. ASSUME NEW d \in Client
          PROVE  /\ ~mConnected[d] => up'[d] = <<>> /\ down'[d] = <<>>
                 /\ \A e \in told'[d] : mConnected[e]
                 /\ told'[d] # {} => mConnected[d] /\ mPlayerId[d] \in Player
      <4>1. ~mConnected[d] => up'[d] = <<>> /\ down'[d] = <<>>
        BY <1>3, <2>5 DEF ViewInv, LinkInv
      <4>2. CASE d = c
        BY <1>3, <2>2, <2>8, <4>1, <4>2
      <4>3. CASE d # c
        BY <2>8, <4>1, <4>3 DEF ViewInv, LinkInv
      <4> QED  BY <4>2, <4>3
    <3> QED  BY <1>2, <2>8, <3>1 DEF ViewInv, LinkInv, clientVars
  <2>10. IdInv'
    <3>1. \A d \in Client \ Dummy : mConnected[d] => IdView(down'[d], m_loginId[d], mPlayerId[d])
      BY <2>3, <2>4, <2>5, Heard
    <3> QED  BY <1>2, <3>1 DEF IdInv, clientVars
  <2>11. OwnInv'
    <3>1. OwnView(down'[c], callbacks[c], mPlayerSprite[c], p, x)
      <4>1. down[c] \in Seq(DownPacket) /\ down'[c] = Append(down[c], y)
        BY <1>3, <2>5, ViewTypes
      <4>2. PICK B : B = Logins \cup MovesOf(p)
        OBVIOUS
      <4>3. LastIn(Append(down[c], y), B, y)
        BY <2>3, <4>1, AppendLast
      <4> QED  BY <2>2, <4>1, <4>2, <4>3 DEF OwnView
    <3>2. ASSUME NEW e \in Client \ {c}, told'[e] # {}
          PROVE  OwnView(down'[e], callbacks[e], mPlayerSprite[e], mPlayerId[e], mPos[e])
      BY <2>3, <2>4, <2>5, <2>8, <3>2, Heard
    <3>3. ASSUME NEW e \in Client, told'[e] # {}
          PROVE  OwnView(down'[e], callbacks[e], mPlayerSprite[e], mPlayerId[e], mPos'[e])
      <4>1. CASE e = c
        BY <2>2, <2>6, <3>1, <4>1
      <4>2. CASE e # c
        BY <2>6, <3>2, <3>3, <4>2
      <4> QED  BY <4>1, <4>2
    <3> QED  BY <1>2, <3>3 DEF OwnInv, clientVars
  <2>12. PeerInv'
    <3>1. ASSUME NEW d \in told'[c] \ (Dummy \cup {c})
          PROVE  PeerView(down'[d], callbacks[d], mPeerMap[d], m_loginId[d], p, x)
      <4>1. d \in Client /\ d \notin Dummy /\ mConnected[d] /\ mPlayerId[d] # p
        BY <2>8, <3>1
      <4>2. PICK s, id, me : s = down[d] /\ id = m_loginId[d] /\ me = mPlayerId[d]
        OBVIOUS
      <4>3. IdView(s, id, me) /\ me # p /\ s \in Seq(DownPacket) /\ MoveTo(p, x) \in DownPacket
        BY <2>2, <2>3, <4>1, <4>2, ViewTypes DEF ViewInv, IdInv
      <4>4. Pending(Append(s, MoveTo(p, x)), id, p, x)
        BY <4>3, NewPending, Zenon
      <4>5. Pending(down'[d], m_loginId[d], p, x)
        BY <2>2, <2>5, <4>1, <4>2, <4>4
      <4> QED  BY <4>5 DEF PeerView
    <3>2. ASSUME NEW e \in Client \ {c}, NEW d \in told'[e] \ (Dummy \cup {e})
          PROVE  PeerView(down'[d], callbacks[d], mPeerMap[d], m_loginId[d], mPlayerId[e], mPos[e])
      <4>1. mPlayerId[e] # p /\ d \in told[e] /\ d \in Client
        BY <2>8, <3>2
      <4> QED  BY <2>3, <2>4, <2>5, <3>2, <4>1, Heard
    <3>3. ASSUME NEW e \in Client, NEW d \in told'[e] \ (Dummy \cup {e})
          PROVE  PeerView(down'[d], callbacks[d], mPeerMap[d], m_loginId[d], mPlayerId[e], mPos'[e])
      <4>1. CASE e = c
        BY <2>2, <2>6, <3>1, <3>3, <4>1
      <4>2. CASE e # c
        BY <2>6, <3>2, <3>3, <4>2
      <4> QED  BY <4>1, <4>2
    <3> QED  BY <1>2, <3>3 DEF PeerInv, clientVars
  <2> QED  BY <1>4, <1>5, <2>9, <2>10, <2>11, <2>12 DEF ViewInv
<1> QED  BY <1>6, <1>7
-----------------------------------------------------------------------------
(* Every step keeps what the clients will see.                             *)
LEMMA NextViews == IInv /\ ViewInv /\ [Next]_vars => ViewInv'
<1> SUFFICES ASSUME IInv, ViewInv, [Next]_vars PROVE ViewInv'
  OBVIOUS
<1>1. ASSUME NEW c \in Client,
             \/ OnKeyReleased(c) \/ ProcessPacket(c) \/ RunCallback(c)
             \/ HandleReadPayload(c) \/ OnTick(c) \/ SendPacketThrows(c)
             \/ GetInstance(c) \/ HandleConnect(c) \/ Disconnect(c)
             \/ OnLogin(c) \/ OnChat(c) \/ OnMove(c) \/ OnDbUpdate(c)
      PROVE  ViewInv'
  BY <1>1, KeyViews, ProcessViews, CallbackViews, ReadViews, TickViews, ThrowViews, JoinViews,
     DisconnectViews, OnLoginViews, OnChatViews, OnMoveViews, UpdateViews
<1>2. ASSUME NEW p \in Player, CreatePlayer(p, Start + 1) \/ DeletePlayer(p) PROVE ViewInv'
  <2>1. Start + 1 \in Int
    BY PlayersAssumption
  <2> QED  BY <1>2, <2>1, TableViews
<1>3. ASSUME UNCHANGED vars PROVE ViewInv'
  <2>1. UNCHANGED <<clientVars, up, down, sessionVars, dbVars, told>>
    BY <1>3 DEF vars
  <2> QED  BY <2>1, SameViews DEF ViewInv, clientVars, sessionVars, dbVars, jobVars
<1> QED  BY <1>1, <1>2, <1>3, ExecuteViews, DispatchViews DEF Next

(* What the clients will see is settled in every state.                    *)
LEMMA ViewInvariance == Spec => [](IInv /\ ViewInv)
BY InitInv, NextInv, InitViews, NextViews, PTL DEF Spec

(* Once nothing is on its way, they see it.                                *)
LEMMA ViewsFollow == IInv /\ ViewInv => ViewsAgree
<1> SUFFICES ASSUME IInv, ViewInv, Quiet, NEW c \in Client, Online(c)
             PROVE  /\ m_loginId[c] = mPlayerId[c]
                    /\ told[c] # {} => mPlayerSprite[c] = mPos[c]
                    /\ \A d \in told[c] \ (Dummy \cup {c}) :
                         mPlayerId[c] \in DOMAIN mPeerMap[d] /\ mPeerMap[d][mPlayerId[c]] = mPos[c]
  BY DEF ViewsAgree
<1>1. \A d \in Client : mConnected[d] => down[d] = <<>> /\ callbacks[d] = <<>>
  BY DEF Quiet
<1>2. mConnected[c] /\ mPlayerId[c] # NoPlayer
  BY DEF Online
<1>3. \A B, g : ~LastIn(<<>>, B, g)
  BY DEF LastIn
<1>4. m_loginId[c] = mPlayerId[c]
  <2>1. CASE c \in Dummy
    BY <1>2, <2>1 DEF ViewInv, DummyInv
  <2>2. CASE c \notin Dummy
    <3>1. IdView(<<>>, m_loginId[c], mPlayerId[c])
      BY <1>1, <1>2, <2>2 DEF ViewInv, IdInv
    <3> QED  BY <1>3, <3>1 DEF IdView
  <2> QED  BY <2>1, <2>2
<1>5. ASSUME told[c] # {} PROVE mPlayerSprite[c] = mPos[c]
  <2>1. OwnView(<<>>, <<>>, mPlayerSprite[c], mPlayerId[c], mPos[c])
    BY <1>1, <1>2, <1>5 DEF ViewInv, OwnInv
  <2> QED  BY <1>3, <2>1 DEF OwnView
<1>6. ASSUME NEW d \in told[c] \ (Dummy \cup {c})
      PROVE  mPlayerId[c] \in DOMAIN mPeerMap[d] /\ mPeerMap[d][mPlayerId[c]] = mPos[c]
  <2>1. d \in Client /\ mConnected[d]
    BY <1>6 DEF ViewInv, LinkInv
  <2>2. PeerView(<<>>, <<>>, mPeerMap[d], m_loginId[d], mPlayerId[c], mPos[c])
    BY <1>1, <1>6, <2>1 DEF ViewInv, PeerInv
  <2>3. \A id, p, x : ~Pending(<<>>, id, p, x)
    BY DEF Pending
  <2> QED  BY <1>3, <2>2, <2>3 DEF PeerView
<1> QED  BY <1>4, <1>5, <1>6

(* The clients agree with their sessions when nothing is on its way: each  *)
(* has the id its session has, and draws its player, and the players of    *)
(* the sessions that have moved while it was connected, where the sessions *)
(* have them (PKT_CS_MOVE, Broadcast, processPacket, updateMe, updatePeer, *)
(* HandleReadPayload).                                                     *)
THEOREM ViewSafety == Spec => []ViewsAgree
BY ViewInvariance, ViewsFollow, PTL
=============================================================================
