----------------------------- MODULE MemBackend -----------------------------
(***************************************************************************)
(* The memory backends (lib/memory.c).  The library, every engine and every *)
(* VM allocate from a backend of their own; they share one account of the    *)
(* memory in use.  A backend keeps a list of the blocks it got from the      *)
(* system, so that its release frees what nobody freed, and cuts some of     *)
(* them into chunks of a power of two, which it hands out from one free list *)
(* per size.  What is kept in a block is gone when it is freed, its links     *)
(* among it.                                                                 *)
(*                                                                          *)
(* Sizes are counted in units of the smallest chunk, which is also the size  *)
(* of a chunk's header.  An owner gives back only what it was given.         *)
(***************************************************************************)
EXTENDS DList, Integers, FiniteSets, FiniteSetsExt, Functions

CONSTANTS
    Root,           \* the backend of the library
    Children,       \* backends of engines and VMs
    Blocks,         \* addresses of blocks
    NBuckets,       \* SXMEM_POOL_NBUCKETS
    BlockUnits,     \* sizeof(SyMemBlock)
    HeapUnits,      \* sizeof(SyMemHeap)
    Requests,       \* sizes that are asked for
    Limits,         \* limits the host configures, 0 for none
    MaxUsage        \* bound on the account

ASSUME MemBackendAssumption ==
    /\ Null \notin Blocks /\ IsFiniteSet(Blocks) /\ Root \notin Children
    /\ NBuckets \in Nat /\ BlockUnits \in Nat /\ HeapUnits \in Nat /\ MaxUsage \in Nat
    /\ Requests \subseteq Nat \ {0} /\ Limits \subseteq Nat

Backends == {Root} \cup Children
Buckets == 0 .. NBuckets

VARIABLES
    nSize,      \* pHeap->nSize: what is in use
    nLimit,     \* pHeap->nLimit, less the reserve of 10240 bytes
    parent,     \* of each backend in use
    pBlocks,    \* list of the blocks of each backend
    nBlock,
    size,       \* the size noted before each block, 0: not allocated
    apPool,     \* free chunks of each backend and bucket
    held        \* what the owners of each backend hold

memVars == <<nSize, nLimit, parent, pBlocks, nBlock, size, apPool, held>>

Big == NBuckets + 1     \* a block behind a chunk's header
Raw == NBuckets + 2     \* a block

\* A piece of memory: where it begins, and the bucket to return it to.
Piece == [block: Blocks, at: Nat, bucket: Buckets \cup {Big, Raw}]

MemTypeOK ==
    /\ nSize \in Nat /\ nLimit \in Limits \cup {0}
    /\ parent \in [Backends -> Backends \cup {Null}]
    /\ nBlock \in [Backends -> Nat]
    /\ size \in [Blocks -> Nat]
    /\ \A b \in Backends : held[b] \subseteq Piece /\ DOMAIN apPool[b] = Buckets

\* The chunks of a bucket are twice as large as those of the one before it.
BucketUnits[k \in Buckets] == IF k = 0 THEN 1 ELSE 2 * BucketUnits[k - 1]
BucketSize(k) == BucketUnits[k]
MaxAlloc == BucketSize(NBuckets)            \* SXMEM_POOL_MAXALLOC
HeaderUnits == 1
InUse == {b \in Backends : parent[b] # Null}
Unused == {x \in Blocks : size[x] = 0}
Empty == [k \in Buckets |-> <<>>]

\* SyMemBackendInit of the library's backend.
MemInit ==
    /\ nSize = HeapUnits /\ nLimit = 0
    /\ parent = [b \in Backends |-> IF b = Root THEN Root ELSE Null]
    /\ pBlocks = [b \in Backends |-> EmptyList(Blocks)]
    /\ nBlock = [b \in Backends |-> 0]
    /\ size = [x \in Blocks |-> 0]
    /\ apPool = [b \in Backends |-> Empty]
    /\ held = [b \in Backends |-> {}]

-----------------------------------------------------------------------------
Lenient(n) == nLimit # 0 => nSize <= nLimit      \* mutant: without what is asked for

\* MemBackendCalculate: whether n more units are within the limit.
Fits(n) == nLimit # 0 => nSize + n <= nLimit

\* ... which counts them before the system is asked for them.
Counts(n) == Fits(n) /\ nSize + n <= MaxUsage /\ nSize' = nSize + n

\* MemBackendAlloc of n units for b, at the address x.
MemBackendAlloc(b, n, x) ==
    /\ x \in Unused
    /\ Counts(n + BlockUnits)
    /\ size' = [size EXCEPT ![x] = n + BlockUnits]
    /\ pBlocks' = [pBlocks EXCEPT ![b] = PushItem(Zeroed(@, x), x)]
    /\ nBlock' = [nBlock EXCEPT ![b] = @ + 1]

Hold(b, piece) == held' = [held EXCEPT ![b] = @ \cup {piece}]

SyMemBackendAlloc(b, n) ==
    \E x \in Blocks :
        /\ MemBackendAlloc(b, n, x)
        /\ Hold(b, [block |-> x, at |-> 0, bucket |-> Raw])
        /\ UNCHANGED <<nLimit, parent, apPool>>

\* The system has no memory, or the retries of the out-of-memory callback are
\* used up: what was counted stays counted.
AllocFails(n) ==
    /\ Counts(n + BlockUnits)
    /\ UNCHANGED <<nLimit, parent, pBlocks, nBlock, size, apPool, held>>

StandsBehind(l, x, y) ==                \* mutant: the head is not moved
    [head |-> l.head,
     next |-> Link([l.next EXCEPT ![y] = l.next[x]], l.prev[x], y),
     prev |-> Link([l.prev EXCEPT ![y] = l.prev[x]], l.next[x], y)]

\* The block y takes the place of x in the list.
Stands(l, x, y) ==
    [head |-> IF l.prev[x] = Null THEN y ELSE l.head,
     next |-> Link([l.next EXCEPT ![y] = l.next[x]], l.prev[x], y),
     prev |-> Link([l.prev EXCEPT ![y] = l.prev[x]], l.next[x], y)]

\* SyMemBackendRealloc: a block that is too small grows, in place or elsewhere.
SyMemBackendRealloc(b, piece, n) ==
    LET x == piece.block
    IN  /\ size[x] < n + BlockUnits
        /\ Counts(n + BlockUnits - size[x])
        /\ \E y \in Unused \cup {x} :
             /\ size' = [size EXCEPT ![x] = 0, ![y] = n + BlockUnits]
             /\ pBlocks' = IF y = x THEN pBlocks
                           ELSE [pBlocks EXCEPT ![b] = Zeroed(Stands(@, x, y), x)]
             /\ held' = [held EXCEPT ![b] = (@ \ {piece}) \cup {[piece EXCEPT !.block = y]}]
        /\ UNCHANGED <<nLimit, parent, nBlock, apPool>>

\* MemBackendFree
MemBackendFree(b, x) ==
    /\ pBlocks' = [pBlocks EXCEPT ![b] = Zeroed(RemoveItem(@, x), x)]
    /\ nBlock' = [nBlock EXCEPT ![b] = @ - 1]
    /\ nSize' = nSize - size[x]
    /\ size' = [size EXCEPT ![x] = 0]

GiveBack(b, piece) == held' = [held EXCEPT ![b] = @ \ {piece}]

SyMemBackendFree(b, piece) ==
    /\ piece.bucket = Raw
    /\ MemBackendFree(b, piece.block)
    /\ GiveBack(b, piece)
    /\ UNCHANGED <<nLimit, parent, apPool>>

-----------------------------------------------------------------------------
OneMoreChunk(x, k) ==                   \* mutant: cut one chunk too many
    [i \in 1 .. MaxAlloc \div BucketSize(k) + 1 |->
        [block |-> x, at |-> (i - 1) * BucketSize(k), bucket |-> k]]

\* MemPoolBucketAlloc: a block is cut into chunks for the bucket k.
MemPoolBucket(x, k) ==
    [i \in 1 .. MaxAlloc \div BucketSize(k) |->
        [block |-> x, at |-> (i - 1) * BucketSize(k), bucket |-> k]]

SmallestBucket(n) == Min({k \in Buckets : n + HeaderUnits <= BucketSize(k)})

\* SyMemBackendPoolAlloc of what is too large for a bucket.
PoolAllocBig(b, n) ==
    /\ n + HeaderUnits >= MaxAlloc
    /\ \E x \in Blocks :
         /\ MemBackendAlloc(b, n + HeaderUnits, x)
         /\ Hold(b, [block |-> x, at |-> 0, bucket |-> Big])
    /\ UNCHANGED <<nLimit, parent, apPool>>

\* SyMemBackendPoolAlloc of a chunk: the first free one of the bucket.
PoolAlloc(b, n) ==
    LET k == SmallestBucket(n)
    IN  /\ n + HeaderUnits < MaxAlloc /\ apPool[b][k] # <<>>
        /\ Hold(b, Head(apPool[b][k]))
        /\ apPool' = [apPool EXCEPT ![b][k] = Tail(@)]
        /\ UNCHANGED <<nSize, nLimit, parent, pBlocks, nBlock, size>>

\* ... the first one of a new block, if the bucket has none.
PoolAllocFresh(b, n) ==
    LET k == SmallestBucket(n)
    IN  /\ n + HeaderUnits < MaxAlloc /\ apPool[b][k] = <<>>
        /\ \E x \in Blocks :
             /\ MemBackendAlloc(b, MaxAlloc, x)
             /\ Hold(b, Head(MemPoolBucket(x, k)))
             /\ apPool' = [apPool EXCEPT ![b][k] = Tail(MemPoolBucket(x, k))]
        /\ UNCHANGED <<nLimit, parent>>

\* SyMemBackendPoolFree
SyMemBackendPoolFree(b, piece) ==
    /\ piece.bucket # Raw
    /\ IF piece.bucket = Big
       THEN MemBackendFree(b, piece.block) /\ UNCHANGED apPool
       ELSE /\ apPool' = [apPool EXCEPT ![b][piece.bucket] = <<piece>> \o @]
            /\ UNCHANGED <<nSize, size, pBlocks, nBlock>>
    /\ GiveBack(b, piece)
    /\ UNCHANGED <<nLimit, parent>>

-----------------------------------------------------------------------------
\* SyMemBackendInitFromParent: the child has no blocks and shares the account.
SyMemBackendInitFromParent(b, p) ==
    /\ parent[b] = Null
    /\ Counts(HeapUnits)
    /\ parent' = [parent EXCEPT ![b] = p]
    /\ UNCHANGED <<nLimit, pBlocks, nBlock, size, apPool, held>>

\* SyMemBackendRelease of a child without children (Engine has the order of
\* the releases): nBlock blocks are freed, from the head.  Their sizes are not
\* taken off the account.
SyMemBackendRelease(b) ==
    /\ b \notin {parent[c] : c \in Children}
    /\ size' = [x \in Blocks |->
                    IF x \in {Steps(pBlocks[b], nBlock[b])[i] : i \in 0 .. nBlock[b] - 1}
                    THEN 0 ELSE size[x]]
    /\ parent' = [parent EXCEPT ![b] = Null]
    /\ pBlocks' = [pBlocks EXCEPT ![b] = EmptyList(Blocks)]
    /\ nBlock' = [nBlock EXCEPT ![b] = 0]
    /\ apPool' = [apPool EXCEPT ![b] = Empty]
    /\ held' = [held EXCEPT ![b] = {}]
    /\ UNCHANGED <<nSize, nLimit>>

\* PH7_CONFIG_MEM_LIMIT
ConfigureLimit(n) ==
    /\ nLimit' = n /\ n # nLimit
    /\ UNCHANGED <<nSize, parent, pBlocks, nBlock, size, apPool, held>>

MemNext ==
    \/ \E b \in InUse, n \in Requests :
          \/ SyMemBackendAlloc(b, n)
          \/ PoolAlloc(b, n) \/ PoolAllocFresh(b, n) \/ PoolAllocBig(b, n)
          \/ \E piece \in held[b] : piece.bucket = Raw /\ SyMemBackendRealloc(b, piece, n)
    \/ \E b \in InUse : \E piece \in held[b] :
          SyMemBackendFree(b, piece) \/ SyMemBackendPoolFree(b, piece)
    \/ \E n \in Requests : AllocFails(n)
    \/ \E b \in Children : \/ \E p \in InUse : SyMemBackendInitFromParent(b, p)
                           \/ b \in InUse /\ SyMemBackendRelease(b)
    \/ \E n \in Limits : ConfigureLimit(n)

MemSpec == MemInit /\ [][MemNext]_memVars

-----------------------------------------------------------------------------
Walked(at, n) == {at[i] : i \in 0 .. n - 1}

\* The blocks that a release of b would free.
BlocksOf(b) == Walked(Steps(pBlocks[b], nBlock[b]), nBlock[b])

FreeIn(b) == UNION {Range(apPool[b][k]) : k \in Buckets}

\* What b has handed out or has to hand out.
Given == UNION {{b} \X (held[b] \cup FreeIn(b)) : b \in InUse}

\* The units of a piece that its owner may write to.
Units(piece) ==
    LET n == IF piece.bucket \in Buckets THEN BucketSize(piece.bucket)
             ELSE size[piece.block] - BlockUnits
    IN  {<<piece.block, u>> : u \in piece.at .. piece.at + n - 1}

Overlap(given, other) == given # other /\ Units(given[2]) \cap Units(other[2]) # {}

(* A unit of memory belongs to one owner or to one free list, once, however *)
(* chunks and blocks of all sizes were taken and returned, and lies within   *)
(* a block that its own backend will free: two users never write to the same *)
(* chunk, and none writes past the end of a block.                           *)
OneOwner ==
    /\ \A b \in InUse : /\ held[b] \cap FreeIn(b) = {}
                        /\ \A k \in Buckets : IsInjective(apPool[b][k])
    /\ \A given, other \in Given : ~Overlap(given, other)
    /\ \A given \in Given :
         /\ given[2].block \in BlocksOf(given[1])
         /\ \A unit \in Units(given[2]) : unit[2] < size[unit[1]] - BlockUnits

(* The lists hold every block that is allocated, each in one backend, so     *)
(* that the releases, which count their steps, free all of them once.        *)
BlocksTracked ==
    /\ {x \in Blocks : size[x] # 0} = UNION {BlocksOf(b) : b \in InUse}
    /\ \A b \in InUse : /\ Cardinality(BlocksOf(b)) = nBlock[b]
                        /\ Linked(pBlocks[b], BlocksOf(b))
    /\ \A b, c \in InUse : b # c => BlocksOf(b) \cap BlocksOf(c) = {}

\* What all the blocks take.
InBlocks == FoldSet(LAMBDA x, sum : sum + size[x], 0, Blocks)

(* No block is taken or grown while the blocks of all backends together would *)
(* exceed the limit the host has configured: the account they share never     *)
(* says less than what is in use.                                             *)
LimitHonoured == [][InBlocks' > InBlocks /\ nLimit # 0 => InBlocks' <= nLimit]_memVars

=============================================================================
