-------------------------------- MODULE Heap --------------------------------
(***************************************************************************)
(* The kernel heap (QKMemHeap.cpp): a list of blocks that tile the arena,  *)
(* each behind a header with its size, its used flag and its two links.    *)
(* allocate() takes the first free block that is large enough and splits   *)
(* it; free() marks the block and merges runs of free blocks.              *)
(*                                                                         *)
(* Addresses are offsets from the base of the arena, and a block is named  *)
(* by the offset of its header.  The list is in the order of addresses,    *)
(* which is part of WellFormed: with it the walks of findFreeBlock and     *)
(* mergeBlocks are a choice of least addresses.  Requests are so small     *)
(* that rounding them up does not wrap a 64-bit size.                      *)
(***************************************************************************)
EXTENDS Integers, FiniteSets

CONSTANTS Header,   \* sizeof(BlockHeader)
          Align,    \* sizes are multiples of this
          Requests, \* numbers of bytes clients ask for, zero included
          Arenas    \* sizes initialize() is called with

ASSUME HeapAssumption ==
  /\ Header \in Nat \ {0} /\ Align \in Nat \ {0}
  /\ Requests \subseteq Nat /\ Arenas \subseteq Nat

VARIABLES
  total,           \* m_totalSize
  blocks,          \* header offset -> size, used, next, prev
  usedSize,        \* m_usedSize
  allocationCount, \* m_allocationCount
  granted,         \* history: pointers clients hold -> bytes they asked for
  answer           \* history: what the last call asked for and got

vars == <<total, blocks, usedSize, allocationCount, granted, answer>>

Null == -1
First == 0
Silent == [asked |-> 0, got |-> Null]

End(bs, b) == b + Header + bs[b].size
Pointer(b) == b + Header

\* (size + 15) & ~15
AlignUp(n) == LET up == n + Align - 1 IN up - (up % Align)

Least(S) == CHOOSE x \in S : \A y \in S : x <= y
Greatest(S) == CHOOSE x \in S : \A y \in S : y <= x
LeastOrNull(S) == IF S = {} THEN Null ELSE Least(S)
GreatestOrNull(S) == IF S = {} THEN Null ELSE Greatest(S)

-----------------------------------------------------------------------------
(* The operations on a list of blocks. *)

\* (Mutant: the header is taken for a part of the block's bytes.)
Candidates_WithHeader(bs, n) ==
  {b \in DOMAIN bs : ~bs[b].used /\ bs[b].size + Header >= n}

\* The free blocks of at least n bytes; findFreeBlock returns the first.
Candidates(bs, n) == {b \in DOMAIN bs : ~bs[b].used /\ bs[b].size >= n}

\* (Mutant: the rest of the block is one header too large.)
Split_NoHeader(bs, b, n) ==
  LET new == b + Header + n IN
  [c \in DOMAIN bs \cup {new} |->
     CASE c = new -> [size |-> bs[b].size - n, used |-> FALSE,
                      next |-> bs[b].next, prev |-> b]
       [] c = b -> [bs[b] EXCEPT !.size = n, !.next = new]
       [] c = bs[b].next /\ c # new -> [bs[c] EXCEPT !.prev = new]
       [] OTHER -> bs[c]]

\* splitBlock: the bytes of b behind its first n become a free block.
Split(bs, b, n) ==
  LET new == b + Header + n IN
  [c \in DOMAIN bs \cup {new} |->
     CASE c = new -> [size |-> bs[b].size - n - Header, used |-> FALSE,
                      next |-> bs[b].next, prev |-> b]
       [] c = b -> [bs[b] EXCEPT !.size = n, !.next = new]
       [] c = bs[b].next /\ c # new -> [bs[c] EXCEPT !.prev = new]
       [] OTHER -> bs[c]]

\* The second half of allocate: split when the rest is worth a block, use b.
Use(bs, b, n) ==
  LET cut == IF bs[b].size > n + Header + Align THEN Split(bs, b, n) ELSE bs
  IN  [cut EXCEPT ![b].used = TRUE]

\* The blocks that mergeBlocks keeps: all but the free ones whose predecessor
\* is free too.
Kept(bs) == {b \in DOMAIN bs : bs[b].used \/ b = First \/ bs[bs[b].prev].used}
KeptAfter(bs, b) == LeastOrNull({c \in Kept(bs) : c > b})
KeptBefore(bs, b) == GreatestOrNull({c \in Kept(bs) : c < b})

\* mergeBlocks: a free block takes in the run of free blocks behind it.
Merge(bs, size) ==
  [b \in Kept(bs) |->
     [size |-> IF bs[b].used THEN bs[b].size
               ELSE (IF KeptAfter(bs, b) = Null THEN size ELSE KeptAfter(bs, b)) - b - Header,
      used |-> bs[b].used,
      next |-> KeptAfter(bs, b),
      prev |-> KeptBefore(bs, b)]]

\* (Mutant: freed blocks are not merged.)
Release_NoMerge(bs, b, size) == [bs EXCEPT ![b].used = FALSE]

Release(bs, b, size) == Merge([bs EXCEPT ![b].used = FALSE], size)

-----------------------------------------------------------------------------
(* The operations of the heap. *)

Init ==
  /\ total = 0 /\ blocks = [b \in {} |-> 0]
  /\ usedSize = 0 /\ allocationCount = 0
  /\ granted = [p \in {} |-> 0] /\ answer = Silent

\* A second call changes nothing, whatever its arena.
Initialize(size) ==
  /\ total = 0 /\ size > Header
  /\ total' = size
  /\ blocks' = [b \in {First} |-> [size |-> size - Header, used |-> FALSE,
                                   next |-> Null, prev |-> Null]]
  /\ usedSize' = Header /\ allocationCount' = 0
  /\ answer' = Silent
  /\ UNCHANGED granted

Refuse(n) ==
  /\ answer' = [asked |-> n, got |-> Null]
  /\ UNCHANGED <<total, blocks, usedSize, allocationCount, granted>>

Allocate(n) ==
  IF n = 0 \/ Candidates(blocks, AlignUp(n)) = {} THEN Refuse(n)
  ELSE LET b == Least(Candidates(blocks, AlignUp(n))) IN
    /\ blocks' = Use(blocks, b, AlignUp(n))
    /\ usedSize' = usedSize + blocks'[b].size + Header
    /\ allocationCount' = allocationCount + 1
    /\ granted' = [p \in DOMAIN granted \cup {Pointer(b)} |->
                     IF p = Pointer(b) THEN n ELSE granted[p]]
    /\ answer' = [asked |-> n, got |-> Pointer(b)]
    /\ UNCHANGED total

\* A block that is not in use is reported as freed twice and left alone.
Free(p) ==
  LET b == p - Header IN
  /\ blocks[b].used
  /\ blocks' = Release(blocks, b, total)
  /\ usedSize' = usedSize - (blocks[b].size + Header)
  /\ allocationCount' = allocationCount - 1
  /\ granted' = [q \in DOMAIN granted \ {p} |-> granted[q]]
  /\ answer' = Silent
  /\ UNCHANGED total

\* reallocate with room in the block: nothing moves, nothing shrinks.
Reallocate_InPlace(p, n) ==
  /\ n > 0 /\ blocks[p - Header].size >= n
  /\ granted' = [granted EXCEPT ![p] = n]
  /\ answer' = [asked |-> n, got |-> p]
  /\ UNCHANGED <<total, blocks, usedSize, allocationCount>>

\* reallocate without room: allocate, copy, free the old block.
Reallocate_Move(p, n) ==
  /\ n > 0 /\ blocks[p - Header].size < n
  /\ LET old == p - Header
         fit == Candidates(blocks, AlignUp(n))
     IN  IF fit = {} THEN Refuse(n)
         ELSE LET b == Least(fit)
                  taken == Use(blocks, b, AlignUp(n))
              IN
           /\ blocks' = Release(taken, old, total)
           /\ usedSize' = usedSize + taken[b].size + Header - (taken[old].size + Header)
           /\ granted' = [q \in (DOMAIN granted \ {p}) \cup {Pointer(b)} |->
                            IF q = Pointer(b) THEN n ELSE granted[q]]
           /\ answer' = [asked |-> n, got |-> Pointer(b)]
           /\ UNCHANGED <<total, allocationCount>>

Next ==
  \/ \E size \in Arenas : Initialize(size)
  \/ \E n \in Requests : Allocate(n)
  \/ \E p \in DOMAIN granted : Free(p)
  \/ \E p \in DOMAIN granted, n \in Requests :
       Reallocate_InPlace(p, n) \/ Reallocate_Move(p, n)

Spec == Init /\ [][Next]_vars

-----------------------------------------------------------------------------
Block == [size : Nat, used : BOOLEAN, next : Nat \cup {Null}, prev : Nat \cup {Null}]

\* Types of the members; blocks is a function on offsets inside the arena.
TypeOK ==
  /\ total \in Nat /\ usedSize \in Int /\ allocationCount \in Nat
  /\ DOMAIN blocks \subseteq 0 .. total /\ blocks \in [DOMAIN blocks -> Block]
  /\ DOMAIN granted \subseteq Nat /\ granted \in [DOMAIN granted -> Requests \ {0}]
  /\ answer \in [asked : Requests \cup {0}, got : Nat \cup {Null}]

\* The blocks tile an arena of the given size: each ends where the next one
\* begins, the last at the end of the arena, none reaches into another, the
\* back links mirror the links, and no two neighbours are both free.
WellFormed(bs, size) ==
  /\ First \in DOMAIN bs
  /\ \A b \in DOMAIN bs :
       /\ bs[b].next = Null => End(bs, b) = size
       /\ bs[b].next # Null => bs[b].next = End(bs, b) /\ bs[b].next \in DOMAIN bs
       /\ b = First => bs[b].prev = Null
       /\ b # First => bs[b].prev \in DOMAIN bs /\ bs[bs[b].prev].next = b
       /\ End(bs, b) <= size
  /\ \A b, c \in DOMAIN bs : b < c => End(bs, b) <= c

Coalesced(bs) ==
  \A b \in DOMAIN bs :
    ~bs[b].used /\ bs[b].next # Null => bs[bs[b].next].used

\* The list of blocks tiles the arena after every call, and what clients hold
\* are exactly its used blocks, each large enough.
ShapeOK ==
  /\ total = 0 => DOMAIN blocks = {}
  /\ total # 0 => WellFormed(blocks, total) /\ Coalesced(blocks)
  /\ DOMAIN granted = {Pointer(b) : b \in {c \in DOMAIN blocks : blocks[c].used}}
  /\ \A p \in DOMAIN granted : granted[p] <= blocks[p - Header].size

Used == {b \in DOMAIN blocks : blocks[b].used}

\* A call is refused only if the memory between two neighbouring blocks in
\* use, or between one and an end of the arena, is nowhere large enough for a
\* header and the request: freed memory is never lost to the list.
RefusedOnlyWhenFull ==
  total # 0 /\ answer.asked > 0 /\ answer.got = Null =>
    \A from \in {First} \cup {End(blocks, b) : b \in Used},
       to \in {total} \cup Used :
      from <= to /\ (\A b \in Used : End(blocks, b) <= from \/ to <= b)
        => to - from < Header + AlignUp(answer.asked)

A == INSTANCE Arena WITH arena <- total, live <- granted

\* The heap gives its clients the regions of an Arena.
ImplementsArena == A!ArenaSpec
=============================================================================
