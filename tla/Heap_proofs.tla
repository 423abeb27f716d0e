----------------------------- MODULE Heap_proofs -----------------------------
(***************************************************************************)
(* The heap is correct for every arena, header, alignment and request.     *)
(* First the operations on a list of blocks: splitting and merging keep it *)
(* a tiling of the arena.  Then the inductive invariant of the heap, which *)
(* needs nothing beyond the shape of the list but that a refused request   *)
(* had no candidate; the theorems on the clients' side follow from it.     *)
(* MCMemory, in which TLC checks the heap beside the page tables, takes    *)
(* only steps of the heap.                                                 *)
(***************************************************************************)
EXTENDS MCMemory, FiniteSetTheorems, WellFoundedInduction, TLAPS

\* A list of blocks that tiles an arena of z bytes, with its types.
Sound(bs, z) == /\ z \in Nat /\ DOMAIN bs \subseteq 0 .. z
                /\ bs \in [DOMAIN bs -> Block]
                /\ WellFormed(bs, z)

UsedIn(bs) == {b \in DOMAIN bs : bs[b].used}

-----------------------------------------------------------------------------
(* Arithmetic and choice. *)

\* Rounding up to the alignment loses no byte.
LEMMA AlignUpBound ==
  ASSUME NEW n \in Nat
  PROVE  AlignUp(n) \in Nat /\ n <= AlignUp(n)
<1>1. Align \in Nat /\ Align > 0
  BY HeapAssumption
<1>2. n + Align - 1 \in Nat
  BY <1>1
<1>3. (n + Align - 1) % Align \in 0 .. (Align - 1)
  BY <1>1, <1>2
<1> QED BY <1>1, <1>2, <1>3 DEF AlignUp

\* A non-empty set of naturals has a least element.
LEMMA LeastNatural ==
  ASSUME NEW T \in SUBSET Nat, T # {}
  PROVE  \E x \in T : \A y \in T : x <= y
<1> DEFINE R == {p \in Nat \X Nat : p[1] < p[2]}
<1>1. IsWellFoundedOn(R, Nat)
  BY NatLessThanWellFounded DEF OpToRel
<1>2. PICK x \in T : \A y \in T : ~ (<<y, x>> \in R)
  <2> HIDE DEF R
  <2> QED BY <1>1, WFMin
<1>3. \A y \in T : ~ (y < x)
  BY <1>2
<1> QED BY <1>3

LEMMA LeastOf ==
  ASSUME NEW S \in SUBSET Nat, S # {}
  PROVE  Least(S) \in S /\ \A y \in S : Least(S) <= y
BY LeastNatural DEF Least

\* A non-empty set of naturals with an upper bound has a greatest element.
LEMMA GreatestOf ==
  ASSUME NEW z \in Nat, NEW S \in SUBSET (0 .. z), S # {}
  PROVE  Greatest(S) \in S /\ \A y \in S : y <= Greatest(S)
<1> DEFINE T == {z - x : x \in S}
<1>1. T \in SUBSET Nat /\ T # {}
  <2>1. \A x \in S : z - x \in Nat
    OBVIOUS
  <2>2. PICK x \in S : TRUE
    OBVIOUS
  <2>3. z - x \in T
    BY <2>2
  <2> QED BY <2>1, <2>3
<1>2. PICK t \in T : \A u \in T : t <= u
  BY <1>1, LeastNatural
<1>3. PICK x \in S : t = z - x
  BY <1>2
<1>4. \A y \in S : y <= x
  BY <1>2, <1>3
<1> QED BY <1>4 DEF Greatest

-----------------------------------------------------------------------------
(* Two facts about the links of a list. *)

\* The block behind b points back to b.
LEMMA NextPrev ==
  ASSUME NEW bs, NEW z, Sound(bs, z), NEW b \in DOMAIN bs, bs[b].next # Null
  PROVE  /\ bs[b].next \in DOMAIN bs /\ bs[b].next > b
         /\ bs[b].next # First /\ bs[bs[b].next].prev = b
<1> DEFINE s == bs[b].next
<1>1. s \in DOMAIN bs /\ s = b + Header + bs[b].size
  BY DEF Sound, WellFormed, End
<1>2. b \in Nat /\ bs[b].size \in Nat /\ Header \in Nat \ {0}
  BY HeapAssumption DEF Sound, Block
<1>3. s > b /\ s # First
  BY <1>1, <1>2 DEF First
<1> DEFINE p == bs[s].prev
<1>4. p \in DOMAIN bs /\ bs[p].next = s
  BY <1>1, <1>3 DEF Sound, WellFormed
<1>5. p \in Nat /\ bs[p].size \in Nat /\ s \in Nat
  BY <1>1, <1>4 DEF Sound, Block
<1>6. s = p + Header + bs[p].size
  BY <1>1, <1>4, <1>5 DEF Sound, WellFormed, End, Null
<1>7. ~(p < b) /\ ~(b < p)
  BY <1>1, <1>2, <1>4, <1>5, <1>6 DEF Sound, WellFormed, End
<1> QED BY <1>1, <1>2, <1>3, <1>5, <1>7

\* Behind a block without a successor there is nothing.
LEMMA LastBlock ==
  ASSUME NEW bs, NEW z, Sound(bs, z), NEW b \in DOMAIN bs, bs[b].next = Null,
         NEW c \in DOMAIN bs
  PROVE  ~(b < c)
<1>1. b \in Nat /\ c \in Nat /\ bs[c].size \in Nat /\ Header \in Nat \ {0} /\ z \in Nat
  BY HeapAssumption DEF Sound, Block
<1>2. End(bs, b) = z /\ End(bs, c) <= z /\ (b < c => End(bs, b) <= c)
  BY DEF Sound, WellFormed
<1> QED BY <1>1, <1>2 DEF End

-----------------------------------------------------------------------------
(* Allocation: splitting a free block and using its front. *)

\* Using a free block of at least n bytes keeps the list sound and coalesced;
\* the block is in use afterwards, with at least n bytes, and every other
\* block in use is what it was.
LEMMA UseSound ==
  ASSUME NEW bs, NEW z, Sound(bs, z), Coalesced(bs),
         NEW n \in Nat, NEW b \in Candidates(bs, n)
  PROVE  LET u == Use(bs, b, n) IN
         /\ Sound(u, z) /\ Coalesced(u)
         /\ UsedIn(u) = UsedIn(bs) \cup {b}
         /\ b \in DOMAIN u /\ n <= u[b].size
         /\ \A c \in UsedIn(bs) : c \in DOMAIN u /\ u[c].size = bs[c].size
<1>1. /\ b \in DOMAIN bs /\ ~bs[b].used /\ n <= bs[b].size
      /\ b \in Nat /\ bs[b].size \in Nat /\ Header \in Nat \ {0} /\ Align \in Nat \ {0}
      /\ z \in Nat
  BY HeapAssumption DEF Candidates, Sound, Block
<1>2. CASE ~(bs[b].size > n + Header + Align)
  <2> DEFINE u == [bs EXCEPT ![b].used = TRUE]
  <2>1. Use(bs, b, n) = u
    BY <1>2 DEF Use
  <2>2. DOMAIN u = DOMAIN bs /\ u[b] = [bs[b] EXCEPT !.used = TRUE]
        /\ \A c \in DOMAIN bs : c # b => u[c] = bs[c]
    BY <1>1
  <2>3. \A c \in DOMAIN bs : /\ bs[c] \in Block /\ u[c] \in Block
                             /\ u[c].size = bs[c].size /\ u[c].next = bs[c].next
                             /\ u[c].prev = bs[c].prev
                             /\ u[c].used = (bs[c].used \/ c = b)
    BY <1>1, <2>2, ZenonT(60) DEF Sound, Block
  <2> HIDE DEF u
  <2>4. WellFormed(u, z)
    BY <2>2, <2>3 DEF Sound, WellFormed, End
  <2>5. u \in [DOMAIN u -> Block]
    <3>1. u = [c \in DOMAIN u |-> u[c]]
      BY DEF u
    <3> QED BY <2>2, <2>3, <3>1
  <2>6. Sound(u, z)
    BY <2>2, <2>4, <2>5 DEF Sound
  <2>7. Coalesced(u)
    <3> SUFFICES ASSUME NEW c \in DOMAIN bs, ~u[c].used, u[c].next # Null
                 PROVE  u[u[c].next].used
      BY <2>2 DEF Coalesced
    <3>1. bs[c].next \in DOMAIN bs
      BY <2>3 DEF Sound, WellFormed
    <3> QED BY <2>3, <3>1 DEF Coalesced
  <2>8. UsedIn(u) = UsedIn(bs) \cup {b}
    BY <1>1, <2>2, <2>3 DEF UsedIn
  <2> QED BY <1>1, <2>1, <2>2, <2>3, <2>6, <2>7, <2>8 DEF UsedIn
<1>3. CASE bs[b].size > n + Header + Align
  <2> DEFINE new == b + Header + n
             s == bs[b].next
             u == Use(bs, b, n)
  <2>1. new \in Nat /\ new > b /\ new # First /\ new < End(bs, b) /\ b # new
    BY <1>1, <1>3 DEF End, First
  <2>2. new \notin DOMAIN bs
    <3> SUFFICES ASSUME new \in DOMAIN bs PROVE FALSE
      OBVIOUS
    <3>1. End(bs, b) <= new
      BY <1>1, <2>1 DEF Sound, WellFormed
    <3> QED BY <1>1, <2>1, <3>1 DEF End
  <2>3. s # b /\ s # new
    <3>1. s = Null \/ (s \in DOMAIN bs /\ s > b)
      BY <1>1, NextPrev
    <3> QED BY <1>1, <2>1, <2>2, <3>1 DEF Null
  <2>4. /\ DOMAIN u = DOMAIN bs \cup {new}
        /\ u[new] = [size |-> bs[b].size - n - Header, used |-> FALSE, next |-> s, prev |-> b]
        /\ u[b] = [bs[b] EXCEPT !.size = n, !.next = new, !.used = TRUE]
        /\ \A c \in DOMAIN bs : c # b /\ c # s => u[c] = bs[c]
        /\ s \in DOMAIN bs => u[s] = [bs[s] EXCEPT !.prev = new]
    <3> DEFINE cut == Split(bs, b, n)
    <3>1. /\ DOMAIN cut = DOMAIN bs \cup {new}
          /\ cut[new] = [size |-> bs[b].size - n - Header, used |-> FALSE, next |-> s, prev |-> b]
          /\ cut[b] = [bs[b] EXCEPT !.size = n, !.next = new]
          /\ \A c \in DOMAIN bs : c # b /\ c # s => cut[c] = bs[c]
          /\ s \in DOMAIN bs => cut[s] = [bs[s] EXCEPT !.prev = new]
      BY <1>1, <2>1, <2>2, <2>3 DEF Split
    <3>2. u = [cut EXCEPT ![b].used = TRUE]
      BY <1>3 DEF Use
    <3>3. u[b] = [cut[b] EXCEPT !.used = TRUE] /\ DOMAIN u = DOMAIN cut
          /\ \A c \in DOMAIN cut : c # b => u[c] = cut[c]
      <4> HIDE DEF cut, u
      <4> QED BY <1>1, <3>1, <3>2
    <3>4. bs[b] \in Block
      BY <1>1 DEF Sound
    <3>5. u[b] = [bs[b] EXCEPT !.size = n, !.next = new, !.used = TRUE]
      <4> HIDE DEF cut, u, new
      <4> QED BY <3>1, <3>3, <3>4 DEF Block
    <3> HIDE DEF cut, u
    <3> QED BY <1>1, <2>1, <2>2, <2>3, <3>1, <3>3, <3>5
  <2> HIDE DEF u
  <2>5. /\ u[new].size = bs[b].size - n - Header /\ ~u[new].used
        /\ u[new].next = s /\ u[new].prev = b
        /\ u[b].size = n /\ u[b].used /\ u[b].next = new /\ u[b].prev = bs[b].prev
        /\ \A c \in DOMAIN bs : c # b =>
             /\ u[c].size = bs[c].size /\ u[c].used = bs[c].used
             /\ u[c].next = bs[c].next
             /\ u[c].prev = IF c = s THEN new ELSE bs[c].prev
    <3>1. \A c \in DOMAIN bs : bs[c] \in Block
      BY DEF Sound
    <3> HIDE DEF new, s
    <3>2. u[b].size = n /\ u[b].used /\ u[b].next = new /\ u[b].prev = bs[b].prev
      BY <1>1, <2>4, <3>1 DEF Block
    <3>3. ASSUME NEW c \in DOMAIN bs, c # b
          PROVE  /\ u[c].size = bs[c].size /\ u[c].used = bs[c].used
                 /\ u[c].next = bs[c].next
                 /\ u[c].prev = IF c = s THEN new ELSE bs[c].prev
      BY <2>4, <3>1, <3>3 DEF Block
    <3> QED BY <2>4, <3>2, <3>3
  <2>6. u \in [DOMAIN u -> Block]
    <3>1. \A c \in DOMAIN u : u[c] \in Block
      <4>1. u[new] \in Block
        <5>1. s \in Nat \cup {Null}
          BY <1>1 DEF Sound, Block
        <5>2. bs[b].size - n - Header \in Nat
          BY <1>1, <1>3
        <5> QED BY <1>1, <2>4, <5>1, <5>2 DEF Block
      <4>2. u[b] \in Block
        <5>1. bs[b] \in Block
          BY <1>1 DEF Sound
        <5> HIDE DEF new
        <5> QED BY <2>1, <2>4, <5>1 DEF Block
      <4>3. ASSUME NEW c \in DOMAIN bs, c # b PROVE u[c] \in Block
        <5>1. bs[c] \in Block
          BY DEF Sound
        <5> HIDE DEF new, s
        <5> QED BY <2>1, <2>4, <4>3, <5>1 DEF Block
      <4> QED BY <2>4, <4>1, <4>2, <4>3
    <3>2. u = [c \in DOMAIN u |-> u[c]]
      <4> DEFINE cut == Split(bs, b, n)
      <4>1. u = [cut EXCEPT ![b].used = TRUE]
        BY <1>3 DEF u, Use
      <4> HIDE DEF cut
      <4> QED BY <4>1
    <3> QED BY <3>1, <3>2
  <2>7. /\ End(u, new) = End(bs, b) /\ End(u, b) = new
        /\ \A c \in DOMAIN bs : c # b => End(u, c) = End(bs, c)
    BY <1>1, <2>1, <2>5 DEF End
  <2>8. \A c \in DOMAIN bs : /\ c \in Nat /\ bs[c].size \in Nat /\ End(bs, c) <= z
                             /\ c < End(bs, c) /\ End(bs, c) \in Nat
    <3> TAKE c \in DOMAIN bs
    <3>1. c \in Nat /\ bs[c].size \in Nat
      BY DEF Sound, Block
    <3>2. End(bs, c) <= z
      BY DEF Sound, WellFormed
    <3> QED BY <1>1, <3>1, <3>2 DEF End
  <2>9. WellFormed(u, z)
    <3>1. First \in DOMAIN u
      BY <2>4 DEF Sound, WellFormed
    <3>2. ASSUME NEW c \in DOMAIN u
          PROVE  /\ u[c].next = Null => End(u, c) = z
                 /\ u[c].next # Null => u[c].next = End(u, c) /\ u[c].next \in DOMAIN u
                 /\ End(u, c) <= z
      <4>1. /\ s = Null => End(bs, b) = z
            /\ s # Null => s = End(bs, b) /\ s \in DOMAIN bs
        BY <1>1 DEF Sound, WellFormed
      <4>2. CASE c = new
        <5>1. u[c].next = s /\ End(u, c) = End(bs, b) /\ End(bs, b) <= z
          BY <1>1, <2>5, <2>7, <2>8, <4>2
        <5> HIDE DEF new, s
        <5> QED BY <2>4, <4>1, <5>1
      <4>3. CASE c = b
        <5>1. End(u, b) < End(bs, b) /\ End(bs, b) <= z
          BY <1>1, <2>1, <2>7, <2>8
        <5>2. new # Null /\ new <= z /\ new \in DOMAIN u
          BY <1>1, <2>1, <2>4, <2>7, <2>8, <5>1 DEF Null
        <5>3. u[c].next = new /\ End(u, c) = new
          BY <2>5, <2>7, <4>3
        <5> HIDE DEF new
        <5> QED BY <5>2, <5>3
      <4>4. CASE c \in DOMAIN bs /\ c # b
        <5>1. /\ bs[c].next = Null => End(bs, c) = z
              /\ bs[c].next # Null => bs[c].next = End(bs, c) /\ bs[c].next \in DOMAIN bs
          BY <4>4 DEF Sound, WellFormed
        <5> QED BY <2>4, <2>5, <2>7, <2>8, <4>4, <5>1
      <4> QED BY <2>4, <4>2, <4>3, <4>4
    <3>3. ASSUME NEW c \in DOMAIN u
          PROVE  /\ c = First => u[c].prev = Null
                 /\ c # First => u[c].prev \in DOMAIN u /\ u[u[c].prev].next = c
      <4>1. /\ c \in DOMAIN bs /\ c = First => bs[c].prev = Null
            /\ c \in DOMAIN bs /\ c # First =>
                 bs[c].prev \in DOMAIN bs /\ bs[bs[c].prev].next = c
        BY DEF Sound, WellFormed
      <4>2. CASE c = new
        BY <1>1, <2>1, <2>4, <2>5, <4>2
      <4>3. CASE c = s /\ c \in DOMAIN bs
        <5>1. c # First /\ c # b
          <6>1. s # Null
            BY <2>8, <4>3 DEF Null
          <6> QED BY <1>1, <2>3, <4>3, <6>1, NextPrev
        <5> QED BY <2>4, <2>5, <4>3, <5>1
      <4>4. CASE c \in DOMAIN bs /\ c # s
        <5>1. u[c].prev = bs[c].prev
          BY <2>5, <4>4
        <5>2. ASSUME c # First
              PROVE  u[c].prev \in DOMAIN u /\ u[u[c].prev].next = c
          <6>1. bs[c].prev # b
            BY <4>1, <4>4, <5>2
          <6> QED BY <2>4, <2>5, <4>1, <4>4, <5>1, <5>2, <6>1
        <5> QED BY <4>1, <4>4, <5>1, <5>2
      <4> QED BY <2>4, <4>2, <4>3, <4>4
    <3>4. ASSUME NEW c \in DOMAIN u, NEW d \in DOMAIN u, c < d
          PROVE  End(u, c) <= d
      <4>1. \A x, y \in DOMAIN bs : x < y => End(bs, x) <= y
        BY DEF Sound, WellFormed
      <4>2. CASE c = new /\ d = new
        BY <2>1, <3>4, <4>2
      <4>3. CASE c = new /\ d \in DOMAIN bs
        BY <1>1, <2>1, <2>7, <2>8, <3>4, <4>1, <4>3
      <4>4. CASE c \in DOMAIN bs /\ d = new
        <5>1. ~(b < c)
          BY <1>1, <2>1, <2>8, <3>4, <4>1, <4>4
        <5>2. CASE c = b
          BY <1>1, <2>1, <2>7, <4>4, <5>2
        <5>3. CASE c < b
          <6>1. End(u, c) = End(bs, c) /\ End(bs, c) <= b
            BY <1>1, <2>7, <2>8, <4>1, <4>4, <5>3
          <6> QED BY <1>1, <2>1, <2>8, <4>4, <6>1 DEF End
        <5> QED BY <1>1, <2>8, <4>4, <5>1, <5>2, <5>3
      <4>5. CASE c \in DOMAIN bs /\ d \in DOMAIN bs
        <5>1. End(u, c) <= End(bs, c)
          BY <1>1, <2>1, <2>7, <2>8, <4>5 DEF End
        <5>2. End(bs, c) <= d /\ d \in Nat /\ End(bs, c) \in Int /\ End(u, c) \in Int
          BY <1>1, <2>1, <2>7, <2>8, <3>4, <4>1, <4>5 DEF End
        <5> QED BY <5>1, <5>2
      <4> QED BY <2>4, <4>2, <4>3, <4>4, <4>5
    <3> QED BY <3>1, <3>2, <3>3, <3>4 DEF WellFormed
  <2>10. DOMAIN u \subseteq 0 .. z
    <3>1. new <= z
      BY <1>1, <2>1, <2>8 DEF End
    <3> QED BY <1>1, <2>1, <2>4, <3>1 DEF Sound
  <2>11. Sound(u, z)
    BY <1>1, <2>6, <2>9, <2>10 DEF Sound
  <2>12. Coalesced(u)
    <3> SUFFICES ASSUME NEW c \in DOMAIN u, ~u[c].used, u[c].next # Null
                 PROVE  u[u[c].next].used
      BY DEF Coalesced
    <3>1. CASE c = new
      <4>1. s # Null /\ s \in DOMAIN bs /\ s # b
        BY <1>1, <2>3, <2>5, <3>1, NextPrev
      <4>2. bs[s].used
        BY <1>1, <4>1 DEF Coalesced
      <4> QED BY <2>5, <3>1, <4>1, <4>2
    <3>2. CASE c \in DOMAIN bs /\ c # b
      <4>1. bs[c].next \in DOMAIN bs /\ bs[bs[c].next].used
        BY <2>5, <3>2, NextPrev DEF Coalesced
      <4> QED BY <2>5, <3>2, <4>1
    <3> QED BY <2>4, <2>5, <3>1, <3>2
  <2>13. UsedIn(u) = UsedIn(bs) \cup {b}
    <3>1. ASSUME NEW c PROVE c \in UsedIn(u) <=> c \in UsedIn(bs) \cup {b}
      BY <1>1, <2>2, <2>4, <2>5 DEF UsedIn
    <3> QED BY <3>1
  <2>14. /\ b \in DOMAIN u /\ n <= u[b].size
         /\ \A c \in UsedIn(bs) : c \in DOMAIN u /\ u[c].size = bs[c].size
    BY <1>1, <2>4, <2>5 DEF UsedIn
  <2> QED BY <2>11, <2>12, <2>13, <2>14 DEF u
<1> QED BY <1>2, <1>3

-----------------------------------------------------------------------------
(* Release: marking a block free and merging the runs of free blocks. *)

\* The neighbours that mergeBlocks gives to a block it keeps.
LEMMA Neighbours ==
  ASSUME NEW bs, NEW z, Sound(bs, z), NEW b \in Kept(bs)
  PROVE  /\ \/ KeptAfter(bs, b) = Null /\ \A c \in Kept(bs) : ~(c > b)
            \/ /\ KeptAfter(bs, b) \in Kept(bs) /\ KeptAfter(bs, b) > b
               /\ \A c \in Kept(bs) : c > b => KeptAfter(bs, b) <= c
         /\ \/ KeptBefore(bs, b) = Null /\ \A c \in Kept(bs) : ~(c < b)
            \/ /\ KeptBefore(bs, b) \in Kept(bs) /\ KeptBefore(bs, b) < b
               /\ \A c \in Kept(bs) : c < b => c <= KeptBefore(bs, b)
<1> DEFINE S == {c \in Kept(bs) : c > b}
           T == {c \in Kept(bs) : c < b}
<1>1. Kept(bs) \subseteq 0 .. z /\ z \in Nat
  BY DEF Sound, Kept
<1>2. \/ KeptAfter(bs, b) = Null /\ \A c \in Kept(bs) : ~(c > b)
      \/ /\ KeptAfter(bs, b) \in Kept(bs) /\ KeptAfter(bs, b) > b
         /\ \A c \in Kept(bs) : c > b => KeptAfter(bs, b) <= c
  <2>1. CASE S # {}
    <3>1. S \in SUBSET Nat
      BY <1>1
    <3>2. KeptAfter(bs, b) = Least(S)
      BY <2>1 DEF KeptAfter, LeastOrNull
    <3>3. Least(S) \in S /\ \A y \in S : Least(S) <= y
      BY <2>1, <3>1, LeastOf
    <3> QED BY <3>2, <3>3
  <2>2. CASE S = {}
    BY <2>2 DEF KeptAfter, LeastOrNull
  <2> QED BY <2>1, <2>2
<1>3. \/ KeptBefore(bs, b) = Null /\ \A c \in Kept(bs) : ~(c < b)
      \/ /\ KeptBefore(bs, b) \in Kept(bs) /\ KeptBefore(bs, b) < b
         /\ \A c \in Kept(bs) : c < b => c <= KeptBefore(bs, b)
  <2>1. CASE T # {}
    <3>1. T \in SUBSET (0 .. z)
      BY <1>1
    <3>2. KeptBefore(bs, b) = Greatest(T)
      BY <2>1 DEF KeptBefore, GreatestOrNull
    <3>3. Greatest(T) \in T /\ \A y \in T : y <= Greatest(T)
      BY <1>1, <2>1, <3>1, GreatestOf
    <3> QED BY <3>2, <3>3
  <2>2. CASE T = {}
    BY <2>2 DEF KeptBefore, GreatestOrNull
  <2> QED BY <2>1, <2>2
<1> QED BY <1>2, <1>3

\* Merging keeps a list sound, joins every pair of free neighbours, and leaves
\* the blocks in use as they are.
LEMMA MergeSound ==
  ASSUME NEW bs, NEW z, Sound(bs, z)
  PROVE  LET m == Merge(bs, z) IN
         /\ Sound(m, z) /\ Coalesced(m)
         /\ UsedIn(m) = UsedIn(bs)
         /\ \A c \in UsedIn(bs) : m[c].size = bs[c].size
<1> DEFINE m == Merge(bs, z)
           K == Kept(bs)
           after(b) == KeptAfter(bs, b)
           before(b) == KeptBefore(bs, b)
<1>1. /\ K \subseteq DOMAIN bs /\ First \in K /\ z \in Nat /\ Header \in Nat \ {0}
      /\ \A b \in DOMAIN bs : b \in Nat /\ bs[b].size \in Nat /\ bs[b].used \in BOOLEAN
                              /\ b <= z
  BY HeapAssumption DEF Sound, WellFormed, Kept, Block
<1>2. \A b \in DOMAIN bs : bs[b].used => b \in K
  BY DEF Kept
<1>3. DOMAIN m = K
  BY DEF Merge
<1>4. \A b \in K : /\ m[b].used = bs[b].used
                   /\ m[b].next = after(b) /\ m[b].prev = before(b)
                   /\ bs[b].used => m[b].size = bs[b].size
                   /\ ~bs[b].used => m[b].size =
                        (IF after(b) = Null THEN z ELSE after(b)) - b - Header
  BY DEF Merge
<1>5. \A b \in K : after(b) # Null => after(b) \in K /\ after(b) > b /\ after(b) \in Nat
  BY <1>1, Neighbours
\* A block in use is followed by the block that is next to it.
<1>6. ASSUME NEW b \in K, bs[b].used
      PROVE  /\ after(b) = Null => End(bs, b) = z
             /\ after(b) # Null => after(b) = End(bs, b)
  <2>1. CASE bs[b].next = Null
    <3>1. \A c \in K : ~(b < c)
      BY <1>1, <2>1, LastBlock
    <3>2. after(b) = Null
      BY <1>1, <1>5, <3>1
    <3> QED BY <1>1, <2>1, <3>2 DEF Sound, WellFormed
  <2>2. CASE bs[b].next # Null
    <3> DEFINE s == bs[b].next
    <3>1. s \in DOMAIN bs /\ s > b /\ s # First /\ bs[s].prev = b
      BY <1>1, <2>2, NextPrev
    <3>2. s \in K
      BY <1>6, <3>1 DEF Kept
    <3>3. s = End(bs, b)
      BY <1>1, <2>2 DEF Sound, WellFormed
    <3>4. \A c \in K : c > b => s <= c
      BY <1>1, <3>3 DEF Sound, WellFormed
    <3>5. after(b) \in K /\ after(b) > b /\ after(b) <= s
      BY <3>1, <3>2, Neighbours
    <3>6. s <= after(b) /\ s \in Nat /\ after(b) \in Nat
      BY <1>1, <3>1, <3>4, <3>5
    <3> QED BY <3>3, <3>5, <3>6 DEF Null
  <2> QED BY <2>1, <2>2
<1>7. \A b \in DOMAIN bs : /\ End(bs, b) \in Nat /\ End(bs, b) <= z /\ b < End(bs, b)
                           /\ \A c \in DOMAIN bs : b < c => End(bs, b) <= c
  BY <1>1 DEF Sound, WellFormed, End
<1>8. ASSUME NEW b \in K
      PROVE  /\ m[b].size \in Nat
             /\ End(m, b) = IF after(b) = Null THEN z ELSE after(b)
  <2>1. CASE bs[b].used
    <3>1. m[b].size = bs[b].size /\ End(m, b) = End(bs, b)
      BY <1>4, <2>1 DEF End
    <3> QED BY <1>1, <1>6, <2>1, <3>1
  <2>2. CASE ~bs[b].used
    <3>1. End(bs, b) <= IF after(b) = Null THEN z ELSE after(b)
      BY <1>1, <1>5, <1>7
    <3>2. b + Header <= End(bs, b)
      BY <1>1 DEF End
    <3>3. (IF after(b) = Null THEN z ELSE after(b)) \in Nat
      BY <1>1, <1>5
    <3>4. m[b].size = (IF after(b) = Null THEN z ELSE after(b)) - b - Header
      BY <1>4, <2>2
    <3>5. b \in Nat /\ End(bs, b) \in Nat
      BY <1>1, <1>7
    <3> HIDE DEF m, after, K
    <3> QED BY <1>1, <3>1, <3>2, <3>3, <3>4, <3>5 DEF End
  <2> QED BY <2>1, <2>2
<1>9. WellFormed(m, z)
  <2>1. ASSUME NEW b \in K
        PROVE  /\ m[b].next = Null => End(m, b) = z
               /\ m[b].next # Null => m[b].next = End(m, b) /\ m[b].next \in K
               /\ End(m, b) <= z
    BY <1>1, <1>4, <1>5, <1>8
  <2>2. ASSUME NEW b \in K
        PROVE  /\ b = First => m[b].prev = Null
               /\ b # First => m[b].prev \in K /\ m[m[b].prev].next = b
    <3>1. CASE b = First
      <4>1. \A c \in K : ~(c < b)
        BY <1>1, <3>1 DEF First
      <4> QED BY <1>4, <3>1, <4>1, Neighbours
    <3>2. CASE b # First
      <4>1. First < b
        BY <1>1, <3>2 DEF First
      <4> DEFINE p == before(b)
      <4>2. p \in K /\ p < b /\ \A c \in K : c < b => c <= p
        BY <1>1, <4>1, Neighbours
      <4>3. after(p) \in K /\ after(p) > p /\ after(p) <= b
        BY <4>2, Neighbours
      <4>4. ~(after(p) < b)
        BY <1>1, <4>2, <4>3
      <4>5. after(p) = b
        BY <1>1, <4>3, <4>4
      <4> QED BY <1>4, <3>2, <4>2, <4>5
    <3> QED BY <3>1, <3>2
  <2>3. ASSUME NEW b \in K, NEW c \in K, b < c
        PROVE  End(m, b) <= c
    <3>1. after(b) \in K /\ after(b) <= c
      BY <1>1, <2>3, Neighbours
    <3>2. after(b) # Null
      BY <1>1, <3>1 DEF Null
    <3> QED BY <1>8, <3>1, <3>2
  <2> QED BY <1>1, <1>3, <2>1, <2>2, <2>3 DEF WellFormed
<1>10. m \in [DOMAIN m -> Block]
  <2>1. ASSUME NEW b \in K PROVE m[b] \in Block
    <3>1. m[b] = [size |-> m[b].size, used |-> m[b].used, next |-> m[b].next, prev |-> m[b].prev]
      BY DEF Merge
    <3>2. before(b) \in Nat \cup {Null}
      BY <1>1, Neighbours
    <3>3. after(b) \in Nat \cup {Null}
      BY <1>1, <1>5
    <3> HIDE DEF m, K, after, before
    <3>4. m[b].size \in Nat /\ m[b].used \in BOOLEAN
      BY <1>1, <1>4, <1>8
    <3>5. m[b].next \in Nat \cup {Null} /\ m[b].prev \in Nat \cup {Null}
      BY <1>4, <3>2, <3>3
    <3> QED BY <3>1, <3>4, <3>5 DEF Block
  <2>2. m = [b \in DOMAIN m |-> m[b]]
    BY DEF Merge
  <2> QED BY <1>3, <2>1, <2>2
<1>11. Sound(m, z)
  BY <1>1, <1>3, <1>9, <1>10 DEF Sound
<1>12. Coalesced(m)
  <2> SUFFICES ASSUME NEW b \in K, ~bs[b].used, after(b) # Null
               PROVE  bs[after(b)].used
    BY <1>3, <1>4, <1>5 DEF Coalesced
  <2> DEFINE e == after(b)
             p == bs[e].prev
  <2>1. e \in K /\ e > b /\ e # First
    BY <1>1, <1>5 DEF First
  <2>2. SUFFICES ASSUME ~bs[e].used PROVE FALSE
    OBVIOUS
  <2>3. p \in DOMAIN bs /\ bs[p].next = e /\ bs[p].used
    BY <1>1, <2>1, <2>2 DEF Kept, Sound, WellFormed
  <2>4. p \in K /\ e = End(bs, p) /\ p < e
    <3>1. e # Null
      OBVIOUS
    <3>2. e = End(bs, p)
      BY <2>3, <3>1 DEF Sound, WellFormed
    <3> QED BY <1>2, <1>7, <2>3, <3>2
  <2>5. ~(p > b)
    BY <1>1, <2>1, <2>4, Neighbours
  <2>6. ~(p < b)
    BY <1>1, <1>7, <2>1, <2>4
  <2>7. p # b
    BY <2>3
  <2> QED BY <1>1, <2>3, <2>5, <2>6, <2>7
<1>13. UsedIn(m) = UsedIn(bs)
  BY <1>1, <1>2, <1>3, <1>4 DEF UsedIn
<1>14. \A c \in UsedIn(bs) : m[c].size = bs[c].size
  BY <1>2, <1>4 DEF UsedIn
<1> QED BY <1>11, <1>12, <1>13, <1>14

\* Releasing a block in use gives its memory back to the list and touches no
\* other block in use.
LEMMA ReleaseSound ==
  ASSUME NEW bs, NEW z, Sound(bs, z), NEW b \in DOMAIN bs
  PROVE  LET r == Release(bs, b, z) IN
         /\ Sound(r, z) /\ Coalesced(r)
         /\ UsedIn(r) = UsedIn(bs) \ {b}
         /\ \A c \in UsedIn(r) : r[c].size = bs[c].size
<1> DEFINE f == [bs EXCEPT ![b].used = FALSE]
<1>1. DOMAIN f = DOMAIN bs
  OBVIOUS
<1>2. \A c \in DOMAIN bs : /\ f[c] \in Block
                           /\ f[c].size = bs[c].size /\ f[c].next = bs[c].next
                           /\ f[c].prev = bs[c].prev
                           /\ f[c].used = (bs[c].used /\ c # b)
  <2> TAKE c \in DOMAIN bs
  <2>1. bs[c] \in Block
    BY DEF Sound
  <2>2. f[c] = IF c = b THEN [bs[c] EXCEPT !.used = FALSE] ELSE bs[c]
    OBVIOUS
  <2> HIDE DEF f
  <2> QED BY <2>1, <2>2 DEF Block
<1>3. f \in [DOMAIN f -> Block]
  <2>1. f = [c \in DOMAIN f |-> f[c]]
    OBVIOUS
  <2> QED BY <1>1, <1>2, <2>1
<1> HIDE DEF f
<1>4. WellFormed(f, z)
  BY <1>1, <1>2 DEF Sound, WellFormed, End
<1>5. Sound(f, z)
  BY <1>1, <1>3, <1>4 DEF Sound
<1>6. UsedIn(f) = UsedIn(bs) \ {b}
  BY <1>1, <1>2 DEF UsedIn
<1>7. Release(bs, b, z) = Merge(f, z)
  BY DEF Release, f
<1>8. \A c \in UsedIn(f) : f[c].size = bs[c].size
  BY <1>1, <1>2 DEF UsedIn
<1> QED BY <1>5, <1>6, <1>7, <1>8, MergeSound

-----------------------------------------------------------------------------
(* The inductive invariant. *)

\* What clients hold, in terms of the list.
Held(bs, held) ==
  /\ DOMAIN held = {Pointer(b) : b \in UsedIn(bs)}
  /\ \A p \in DOMAIN held : held[p] <= bs[p - Header].size

\* A refused request had no candidate, and nothing has changed since.
RefusedFits ==
  total # 0 /\ answer.asked > 0 /\ answer.got = Null
    => Candidates(blocks, AlignUp(answer.asked)) = {}

IInv == TypeOK /\ ShapeOK /\ RefusedFits
        /\ IsFiniteSet(DOMAIN granted) /\ allocationCount = Cardinality(DOMAIN granted)

\* The invariant as the facts about lists need it.
LEMMA FromInv ==
  ASSUME IInv
  PROVE  /\ Held(blocks, granted)
         /\ total # 0 => Sound(blocks, total) /\ Coalesced(blocks)
         /\ total = 0 => DOMAIN blocks = {} /\ DOMAIN granted = {}
BY DEF IInv, ShapeOK, TypeOK, Sound, Held, UsedIn

\* A candidate's memory is what a client may get: enough bytes, inside the
\* arena, away from every region handed out.
LEMMA FreshRegion ==
  ASSUME IInv, NEW n \in Requests, n > 0, NEW b \in Candidates(blocks, AlignUp(n))
  PROVE  /\ total # 0 /\ b \in DOMAIN blocks /\ ~blocks[b].used
         /\ Pointer(b) \in Nat /\ Pointer(b) \notin DOMAIN granted
         /\ Pointer(b) \in 0 .. total
         /\ A!Fits(Pointer(b), n, {})
<1>1. n \in Nat /\ AlignUp(n) \in Nat /\ n <= AlignUp(n) /\ Header \in Nat \ {0}
  BY HeapAssumption, AlignUpBound
<1>2. b \in DOMAIN blocks /\ ~blocks[b].used /\ AlignUp(n) <= blocks[b].size /\ total # 0
  BY FromInv DEF Candidates
<1>3. Sound(blocks, total) /\ Held(blocks, granted)
  BY <1>2, FromInv
<1>4. \A c \in DOMAIN blocks : /\ c \in Nat /\ blocks[c].size \in Nat /\ End(blocks, c) <= total
                               /\ \A d \in DOMAIN blocks : c < d => End(blocks, c) <= d
  BY <1>3 DEF Sound, WellFormed, Block
<1>5. total \in Nat
  BY <1>3 DEF Sound
<1>6. Pointer(b) \in Nat /\ Pointer(b) + n <= End(blocks, b) /\ b < Pointer(b)
      /\ Pointer(b) + n <= total
  BY <1>1, <1>2, <1>4, <1>5 DEF Pointer, End
<1>7. Pointer(b) \notin DOMAIN granted
  BY <1>1, <1>2, <1>3, <1>4 DEF Held, UsedIn, Pointer
<1>8. ASSUME NEW q \in DOMAIN granted
      PROVE  Pointer(b) + n <= q \/ q + granted[q] <= Pointer(b)
  <2>1. PICK c \in UsedIn(blocks) : q = Pointer(c)
    BY <1>3 DEF Held
  <2>2. c \in DOMAIN blocks /\ c # b /\ c \in Nat
    BY <1>2, <1>4, <2>1 DEF UsedIn
  <2>3. granted[q] <= blocks[c].size /\ granted[q] \in Nat
    <3>1. q - Header = c
      BY <1>1, <2>1, <2>2 DEF Pointer
    <3> QED BY <1>3, <3>1, HeapAssumption DEF Held, IInv, TypeOK
  <2>4. CASE c < b
    <3>1. End(blocks, c) <= b
      BY <1>2, <1>4, <2>2, <2>4
    <3> QED BY <1>1, <1>2, <1>4, <1>6, <2>1, <2>2, <2>3, <3>1 DEF End, Pointer
  <2>5. CASE b < c
    <3>1. End(blocks, b) <= c
      BY <1>2, <1>4, <2>2, <2>5
    <3> QED BY <1>1, <1>2, <1>4, <1>6, <2>1, <2>2, <3>1 DEF End, Pointer
  <2> QED BY <1>2, <1>4, <2>2, <2>4, <2>5
<1> QED BY <1>1, <1>2, <1>5, <1>6, <1>7, <1>8 DEF A!Fits

\* A list in which what clients hold are the blocks in use has the shape and
\* the types the invariant asks for.
LEMMA ToInv ==
  ASSUME total' \in Nat, total' # 0, Sound(blocks, total)', Coalesced(blocks)',
         Held(blocks, granted)'
  PROVE  /\ ShapeOK'
         /\ DOMAIN blocks' \subseteq 0 .. total' /\ blocks' \in [DOMAIN blocks' -> Block]
BY DEF ShapeOK, Sound, Held, UsedIn

\* The step that hands the first candidate of n bytes to a client.
LEMMA TakeStep ==
  ASSUME IInv, NEW n \in Requests, n > 0, NEW b \in Candidates(blocks, AlignUp(n)),
         NEW u, u = Use(blocks, b, AlignUp(n)),
         NEW g, g = [p \in DOMAIN granted \cup {Pointer(b)} |->
                       IF p = Pointer(b) THEN n ELSE granted[p]]
  PROVE  /\ Sound(u, total) /\ Coalesced(u) /\ Held(u, g)
         /\ UsedIn(u) = UsedIn(blocks) \cup {b} /\ b \in DOMAIN u
<1>1. n \in Nat /\ AlignUp(n) \in Nat /\ n <= AlignUp(n) /\ Header \in Nat \ {0}
  BY HeapAssumption, AlignUpBound
<1>2. /\ total # 0 /\ Sound(blocks, total) /\ Coalesced(blocks) /\ Held(blocks, granted)
      /\ b \in DOMAIN blocks /\ ~blocks[b].used
  BY FromInv, FreshRegion
<1>3. /\ Sound(u, total) /\ Coalesced(u)
      /\ UsedIn(u) = UsedIn(blocks) \cup {b} /\ b \in DOMAIN u
      /\ AlignUp(n) <= u[b].size
      /\ \A c \in UsedIn(blocks) : c \in DOMAIN u /\ u[c].size = blocks[c].size
  BY <1>1, <1>2, UseSound
<1>4. DOMAIN g = {Pointer(c) : c \in UsedIn(u)}
  BY <1>2, <1>3 DEF Held
<1>5. ASSUME NEW p \in DOMAIN g PROVE g[p] <= u[p - Header].size
  <2>1. b \in Nat /\ u[b].size \in Nat /\ Pointer(b) - Header = b
    BY <1>1, <1>2, <1>3 DEF Sound, Block, Pointer
  <2>2. CASE p = Pointer(b)
    BY <1>1, <1>3, <2>1, <2>2
  <2>3. CASE p \in DOMAIN granted /\ p # Pointer(b)
    <3>1. PICK c \in UsedIn(blocks) : p = Pointer(c)
      BY <1>2, <2>3 DEF Held
    <3>2. p - Header = c
      BY <1>1, <1>2, <3>1 DEF Sound, UsedIn, Pointer
    <3> QED BY <1>2, <1>3, <2>3, <3>1, <3>2 DEF Held
  <2> QED BY <2>2, <2>3
<1> QED BY <1>3, <1>4, <1>5 DEF Held

\* The step that takes a client's block away, in a list where clients hold g.
LEMMA GiveStep ==
  ASSUME NEW bs, NEW z, Sound(bs, z), NEW g, Held(bs, g), NEW p \in DOMAIN g,
         NEW r, r = Release(bs, p - Header, z),
         NEW h, h = [q \in DOMAIN g \ {p} |-> g[q]]
  PROVE  Sound(r, z) /\ Coalesced(r) /\ Held(r, h)
<1>1. Header \in Nat \ {0}
  BY HeapAssumption
<1>2. \A c \in UsedIn(bs) : c \in Nat /\ Pointer(c) - Header = c
  BY <1>1 DEF Sound, UsedIn, Pointer
<1>3. p - Header \in UsedIn(bs) /\ p = Pointer(p - Header)
  BY <1>2 DEF Held
<1>4. /\ Sound(r, z) /\ Coalesced(r)
      /\ UsedIn(r) = UsedIn(bs) \ {p - Header}
      /\ \A c \in UsedIn(r) : r[c].size = bs[c].size
  BY <1>3, ReleaseSound DEF UsedIn
<1>5. DOMAIN h = {Pointer(c) : c \in UsedIn(r)}
  <2>1. ASSUME NEW q PROVE q \in DOMAIN g \ {p} <=> q \in {Pointer(c) : c \in UsedIn(r)}
    <3>1. q \in DOMAIN g <=> \E c \in UsedIn(bs) : q = Pointer(c)
      BY DEF Held
    <3>2. \A c \in UsedIn(bs) : Pointer(c) = p <=> c = p - Header
      BY <1>2, <1>3
    <3> QED BY <1>4, <3>1, <3>2
  <2> QED BY <2>1
<1>6. ASSUME NEW q \in DOMAIN h PROVE h[q] <= r[q - Header].size
  <2>1. q \in DOMAIN g /\ h[q] = g[q]
    OBVIOUS
  <2>2. q - Header \in UsedIn(r)
    <3>1. PICK c \in UsedIn(r) : q = Pointer(c)
      BY <1>5
    <3>2. c \in UsedIn(bs)
      BY <1>4
    <3> QED BY <1>2, <3>1, <3>2
  <2> QED BY <1>4, <2>1, <2>2 DEF Held
<1> QED BY <1>4, <1>5, <1>6 DEF Held

-----------------------------------------------------------------------------
(* The steps of the heap. *)

LEMMA InitInv == Init => IInv
<1> SUFFICES ASSUME Init PROVE IInv
  OBVIOUS
<1>1. DOMAIN blocks = {} /\ DOMAIN granted = {} /\ total = 0
  BY DEF Init
<1>2. TypeOK
  <2>1. answer \in [asked : Requests \cup {0}, got : Nat \cup {Null}]
    BY DEF Init, Silent
  <2> QED BY <1>1, <2>1 DEF Init, TypeOK
<1>3. ShapeOK
  BY <1>1 DEF ShapeOK
<1>4. IsFiniteSet(DOMAIN granted) /\ allocationCount = Cardinality(DOMAIN granted)
  BY <1>1, FS_EmptySet DEF Init
<1> QED BY <1>1, <1>2, <1>3, <1>4 DEF IInv, RefusedFits

LEMMA InitializeInv ==
  ASSUME IInv, NEW size \in Arenas, Initialize(size)
  PROVE  IInv'
<1>1. Header \in Nat \ {0} /\ size \in Nat /\ size > Header /\ total' = size /\ total' # 0
  BY HeapAssumption DEF Initialize
<1>2. DOMAIN granted = {} /\ granted' = granted
  BY FromInv DEF Initialize
<1>3. DOMAIN blocks' = {First} /\ blocks'[First] = [size |-> size - Header, used |-> FALSE,
                                                   next |-> Null, prev |-> Null]
  BY DEF Initialize
<1>4. blocks' \in [DOMAIN blocks' -> Block]
  <2>1. blocks'[First] \in Block
    BY <1>1, <1>3 DEF Block
  <2>2. blocks' = [b \in {First} |-> blocks'[b]]
    BY DEF Initialize
  <2> QED BY <1>3, <2>1, <2>2
<1>5. Sound(blocks, total)'
  <2>1. WellFormed(blocks', total')
    BY <1>1, <1>3 DEF WellFormed, End, First, Null
  <2> QED BY <1>1, <1>3, <1>4, <2>1 DEF Sound, First
<1>6. Coalesced(blocks)' /\ Held(blocks, granted)'
  <2>1. UsedIn(blocks') = {}
    BY <1>3 DEF UsedIn
  <2> QED BY <1>2, <1>3, <2>1 DEF Coalesced, Held
<1>7. ShapeOK' /\ DOMAIN blocks' \subseteq 0 .. total' /\ blocks' \in [DOMAIN blocks' -> Block]
  BY <1>1, <1>5, <1>6, ToInv
<1>8. answer' = Silent /\ usedSize' \in Int /\ allocationCount' = 0
  BY <1>1 DEF Initialize
<1>9. TypeOK'
  <2>1. answer' \in [asked : Requests \cup {0}, got : Nat \cup {Null}]
    BY <1>8 DEF Silent
  <2>2. DOMAIN granted' \subseteq Nat /\ granted' \in [DOMAIN granted' -> Requests \ {0}]
    BY <1>2 DEF IInv, TypeOK
  <2> QED BY <1>1, <1>7, <1>8, <2>1, <2>2 DEF TypeOK
<1>10. RefusedFits' /\ IsFiniteSet(DOMAIN granted') /\ allocationCount' = Cardinality(DOMAIN granted')
  BY <1>2, <1>8, FS_EmptySet DEF RefusedFits, Silent
<1> QED BY <1>7, <1>9, <1>10 DEF IInv

\* A refused request of at least one byte had no candidate.
LEMMA RefuseInv ==
  ASSUME IInv, NEW n \in Requests, Refuse(n),
         n > 0 => Candidates(blocks, AlignUp(n)) = {}
  PROVE  IInv'
<1>1. UNCHANGED <<total, blocks, usedSize, allocationCount, granted>>
      /\ answer' = [asked |-> n, got |-> Null]
  BY DEF Refuse
<1>2. TypeOK'
  <2>1. answer' \in [asked : Requests \cup {0}, got : Nat \cup {Null}]
    BY <1>1
  <2> QED BY <1>1, <2>1 DEF IInv, TypeOK
<1>3. ShapeOK'
  BY <1>1 DEF IInv, ShapeOK
<1>4. RefusedFits'
  BY <1>1 DEF RefusedFits
<1> QED BY <1>1, <1>2, <1>3, <1>4 DEF IInv

LEMMA AllocateInv ==
  ASSUME IInv, NEW n \in Requests, Allocate(n)
  PROVE  IInv'
<1>1. n \in Nat /\ Header \in Nat \ {0}
  BY HeapAssumption
<1>2. CASE n = 0 \/ Candidates(blocks, AlignUp(n)) = {}
  BY <1>2, RefuseInv DEF Allocate
<1>3. CASE ~(n = 0 \/ Candidates(blocks, AlignUp(n)) = {})
  <2> DEFINE b == Least(Candidates(blocks, AlignUp(n)))
  <2>1. b \in Candidates(blocks, AlignUp(n))
    <3>1. Candidates(blocks, AlignUp(n)) \in SUBSET Nat
      BY DEF Candidates, IInv, TypeOK
    <3> QED BY <1>3, <3>1, LeastOf
  <2>2. /\ blocks' = Use(blocks, b, AlignUp(n))
        /\ usedSize' = usedSize + blocks'[b].size + Header
        /\ allocationCount' = allocationCount + 1
        /\ granted' = [p \in DOMAIN granted \cup {Pointer(b)} |->
                         IF p = Pointer(b) THEN n ELSE granted[p]]
        /\ answer' = [asked |-> n, got |-> Pointer(b)]
        /\ total' = total
    BY <1>3 DEF Allocate
  <2> HIDE DEF b
  <2>3. total # 0 /\ Pointer(b) \in Nat /\ Pointer(b) \notin DOMAIN granted
    BY <1>1, <1>3, <2>1, FreshRegion
  <2>4. Sound(blocks', total) /\ Coalesced(blocks') /\ Held(blocks', granted') /\ b \in DOMAIN blocks'
    BY <1>1, <1>3, <2>1, <2>2, TakeStep
  <2>5. ShapeOK' /\ DOMAIN blocks' \subseteq 0 .. total' /\ blocks' \in [DOMAIN blocks' -> Block]
    BY <2>2, <2>3, <2>4, ToInv DEF IInv, TypeOK
  <2>6. TypeOK'
    <3>1. usedSize' \in Int
      BY <1>1, <2>2, <2>4 DEF IInv, TypeOK, Sound, Block
    <3>2. DOMAIN granted' \subseteq Nat /\ granted' \in [DOMAIN granted' -> Requests \ {0}]
      BY <1>3, <2>2, <2>3 DEF IInv, TypeOK
    <3>3. answer' \in [asked : Requests \cup {0}, got : Nat \cup {Null}]
      BY <2>2, <2>3
    <3>4. total' \in Nat /\ allocationCount' \in Nat
      BY <2>2 DEF IInv, TypeOK
    <3> QED BY <2>5, <3>1, <3>2, <3>3, <3>4 DEF TypeOK
  <2>7. RefusedFits'
    <3>1. answer'.got # Null
      BY <2>2, <2>3 DEF Null
    <3> QED BY <3>1 DEF RefusedFits
  <2>8. IsFiniteSet(DOMAIN granted') /\ allocationCount' = Cardinality(DOMAIN granted')
    BY <2>2, <2>3, FS_AddElement DEF IInv
  <2> QED BY <2>5, <2>6, <2>7, <2>8 DEF IInv
<1> QED BY <1>2, <1>3

LEMMA FreeInv ==
  ASSUME IInv, NEW p \in DOMAIN granted, Free(p)
  PROVE  IInv'
<1>1. /\ blocks' = Release(blocks, p - Header, total)
      /\ usedSize' = usedSize - (blocks[p - Header].size + Header)
      /\ allocationCount' = allocationCount - 1
      /\ granted' = [q \in DOMAIN granted \ {p} |-> granted[q]]
      /\ answer' = Silent
      /\ total' = total
  BY DEF Free
<1>2. total # 0 /\ Sound(blocks, total) /\ Held(blocks, granted)
  BY FromInv
<1>3. Sound(blocks', total) /\ Coalesced(blocks') /\ Held(blocks', granted')
  BY <1>1, <1>2, GiveStep
<1>4. ShapeOK' /\ DOMAIN blocks' \subseteq 0 .. total' /\ blocks' \in [DOMAIN blocks' -> Block]
  BY <1>1, <1>2, <1>3, ToInv DEF IInv, TypeOK
<1>5. /\ IsFiniteSet(DOMAIN granted') /\ allocationCount' = Cardinality(DOMAIN granted')
      /\ allocationCount' \in Nat
  <2>1. IsFiniteSet(DOMAIN granted) /\ allocationCount = Cardinality(DOMAIN granted)
    BY DEF IInv
  <2>2. DOMAIN granted' = DOMAIN granted \ {p}
    BY <1>1
  <2>3. IsFiniteSet(DOMAIN granted') /\ Cardinality(DOMAIN granted') = allocationCount - 1
    BY <2>1, <2>2, FS_RemoveElement
  <2> QED BY <1>1, <2>3, FS_CardinalityType
<1>6. TypeOK'
  <2>1. usedSize' \in Int
    <3>1. p - Header \in DOMAIN blocks
      <4>1. PICK c \in UsedIn(blocks) : p = Pointer(c)
        BY <1>2 DEF Held
      <4>2. c \in Nat /\ Header \in Nat /\ c \in DOMAIN blocks
        BY <1>2, HeapAssumption DEF Sound, UsedIn
      <4> QED BY <4>1, <4>2 DEF Pointer
    <3>2. blocks[p - Header].size \in Nat
      BY <1>2, <3>1 DEF Sound, Block
    <3> QED BY <1>1, <3>2, HeapAssumption DEF IInv, TypeOK
  <2>2. DOMAIN granted' \subseteq Nat /\ granted' \in [DOMAIN granted' -> Requests \ {0}]
    BY <1>1 DEF IInv, TypeOK
  <2>3. answer' \in [asked : Requests \cup {0}, got : Nat \cup {Null}]
    BY <1>1 DEF Silent
  <2>4. total' \in Nat
    BY <1>1 DEF IInv, TypeOK
  <2> QED BY <1>4, <1>5, <2>1, <2>2, <2>3, <2>4 DEF TypeOK
<1>7. RefusedFits'
  BY <1>1 DEF RefusedFits, Silent
<1> QED BY <1>4, <1>5, <1>6, <1>7 DEF IInv

LEMMA InPlaceInv ==
  ASSUME IInv, NEW p \in DOMAIN granted, NEW n \in Requests, Reallocate_InPlace(p, n)
  PROVE  IInv'
<1>1. /\ UNCHANGED <<total, blocks, usedSize, allocationCount>>
      /\ granted' = [granted EXCEPT ![p] = n]
      /\ answer' = [asked |-> n, got |-> p]
      /\ n > 0 /\ n <= blocks[p - Header].size
  BY HeapAssumption DEF Reallocate_InPlace
<1>2. total # 0 /\ Sound(blocks, total) /\ Coalesced(blocks) /\ Held(blocks, granted)
  BY FromInv
<1>3. /\ DOMAIN granted' = DOMAIN granted /\ granted'[p] = n
      /\ \A q \in DOMAIN granted : q # p => granted'[q] = granted[q]
  BY <1>1
<1>4. Held(blocks', granted')
  BY <1>1, <1>2, <1>3 DEF Held
<1>5. ShapeOK'
  BY <1>1, <1>2, <1>4, ToInv DEF IInv, TypeOK
<1>6. TypeOK'
  <2>1. p \in Nat /\ DOMAIN granted' \subseteq Nat /\ n \in Requests \ {0}
    BY <1>1, <1>3 DEF IInv, TypeOK
  <2>2. granted' \in [DOMAIN granted' -> Requests \ {0}]
    BY <1>1, <2>1 DEF IInv, TypeOK
  <2>3. answer' \in [asked : Requests \cup {0}, got : Nat \cup {Null}]
    BY <1>1, <2>1
  <2> QED BY <1>1, <2>1, <2>2, <2>3 DEF IInv, TypeOK
<1>7. RefusedFits'
  <2>1. answer'.got # Null
    BY <1>1 DEF IInv, TypeOK, Null
  <2> QED BY <2>1 DEF RefusedFits
<1>8. IsFiniteSet(DOMAIN granted') /\ allocationCount' = Cardinality(DOMAIN granted')
  BY <1>1, <1>3 DEF IInv
<1> QED BY <1>5, <1>6, <1>7, <1>8 DEF IInv

LEMMA MoveInv ==
  ASSUME IInv, NEW p \in DOMAIN granted, NEW n \in Requests, Reallocate_Move(p, n)
  PROVE  IInv'
<1>1. n \in Nat /\ Header \in Nat \ {0} /\ n > 0
  BY HeapAssumption DEF Reallocate_Move
<1> DEFINE old == p - Header
           fit == Candidates(blocks, AlignUp(n))
<1>2. CASE fit = {}
  BY <1>2, RefuseInv DEF Reallocate_Move
<1>3. CASE fit # {}
  <2> DEFINE b == Least(fit)
             taken == Use(blocks, b, AlignUp(n))
             more == [q \in DOMAIN granted \cup {Pointer(b)} |->
                        IF q = Pointer(b) THEN n ELSE granted[q]]
  <2>1. b \in fit
    <3>1. fit \in SUBSET Nat
      BY DEF Candidates, IInv, TypeOK
    <3> QED BY <1>3, <3>1, LeastOf
  <2>2. /\ blocks' = Release(taken, old, total)
        /\ usedSize' = usedSize + taken[b].size + Header - (taken[old].size + Header)
        /\ granted' = [q \in (DOMAIN granted \ {p}) \cup {Pointer(b)} |->
                         IF q = Pointer(b) THEN n ELSE granted[q]]
        /\ answer' = [asked |-> n, got |-> Pointer(b)]
        /\ UNCHANGED <<total, allocationCount>>
    BY <1>3 DEF Reallocate_Move
  <2> HIDE DEF b, fit
  <2>3. total # 0 /\ Pointer(b) \in Nat /\ Pointer(b) \notin DOMAIN granted
    BY <1>1, <2>1, FreshRegion DEF fit
  <2>4. Sound(taken, total) /\ Held(taken, more) /\ b \in DOMAIN taken
    BY <1>1, <2>1, TakeStep DEF fit
  <2>5. p \in DOMAIN more
    OBVIOUS
  <2>6. granted' = [q \in DOMAIN more \ {p} |-> more[q]]
    BY <2>2, <2>3
  <2>7. Sound(blocks', total) /\ Coalesced(blocks') /\ Held(blocks', granted')
    <3> HIDE DEF more, taken, old
    <3> QED BY <2>2, <2>4, <2>5, <2>6, GiveStep DEF old
  <2>8. ShapeOK' /\ DOMAIN blocks' \subseteq 0 .. total' /\ blocks' \in [DOMAIN blocks' -> Block]
    BY <2>2, <2>3, <2>7, ToInv DEF IInv, TypeOK
  <2>9. TypeOK'
    <3>1. usedSize' \in Int
      <4>1. old \in DOMAIN taken
        <5>1. PICK c \in UsedIn(taken) : p = Pointer(c)
          BY <2>4, <2>5 DEF Held
        <5>2. c \in Nat /\ c \in DOMAIN taken
          BY <2>4 DEF Sound, UsedIn
        <5> QED BY <1>1, <5>1, <5>2 DEF Pointer
      <4>2. taken[old].size \in Nat /\ taken[b].size \in Nat
        <5> HIDE DEF taken, old
        <5> QED BY <2>4, <4>1 DEF Sound, Block
      <4> HIDE DEF taken, old
      <4> QED BY <1>1, <2>2, <4>2 DEF IInv, TypeOK
    <3>2. DOMAIN granted' \subseteq Nat /\ granted' \in [DOMAIN granted' -> Requests \ {0}]
      BY <1>1, <2>2, <2>3 DEF IInv, TypeOK
    <3>3. answer' \in [asked : Requests \cup {0}, got : Nat \cup {Null}]
      BY <2>2, <2>3
    <3>4. total' \in Nat /\ allocationCount' \in Nat
      BY <2>2 DEF IInv, TypeOK
    <3> QED BY <2>8, <3>1, <3>2, <3>3, <3>4 DEF TypeOK
  <2>10. RefusedFits'
    <3>1. answer'.got # Null
      BY <2>2, <2>3 DEF Null
    <3> QED BY <3>1 DEF RefusedFits
  <2>11. IsFiniteSet(DOMAIN granted') /\ allocationCount' = Cardinality(DOMAIN granted')
    <3> DEFINE rest == DOMAIN granted \ {p}
    <3>1. IsFiniteSet(DOMAIN granted) /\ allocationCount = Cardinality(DOMAIN granted)
          /\ allocationCount \in Nat
      BY DEF IInv, TypeOK
    <3>2. IsFiniteSet(rest) /\ Cardinality(rest) = allocationCount - 1
      BY <3>1, FS_RemoveElement
    <3>3. IsFiniteSet(rest \cup {Pointer(b)}) /\ Cardinality(rest \cup {Pointer(b)}) = allocationCount
      <4>1. Pointer(b) \notin rest
        BY <2>3
      <4> HIDE DEF rest
      <4>2. IsFiniteSet(rest \cup {Pointer(b)})
            /\ Cardinality(rest \cup {Pointer(b)}) = Cardinality(rest) + 1
        BY <3>2, <4>1, FS_AddElement
      <4> QED BY <3>1, <3>2, <4>2
    <3>4. DOMAIN granted' = rest \cup {Pointer(b)}
      BY <2>2
    <3> QED BY <2>2, <3>3, <3>4
  <2> QED BY <2>8, <2>9, <2>10, <2>11 DEF IInv
<1> QED BY <1>2, <1>3

LEMMA NextInv == IInv /\ [Next]_vars => IInv'
<1> SUFFICES ASSUME IInv, [Next]_vars PROVE IInv'
  OBVIOUS
<1>1. ASSUME NEW size \in Arenas, Initialize(size) PROVE IInv'
  BY <1>1, InitializeInv
<1>2. ASSUME NEW n \in Requests, Allocate(n) PROVE IInv'
  BY <1>2, AllocateInv
<1>3. ASSUME NEW p \in DOMAIN granted, Free(p) PROVE IInv'
  BY <1>3, FreeInv
<1>4. ASSUME NEW p \in DOMAIN granted, NEW n \in Requests,
             Reallocate_InPlace(p, n) \/ Reallocate_Move(p, n)
      PROVE  IInv'
  BY <1>4, InPlaceInv, MoveInv
<1>5. CASE UNCHANGED vars
  BY <1>5 DEF vars, IInv, TypeOK, ShapeOK, RefusedFits
<1> QED BY <1>1, <1>2, <1>3, <1>4, <1>5 DEF Next

LEMMA Invariant == Spec => []IInv
BY InitInv, NextInv, PTL DEF Spec

-----------------------------------------------------------------------------
(* The theorems. *)

\* The members of the heap are well typed in every reachable state.
THEOREM HeapTypeCorrect == Spec => []TypeOK
<1>1. IInv => TypeOK
  BY DEF IInv
<1> QED BY <1>1, Invariant, PTL

\* After every call the list tiles the arena without two free neighbours, and
\* its blocks in use are exactly what clients hold.
THEOREM HeapShapeCorrect == Spec => []ShapeOK
<1>1. IInv => ShapeOK
  BY DEF IInv
<1> QED BY <1>1, Invariant, PTL

\* The memory between two neighbours in use is one block: a request that is
\* refused would not have fitted into any gap.
THEOREM RefusalsJustified == Spec => []RefusedOnlyWhenFull
<1>1. IInv => RefusedOnlyWhenFull
  <2> DEFINE n == AlignUp(answer.asked)
  <2> SUFFICES ASSUME IInv, total # 0, answer.asked > 0, answer.got = Null,
                      NEW from \in {First} \cup {End(blocks, b) : b \in Used},
                      NEW to \in {total} \cup Used,
                      from <= to, \A b \in Used : End(blocks, b) <= from \/ to <= b
               PROVE  to - from < Header + n
    BY DEF RefusedOnlyWhenFull
  <2>1. Sound(blocks, total) /\ Coalesced(blocks) /\ Candidates(blocks, n) = {}
    BY FromInv DEF IInv, RefusedFits
  <2>2. \A b \in DOMAIN blocks :
          /\ b \in Nat /\ blocks[b].size \in Nat
          /\ End(blocks, b) = b + Header + blocks[b].size /\ End(blocks, b) <= total
          /\ \A c \in DOMAIN blocks : b < c => End(blocks, b) <= c
    BY <2>1 DEF Sound, WellFormed, Block, End
  <2>3. Header \in Nat \ {0} /\ total \in Nat /\ n \in Nat /\ to \in Nat
    <3>1. answer.asked \in Nat
      BY HeapAssumption DEF IInv, TypeOK
    <3>2. n \in Nat
      BY <3>1, AlignUpBound
    <3> QED BY <2>1, <2>2, <3>2, HeapAssumption DEF Sound, Used
  <2>4. from = total \/ from \in DOMAIN blocks
    <3>1. CASE from = First
      BY <2>1, <3>1 DEF Sound, WellFormed
    <3>2. ASSUME NEW b \in Used, from = End(blocks, b) PROVE from = total \/ from \in DOMAIN blocks
      BY <2>1, <3>2 DEF Sound, WellFormed, Used
    <3> QED BY <3>1, <3>2
  <2>5. CASE from = total
    <3>1. to <= total
      BY <2>2, <2>3 DEF Used, End
    <3> QED BY <2>3, <2>5, <3>1
  <2>6. CASE from \in DOMAIN blocks
    <3>1. CASE blocks[from].used
      <4>1. to <= from
        BY <2>2, <2>3, <2>6, <3>1 DEF Used
      <4> QED BY <2>2, <2>3, <2>6, <4>1
    <3>2. CASE ~blocks[from].used
      <4>1. blocks[from].size < n
        BY <2>1, <2>2, <2>3, <2>6, <3>2 DEF Candidates
      <4>2. to <= End(blocks, from)
        <5>1. CASE blocks[from].next = Null
          <6>1. End(blocks, from) = total
            BY <2>1, <2>6, <5>1 DEF Sound, WellFormed
          <6>2. \A b \in Used : b <= total
            BY <2>2, <2>3 DEF Used
          <6> QED BY <2>3, <6>1, <6>2
        <5>2. CASE blocks[from].next # Null
          <6> DEFINE s == blocks[from].next
          <6>1. s \in Used /\ s = End(blocks, from)
            BY <2>1, <2>6, <3>2, <5>2 DEF Sound, WellFormed, Coalesced, Used
          <6>2. ~(End(blocks, s) <= from)
            BY <2>2, <2>3, <2>6, <6>1 DEF Used
          <6> QED BY <6>1, <6>2
        <5> QED BY <5>1, <5>2
      <4>3. End(blocks, from) = from + Header + blocks[from].size
            /\ from \in Nat /\ blocks[from].size \in Nat
        BY <2>2, <2>6
      <4> HIDE DEF n
      <4> QED BY <2>3, <4>1, <4>2, <4>3
    <3> QED BY <3>1, <3>2
  <2> QED BY <2>4, <2>5, <2>6
<1> QED BY <1>1, Invariant, PTL

\* Every call of the heap is a step of the arena its clients rely on: regions
\* inside the arena that share no byte with any other.
THEOREM HeapImplementsArena == Spec => ImplementsArena
<1>1. Init => A!ArenaInit
  BY DEF Init, A!ArenaInit
<1>2. IInv /\ [Next]_vars => [A!ArenaNext]_A!avars
  <2> SUFFICES ASSUME IInv, [Next]_vars PROVE [A!ArenaNext]_A!avars
    OBVIOUS
  <2>1. ASSUME NEW size \in Arenas, Initialize(size) PROVE A!Start
    BY <2>1, HeapAssumption DEF Initialize, A!Start
  <2>2. ASSUME NEW n \in Requests, Refuse(n) PROVE UNCHANGED A!avars
    BY <2>2 DEF Refuse, A!avars
  \* What a request takes is a region the arena may grant.
  <2>3. ASSUME NEW n \in Requests, n > 0, Candidates(blocks, AlignUp(n)) # {}
        PROVE  LET a == Pointer(Least(Candidates(blocks, AlignUp(n)))) IN
               a \in 0 .. total /\ A!Fits(a, n, {}) /\ a \notin DOMAIN granted
    <3>1. Candidates(blocks, AlignUp(n)) \in SUBSET Nat
      BY DEF Candidates, IInv, TypeOK
    <3>2. Least(Candidates(blocks, AlignUp(n))) \in Candidates(blocks, AlignUp(n))
      BY <2>3, <3>1, LeastOf
    <3> QED BY <2>3, <3>2, FreshRegion
  <2>4. ASSUME NEW n \in Requests, Allocate(n) PROVE A!Grant \/ UNCHANGED A!avars
    <3>1. CASE n = 0 \/ Candidates(blocks, AlignUp(n)) = {}
      BY <2>2, <2>4, <3>1 DEF Allocate
    <3>2. CASE ~(n = 0 \/ Candidates(blocks, AlignUp(n)) = {})
      <4> DEFINE a == Pointer(Least(Candidates(blocks, AlignUp(n))))
      <4>1. n > 0
        BY <3>2, HeapAssumption
      <4>2. a \in 0 .. total /\ A!Fits(a, n, {}) /\ a \notin DOMAIN granted
        BY <2>3, <3>2, <4>1
      <4>3. granted' = [q \in DOMAIN granted \cup {a} |-> IF q = a THEN n ELSE granted[q]]
            /\ total' = total
        BY <2>4, <3>2 DEF Allocate
      <4> HIDE DEF a
      <4>4. granted' = A!With(a, n, {})
        BY <4>3 DEF A!With
      <4> QED BY <4>2, <4>3, <4>4 DEF A!Grant
    <3> QED BY <3>1, <3>2
  <2>5. ASSUME NEW p \in DOMAIN granted, Free(p) PROVE A!Return
    BY <2>5 DEF Free, A!Return
  <2>6. ASSUME NEW p \in DOMAIN granted, NEW n \in Requests, Reallocate_InPlace(p, n)
        PROVE  A!Resize
    <3>1. n \in Nat /\ Header \in Nat \ {0} /\ n <= blocks[p - Header].size
      BY <2>6, HeapAssumption DEF Reallocate_InPlace
    <3>2. Sound(blocks, total) /\ Held(blocks, granted)
      BY FromInv
    <3>3. \A q \in DOMAIN granted :
            /\ q - Header \in DOMAIN blocks /\ q \in Nat /\ q = Pointer(q - Header)
            /\ granted[q] <= blocks[q - Header].size /\ granted[q] \in Nat
      <4> TAKE q \in DOMAIN granted
      <4>1. PICK c \in UsedIn(blocks) : q = Pointer(c)
        BY <3>2 DEF Held
      <4>2. c \in Nat /\ c \in DOMAIN blocks /\ q - Header = c
        BY <3>1, <3>2, <4>1 DEF Sound, UsedIn, Pointer
      <4>3. granted[q] \in Nat
        BY HeapAssumption DEF IInv, TypeOK
      <4> QED BY <3>1, <3>2, <4>1, <4>2, <4>3 DEF Held, Pointer
    <3>4. \A b \in DOMAIN blocks :
            /\ b \in Nat /\ blocks[b].size \in Nat
            /\ End(blocks, b) = b + Header + blocks[b].size /\ End(blocks, b) <= total
            /\ \A c \in DOMAIN blocks : b < c => End(blocks, b) <= c
      BY <3>2 DEF Sound, WellFormed, Block, End
    <3>5. p + n <= total
      <4>1. p = (p - Header) + Header /\ total \in Nat
        BY <3>1, <3>2, <3>3 DEF Sound
      <4> QED BY <3>1, <3>3, <3>4, <4>1
    <3>6. ASSUME NEW q \in DOMAIN granted \ {p}
          PROVE  p + n <= q \/ q + granted[q] <= p
      <4> DEFINE b == p - Header
                 c == q - Header
      <4>1. b \in DOMAIN blocks /\ c \in DOMAIN blocks /\ b # c
            /\ p = b + Header /\ q = c + Header /\ p \in Nat /\ q \in Nat
        BY <3>1, <3>3, <3>6
      <4>2. granted[q] <= blocks[c].size /\ granted[q] \in Nat /\ n <= blocks[b].size
        BY <3>1, <3>3, <3>6
      <4>3. CASE b < c
        BY <3>1, <3>4, <4>1, <4>2, <4>3
      <4>4. CASE c < b
        BY <3>1, <3>4, <4>1, <4>2, <4>4
      <4> QED BY <3>4, <4>1, <4>3, <4>4
    <3>7. A!Fits(p, n, {p})
      BY <3>5, <3>6 DEF A!Fits
    <3>8. granted' = [granted EXCEPT ![p] = n] /\ total' = total
      BY <2>6 DEF Reallocate_InPlace
    <3>9. granted' = A!With(p, n, {p})
      BY <3>8 DEF A!With
    <3> QED BY <3>7, <3>8, <3>9 DEF A!Resize
  <2>7. ASSUME NEW p \in DOMAIN granted, NEW n \in Requests, Reallocate_Move(p, n)
        PROVE  A!Move \/ UNCHANGED A!avars
    <3>1. CASE Candidates(blocks, AlignUp(n)) = {}
      BY <2>2, <2>7, <3>1 DEF Reallocate_Move
    <3>2. CASE Candidates(blocks, AlignUp(n)) # {}
      <4> DEFINE a == Pointer(Least(Candidates(blocks, AlignUp(n))))
      <4>1. n > 0
        BY <2>7 DEF Reallocate_Move
      <4>2. a \in 0 .. total /\ A!Fits(a, n, {}) /\ a \notin DOMAIN granted
        BY <2>3, <3>2, <4>1
      <4>3. granted' = [q \in (DOMAIN granted \ {p}) \cup {a} |-> IF q = a THEN n ELSE granted[q]]
            /\ total' = total
        BY <2>7, <3>2 DEF Reallocate_Move
      <4> HIDE DEF a
      <4>4. granted' = A!With(a, n, {p})
        BY <4>3 DEF A!With
      <4> QED BY <4>2, <4>3, <4>4 DEF A!Move
    <3> QED BY <3>1, <3>2
  <2>8. CASE UNCHANGED vars
    BY <2>8 DEF vars, A!avars
  <2> QED BY <2>1, <2>4, <2>5, <2>6, <2>7, <2>8 DEF Next, A!ArenaNext
<1> QED BY <1>1, <1>2, Invariant, PTL DEF Spec, ImplementsArena, A!ArenaSpec

-----------------------------------------------------------------------------
(* The memory of the kernel: the heap beside the page tables. *)

\* Nothing that the page tables do is seen by the heap: what it does beside them is
\* what it does alone.
THEOREM MemoryRunsHeap == MCSpec => Spec
<1>1. MCInit => Init
  BY DEF MCInit
<1>2. [MCNext]_<<side, vars, tables>> => [Next]_vars
  BY DEF MCNext
<1> QED BY <1>1, <1>2, PTL DEF MCSpec, Spec

\* Beside the page tables too the list tiles the arena after every call, without two
\* free neighbours, and its blocks in use are exactly what clients hold.
THEOREM MemoryShapeCorrect == MCSpec => []ShapeOK
BY MemoryRunsHeap, HeapShapeCorrect, PTL

\* Beside the page tables too a refused request would not have fitted into any gap.
THEOREM MemoryRefusalsJustified == MCSpec => []RefusedOnlyWhenFull
BY MemoryRunsHeap, RefusalsJustified, PTL

\* Beside the page tables too the heap's clients have the arena that they rely on.
THEOREM MemoryImplementsArena == MCSpec => ImplementsArena
BY MemoryRunsHeap, HeapImplementsArena, PTL
=============================================================================
