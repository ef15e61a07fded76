----------------------------- MODULE Heap_proofs -----------------------------
(***************************************************************************)
(* The kernel heap, for every size of heap and header, alignment and set   *)
(* of sizes asked for.                                                     *)
(*                                                                         *)
(* What the properties say of the blocks that kmalloc's walk visits is not *)
(* inductive: nothing in it says that the walk comes to every block, or to *)
(* where a new header may be written. The invariant is that some set of    *)
(* addresses heads blocks that are linked both ways and tile the heap in   *)
(* the order of their addresses. To cut a block and to join two keep that, *)
(* with a set one address larger or smaller; the walk, which has a step    *)
(* for every header that fits, visits exactly the set; and the sizes of    *)
(* the blocks in use add up in any order.                                  *)
(***************************************************************************)
EXTENDS Streams_proofs

-----------------------------------------------------------------------------
(* What kmalloc and kfree need of the constants.                            *)
LEMMA HeapConstants ==
    /\ HEADER \in Nat /\ HEADER > 0 /\ ALIGNMENT \in Nat /\ ALIGNMENT > 0
    /\ HEAP_SIZE \in Nat /\ MIN_SPLIT \in Nat /\ HEADER < HEAP_SIZE
    /\ H!HEAP_START = 1 /\ H!HEAP_END = 1 + HEAP_SIZE /\ H!NULL = 0
    /\ H!Address = 1 .. HEAP_SIZE
<1>1. {HEADER, ALIGNMENT} \subseteq Nat \ {0} /\ {HEAP_SIZE, MIN_SPLIT} \subseteq Nat
  BY HeapAssumption DEF Positive
<1>2. HEADER < HEAP_SIZE
  BY HeapAssumption
<1>3. H!HEAP_START = 1 /\ H!HEAP_END = 1 + HEAP_SIZE /\ H!NULL = 0
  BY DEF H!HEAP_START, H!HEAP_END, H!NULL
<1>4. H!Address = 1 .. HEAP_SIZE
  BY <1>1, <1>3 DEF H!Address
<1>. QED BY <1>1, <1>2, <1>3, <1>4

(* A header, and where the block it heads ends.                             *)
Header == [size : 0 .. HEAP_SIZE, free : BOOLEAN, next : 0 .. HEAP_SIZE, prev : 0 .. HEAP_SIZE]

Headers == [1 .. HEAP_SIZE -> Header]

End(h, b) == b + HEADER + h[b].size

(* The headers at C are a list that tiles the heap: linked both ways, each  *)
(* block behind the one before it.                                          *)
Forward(C, h) ==
    \A b \in C : \/ h[b].next = 0 /\ End(h, b) = 1 + HEAP_SIZE
                 \/ h[b].next \in C /\ h[b].next = End(h, b) /\ h[h[b].next].prev = b

Backward(C, h) ==
    \A b \in C : \/ b = 1 /\ h[b].prev = 0
                 \/ b # 1 /\ h[b].prev \in C /\ h[h[b].prev].next = b

Ordered(C, h) == \A b \in C : End(h, b) <= 1 + HEAP_SIZE /\ \A d \in C : b < d => End(h, b) <= d

Linked(C, h) ==
    /\ h \in Headers
    /\ C \subseteq 1 .. HEAP_SIZE /\ 1 \in C
    /\ Forward(C, h) /\ Backward(C, h) /\ Ordered(C, h)

(* No two neighbours are free, but for a block of F and the next.           *)
Merged(C, h, F) ==
    \A b \in C : h[b].free /\ h[b].next # 0 /\ h[h[b].next].free => b \in F

(* What Linked says of one block.                                           *)
LEMMA BlockFacts ==
    ASSUME NEW C, NEW h, Linked(C, h), NEW b \in C
    PROVE  /\ b \in Nat /\ b >= 1 /\ b <= HEAP_SIZE /\ HEAP_SIZE \in Nat /\ b # 0
           /\ HEADER \in Nat /\ HEADER > 0
           /\ h[b] \in Header /\ h[b].size \in Nat /\ h[b].size <= HEAP_SIZE
           /\ h[b].free \in BOOLEAN /\ h[b].next \in 0 .. HEAP_SIZE /\ h[b].prev \in 0 .. HEAP_SIZE
           /\ End(h, b) = b + HEADER + h[b].size /\ End(h, b) <= 1 + HEAP_SIZE
           /\ End(h, b) \in Nat /\ b < End(h, b)
<1>1. HEADER \in Nat /\ HEADER > 0 /\ HEAP_SIZE \in Nat
  BY HeapConstants
<1>2. b \in 1 .. HEAP_SIZE /\ h[b] \in Header /\ End(h, b) <= 1 + HEAP_SIZE
  BY DEF Linked, Ordered, Headers
<1>3. /\ h[b].size \in 0 .. HEAP_SIZE /\ h[b].free \in BOOLEAN
      /\ h[b].next \in 0 .. HEAP_SIZE /\ h[b].prev \in 0 .. HEAP_SIZE
  BY <1>2 DEF Header
<1>. QED BY <1>1, <1>2, <1>3 DEF End

(* Neighbours are linked both ways.                                         *)
LEMMA Neighbours ==
    ASSUME NEW C, NEW h, Linked(C, h), NEW b \in C
    PROVE  /\ h[b].next = 0 => End(h, b) = 1 + HEAP_SIZE
           /\ h[b].next # 0 => /\ h[b].next \in C /\ h[b].next = End(h, b) /\ b < h[b].next
                               /\ h[h[b].next].prev = b
           /\ b = 1 <=> h[b].prev = 0
           /\ h[b].prev # 0 => h[b].prev \in C /\ h[h[b].prev].next = b /\ h[b].prev < b
<1>1. b # 0 /\ b < End(h, b) /\ b \in Nat
  BY BlockFacts
<1>2. \/ h[b].next = 0 /\ End(h, b) = 1 + HEAP_SIZE
      \/ h[b].next \in C /\ h[b].next = End(h, b) /\ h[h[b].next].prev = b
  BY DEF Linked, Forward
<1>3. \/ b = 1 /\ h[b].prev = 0
      \/ b # 1 /\ h[b].prev \in C /\ h[h[b].prev].next = b
  BY DEF Linked, Backward
<1>4. h[b].next \in C => h[b].next # 0
  BY BlockFacts
<1>5. ASSUME h[b].prev \in C, h[h[b].prev].next = b
      PROVE  h[b].prev # 0 /\ h[b].prev < b
  <2>1. PICK d \in C : d = h[b].prev
    BY <1>5
  <2>2. d # 0 /\ d < End(h, d) /\ h[d].next = b
    BY <1>5, <2>1, BlockFacts
  <2>3. h[d].next = End(h, d)
    BY <1>1, <2>2 DEF Linked, Forward
  <2>. QED BY <2>1, <2>2, <2>3
<1>. QED BY <1>1, <1>2, <1>3, <1>4, <1>5

(* The headers h2 are h with the block n, behind b, made part of b.         *)
Fused(C, h, b, n, h2) ==
    /\ h2 \in Headers
    /\ \A d \in C \ {n} :
          /\ h2[d].free = h[d].free
          /\ h2[d].size = IF d = b THEN h[b].size + HEADER + h[n].size ELSE h[d].size
          /\ h2[d].next = IF d = b THEN h[n].next ELSE h[d].next
          /\ h2[d].prev = IF d = h[n].next THEN b ELSE h[d].prev

(* Where its blocks end.                                                    *)
LEMMA FusedEnds ==
    ASSUME NEW C, NEW h, Linked(C, h), NEW b \in C, NEW n \in C, h[b].next = n,
           NEW h2, Fused(C, h, b, n, h2)
    PROVE  /\ End(h2, b) = End(h, n)
           /\ \A d \in C \ {n, b} : End(h2, d) = End(h, d)
           /\ b # n /\ b < n /\ n = End(h, b) /\ h[n].prev = b
<1>1. b < n /\ n = End(h, b) /\ h[n].prev = b
  <2>1. n # 0
    BY BlockFacts
  <2>. QED BY <2>1, Neighbours
<1>2. b # n /\ b \in C \ {n}
  BY <1>1, BlockFacts
<1>3. h2[b].size = h[b].size + HEADER + h[n].size
  BY <1>2 DEF Fused
<1>4. End(h2, b) = End(h, n)
  BY <1>1, <1>3, BlockFacts DEF End
<1>5. \A d \in C \ {n, b} : End(h2, d) = End(h, d)
  BY DEF Fused, End
<1>. QED BY <1>1, <1>2, <1>4, <1>5

(* They are a list again.                                                   *)
LEMMA FusedLinked ==
    ASSUME NEW C, NEW h, Linked(C, h), NEW b \in C, NEW n \in C, h[b].next = n,
           NEW h2, Fused(C, h, b, n, h2)
    PROVE  Linked(C \ {n}, h2)
<1>1. /\ End(h2, b) = End(h, n) /\ \A d \in C \ {n, b} : End(h2, d) = End(h, d)
      /\ b # n /\ b < n /\ n = End(h, b) /\ h[n].prev = b
  BY FusedEnds
<1>2. C \subseteq 1 .. HEAP_SIZE /\ h2 \in Headers
  BY DEF Linked, Fused
<1>3. 1 \in C \ {n}
  <2>1. h[n].prev # 0
    BY <1>1, BlockFacts
  <2>2. n # 1
    BY <2>1, Neighbours
  <2>. QED BY <2>2 DEF Linked
<1>4. Forward(C \ {n}, h2)
  <2>. SUFFICES ASSUME NEW d \in C \ {n}
                PROVE  \/ h2[d].next = 0 /\ End(h2, d) = 1 + HEAP_SIZE
                       \/ /\ h2[d].next \in C \ {n} /\ h2[d].next = End(h2, d)
                          /\ h2[h2[d].next].prev = d
    BY DEF Forward
  <2>1. CASE d = b
    <3>1. h2[d].next = h[n].next /\ End(h2, d) = End(h, n)
      BY <1>1, <2>1 DEF Fused
    <3>2. CASE h[n].next = 0
      BY <3>1, <3>2, Neighbours
    <3>3. CASE h[n].next # 0
      <4>1. h[n].next \in C \ {n} /\ h[n].next = End(h, n)
        BY <3>3, Neighbours, BlockFacts
      <4>2. h2[h[n].next].prev = b
        BY <4>1 DEF Fused
      <4>. QED BY <2>1, <3>1, <4>1, <4>2
    <3>. QED BY <3>2, <3>3
  <2>2. CASE d # b
    <3>1. h2[d].next = h[d].next /\ End(h2, d) = End(h, d)
      BY <1>1, <2>2 DEF Fused
    <3>2. CASE h[d].next = 0
      BY <3>1, <3>2, Neighbours
    <3>3. CASE h[d].next # 0
      <4>1. h[d].next \in C /\ h[d].next = End(h, d) /\ h[h[d].next].prev = d
        BY <3>3, Neighbours
      <4>2. h[d].next # n /\ h[d].next # h[n].next
        <5>1. h[d].next # n
          BY <1>1, <2>2, <4>1
        <5>2. h[n].next # 0 => h[h[n].next].prev = n
          BY Neighbours
        <5>. QED BY <3>3, <4>1, <5>1, <5>2
      <4>3. h2[h[d].next].prev = d
        BY <4>1, <4>2 DEF Fused
      <4>. QED BY <3>1, <4>1, <4>2, <4>3
    <3>. QED BY <3>2, <3>3
  <2>. QED BY <2>1, <2>2
<1>5. Backward(C \ {n}, h2)
  <2>. SUFFICES ASSUME NEW d \in C \ {n}
                PROVE  \/ d = 1 /\ h2[d].prev = 0
                       \/ d # 1 /\ h2[d].prev \in C \ {n} /\ h2[h2[d].prev].next = d
    BY DEF Backward
  <2>1. CASE d = h[n].next
    <3>1. h2[d].prev = b /\ h2[b].next = d /\ b \in C \ {n}
      BY <1>1, <2>1 DEF Fused
    <3>2. d # 1
      <4>1. d # 0 /\ h[d].prev = n /\ n # 0
        BY <2>1, Neighbours, BlockFacts
      <4>. QED BY <4>1, Neighbours
    <3>. QED BY <3>1, <3>2
  <2>2. CASE d # h[n].next
    <3>1. h2[d].prev = h[d].prev
      BY <2>2 DEF Fused
    <3>2. CASE h[d].prev = 0
      BY <3>1, <3>2, Neighbours
    <3>3. CASE h[d].prev # 0
      <4>1. h[d].prev \in C /\ h[h[d].prev].next = d /\ d # 1
        BY <3>3, Neighbours
      <4>2. h[d].prev # n /\ h[d].prev # b
        BY <2>2, <4>1
      <4>3. h2[h[d].prev].next = d
        BY <4>1, <4>2 DEF Fused
      <4>. QED BY <3>1, <4>1, <4>2, <4>3
    <3>. QED BY <3>2, <3>3
  <2>. QED BY <2>1, <2>2
<1>6. Ordered(C \ {n}, h2)
  <2>. SUFFICES ASSUME NEW d \in C \ {n}
                PROVE  /\ End(h2, d) <= 1 + HEAP_SIZE
                       /\ \A e \in C \ {n} : d < e => End(h2, d) <= e
    BY DEF Ordered
  <2>1. CASE d = b
    <3>1. End(h2, d) <= 1 + HEAP_SIZE
      BY <1>1, <2>1, BlockFacts
    <3>2. ASSUME NEW e \in C \ {n}, d < e PROVE End(h2, d) <= e
      <4>1. n <= e
        BY <1>1, <2>1, <3>2 DEF Linked, Ordered
      <4>2. n < e
        BY <4>1, BlockFacts
      <4>. QED BY <1>1, <2>1, <4>2 DEF Linked, Ordered
    <3>. QED BY <3>1, <3>2
  <2>2. CASE d # b
    BY <1>1, <2>2 DEF Linked, Ordered
  <2>. QED BY <2>1, <2>2
<1>. QED BY <1>2, <1>3, <1>4, <1>5, <1>6 DEF Linked

(* If what follows n is in use, b has no free neighbour behind it.          *)
LEMMA FusedMerged ==
    ASSUME NEW C, NEW h, Linked(C, h), NEW b \in C, NEW n \in C, h[b].next = n,
           NEW h2, Fused(C, h, b, n, h2),
           NEW F, Merged(C, h, F), n \notin F, h[n].free
    PROVE  Merged(C \ {n}, h2, F \ {b})
<1>. SUFFICES ASSUME NEW d \in C \ {n}, h2[d].free, h2[d].next # 0, h2[h2[d].next].free
              PROVE  d \in F \ {b}
  BY DEF Merged
<1>1. Linked(C \ {n}, h2)
  BY FusedLinked
<1>2. h2[d].next \in C \ {n} /\ h2[h2[d].next].free = h[h2[d].next].free
  <2>1. h2[d].next \in C \ {n}
    BY <1>1, Neighbours
  <2>. QED BY <2>1 DEF Fused
<1>3. CASE d = b
  <2>1. h2[d].next = h[n].next
    BY <1>3 DEF Fused
  <2>. QED BY <1>2, <2>1 DEF Merged
<1>4. CASE d # b
  BY <1>2, <1>4 DEF Fused, Merged
<1>. QED BY <1>3, <1>4

(* What one half of coalesce computes.                                      *)
FusedHeaders(h, b, n) ==
    H!Relink([h EXCEPT ![b].size = h[b].size + HEADER + h[n].size,
                       ![b].next = h[n].next,
                       ![n] = H!NoHeader],
             h[n].next, b)

(* The headers g are h but for one field of one header.                     *)
IsSize(g, h, b, v) == g = [h EXCEPT ![b].size = v]
IsFree(g, h, b, v) == g = [h EXCEPT ![b].free = v]
IsNext(g, h, b, v) == g = [h EXCEPT ![b].next = v]
IsPrev(g, h, b, v) == g = [h EXCEPT ![b].prev = v]

(* They are h but for one header.                                           *)
IsAll(g, h, b, r) == g = [h EXCEPT ![b] = r]

(* The other fields stay.                                                   *)
LEMMA FieldSet ==
    ASSUME NEW h \in Headers, NEW b \in 1 .. HEAP_SIZE, NEW v, NEW g
    PROVE  /\ IsSize(g, h, b, v) => IsAll(g, h, b,
                 [size |-> v, free |-> h[b].free, next |-> h[b].next, prev |-> h[b].prev])
           /\ IsFree(g, h, b, v) => IsAll(g, h, b,
                 [size |-> h[b].size, free |-> v, next |-> h[b].next, prev |-> h[b].prev])
           /\ IsNext(g, h, b, v) => IsAll(g, h, b,
                 [size |-> h[b].size, free |-> h[b].free, next |-> v, prev |-> h[b].prev])
           /\ IsPrev(g, h, b, v) => IsAll(g, h, b,
                 [size |-> h[b].size, free |-> h[b].free, next |-> h[b].next, prev |-> v])
<1>1. PICK u : u = h[b] /\ u \in Header
  BY DEF Headers
<1>2. /\ [u EXCEPT !.size = v] = [size |-> v, free |-> u.free, next |-> u.next, prev |-> u.prev]
      /\ [u EXCEPT !.free = v] = [size |-> u.size, free |-> v, next |-> u.next, prev |-> u.prev]
      /\ [u EXCEPT !.next = v] = [size |-> u.size, free |-> u.free, next |-> v, prev |-> u.prev]
      /\ [u EXCEPT !.prev = v] = [size |-> u.size, free |-> u.free, next |-> u.next, prev |-> v]
  BY <1>1 DEF Header
<1>3. /\ IsSize(g, h, b, v) => IsAll(g, h, b, [u EXCEPT !.size = v])
      /\ IsFree(g, h, b, v) => IsAll(g, h, b, [u EXCEPT !.free = v])
      /\ IsNext(g, h, b, v) => IsAll(g, h, b, [u EXCEPT !.next = v])
      /\ IsPrev(g, h, b, v) => IsAll(g, h, b, [u EXCEPT !.prev = v])
  BY <1>1 DEF IsSize, IsFree, IsNext, IsPrev, IsAll
<1>. QED BY <1>1, <1>2, <1>3

(* And the other headers.                                                   *)
LEMMA AllSet ==
    ASSUME NEW h \in Headers, NEW b \in 1 .. HEAP_SIZE, NEW r \in Header, NEW g, IsAll(g, h, b, r)
    PROVE  /\ g \in Headers
           /\ \A d \in 1 .. HEAP_SIZE : g[d] = IF d = b THEN r ELSE h[d]
BY DEF IsAll, Headers

(* It makes the two blocks one.                                             *)
LEMMA FusedIs ==
    ASSUME NEW C, NEW h, Linked(C, h), NEW b \in C, NEW n \in C, h[b].next = n,
           NEW h2, h2 = FusedHeaders(h, b, n)
    PROVE  Fused(C, h, b, n, h2)
<1>1. PICK r : r = [size |-> h[b].size + HEADER + h[n].size, free |-> h[b].free,
                    next |-> h[n].next, prev |-> h[b].prev]
  OBVIOUS
<1>2. PICK g : g = [h EXCEPT ![b].size = h[b].size + HEADER + h[n].size,
                             ![b].next = h[n].next, ![n] = H!NoHeader]
  OBVIOUS
<1>3. b < n /\ n = End(h, b) /\ h[n].prev = b /\ b # n
  <2>1. n # 0 /\ b \in Nat
    BY BlockFacts
  <2>. QED BY <2>1, Neighbours
<1>4. /\ h \in Headers /\ C \subseteq 1 .. HEAP_SIZE
      /\ b \in 1 .. HEAP_SIZE /\ n \in 1 .. HEAP_SIZE
  BY DEF Linked
<1>5. r \in Header
  <2>1. h[b].size + HEADER + h[n].size \in 0 .. HEAP_SIZE
    BY <1>3, BlockFacts DEF End
  <2>. QED BY <1>1, <2>1, BlockFacts DEF Header
<1>6. H!NoHeader \in Header
  BY HeapConstants DEF Header, H!NoHeader, H!NULL
<1>7. /\ g \in Headers
      /\ \A d \in 1 .. HEAP_SIZE : g[d] = IF d = n THEN H!NoHeader ELSE IF d = b THEN r ELSE h[d]
  <2>1. PICK g1 : IsSize(g1, h, b, h[b].size + HEADER + h[n].size)
    BY DEF IsSize
  <2>2. PICK g2 : IsNext(g2, g1, b, h[n].next)
    BY DEF IsNext
  <2>3. IsAll(g, g2, n, H!NoHeader)
    BY <1>2, <2>1, <2>2, Zenon DEF IsSize, IsNext, IsAll
  <2>4. PICK q \in Header : q = [size |-> h[b].size + HEADER + h[n].size, free |-> h[b].free,
                                 next |-> h[b].next, prev |-> h[b].prev]
    <3>1. h[b].size + HEADER + h[n].size \in 0 .. HEAP_SIZE
      BY <1>3, BlockFacts DEF End
    <3>. QED BY <3>1, BlockFacts DEF Header
  <2>5. IsAll(g1, h, b, q)
    BY <1>4, <2>1, <2>4, FieldSet
  <2>6. g1 \in Headers /\ g1[b] = q
    BY <1>4, <2>4, <2>5, AllSet
  <2>7. IsAll(g2, g1, b, r)
    <3>1. IsAll(g2, g1, b, [size |-> g1[b].size, free |-> g1[b].free,
                              next |-> h[n].next, prev |-> g1[b].prev])
      BY <1>4, <2>2, <2>6, FieldSet
    <3>2. r = [size |-> g1[b].size, free |-> g1[b].free, next |-> h[n].next,
               prev |-> g1[b].prev]
      BY <1>1, <2>4, <2>6
    <3>. QED BY <3>1, <3>2
  <2>8. /\ g2 \in Headers
        /\ \A d \in 1 .. HEAP_SIZE : g2[d] = IF d = b THEN r ELSE h[d]
    BY <1>4, <1>5, <2>4, <2>5, <2>6, <2>7, AllSet
  <2>9. /\ g \in Headers
        /\ \A d \in 1 .. HEAP_SIZE : g[d] = IF d = n THEN H!NoHeader ELSE g2[d]
    BY <1>4, <1>6, <2>3, <2>8, AllSet
  <2>. QED BY <1>3, <2>8, <2>9
<1>8. IF h[n].next = 0 THEN h2 = g ELSE IsPrev(h2, g, h[n].next, b)
  BY <1>2, Zenon DEF FusedHeaders, H!Relink, H!NULL, IsPrev
<1>9. CASE h[n].next = 0
  <2>1. h2 = g
    BY <1>8, <1>9
  <2>2. \A d \in C : d # h[n].next
    BY <1>9, BlockFacts
  <2>. QED BY <1>1, <1>3, <1>4, <1>7, <2>1, <2>2 DEF Fused
<1>10. CASE h[n].next # 0
  <2>1. PICK k \in C : k = h[n].next /\ k # n /\ k # b
    <3>1. h[n].next \in C /\ n < h[n].next
      BY <1>10, Neighbours
    <3>. QED BY <1>3, <3>1, BlockFacts
  <2>2. PICK t : t = [size |-> h[k].size, free |-> h[k].free, next |-> h[k].next, prev |-> b]
    OBVIOUS
  <2>3. t \in Header
    <3>1. b \in 0 .. HEAP_SIZE
      BY BlockFacts
    <3>. QED BY <2>2, <3>1, BlockFacts DEF Header
  <2>4. g[k] = h[k] /\ k \in 1 .. HEAP_SIZE
    BY <1>4, <1>7, <2>1
  <2>5. IsAll(h2, g, k, t)
    <3>1. IsPrev(h2, g, k, b)
      BY <1>8, <1>10, <2>1
    <3>2. IsAll(h2, g, k,
             [size |-> g[k].size, free |-> g[k].free, next |-> g[k].next, prev |-> b])
      BY <1>7, <2>4, <3>1, FieldSet
    <3>. QED BY <2>2, <2>4, <3>1, <3>2
  <2>6. /\ h2 \in Headers
        /\ \A d \in 1 .. HEAP_SIZE : h2[d] = IF d = k THEN t ELSE g[d]
    BY <1>7, <2>3, <2>4, <2>5, AllSet
  <2>7. ASSUME NEW d \in C \ {n}
        PROVE  /\ h2[d].free = h[d].free
               /\ h2[d].size = IF d = b THEN h[b].size + HEADER + h[n].size ELSE h[d].size
               /\ h2[d].next = IF d = b THEN h[n].next ELSE h[d].next
               /\ h2[d].prev = IF d = h[n].next THEN b ELSE h[d].prev
    <3>1. CASE d = k
      <4>1. h2[d] = t
        BY <1>4, <2>6, <3>1
      <4>. QED BY <2>1, <2>2, <3>1, <4>1
    <3>2. CASE d = b
      <4>1. h2[d] = r
        BY <1>4, <1>7, <2>1, <2>6, <3>2, <1>3
      <4>. QED BY <1>1, <2>1, <3>2, <4>1
    <3>3. CASE d # k /\ d # b
      <4>1. h2[d] = h[d]
        BY <1>4, <1>7, <2>6, <3>3
      <4>. QED BY <2>1, <3>3, <4>1
    <3>. QED BY <3>1, <3>2, <3>3
  <2>. QED BY <2>6, <2>7 DEF Fused
<1>. QED BY <1>9, <1>10

(* The headers h2 are h with the block b in use and cut to m bytes, the     *)
(* rest of it a free block n.                                               *)
Split(C, h, b, m, n, h2) ==
    /\ h2 \in Headers
    /\ \A d \in C \cup {n} :
          /\ h2[d].free = IF d = b THEN FALSE ELSE IF d = n THEN TRUE ELSE h[d].free
          /\ h2[d].size = IF d = b THEN m
                          ELSE IF d = n THEN h[b].size - m - HEADER ELSE h[d].size
          /\ h2[d].next = IF d = b THEN n ELSE IF d = n THEN h[b].next ELSE h[d].next
          /\ h2[d].prev = IF d = n THEN b ELSE IF d = h[b].next THEN n ELSE h[d].prev

(* A header fits behind the m bytes, at n.                                  *)
Place(h, b, m, n) == m + HEADER < h[b].size /\ n = b + HEADER + m

(* There is room for it inside b, where no other header lies.               *)
LEMMA SplitPlace ==
    ASSUME NEW C, NEW h, Linked(C, h), NEW b \in C, NEW m \in Nat,
           NEW n, Place(h, b, m, n)
    PROVE  /\ n \in 1 .. HEAP_SIZE /\ n \notin C /\ b < n /\ n # b /\ n + HEADER < End(h, b)
           /\ h[b].size - m - HEADER \in 0 .. HEAP_SIZE /\ m \in 0 .. HEAP_SIZE
           /\ n + HEADER + (h[b].size - m - HEADER) = End(h, b)
<1>1. /\ b \in Nat /\ b >= 1 /\ HEAP_SIZE \in Nat /\ HEADER \in Nat /\ HEADER > 0
      /\ h[b].size \in Nat /\ h[b].size <= HEAP_SIZE
      /\ End(h, b) = b + HEADER + h[b].size /\ End(h, b) <= 1 + HEAP_SIZE
  BY BlockFacts
<1>2. /\ n \in 1 .. HEAP_SIZE /\ b < n /\ n # b /\ n + HEADER < End(h, b)
      /\ h[b].size - m - HEADER \in 0 .. HEAP_SIZE /\ m \in 0 .. HEAP_SIZE
      /\ n + HEADER + (h[b].size - m - HEADER) = End(h, b)
  BY <1>1 DEF Place
<1>3. n \notin C
  BY <1>1, <1>2 DEF Linked, Ordered
<1>. QED BY <1>2, <1>3

(* What split_block and the mark of kmalloc compute.                        *)
SplitHeaders(h, b, m, n) ==
    LET g == [h EXCEPT ![n] = [size |-> h[b].size - m - HEADER, free |-> TRUE,
                               next |-> h[b].next, prev |-> b],
                       ![b].size = m,
                       ![b].next = n]
        l == IF h[b].next = 0 THEN g ELSE [g EXCEPT ![h[b].next].prev = n]
    IN  [l EXCEPT ![b].free = FALSE]

(* They cut the block.                                                      *)
LEMMA SplitIs ==
    ASSUME NEW C, NEW h, Linked(C, h), NEW b \in C, NEW m \in Nat,
           NEW n, Place(h, b, m, n),
           NEW h2, h2 = SplitHeaders(h, b, m, n)
    PROVE  Split(C, h, b, m, n, h2)
<1>1. /\ n \in 1 .. HEAP_SIZE /\ n \notin C /\ n # b
      /\ h[b].size - m - HEADER \in 0 .. HEAP_SIZE /\ m \in 0 .. HEAP_SIZE
      /\ b \in 1 .. HEAP_SIZE /\ h \in Headers /\ C \subseteq 1 .. HEAP_SIZE
      /\ b \in 0 .. HEAP_SIZE /\ n \in 0 .. HEAP_SIZE
  <2>1. b \in 1 .. HEAP_SIZE /\ h \in Headers /\ C \subseteq 1 .. HEAP_SIZE
    BY DEF Linked
  <2>2. b \in 0 .. HEAP_SIZE
    BY BlockFacts
  <2>. QED BY <2>1, <2>2, SplitPlace, HeapConstants
<1>2. /\ h[b].size \in 0 .. HEAP_SIZE /\ h[b].free \in BOOLEAN
      /\ h[b].next \in 0 .. HEAP_SIZE /\ h[b].prev \in 0 .. HEAP_SIZE
  <2>1. h[b] \in Header
    BY BlockFacts
  <2>. QED BY <2>1 DEF Header
<1>0. n \in 1 .. HEAP_SIZE /\ b \in 1 .. HEAP_SIZE /\ h \in Headers /\ n # b
  BY <1>1
<1>3. PICK new \in Header : new = [size |-> h[b].size - m - HEADER, free |-> TRUE,
                                   next |-> h[b].next, prev |-> b]
  BY <1>1, <1>2 DEF Header
<1>4. PICK r1 \in Header : r1 = [size |-> m, free |-> h[b].free, next |-> h[b].next,
                                 prev |-> h[b].prev]
  BY <1>1, <1>2 DEF Header
<1>5. PICK r2 \in Header : r2 = [size |-> m, free |-> h[b].free, next |-> n, prev |-> h[b].prev]
  BY <1>1, <1>2 DEF Header
<1>6. PICK r3 \in Header : r3 = [size |-> m, free |-> FALSE, next |-> n, prev |-> h[b].prev]
  BY <1>1, <1>2 DEF Header
<1>7. PICK g0 : IsAll(g0, h, n, new)
  BY DEF IsAll
<1>8. PICK g1 : IsSize(g1, g0, b, m)
  BY DEF IsSize
<1>9. PICK g2 : IsNext(g2, g1, b, n)
  BY DEF IsNext
<1>10. PICK g3 : IF h[b].next = 0 THEN g3 = g2 ELSE IsPrev(g3, g2, h[b].next, n)
  BY DEF IsPrev
<1>11. IsFree(h2, g3, b, FALSE)
  <2>1. [h EXCEPT ![n] = new, ![b].size = m, ![b].next = n] = g2
    BY <1>7, <1>8, <1>9, Zenon DEF IsAll, IsSize, IsNext
  <2>2. [h EXCEPT ![n] = [size |-> h[b].size - m - HEADER, free |-> TRUE,
                          next |-> h[b].next, prev |-> b],
                  ![b].size = m, ![b].next = n] = g2
    BY <1>3, <2>1, Zenon
  <2>3. h2 = [(IF h[b].next = 0 THEN g2 ELSE [g2 EXCEPT ![h[b].next].prev = n])
                 EXCEPT ![b].free = FALSE]
    BY <2>2, Zenon DEF SplitHeaders
  <2>4. g3 = IF h[b].next = 0 THEN g2 ELSE [g2 EXCEPT ![h[b].next].prev = n]
    BY <1>10, Zenon DEF IsPrev
  <2>. QED BY <2>3, <2>4, Zenon DEF IsFree
<1>12. /\ g0 \in Headers
       /\ \A d \in 1 .. HEAP_SIZE : g0[d] = IF d = n THEN new ELSE h[d]
  BY <1>0, <1>7, AllSet
<1>13. g0[b] = h[b]
  BY <1>0, <1>12
<1>14. /\ g1 \in Headers
       /\ \A d \in 1 .. HEAP_SIZE : g1[d] = IF d = b THEN r1 ELSE g0[d]
  <2>1. IsAll(g1, g0, b, [size |-> m, free |-> g0[b].free, next |-> g0[b].next,
                            prev |-> g0[b].prev])
    BY <1>0, <1>8, <1>12, FieldSet
  <2>2. r1 = [size |-> m, free |-> g0[b].free, next |-> g0[b].next, prev |-> g0[b].prev]
    BY <1>4, <1>13
  <2>3. IsAll(g1, g0, b, r1)
    BY <2>1, <2>2
  <2>. QED BY <1>0, <1>12, <2>3, AllSet
<1>15. g1[b] = r1
  BY <1>0, <1>14
<1>16. /\ g2 \in Headers
       /\ \A d \in 1 .. HEAP_SIZE : g2[d] = IF d = b THEN r2 ELSE g1[d]
  <2>1. IsAll(g2, g1, b, [size |-> g1[b].size, free |-> g1[b].free, next |-> n,
                            prev |-> g1[b].prev])
    BY <1>0, <1>9, <1>14, FieldSet
  <2>2. r2 = [size |-> g1[b].size, free |-> g1[b].free, next |-> n, prev |-> g1[b].prev]
    BY <1>4, <1>5, <1>15
  <2>3. IsAll(g2, g1, b, r2)
    BY <2>1, <2>2
  <2>. QED BY <1>0, <1>14, <2>3, AllSet
<1>17. g2[b] = r2 /\ g2[n] = new /\ \A d \in C \ {b} : g2[d] = h[d]
  BY <1>1, <1>12, <1>14, <1>16
<1>18. /\ g3 \in Headers /\ g3[b] = r2 /\ g3[n] = new
       /\ \A d \in C \ {b} : /\ g3[d].size = h[d].size /\ g3[d].free = h[d].free
                             /\ g3[d].next = h[d].next
                             /\ g3[d].prev = IF d = h[b].next THEN n ELSE h[d].prev
  <2>1. CASE h[b].next = 0
    <3>1. g3 = g2
      BY <1>10, <2>1
    <3>2. \A d \in C : d # h[b].next
      BY <2>1, BlockFacts
    <3>. QED BY <1>16, <1>17, <3>1, <3>2
  <2>2. CASE h[b].next # 0
    <3>1. PICK k \in C : k = h[b].next /\ k # b
      <4>1. h[b].next \in C /\ b < h[b].next /\ b \in Nat
        BY <2>2, Neighbours, BlockFacts
      <4>. QED BY <4>1
    <3>2. IsPrev(g3, g2, k, n)
      BY <1>10, <2>2, <3>1
    <3>3. k \in 1 .. HEAP_SIZE /\ g2[k] = h[k] /\ k # n
      BY <1>1, <1>17, <3>1
    <3>4. PICK t \in Header : t = [size |-> h[k].size, free |-> h[k].free,
                                   next |-> h[k].next, prev |-> n]
      <4>1. h[k] \in Header
        BY <3>1, BlockFacts
      <4>. QED BY <1>1, <4>1 DEF Header
    <3>5. IsAll(g3, g2, k, t)
      <4>1. IsAll(g3, g2, k, [size |-> g2[k].size, free |-> g2[k].free,
                                next |-> g2[k].next, prev |-> n])
        BY <1>16, <3>2, <3>3, FieldSet
      <4>2. t = [size |-> g2[k].size, free |-> g2[k].free, next |-> g2[k].next, prev |-> n]
        BY <3>3, <3>4
      <4>. QED BY <4>1, <4>2
    <3>6. /\ g3 \in Headers
          /\ \A d \in 1 .. HEAP_SIZE : g3[d] = IF d = k THEN t ELSE g2[d]
      BY <1>16, <3>3, <3>5, AllSet
    <3>7. g3[b] = r2 /\ g3[n] = new
      BY <1>1, <1>17, <3>1, <3>3, <3>6
    <3>8. \A d \in C \ {b} : g3[d] = IF d = k THEN t ELSE h[d]
      BY <1>1, <1>17, <3>6
    <3>. QED BY <3>1, <3>4, <3>6, <3>7, <3>8
  <2>. QED BY <2>1, <2>2
<1>19. /\ h2 \in Headers
       /\ \A d \in 1 .. HEAP_SIZE : h2[d] = IF d = b THEN r3 ELSE g3[d]
  <2>1. IsAll(h2, g3, b, [size |-> g3[b].size, free |-> FALSE, next |-> g3[b].next,
                            prev |-> g3[b].prev])
    BY <1>0, <1>11, <1>18, FieldSet
  <2>2. r3 = [size |-> g3[b].size, free |-> FALSE, next |-> g3[b].next, prev |-> g3[b].prev]
    BY <1>5, <1>6, <1>18
  <2>3. IsAll(h2, g3, b, r3)
    BY <2>1, <2>2
  <2>. QED BY <1>0, <1>18, <2>3, AllSet
<1>20. h2[b] = r3 /\ h2[n] = new /\ \A d \in C \ {b} : h2[d] = g3[d]
  BY <1>1, <1>18, <1>19
<1>21. b # h[b].next
  <2>1. b # 0 /\ b \in Nat /\ (h[b].next # 0 => b < h[b].next)
    BY BlockFacts, Neighbours
  <2>. QED BY <2>1, BlockFacts
<1>22. ASSUME NEW d \in C \cup {n}
       PROVE  /\ h2[d].free = IF d = b THEN FALSE ELSE IF d = n THEN TRUE ELSE h[d].free
              /\ h2[d].size = IF d = b THEN m
                              ELSE IF d = n THEN h[b].size - m - HEADER ELSE h[d].size
              /\ h2[d].next = IF d = b THEN n ELSE IF d = n THEN h[b].next ELSE h[d].next
              /\ h2[d].prev = IF d = n THEN b ELSE IF d = h[b].next THEN n ELSE h[d].prev
  <2>0. n \notin C /\ n # b
    BY <1>1
  <2>1. CASE d = b
    <3>1. h2[d] = r3 /\ d # n /\ d # h[b].next
      BY <1>20, <1>21, <2>0, <2>1
    <3>2. h2[d].free = FALSE /\ h2[d].size = m /\ h2[d].next = n /\ h2[d].prev = h[b].prev
      BY <1>6, <3>1
    <3>. QED BY <2>1, <3>1, <3>2
  <2>2. CASE d = n
    <3>1. h2[d] = new /\ d # b
      BY <1>20, <2>0, <2>2
    <3>2. /\ h2[d].free = TRUE /\ h2[d].size = h[b].size - m - HEADER
          /\ h2[d].next = h[b].next /\ h2[d].prev = b
      BY <1>3, <3>1
    <3>. QED BY <2>2, <3>1, <3>2
  <2>3. CASE d \in C \ {b}
    <3>1. h2[d] = g3[d] /\ d # b /\ d # n
      BY <1>20, <2>0, <2>3
    <3>2. /\ g3[d].size = h[d].size /\ g3[d].free = h[d].free /\ g3[d].next = h[d].next
          /\ g3[d].prev = IF d = h[b].next THEN n ELSE h[d].prev
      BY <1>18, <2>3
    <3>. QED BY <3>1, <3>2
  <2>. QED BY <2>1, <2>2, <2>3
<1>. QED BY <1>19, <1>22 DEF Split

(* They are a list again, with one block more.                              *)
LEMMA SplitLinked ==
    ASSUME NEW C, NEW h, Linked(C, h), NEW b \in C, NEW m \in Nat,
           NEW n, Place(h, b, m, n),
           NEW h2, Split(C, h, b, m, n, h2)
    PROVE  Linked(C \cup {n}, h2)
<1>1. /\ n \in 1 .. HEAP_SIZE /\ n \notin C /\ b < n /\ n # b /\ n + HEADER < End(h, b)
      /\ n + HEADER + (h[b].size - m - HEADER) = End(h, b)
  BY SplitPlace
<1>2. /\ b \in Nat /\ End(h, b) \in Nat /\ End(h, b) <= 1 + HEAP_SIZE /\ HEAP_SIZE \in Nat
      /\ HEADER \in Nat /\ b # 0 /\ n \in Nat /\ n # 0 /\ n # 1 /\ b >= 1
  BY <1>1, BlockFacts
<1>3. /\ End(h2, b) = n /\ End(h2, n) = End(h, b)
      /\ \A d \in C \ {b} : End(h2, d) = End(h, d)
  <2>1. h2[b].size = m /\ h2[n].size = h[b].size - m - HEADER
    BY <1>1 DEF Split
  <2>2. \A d \in C \ {b} : h2[d].size = h[d].size
    BY <1>1 DEF Split
  <2>3. End(h2, b) = n /\ End(h2, n) = End(h, b)
    <3>1. n = b + HEADER + m
      BY DEF Place
    <3>. QED BY <1>1, <1>2, <2>1, <3>1 DEF End
  <2>. QED BY <2>2, <2>3 DEF End
<1>4. h2 \in Headers /\ C \cup {n} \subseteq 1 .. HEAP_SIZE /\ 1 \in C \cup {n}
  BY <1>1 DEF Linked, Split
<1>5. h2[b].next = n /\ h2[n].prev = b /\ h2[n].next = h[b].next
  BY <1>1 DEF Split
<1>6. Forward(C \cup {n}, h2)
  <2>. SUFFICES ASSUME NEW d \in C \cup {n}
                PROVE  \/ h2[d].next = 0 /\ End(h2, d) = 1 + HEAP_SIZE
                       \/ /\ h2[d].next \in C \cup {n} /\ h2[d].next = End(h2, d)
                          /\ h2[h2[d].next].prev = d
    BY DEF Forward
  <2>1. CASE d = b
    BY <1>3, <1>5, <2>1
  <2>2. CASE d = n
    <3>1. CASE h[b].next = 0
      BY <1>3, <1>5, <2>2, <3>1, Neighbours
    <3>2. CASE h[b].next # 0
      <4>1. h[b].next \in C /\ h[b].next = End(h, b)
        BY <3>2, Neighbours
      <4>2. h2[h[b].next].prev = n
        BY <1>1, <4>1 DEF Split
      <4>. QED BY <1>3, <1>5, <2>2, <4>1, <4>2
    <3>. QED BY <3>1, <3>2
  <2>3. CASE d \in C \ {b}
    <3>1. h2[d].next = h[d].next /\ End(h2, d) = End(h, d)
      BY <1>1, <1>3, <2>3 DEF Split
    <3>2. CASE h[d].next = 0
      BY <2>3, <3>1, <3>2, Neighbours
    <3>3. CASE h[d].next # 0
      <4>1. h[d].next \in C /\ h[d].next = End(h, d) /\ h[h[d].next].prev = d
        BY <2>3, <3>3, Neighbours
      <4>2. h[d].next # h[b].next
        <5>1. h[b].next # 0 => h[h[b].next].prev = b
          BY Neighbours
        <5>. QED BY <2>3, <3>3, <4>1, <5>1
      <4>3. h2[h[d].next].prev = d
        BY <1>1, <4>1, <4>2 DEF Split
      <4>. QED BY <3>1, <4>1, <4>3
    <3>. QED BY <3>2, <3>3
  <2>. QED BY <2>1, <2>2, <2>3
<1>7. Backward(C \cup {n}, h2)
  <2>. SUFFICES ASSUME NEW d \in C \cup {n}
                PROVE  \/ d = 1 /\ h2[d].prev = 0
                       \/ d # 1 /\ h2[d].prev \in C \cup {n} /\ h2[h2[d].prev].next = d
    BY DEF Backward
  <2>1. CASE d = n
    BY <1>2, <1>5, <2>1
  <2>2. CASE d \in C /\ d = h[b].next
    <3>1. h2[d].prev = n /\ h2[n].next = d
      BY <1>1, <1>5, <2>2 DEF Split
    <3>2. d # 1
      <4>1. d # 0 /\ h[d].prev = b
        BY <2>2, Neighbours, BlockFacts
      <4>. QED BY <1>2, <2>2, <4>1, Neighbours
    <3>. QED BY <3>1, <3>2
  <2>3. CASE d \in C /\ d # h[b].next
    <3>1. h2[d].prev = h[d].prev
      BY <1>1, <2>3 DEF Split
    <3>2. CASE h[d].prev = 0
      BY <2>3, <3>1, <3>2, Neighbours
    <3>3. CASE h[d].prev # 0
      <4>1. h[d].prev \in C /\ h[h[d].prev].next = d /\ d # 1
        BY <2>3, <3>3, Neighbours
      <4>2. h[d].prev # b
        BY <2>3, <4>1
      <4>3. h2[h[d].prev].next = d
        BY <1>1, <4>1, <4>2 DEF Split
      <4>. QED BY <3>1, <4>1, <4>3
    <3>. QED BY <3>2, <3>3
  <2>. QED BY <2>1, <2>2, <2>3
<1>8. Ordered(C \cup {n}, h2)
  <2>. SUFFICES ASSUME NEW d \in C \cup {n}
                PROVE  /\ End(h2, d) <= 1 + HEAP_SIZE
                       /\ \A e \in C \cup {n} : d < e => End(h2, d) <= e
    BY DEF Ordered
  <2>0. \A e \in C : b < e => End(h, b) <= e
    BY DEF Linked, Ordered
  <2>1. CASE d = b
    BY <1>1, <1>2, <1>3, <2>0, <2>1, BlockFacts
  <2>2. CASE d = n
    BY <1>1, <1>2, <1>3, <2>0, <2>2, BlockFacts
  <2>3. CASE d \in C \ {b}
    <3>1. /\ End(h2, d) = End(h, d) /\ End(h, d) <= 1 + HEAP_SIZE
          /\ \A e \in C : d < e => End(h, d) <= e
      BY <1>3, <2>3 DEF Linked, Ordered
    <3>2. ASSUME d < n PROVE End(h, d) <= n
      <4>1. d \in Nat /\ End(h, d) \in Nat /\ d < End(h, d)
        BY <2>3, BlockFacts
      <4>2. ~(b < d)
        BY <1>1, <1>2, <2>0, <2>3, <3>2, <4>1
      <4>3. End(h, d) <= b
        BY <1>2, <2>3, <3>1, <4>1, <4>2
      <4>. QED BY <1>1, <1>2, <4>1, <4>3
    <3>. QED BY <3>1, <3>2
  <2>. QED BY <2>1, <2>2, <2>3
<1>. QED BY <1>4, <1>6, <1>7, <1>8 DEF Linked

(* Two free blocks stay apart: b was free, so its neighbours were in use.   *)
LEMMA SplitMerged ==
    ASSUME NEW C, NEW h, Linked(C, h), NEW b \in C, NEW m \in Nat,
           NEW n, Place(h, b, m, n),
           NEW h2, Split(C, h, b, m, n, h2), Merged(C, h, {}), h[b].free
    PROVE  Merged(C \cup {n}, h2, {})
<1>. SUFFICES ASSUME NEW d \in C \cup {n}, h2[d].free, h2[d].next # 0, h2[h2[d].next].free
              PROVE  FALSE
  BY DEF Merged
<1>1. n \notin C /\ n # b
  BY SplitPlace
<1>2. d # b
  BY DEF Split
<1>3. CASE d = n
  <2>1. h2[d].next = h[b].next
    BY <1>1, <1>3 DEF Split
  <2>2. h[b].next \in C /\ h[b].next # b
    <3>1. h[b].next \in C /\ b < h[b].next /\ b \in Nat
      BY <2>1, Neighbours, BlockFacts
    <3>. QED BY <3>1
  <2>3. h[h[b].next].free
    BY <1>1, <2>1, <2>2 DEF Split
  <2>. QED BY <2>1, <2>3 DEF Merged
<1>4. CASE d \in C
  <2>1. h2[d].next = h[d].next /\ h[d].free
    BY <1>1, <1>2, <1>4 DEF Split
  <2>2. h[d].next \in C /\ h[d].next # n
    BY <1>1, <1>4, <2>1, Neighbours
  <2>3. h[d].next # b /\ h[h[d].next].free
    BY <2>1, <2>2 DEF Split
  <2>. QED BY <1>4, <2>1, <2>3 DEF Merged
<1>. QED BY <1>3, <1>4

(* The headers h2 are h but for the mark of b.                              *)
Marked(C, h, b, v, h2) ==
    /\ h2 \in Headers
    /\ \A d \in C : /\ h2[d].free = IF d = b THEN v ELSE h[d].free
                    /\ h2[d].size = h[d].size
                    /\ h2[d].next = h[d].next
                    /\ h2[d].prev = h[d].prev

(* To set the mark does this.                                               *)
LEMMA MarkedIs ==
    ASSUME NEW C, NEW h, Linked(C, h), NEW b \in C, NEW v \in BOOLEAN,
           NEW h2, IsFree(h2, h, b, v)
    PROVE  Marked(C, h, b, v, h2)
<1>1. h \in Headers /\ b \in 1 .. HEAP_SIZE /\ C \subseteq 1 .. HEAP_SIZE
  BY DEF Linked
<1>2. PICK r \in Header : r = [size |-> h[b].size, free |-> v, next |-> h[b].next,
                               prev |-> h[b].prev]
  BY <1>1 DEF Headers, Header
<1>3. IsAll(h2, h, b, r)
  BY <1>1, <1>2, FieldSet
<1>4. h2 \in Headers /\ \A d \in 1 .. HEAP_SIZE : h2[d] = IF d = b THEN r ELSE h[d]
  BY <1>1, <1>3, AllSet
<1>. QED BY <1>1, <1>2, <1>4 DEF Marked

(* The list stays.                                                          *)
LEMMA MarkedLinked ==
    ASSUME NEW C, NEW h, Linked(C, h), NEW b \in C, NEW v, NEW h2, Marked(C, h, b, v, h2)
    PROVE  Linked(C, h2)
<1>1. \A d \in C : End(h2, d) = End(h, d) /\ h2[d].next = h[d].next /\ h2[d].prev = h[d].prev
  BY DEF Marked, End
<1>2. Forward(C, h2)
  <2>. SUFFICES ASSUME NEW d \in C
                PROVE  \/ h2[d].next = 0 /\ End(h2, d) = 1 + HEAP_SIZE
                       \/ h2[d].next \in C /\ h2[d].next = End(h2, d) /\ h2[h2[d].next].prev = d
    BY DEF Forward
  <2>1. \/ h[d].next = 0 /\ End(h, d) = 1 + HEAP_SIZE
        \/ h[d].next \in C /\ h[d].next = End(h, d) /\ h[h[d].next].prev = d
    BY DEF Forward, Linked
  <2>2. h2[d].next = h[d].next /\ End(h2, d) = End(h, d)
    BY <1>1
  <2>3. h[d].next \in C => h2[h[d].next].prev = h[h[d].next].prev
    BY <1>1
  <2>. QED BY <2>1, <2>2, <2>3
<1>3. Backward(C, h2)
  <2>. SUFFICES ASSUME NEW d \in C
                PROVE  \/ d = 1 /\ h2[d].prev = 0
                       \/ d # 1 /\ h2[d].prev \in C /\ h2[h2[d].prev].next = d
    BY DEF Backward
  <2>1. \/ d = 1 /\ h[d].prev = 0
        \/ d # 1 /\ h[d].prev \in C /\ h[h[d].prev].next = d
    BY DEF Backward, Linked
  <2>2. h2[d].prev = h[d].prev
    BY <1>1
  <2>3. h[d].prev \in C => h2[h[d].prev].next = h[h[d].prev].next
    BY <1>1
  <2>. QED BY <2>1, <2>2, <2>3
<1>4. Ordered(C, h2)
  BY <1>1 DEF Ordered, Linked
<1>. QED BY <1>2, <1>3, <1>4 DEF Linked, Marked

(* A block taken is no free neighbour of another.                           *)
LEMMA TakenMerged ==
    ASSUME NEW C, NEW h, Linked(C, h), NEW b \in C, NEW h2,
           Marked(C, h, b, FALSE, h2), Merged(C, h, {})
    PROVE  Merged(C, h2, {})
<1>. SUFFICES ASSUME NEW d \in C, h2[d].free, h2[d].next # 0, h2[h2[d].next].free
              PROVE  FALSE
  BY DEF Merged
<1>1. h2[d].next = h[d].next
  BY DEF Marked
<1>2. h[d].next \in C
  BY <1>1, Neighbours
<1>. QED BY <1>1, <1>2 DEF Marked, Merged

(* A block freed may be one of those on its sides.                          *)
LEMMA FreedMerged ==
    ASSUME NEW C, NEW h, Linked(C, h), NEW b \in C, NEW h2,
           Marked(C, h, b, TRUE, h2), Merged(C, h, {})
    PROVE  Merged(C, h2, {b, h[b].prev})
<1>. SUFFICES ASSUME NEW d \in C, h2[d].free, h2[d].next # 0, h2[h2[d].next].free,
                     d # b
              PROVE  d = h[b].prev
  BY DEF Merged
<1>1. h2[d].next = h[d].next
  BY DEF Marked
<1>2. h[d].next \in C /\ h[h[d].next].prev = d
  BY <1>1, Neighbours
<1>3. CASE h[d].next # b
  <2>1. h[d].free /\ h[h[d].next].free /\ h[d].next # 0
    BY <1>1, <1>2, <1>3 DEF Marked
  <2>. QED BY <2>1 DEF Merged
<1>4. CASE h[d].next = b
  BY <1>2, <1>4
<1>. QED BY <1>3, <1>4

(* The blocks in use.                                                       *)
Used(C, h) == {d \in C : ~h[d].free}

(* Those of the headers g at D are those of h at C, with their sizes.       *)
SameUsed(C, h, D, g) == Used(D, g) = Used(C, h) /\ \A d \in Used(C, h) : g[d].size = h[d].size

(* To join two free blocks leaves those in use alone.                       *)
LEMMA FusedUsed ==
    ASSUME NEW C, NEW h, Linked(C, h), NEW b \in C, NEW n \in C, h[b].next = n,
           NEW h2, Fused(C, h, b, n, h2), h[b].free, h[n].free
    PROVE  SameUsed(C, h, C \ {n}, h2)
<1>1. \A d \in C \ {n} : h2[d].free = h[d].free /\ (d # b => h2[d].size = h[d].size)
  BY DEF Fused
<1>. QED BY <1>1 DEF SameUsed, Used

(* The first half of coalesce: the free block b with the one behind.        *)
LEMMA MergedNext ==
    ASSUME NEW C, NEW h, Linked(C, h), NEW b \in C, h[b].free,
           Merged(C, h, {b, h[b].prev}),
           NEW h2, h2 = H!MergeNext(h, b)
    PROVE  \E D : /\ Linked(D, h2) /\ b \in D /\ h2[b].free
                  /\ Merged(D, h2, {h2[b].prev}) /\ SameUsed(C, h, D, h2)
<1>1. PICK n : n = h[b].next
  OBVIOUS
<1>2. H!NULL = 0
  BY HeapConstants
<1>3. CASE n = 0 \/ ~h[n].free
  <2>1. h2 = h
    BY <1>1, <1>2, <1>3 DEF H!MergeNext
  <2>2. Merged(C, h2, {h2[b].prev})
    BY <1>1, <1>3, <2>1 DEF Merged
  <2>. QED BY <2>1, <2>2 DEF SameUsed
<1>4. CASE n # 0 /\ h[n].free
  <2>1. n \in C /\ b < n /\ n \in Nat /\ b \in Nat /\ n # b
    <3>1. n \in C /\ b < n
      BY <1>1, <1>4, Neighbours
    <3>. QED BY <3>1, BlockFacts
  <2>2. h2 = FusedHeaders(h, b, n)
    <3>1. h2 = H!Relink([h EXCEPT ![b].size = @ + HEADER + h[n].size,
                                  ![b].next = h[n].next,
                                  ![n] = H!NoHeader],
                        h[n].next, b)
      BY <1>1, <1>2, <1>4 DEF H!MergeNext
    <3>. QED BY <3>1, Zenon DEF FusedHeaders
  <2>3. Fused(C, h, b, n, h2)
    BY <1>1, <2>1, <2>2, FusedIs
  <2>4. n \notin {b, h[b].prev} /\ h[b].prev # b
    <3>1. h[b].prev < b \/ h[b].prev = 0
      BY Neighbours
    <3>. QED BY <1>4, <2>1, <3>1, BlockFacts
  <2>5. Merged(C \ {n}, h2, {b, h[b].prev} \ {b})
    BY <1>1, <1>4, <2>1, <2>3, <2>4, FusedMerged
  <2>6. h2[b].prev = h[b].prev
    <3>1. b # h[n].next
      <4>1. h[n].next # 0 => n < h[n].next
        BY <2>1, Neighbours
      <4>. QED BY <2>1, <4>1, BlockFacts
    <3>. QED BY <2>1, <2>3, <3>1 DEF Fused
  <2>7. {b, h[b].prev} \ {b} = {h2[b].prev}
    BY <2>4, <2>6
  <2>8. Linked(C \ {n}, h2)
    BY <1>1, <2>1, <2>3, FusedLinked
  <2>9. SameUsed(C, h, C \ {n}, h2)
    BY <1>1, <1>4, <2>1, <2>3, FusedUsed
  <2>10. b \in C \ {n} /\ h2[b].free
    BY <2>1, <2>3 DEF Fused
  <2>. QED BY <2>5, <2>7, <2>8, <2>9, <2>10
<1>. QED BY <1>3, <1>4

(* The second half: with the one in front.                                  *)
LEMMA MergedPrev ==
    ASSUME NEW C, NEW h, Linked(C, h), NEW b \in C, h[b].free,
           Merged(C, h, {h[b].prev}),
           NEW h2, h2 = H!MergePrev(h, b)
    PROVE  \E D : Linked(D, h2) /\ Merged(D, h2, {}) /\ SameUsed(C, h, D, h2)
<1>1. PICK p : p = h[b].prev
  OBVIOUS
<1>2. H!NULL = 0
  BY HeapConstants
<1>3. CASE p = 0 \/ ~h[p].free
  <2>1. h2 = h
    BY <1>1, <1>2, <1>3 DEF H!MergePrev
  <2>2. p = 0 => p \notin C
    BY BlockFacts
  <2>3. Merged(C, h2, {})
    BY <1>1, <1>3, <2>1, <2>2 DEF Merged
  <2>. QED BY <2>1, <2>3 DEF SameUsed
<1>4. CASE p # 0 /\ h[p].free
  <2>1. p \in C /\ h[p].next = b /\ b # p
    <3>1. p \in C /\ h[p].next = b /\ p < b
      BY <1>1, <1>4, Neighbours
    <3>. QED BY <3>1, BlockFacts
  <2>2. h2 = FusedHeaders(h, p, b)
    <3>1. h2 = H!Relink([h EXCEPT ![p].size = @ + HEADER + h[b].size,
                                  ![p].next = h[b].next,
                                  ![b] = H!NoHeader],
                        h[b].next, p)
      BY <1>1, <1>2, <1>4 DEF H!MergePrev
    <3>. QED BY <3>1, Zenon DEF FusedHeaders
  <2>3. Fused(C, h, p, b, h2)
    BY <2>1, <2>2, FusedIs
  <2>4. Merged(C \ {b}, h2, {p} \ {p})
    BY <1>1, <2>1, <2>3, FusedMerged
  <2>5. {p} \ {p} = {}
    OBVIOUS
  <2>6. Linked(C \ {b}, h2)
    BY <2>1, <2>3, FusedLinked
  <2>7. SameUsed(C, h, C \ {b}, h2)
    BY <1>4, <2>1, <2>3, FusedUsed
  <2>. QED BY <2>4, <2>5, <2>6, <2>7
<1>. QED BY <1>3, <1>4

-----------------------------------------------------------------------------
(* What a walk along next from the first header visits in n steps.          *)
Walk(v, h, n) ==
    v = [i \in 0 .. n |-> IF i = 0 THEN 1 ELSE IF v[i - 1] = 0 THEN 0 ELSE h[v[i - 1]].next]

(* It is the one kmalloc makes.                                             *)
LEMMA VisitedIs ==
    ASSUME NEW last, last = HEAP_SIZE \div HEADER
    PROVE  H!Visited = CHOOSE v : Walk(v, hdr, last)
<1>1. H!HEAP_START = 1 /\ H!NULL = 0 /\ H!Steps = 0 .. last
  BY HeapConstants DEF H!Steps
<1>. QED BY <1>1 DEF H!Visited, Walk

(* One of no steps is there, and with one of n one of a step more.          *)
LEMMA WalkMore ==
    ASSUME NEW h, NEW n \in Nat
    PROVE  /\ \E v : Walk(v, h, 0)
           /\ (\E v : Walk(v, h, n)) => \E v : Walk(v, h, n + 1)
<1>1. Walk([i \in 0 .. 0 |-> 1], h, 0)
  BY DEF Walk
<1>2. ASSUME NEW u, Walk(u, h, n) PROVE \E v : Walk(v, h, n + 1)
  <2>. DEFINE w == [i \in 0 .. n + 1 |->
                      IF i <= n THEN u[i] ELSE IF u[n] = 0 THEN 0 ELSE h[u[n]].next]
  <2>1. \A i \in 0 .. n : u[i] = IF i = 0 THEN 1 ELSE IF u[i - 1] = 0 THEN 0 ELSE h[u[i - 1]].next
    BY <1>2 DEF Walk
  <2>2. ASSUME NEW i \in 0 .. n + 1
        PROVE  w[i] = IF i = 0 THEN 1 ELSE IF w[i - 1] = 0 THEN 0 ELSE h[w[i - 1]].next
    <3>1. CASE i = 0
      BY <2>1, <3>1
    <3>2. CASE i # 0 /\ i <= n
      <4>1. i - 1 \in 0 .. n + 1 /\ i - 1 <= n /\ i \in 0 .. n
        BY <3>2
      <4>2. w[i] = u[i] /\ w[i - 1] = u[i - 1]
        BY <3>2, <4>1
      <4>. HIDE DEF w
      <4>. QED BY <2>1, <3>2, <4>1, <4>2
    <3>3. CASE i = n + 1
      <4>1. i - 1 = n /\ n \in 0 .. n + 1 /\ i # 0 /\ ~(i <= n)
        BY <3>3
      <4>2. w[n] = u[n] /\ w[i] = IF u[n] = 0 THEN 0 ELSE h[u[n]].next
        BY <4>1
      <4>. HIDE DEF w
      <4>. QED BY <4>1, <4>2
    <3>. QED BY <3>1, <3>2, <3>3
  <2>3. w = [i \in 0 .. n + 1 |-> w[i]]
    OBVIOUS
  <2>. HIDE DEF w
  <2>4. Walk(w, h, n + 1)
    BY <2>2, <2>3 DEF Walk
  <2>. QED BY <2>4
<1>. QED BY <1>1, <1>2

(* So there is one of any number.                                           *)
LEMMA WalkExists == ASSUME NEW h, NEW n \in Nat PROVE \E v : Walk(v, h, n)
<1>. DEFINE Bad == {k \in Nat : ~ \E v : Walk(v, h, k)}
<1>1. ASSUME Bad # {} PROVE FALSE
  <2>1. PICK k \in Bad : \A j \in Bad : k <= j
    BY <1>1, LeastNat
  <2>2. k # 0
    BY <2>1, WalkMore
  <2>3. PICK j \in Nat : k = j + 1
    <3>1. k - 1 \in Nat /\ k = (k - 1) + 1
      BY <2>2
    <3>. QED BY <3>1
  <2>4. \E v : Walk(v, h, j)
    BY <2>1, <2>3
  <2>. QED BY <2>1, <2>3, <2>4, WalkMore
<1>. QED BY <1>1

(* After n steps the walk is n headers down the heap, or done, and it has   *)
(* passed every block in front of where it is.                              *)
Along(C, v, n) ==
    /\ v[n] \in C \cup {0}
    /\ v[n] # 0 => v[n] >= 1 + n * HEADER
    /\ \A e \in C : v[n] = 0 \/ e < v[n] => \E j \in 0 .. n : v[j] = e

(* It gets there from one step to the next.                                 *)
LEMMA AlongNext ==
    ASSUME NEW C, NEW h, Linked(C, h), NEW v, NEW N \in Nat, Walk(v, h, N),
           NEW n \in Nat, n + 1 <= N, Along(C, v, n)
    PROVE  Along(C, v, n + 1)
<1>1. v[n + 1] = IF v[n] = 0 THEN 0 ELSE h[v[n]].next
  <2>1. n + 1 \in 0 .. N /\ n + 1 # 0 /\ (n + 1) - 1 = n
    OBVIOUS
  <2>. QED BY <2>1 DEF Walk
<1>2. PICK k \in Nat : k = n + 1
  OBVIOUS
<1>3. n * HEADER \in Nat /\ k * HEADER = n * HEADER + HEADER /\ HEADER \in Nat
  BY <1>2, HeapConstants
<1>4. \A e : (\E j \in 0 .. n : v[j] = e) => \E j \in 0 .. k : v[j] = e
  BY <1>2
<1>5. CASE v[n] = 0
  <2>1. v[k] = 0
    BY <1>1, <1>2, <1>5
  <2>2. \A e \in C : \E j \in 0 .. k : v[j] = e
    BY <1>4, <1>5 DEF Along
  <2>. QED BY <1>2, <2>1, <2>2 DEF Along
<1>6. CASE v[n] # 0
  <2>1. PICK b \in C : b = v[n]
    BY <1>6 DEF Along
  <2>2. v[k] = h[b].next
    BY <1>1, <1>2, <1>6, <2>1
  <2>3. /\ b \in Nat /\ End(h, b) \in Nat /\ HEAP_SIZE \in Nat /\ h[b].size \in Nat
        /\ End(h, b) = b + HEADER + h[b].size
    BY BlockFacts
  <2>4. /\ h[b].next = 0 => End(h, b) = 1 + HEAP_SIZE
        /\ h[b].next # 0 => h[b].next \in C /\ h[b].next = End(h, b)
    BY Neighbours
  <2>5. v[k] # 0 => v[k] >= 1 + k * HEADER
    <3>1. b >= 1 + n * HEADER
      BY <1>6, <2>1 DEF Along
    <3>2. ASSUME NEW x \in Nat, NEW y \in Nat, x = n * HEADER, y = k * HEADER
          PROVE  End(h, b) >= 1 + y
      BY <1>3, <2>3, <3>1, <3>2
    <3>. QED BY <1>3, <2>2, <2>4, <3>2
  <2>6. ASSUME NEW e \in C, v[k] = 0 \/ e < v[k] PROVE \E j \in 0 .. k : v[j] = e
    <3>1. CASE e < b
      BY <1>4, <2>1, <3>1 DEF Along
    <3>2. CASE e = b
      BY <1>2, <2>1, <3>2
    <3>3. CASE b < e
      <4>1. End(h, b) <= e /\ e \in Nat /\ e <= HEAP_SIZE
        BY <3>3, BlockFacts DEF Linked, Ordered
      <4>. QED BY <2>2, <2>3, <2>4, <2>6, <4>1
    <3>4. e \in Nat
      BY BlockFacts
    <3>. QED BY <2>3, <3>1, <3>2, <3>3, <3>4
  <2>7. v[k] \in C \cup {0}
    BY <2>2, <2>4
  <2>. QED BY <1>2, <2>5, <2>6, <2>7 DEF Along
<1>. QED BY <1>5, <1>6

(* And so far.                                                              *)
LEMMA AlongAll ==
    ASSUME NEW C, NEW h, Linked(C, h), NEW v, NEW N \in Nat, Walk(v, h, N)
    PROVE  \A n \in 0 .. N : Along(C, v, n)
<1>. DEFINE Bad == {n \in Nat : n <= N /\ ~Along(C, v, n)}
<1>1. ASSUME Bad # {} PROVE FALSE
  <2>1. PICK k \in Bad : \A j \in Bad : k <= j
    BY <1>1, LeastNat
  <2>2. Along(C, v, 0)
    <3>1. v[0] = 1
      <4>1. 0 \in 0 .. N
        OBVIOUS
      <4>. QED BY <4>1 DEF Walk
    <3>2. 1 \in C /\ \A e \in C : e >= 1 /\ e \in Nat
      BY BlockFacts DEF Linked
    <3>3. 0 * HEADER = 0
      BY HeapConstants
    <3>. QED BY <3>1, <3>2, <3>3 DEF Along
  <2>3. PICK j \in Nat : k = j + 1
    <3>1. k # 0
      BY <2>1, <2>2
    <3>2. k - 1 \in Nat /\ k = (k - 1) + 1
      BY <3>1
    <3>. QED BY <3>2
  <2>4. Along(C, v, j) /\ j + 1 <= N
    BY <2>1, <2>3
  <2>5. Along(C, v, j + 1)
    BY <2>4, AlongNext
  <2>. QED BY <2>1, <2>3, <2>5
<1>. QED BY <1>1

(* A step of the walk per header that fits is enough: it visits the whole   *)
(* list and nothing else.                                                   *)
LEMMA WalkVisits ==
    ASSUME NEW C, NEW h, Linked(C, h), NEW last, last = HEAP_SIZE \div HEADER,
           NEW v, Walk(v, h, last)
    PROVE  /\ \A n \in 0 .. last : v[n] \in C \cup {0}
           /\ C = {v[n] : n \in 0 .. last} \ {0}
<1>1. last \in Nat /\ HEAP_SIZE < last * HEADER + HEADER /\ last * HEADER \in Nat
  <2>1. HEADER \in Nat /\ HEADER > 0 /\ HEAP_SIZE \in Nat
    BY HeapConstants
  <2>. QED BY <2>1
<1>2. \A n \in 0 .. last : Along(C, v, n)
  BY <1>1, AlongAll
<1>3. \A n \in 0 .. last : v[n] \in C \cup {0}
  BY <1>2 DEF Along
<1>4. ASSUME NEW e \in C PROVE \E j \in 0 .. last : v[j] = e
  <2>1. Along(C, v, last) /\ last \in 0 .. last
    BY <1>1, <1>2
  <2>2. CASE v[last] = 0 \/ e < v[last]
    BY <2>1, <2>2 DEF Along
  <2>3. CASE v[last] # 0 /\ ~(e < v[last])
    <3>1. PICK b \in C : b = v[last] /\ b >= 1 + last * HEADER
      BY <2>1, <2>3 DEF Along
    <3>2. /\ b \in Nat /\ HEADER \in Nat /\ HEAP_SIZE \in Nat /\ h[b].size \in Nat
          /\ End(h, b) = b + HEADER + h[b].size /\ End(h, b) <= 1 + HEAP_SIZE
      BY BlockFacts
    <3>3. ASSUME NEW x \in Nat, x = last * HEADER PROVE FALSE
      BY <1>1, <3>1, <3>2, <3>3
    <3>. QED BY <1>1, <3>3
  <2>. QED BY <2>2, <2>3
<1>5. \A e \in C : e # 0
  BY BlockFacts
<1>. QED BY <1>3, <1>4, <1>5

(* So the blocks kmalloc walks are those of the list, and what it finds is  *)
(* one of them, free and large enough.                                      *)
LEMMA ListWalked ==
    ASSUME NEW C, Linked(C, hdr)
    PROVE  /\ H!Chain = C
           /\ \A needed : LET b == H!FirstFit(needed)
                          IN  b # 0 => b \in C /\ hdr[b].free /\ hdr[b].size >= needed
<1>. DEFINE last == HEAP_SIZE \div HEADER
            v == H!Visited
<1>1. last \in Nat /\ H!Steps = 0 .. last /\ H!NULL = 0
  BY HeapConstants DEF H!Steps
<1>. HIDE DEF last
<1>2. Walk(v, hdr, last)
  <2>1. v = CHOOSE u : Walk(u, hdr, last)
    BY VisitedIs DEF last
  <2>2. \E u : Walk(u, hdr, last)
    BY <1>1, WalkExists
  <2>. HIDE DEF v
  <2>. QED BY <2>1, <2>2, Zenon
<1>3. H!Chain = {v[n] : n \in 0 .. last} \ {0}
  BY <1>1 DEF H!Chain
<1>4. \A needed : /\ H!Fitting(needed) = {n \in 0 .. last : /\ v[n] # 0 /\ hdr[v[n]].free
                                                         /\ hdr[v[n]].size >= needed}
                  /\ H!FirstFit(needed) = IF H!Fitting(needed) = {} THEN 0
                                          ELSE v[H!Min(H!Fitting(needed))]
  BY <1>1 DEF H!Fitting, H!FirstFit
<1>. HIDE DEF v
<1>5. (\A n \in 0 .. last : v[n] \in C \cup {0}) /\ C = {v[n] : n \in 0 .. last} \ {0}
  BY <1>2, WalkVisits DEF last
<1>6. ASSUME NEW needed, H!FirstFit(needed) # 0
      PROVE  LET b == H!FirstFit(needed) IN b \in C /\ hdr[b].free /\ hdr[b].size >= needed
  <2>1. PICK A : A = H!Fitting(needed)
    OBVIOUS
  <2>2. A # {} /\ A \subseteq Nat
    BY <1>1, <1>4, <1>6, <2>1
  <2>3. H!Min(A) \in A
    <3>1. \E x \in A : \A y \in A : x <= y
      BY <2>2, LeastNat
    <3>. QED BY <3>1, Zenon DEF H!Min
  <2>4. PICK n \in A : H!FirstFit(needed) = v[n]
    BY <1>4, <2>1, <2>2, <2>3
  <2>. QED BY <1>4, <1>5, <2>1, <2>4
<1>. QED BY <1>3, <1>5, <1>6

-----------------------------------------------------------------------------
(* The function that adds the sizes of a set's blocks, in the order CHOOSE  *)
(* takes them, and what it gives for X.                                     *)
One(A) == CHOOSE x \in A : TRUE

Folded(f, h, X) ==
    f = [A \in SUBSET X |-> IF A = {} THEN 0 ELSE h[One(A)].size + f[A \ {One(A)}]]

Sum(h, X) == (CHOOSE f : Folded(f, h, X))[X]

(* It is what heap_used is compared with.                                   *)
LEMMA UsedIs ==
    H!HeldBlocks <=> /\ {b \in H!Chain : ~hdr[b].free} = DOMAIN held
                     /\ \A b \in DOMAIN held : hdr[b].size >= held[b]
                     /\ heap_used = Sum(hdr, DOMAIN held)
BY DEF H!HeldBlocks, H!MapThenSumSet, H!MapThenFoldSet, Sum, Folded, One

(* The sizes at the first n addresses add up in any order.                  *)
Totals(g, h, n) ==
    /\ g[{}] = 0
    /\ \A A \in SUBSET (1 .. n) :
          g[A] \in Nat /\ \A x \in A : g[A] = h[x].size + g[A \ {x}]

(* One address more.                                                        *)
LEMMA TotalsMore ==
    ASSUME NEW h, NEW n \in Nat, \A x \in 1 .. n + 1 : h[x].size \in Nat,
           NEW g, Totals(g, h, n)
    PROVE  \E f : Totals(f, h, n + 1)
<1>. DEFINE f == [A \in SUBSET (1 .. n + 1) |->
                    IF n + 1 \in A THEN h[n + 1].size + g[A \ {n + 1}] ELSE g[A]]
<1>1. PICK m \in Nat : m = n + 1 /\ m \in 1 .. m /\ h[m].size \in Nat
  OBVIOUS
<1>2. \A A \in SUBSET (1 .. m) : A \ {m} \in SUBSET (1 .. n)
  BY <1>1
<1>3. \A A \in SUBSET (1 .. n) :
        g[A] \in Nat /\ \A x \in A : g[A] = h[x].size + g[A \ {x}]
  BY DEF Totals
<1>4. f[{}] = 0
  BY DEF Totals
<1>5. ASSUME NEW A \in SUBSET (1 .. m)
      PROVE  f[A] = IF m \in A THEN h[m].size + g[A \ {m}] ELSE g[A]
  BY <1>1
<1>. HIDE DEF f
<1>6. ASSUME NEW A \in SUBSET (1 .. m)
      PROVE  f[A] \in Nat /\ \A x \in A : f[A] = h[x].size + f[A \ {x}]
  <2>1. g[A \ {m}] \in Nat
    BY <1>2, <1>3
  <2>2. CASE m \notin A
    <3>1. A \in SUBSET (1 .. n) /\ f[A] = g[A]
      BY <1>1, <1>5, <2>2
    <3>2. ASSUME NEW x \in A PROVE f[A \ {x}] = g[A \ {x}]
      BY <1>5, <2>2
    <3>. QED BY <1>3, <3>1, <3>2
  <2>3. CASE m \in A
    <3>1. f[A] = h[m].size + g[A \ {m}] /\ f[A] \in Nat
      BY <1>1, <1>5, <2>1, <2>3
    <3>2. ASSUME NEW x \in A PROVE f[A] = h[x].size + f[A \ {x}]
      <4>1. CASE x = m
        <5>1. f[A \ {m}] = g[A \ {m}]
          BY <1>5
        <5>. QED BY <3>1, <4>1, <5>1
      <4>2. CASE x # m
        <5>1. f[A \ {x}] = h[m].size + g[(A \ {x}) \ {m}]
          BY <1>5, <2>3, <4>2
        <5>2. x \in A \ {m} /\ A \ {m} \in SUBSET (1 .. n)
          BY <1>2, <4>2
        <5>3. g[A \ {m}] = h[x].size + g[(A \ {m}) \ {x}]
          BY <1>3, <5>2
        <5>4. (A \ {m}) \ {x} = (A \ {x}) \ {m}
          OBVIOUS
        <5>5. h[x].size \in Nat /\ g[(A \ {x}) \ {m}] \in Nat
          <6>1. (A \ {x}) \ {m} \in SUBSET (1 .. n)
            BY <1>2
          <6>2. x \in 1 .. n + 1
            BY <1>1
          <6>. QED BY <1>3, <6>1, <6>2
        <5>6. f[A] = h[m].size + (h[x].size + g[(A \ {x}) \ {m}])
          BY <3>1, <5>3, <5>4
        <5>. QED BY <1>1, <5>1, <5>5, <5>6
      <4>. QED BY <4>1, <4>2
    <3>. QED BY <3>1, <3>2
  <2>. QED BY <2>2, <2>3
<1>7. Totals(f, h, m)
  BY <1>4, <1>6 DEF Totals
<1>. QED BY <1>1, <1>7

(* So they add up at all addresses.                                         *)
LEMMA TotalsExist ==
    ASSUME NEW h, NEW n \in Nat, \A x \in 1 .. n : h[x].size \in Nat
    PROVE  \E g : Totals(g, h, n)
<1>. DEFINE Bad == {k \in Nat : k <= n /\ ~ \E g : Totals(g, h, k)}
<1>1. ASSUME Bad # {} PROVE FALSE
  <2>1. PICK k \in Bad : \A j \in Bad : k <= j
    BY <1>1, LeastNat
  <2>2. Totals([A \in {{}} |-> 0], h, 0)
    <3>1. \A A \in SUBSET (1 .. 0) : A = {}
      OBVIOUS
    <3>. QED BY <3>1 DEF Totals
  <2>3. PICK j \in Nat : k = j + 1
    <3>1. k # 0
      BY <2>1, <2>2
    <3>2. k - 1 \in Nat /\ k = (k - 1) + 1
      BY <3>1
    <3>. QED BY <3>2
  <2>4. \E g : Totals(g, h, j)
    BY <2>1, <2>3
  <2>5. \A x \in 1 .. j + 1 : h[x].size \in Nat
    BY <2>1, <2>3
  <2>6. \E g : Totals(g, h, j + 1)
    BY <2>4, <2>5, TotalsMore
  <2>. QED BY <2>1, <2>3, <2>6
<1>. QED BY <1>1

(* CHOOSE takes an element of a set.                                        *)
LEMMA OneOf == ASSUME NEW A, A # {} PROVE One(A) \in A
BY DEF One

(* Any order gives the same.                                                *)
LEMMA FoldedTotal ==
    ASSUME NEW h, NEW n \in Nat, NEW g, Totals(g, h, n),
           NEW X \in SUBSET (1 .. n), NEW f, Folded(f, h, X)
    PROVE  f[X] = g[X]
<1>1. \A A \in SUBSET X : IsFiniteSet(A)
  <2>1. IsFiniteSet(1 .. n)
    BY FS_Interval
  <2>2. IsFiniteSet(X)
    BY <2>1, FS_Subset
  <2>. QED BY <2>2, FS_Subset
<1>2. \A A \in SUBSET X : f[A] = IF A = {} THEN 0 ELSE h[One(A)].size + f[A \ {One(A)}]
  BY Zenon DEF Folded
<1>. DEFINE Bad == {k \in Nat : \E A \in SUBSET X : Cardinality(A) = k /\ f[A] # g[A]}
<1>3. ASSUME Bad # {} PROVE FALSE
  <2>1. PICK k \in Bad : \A j \in Bad : k <= j
    BY <1>3, LeastNat
  <2>2. PICK A \in SUBSET X : Cardinality(A) = k /\ f[A] # g[A]
    BY <2>1
  <2>3. A # {}
    <3>1. f[{}] = 0
      BY <1>2
    <3>. QED BY <2>2, <3>1 DEF Totals
  <2>4. PICK x \in A : x = One(A)
    BY <2>3, OneOf
  <2>5. f[A] = h[x].size + f[A \ {x}]
    BY <1>2, <2>3, <2>4, Zenon
  <2>6. g[A] = h[x].size + g[A \ {x}]
    <3>1. A \in SUBSET (1 .. n)
      OBVIOUS
    <3>. QED BY <3>1 DEF Totals
  <2>7. A \ {x} \in SUBSET X /\ f[A \ {x}] # g[A \ {x}]
    BY <2>2, <2>5, <2>6
  <2>8. Cardinality(A \ {x}) = k - 1 /\ k - 1 \in Nat /\ k \in Nat
    <3>1. IsFiniteSet(A) /\ IsFiniteSet(A \ {x})
      BY <1>1, <2>7
    <3>2. Cardinality(A \ {x}) \in Nat
      BY <3>1, FS_CardinalityType
    <3>3. Cardinality(A \ {x}) = Cardinality(A) - 1
      BY <3>1, FS_RemoveElement
    <3>. QED BY <2>1, <2>2, <3>2, <3>3
  <2>9. k - 1 \in Bad
    BY <2>7, <2>8
  <2>10. k <= k - 1
    BY <2>1, <2>9
  <2>. HIDE DEF Bad
  <2>. QED BY <2>8, <2>10
<1>4. Cardinality(X) \in Nat
  BY <1>1, FS_CardinalityType
<1>. QED BY <1>3, <1>4

(* The fold is there.                                                       *)
LEMMA FoldedExists ==
    ASSUME NEW h, NEW n \in Nat, NEW g, Totals(g, h, n), NEW X \in SUBSET (1 .. n)
    PROVE  \E f : Folded(f, h, X)
<1>. DEFINE f == [A \in SUBSET X |-> g[A]]
<1>1. ASSUME NEW A \in SUBSET X
      PROVE  f[A] = IF A = {} THEN 0 ELSE h[One(A)].size + f[A \ {One(A)}]
  <2>1. CASE A = {}
    BY <2>1 DEF Totals
  <2>2. CASE A # {}
    <3>1. PICK x \in A : x = One(A)
      BY <2>2, OneOf
    <3>2. f[A] = g[A] /\ f[A \ {x}] = g[A \ {x}] /\ A \in SUBSET (1 .. n)
      OBVIOUS
    <3>3. g[A] = h[x].size + g[A \ {x}]
      BY <3>2 DEF Totals
    <3>. HIDE DEF f
    <3>. QED BY <2>2, <3>1, <3>2, <3>3
  <2>. QED BY <2>1, <2>2
<1>2. f = [A \in SUBSET X |-> f[A]]
  OBVIOUS
<1>. HIDE DEF f
<1>3. Folded(f, h, X)
  BY <1>1, <1>2 DEF Folded
<1>. QED BY <1>3

(* Hence what a set of blocks adds up to.                                   *)
LEMMA SumTotal ==
    ASSUME NEW h, NEW n \in Nat, NEW g, Totals(g, h, n), NEW X \in SUBSET (1 .. n)
    PROVE  Sum(h, X) = g[X]
<1>. DEFINE f == CHOOSE u : Folded(u, h, X)
<1>1. Folded(f, h, X)
  <2>1. \E u : Folded(u, h, X)
    BY FoldedExists
  <2>. QED BY <2>1, Zenon
<1>2. Sum(h, X) = f[X]
  BY Zenon DEF Sum
<1>. HIDE DEF f
<1>. QED BY <1>1, <1>2, FoldedTotal

(* A block more adds its size, and other headers do not matter.             *)
LEMMA SumFacts ==
    ASSUME NEW h \in Headers, NEW X \in SUBSET (1 .. HEAP_SIZE)
    PROVE  /\ Sum(h, {}) = 0
           /\ Sum(h, X) \in Nat
           /\ \A b \in X : Sum(h, X) = h[b].size + Sum(h, X \ {b}) /\ Sum(h, X \ {b}) \in Nat
           /\ \A k \in Headers : (\A b \in X : k[b].size = h[b].size) => Sum(k, X) = Sum(h, X)
<1>0. HEAP_SIZE \in Nat
  BY HeapConstants
<1>1. \A k \in Headers : \E g : Totals(g, k, HEAP_SIZE)
  <2>1. \A k \in Headers : \A x \in 1 .. HEAP_SIZE : k[x].size \in Nat
    BY <1>0 DEF Headers, Header
  <2>. QED BY <1>0, <2>1, TotalsExist
<1>2. PICK g : Totals(g, h, HEAP_SIZE)
  BY <1>1
<1>3. Sum(h, X) = g[X] /\ Sum(h, {}) = g[{}] /\ \A b \in X : Sum(h, X \ {b}) = g[X \ {b}]
  <2>1. {} \in SUBSET (1 .. HEAP_SIZE) /\ \A b \in X : X \ {b} \in SUBSET (1 .. HEAP_SIZE)
    OBVIOUS
  <2>. QED BY <1>0, <1>2, <2>1, SumTotal
<1>4. g[{}] = 0 /\ g[X] \in Nat /\ \A b \in X : g[X] = h[b].size + g[X \ {b}] /\ g[X \ {b}] \in Nat
  BY <1>2 DEF Totals
<1>5. ASSUME NEW k \in Headers, \A b \in X : k[b].size = h[b].size
      PROVE  Sum(k, X) = Sum(h, X)
  <2>1. PICK u : Totals(u, k, HEAP_SIZE)
    BY <1>1
  <2>2. Sum(k, X) = u[X]
    BY <1>0, <2>1, SumTotal
  <2>3. PICK f : Folded(f, h, X)
    BY <1>0, <1>2, FoldedExists
  <2>4. f[X] = g[X]
    BY <1>0, <1>2, <2>3, FoldedTotal
  <2>5. Folded(f, k, X)
    <3>1. \A A \in SUBSET X : A # {} => k[One(A)].size = h[One(A)].size
      BY <1>5, OneOf
    <3>2. \A A \in SUBSET X : f[A] = IF A = {} THEN 0 ELSE h[One(A)].size + f[A \ {One(A)}]
      BY <2>3, Zenon DEF Folded
    <3>3. f = [A \in SUBSET X |-> f[A]]
      <4>1. DOMAIN f = SUBSET X /\ \E w : f = [A \in SUBSET X |-> w[A]]
        <5>. DEFINE w == [A \in SUBSET X |-> IF A = {} THEN 0 ELSE h[One(A)].size + f[A \ {One(A)}]]
        <5>1. f = w /\ DOMAIN w = SUBSET X /\ w = [A \in SUBSET X |-> w[A]]
          BY <2>3, Zenon DEF Folded
        <5>. HIDE DEF w
        <5>. QED BY <5>1
      <4>. QED BY <4>1
    <3>4. \A A \in SUBSET X : f[A] = IF A = {} THEN 0 ELSE k[One(A)].size + f[A \ {One(A)}]
      BY <3>1, <3>2
    <3>. QED BY <3>3, <3>4, Zenon DEF Folded
  <2>6. f[X] = u[X]
    BY <1>0, <2>1, <2>5, FoldedTotal
  <2>. QED BY <1>3, <2>2, <2>4, <2>6
<1>. QED BY <1>3, <1>4, <1>5

-----------------------------------------------------------------------------
(* There is a list of all the heap's bytes; its blocks in use are those     *)
(* callers hold, long enough, and heap_used is what they add up to.         *)
Kept(C) ==
    /\ Linked(C, hdr) /\ Merged(C, hdr, {})
    /\ DOMAIN held = Used(C, hdr)
    /\ \A b \in DOMAIN held : hdr[b].size >= held[b]
    /\ heap_used = Sum(hdr, DOMAIN held)

HeapInv == \E C : Kept(C)

(* What the walk of kmalloc would find wrong is not there.                  *)
LEMMA HeapInvSound ==
    ASSUME HeapInv
    PROVE  H!HeapTiled /\ H!HeldBlocks
<1>1. PICK C : Kept(C)
  BY DEF HeapInv
<1>2. Linked(C, hdr) /\ Merged(C, hdr, {}) /\ H!Chain = C /\ 1 \in C
  <2>1. Linked(C, hdr) /\ Merged(C, hdr, {})
    BY <1>1 DEF Kept
  <2>. QED BY <2>1, ListWalked DEF Linked
<1>3. H!HEAP_START = 1 /\ H!HEAP_END = 1 + HEAP_SIZE /\ H!NULL = 0
  BY HeapConstants
<1>4. hdr[1].prev = 0
  BY <1>2, Neighbours
<1>5. ASSUME NEW b \in C
      PROVE  IF hdr[b].next = 0 THEN b + HEADER + hdr[b].size = 1 + HEAP_SIZE
             ELSE hdr[b].next = b + HEADER + hdr[b].size /\ hdr[hdr[b].next].prev = b
  BY <1>2, Neighbours DEF End
<1>6. H!FreeMerged
  BY <1>2, <1>3 DEF H!FreeMerged, Merged
<1>7. H!HeapTiled
  BY <1>2, <1>3, <1>4, <1>5, <1>6 DEF H!HeapTiled
<1>8. H!HeldBlocks
  BY <1>1, <1>2, UsedIs DEF Kept, Used
<1>. QED BY <1>7, <1>8

(* At first it is one free block.                                           *)
LEMMA HeapInit ==
    ASSUME H!allocator_init
    PROVE  HeapInv
<1>0. /\ HEADER \in Nat /\ HEADER > 0 /\ HEAP_SIZE \in Nat /\ HEADER < HEAP_SIZE
      /\ H!HEAP_START = 1 /\ H!NULL = 0 /\ H!Address = 1 .. HEAP_SIZE
  BY HeapConstants
<1>1. /\ hdr = [a \in 1 .. HEAP_SIZE |->
                  IF a = 1 THEN [size |-> HEAP_SIZE - HEADER, free |-> TRUE, next |-> 0, prev |-> 0]
                  ELSE [size |-> 0, free |-> FALSE, next |-> 0, prev |-> 0]]
      /\ heap_used = 0 /\ DOMAIN held = {}
  BY <1>0 DEF H!allocator_init, H!NoHeader
<1>2. hdr \in Headers
  <2>1. HEAP_SIZE - HEADER \in 0 .. HEAP_SIZE /\ 0 \in 0 .. HEAP_SIZE
    BY <1>0
  <2>. QED BY <1>1, <2>1 DEF Headers, Header
<1>3. /\ hdr[1].size = HEAP_SIZE - HEADER /\ hdr[1].free /\ hdr[1].next = 0 /\ hdr[1].prev = 0
      /\ 1 \in 1 .. HEAP_SIZE
  BY <1>0, <1>1
<1>4. End(hdr, 1) = 1 + HEAP_SIZE
  BY <1>0, <1>3 DEF End
<1>5. Linked({1}, hdr)
  <2>1. Forward({1}, hdr) /\ Backward({1}, hdr)
    BY <1>3, <1>4 DEF Forward, Backward
  <2>2. Ordered({1}, hdr)
    BY <1>0, <1>4 DEF Ordered
  <2>. QED BY <1>2, <1>3, <2>1, <2>2 DEF Linked
<1>6. Merged({1}, hdr, {}) /\ Used({1}, hdr) = {}
  BY <1>3 DEF Merged, Used
<1>7. Sum(hdr, {}) = 0
  BY <1>2, SumFacts
<1>. QED BY <1>1, <1>5, <1>6, <1>7 DEF HeapInv, Kept

(* Rounding a size up to the alignment makes it no smaller.                 *)
LEMMA AlignUp ==
    ASSUME NEW n \in Nat, n + ALIGNMENT - 1 < UINT32
    PROVE  H!align_up(n) \in Nat /\ H!align_up(n) >= n
<1>1. PICK d \in Nat : d = ALIGNMENT /\ d > 0
  BY HeapConstants
<1>2. PICK x \in Nat : x = n + d - 1 /\ x = x % UINT32
  <2>1. \A x, m \in Nat : x < m => x % m = x
    OBVIOUS
  <2>2. UINT32 \in Nat /\ n + d - 1 \in Nat /\ n + d - 1 < UINT32
    BY <1>1, HeapAssumption DEF Positive
  <2>. QED BY <2>1, <2>2
<1>3. PICK q \in Nat : q = x \div d
  BY <1>1
<1>4. x < q * d + d /\ q * d \in Nat
  BY <1>1, <1>3
<1>5. H!align_up(n) = q * d
  BY <1>1, <1>2, <1>3 DEF H!align_up
<1>6. ASSUME NEW y \in Nat, y = q * d PROVE y >= n
  BY <1>1, <1>2, <1>4, <1>6
<1>. QED BY <1>4, <1>5, <1>6

(* kmalloc marks the block it found, or cuts it first.                      *)
LEMMA KmallocHeaders ==
    ASSUME NEW C, Linked(C, hdr), Merged(C, hdr, {}),
           NEW b \in C, hdr[b].free, NEW m \in Nat, hdr[b].size >= m,
           NEW h2, h2 = [H!split_block(b, m) EXCEPT ![b].free = FALSE]
    PROVE  \E D : /\ Linked(D, h2) /\ Merged(D, h2, {})
                  /\ Used(D, h2) = Used(C, hdr) \cup {b}
                  /\ \A d \in Used(C, hdr) : h2[d].size = hdr[d].size
                  /\ h2[b].size >= m
<1>0. HEADER \in Nat /\ MIN_SPLIT \in Nat /\ H!NULL = 0 /\ hdr[b].size \in Nat
  BY HeapConstants, BlockFacts
<1>1. CASE hdr[b].size - m <= HEADER + MIN_SPLIT
  <2>1. IsFree(h2, hdr, b, FALSE)
    BY <1>1 DEF H!split_block, IsFree
  <2>2. Marked(C, hdr, b, FALSE, h2)
    BY <2>1, MarkedIs
  <2>3. Linked(C, h2) /\ Merged(C, h2, {})
    BY <2>2, MarkedLinked, TakenMerged
  <2>4. /\ Used(C, h2) = Used(C, hdr) \cup {b} /\ h2[b].size >= m
        /\ \A d \in Used(C, hdr) : h2[d].size = hdr[d].size
    BY <2>2 DEF Marked, Used
  <2>. QED BY <2>3, <2>4
<1>2. CASE ~(hdr[b].size - m <= HEADER + MIN_SPLIT)
  <2>1. PICK n : n = b + HEADER + m
    OBVIOUS
  <2>2. Place(hdr, b, m, n)
    BY <1>0, <1>2, <2>1 DEF Place
  <2>3. h2 = SplitHeaders(hdr, b, m, n)
    BY <1>0, <1>2, <2>1, Zenon DEF H!split_block, SplitHeaders
  <2>4. Split(C, hdr, b, m, n, h2)
    BY <2>2, <2>3, SplitIs
  <2>5. Linked(C \cup {n}, h2) /\ Merged(C \cup {n}, h2, {})
    BY <2>2, <2>4, SplitLinked, SplitMerged
  <2>6. n \notin C /\ n # b
    BY <2>2, SplitPlace
  <2>7. /\ \A d \in C \ {b} : h2[d].free = hdr[d].free /\ h2[d].size = hdr[d].size
        /\ h2[b].free = FALSE /\ h2[n].free = TRUE /\ h2[b].size = m
    BY <2>4, <2>6 DEF Split
  <2>8. /\ Used(C \cup {n}, h2) = Used(C, hdr) \cup {b} /\ h2[b].size >= m
        /\ \A d \in Used(C, hdr) : h2[d].size = hdr[d].size
    BY <2>7 DEF Used
  <2>. QED BY <2>5, <2>8
<1>. QED BY <1>1, <1>2

(* kmalloc keeps the heap.                                                  *)
LEMMA HeapKmalloc ==
    ASSUME HeapInv, NEW size_1 \in Sizes, H!kmalloc(size_1)
    PROVE  HeapInv'
<1>1. PICK C : Kept(C)
  BY DEF HeapInv
<1>2. Linked(C, hdr) /\ Merged(C, hdr, {}) /\ hdr \in Headers /\ C \subseteq 1 .. HEAP_SIZE
  BY <1>1 DEF Kept, Linked
<1>3. PICK m \in Nat : m = H!align_up(size_1) /\ m >= size_1 /\ size_1 \in Nat
  <2>1. size_1 \in Nat /\ size_1 + ALIGNMENT - 1 < UINT32
    BY HeapAssumption DEF Positive
  <2>. QED BY <2>1, AlignUp
<1>4. PICK b : /\ b = H!FirstFit(m) /\ b # 0
               /\ hdr' = [H!split_block(b, m) EXCEPT ![b].free = FALSE]
               /\ heap_used' = heap_used + hdr'[b].size
               /\ held' = [a \in DOMAIN held \cup {b} |-> IF a = b THEN size_1 ELSE held[a]]
  BY <1>3, HeapConstants DEF H!kmalloc
<1>5. b \in C /\ hdr[b].free /\ hdr[b].size >= m
  BY <1>2, <1>4, ListWalked
<1>6. PICK h2 : h2 = hdr'
  OBVIOUS
<1>7. PICK D : /\ Linked(D, h2) /\ Merged(D, h2, {})
               /\ Used(D, h2) = Used(C, hdr) \cup {b}
               /\ \A d \in Used(C, hdr) : h2[d].size = hdr[d].size
               /\ h2[b].size >= m
  <2>1. h2 = [H!split_block(b, m) EXCEPT ![b].free = FALSE]
    BY <1>4, <1>6, Zenon
  <2>. QED BY <1>2, <1>3, <1>5, <2>1, KmallocHeaders, Zenon
<1>8. PICK U0 : /\ U0 = DOMAIN held /\ U0 = Used(C, hdr) /\ b \notin U0
                /\ DOMAIN held' = U0 \cup {b} /\ U0 \in SUBSET (1 .. HEAP_SIZE)
                /\ U0 \cup {b} \in SUBSET (1 .. HEAP_SIZE) /\ h2 \in Headers
  BY <1>1, <1>2, <1>4, <1>5, <1>7 DEF Kept, Used, Linked
<1>9. heap_used' = Sum(h2, DOMAIN held')
  <2>1. heap_used = Sum(hdr, U0) /\ Sum(h2, U0) = Sum(hdr, U0) /\ Sum(hdr, U0) \in Nat
    BY <1>1, <1>2, <1>7, <1>8, SumFacts DEF Kept
  <2>2. (U0 \cup {b}) \ {b} = U0
    BY <1>8
  <2>3. Sum(h2, U0 \cup {b}) = h2[b].size + Sum(h2, (U0 \cup {b}) \ {b})
    BY <1>8, SumFacts
  <2>4. h2[b].size \in Nat
    <3>1. b \in D
      BY <1>7 DEF Used
    <3>. QED BY <1>7, <3>1, BlockFacts
  <2>5. heap_used' = heap_used + h2[b].size
    BY <1>4, <1>6
  <2>6. Sum(h2, U0 \cup {b}) = h2[b].size + Sum(hdr, U0)
    BY <2>1, <2>2, <2>3
  <2>. QED BY <1>8, <2>1, <2>4, <2>5, <2>6
<1>10. \A a \in DOMAIN held' : h2[a].size >= held'[a]
  <2>. SUFFICES ASSUME NEW a \in U0 \cup {b} PROVE h2[a].size >= held'[a]
    BY <1>8
  <2>1. held'[a] = IF a = b THEN size_1 ELSE held[a]
    BY <1>4, <1>8
  <2>2. CASE a = b
    <3>1. h2[b].size \in Nat
      <4>1. b \in D
        BY <1>7 DEF Used
      <4>. QED BY <1>7, <4>1, BlockFacts
    <3>. QED BY <1>3, <1>7, <2>1, <2>2, <3>1
  <2>3. CASE a # b
    BY <1>1, <1>7, <1>8, <2>1, <2>3 DEF Kept
  <2>. QED BY <2>2, <2>3
<1>11. Kept(D)'
  BY <1>6, <1>7, <1>8, <1>9, <1>10 DEF Kept
<1>. QED BY <1>11 DEF HeapInv

(* The headers g at D are those a heap is left with that frees b.           *)
Without(C, h, b, D, g) ==
    /\ Linked(D, g) /\ Merged(D, g, {})
    /\ Used(D, g) = Used(C, h) \ {b}
    /\ \A d \in Used(C, h) \ {b} : g[d].size = h[d].size

(* kfree marks the block and makes it one with its free neighbours.         *)
LEMMA KfreeHeaders ==
    ASSUME NEW C, Linked(C, hdr), Merged(C, hdr, {}), NEW b \in C, ~hdr[b].free,
           NEW h1, IsFree(h1, hdr, b, TRUE), NEW h3, h3 = H!coalesce(h1, b)
    PROVE  \E D : Without(C, hdr, b, D, h3)
<1>2. Marked(C, hdr, b, TRUE, h1)
  BY MarkedIs
<1>3. /\ Linked(C, h1) /\ Merged(C, h1, {b, h1[b].prev}) /\ h1[b].free
      /\ Used(C, h1) = Used(C, hdr) \ {b}
      /\ \A d \in Used(C, hdr) \ {b} : h1[d].size = hdr[d].size
  <2>1. Linked(C, h1) /\ Merged(C, h1, {b, hdr[b].prev})
    BY <1>2, MarkedLinked, FreedMerged
  <2>. QED BY <1>2, <2>1 DEF Marked, Used
<1>4. PICK h2 : h2 = H!MergeNext(h1, b)
  OBVIOUS
<1>5. h3 = H!MergePrev(h2, b)
  BY <1>4 DEF H!coalesce
<1>6. PICK E0 : /\ Linked(E0, h2) /\ b \in E0 /\ h2[b].free
                /\ Merged(E0, h2, {h2[b].prev}) /\ SameUsed(C, h1, E0, h2)
  BY <1>3, <1>4, MergedNext
<1>7. PICK D : Linked(D, h3) /\ Merged(D, h3, {}) /\ SameUsed(E0, h2, D, h3)
  BY <1>5, <1>6, MergedPrev
<1>. QED BY <1>3, <1>6, <1>7 DEF SameUsed, Without

(* kfree keeps the heap.                                                    *)
LEMMA HeapKfree ==
    ASSUME HeapInv, NEW b \in DOMAIN held, H!kfree(b)
    PROVE  HeapInv'
<1>1. PICK C : Kept(C)
  BY DEF HeapInv
<1>2. Linked(C, hdr) /\ Merged(C, hdr, {}) /\ hdr \in Headers /\ C \subseteq 1 .. HEAP_SIZE
  BY <1>1 DEF Kept, Linked
<1>3. b \in C /\ ~hdr[b].free
  BY <1>1 DEF Kept, Used
<1>4. /\ heap_used' = IF heap_used >= hdr[b].size THEN heap_used - hdr[b].size ELSE 0
      /\ hdr' = H!coalesce([hdr EXCEPT ![b].free = TRUE], b)
      /\ held' = [a \in DOMAIN held \ {b} |-> held[a]]
  BY DEF H!kfree
<1>5. PICK h3 : h3 = hdr'
  OBVIOUS
<1>6. PICK D : Without(C, hdr, b, D, h3)
  <2>1. PICK h1 : IsFree(h1, hdr, b, TRUE)
    BY DEF IsFree
  <2>2. h3 = H!coalesce(h1, b)
    BY <1>4, <1>5, <2>1, Zenon DEF IsFree
  <2>3. Linked(C, hdr) /\ Merged(C, hdr, {})
    BY <1>2
  <2>4. b \in C /\ ~hdr[b].free
    BY <1>3
  <2>. QED BY <2>1, <2>2, <2>3, <2>4, KfreeHeaders, Zenon
<1>7. PICK U0 : /\ U0 = DOMAIN held /\ U0 = Used(C, hdr)
                /\ DOMAIN held' = U0 \ {b} /\ U0 \in SUBSET (1 .. HEAP_SIZE)
                /\ U0 \ {b} \in SUBSET (1 .. HEAP_SIZE) /\ h3 \in Headers
  BY <1>1, <1>2, <1>4, <1>6 DEF Kept, Used, Linked, Without
<1>8. heap_used' = Sum(h3, DOMAIN held')
  <2>1. heap_used = Sum(hdr, U0)
    BY <1>1, <1>7 DEF Kept
  <2>2. Sum(hdr, U0) = hdr[b].size + Sum(hdr, U0 \ {b}) /\ Sum(hdr, U0 \ {b}) \in Nat
    BY <1>2, <1>7, SumFacts
  <2>3. Sum(h3, U0 \ {b}) = Sum(hdr, U0 \ {b})
    BY <1>2, <1>6, <1>7, SumFacts DEF Without
  <2>4. hdr[b].size \in Nat
    BY <1>2, <1>3, BlockFacts
  <2>. QED BY <1>4, <1>7, <2>1, <2>2, <2>3, <2>4
<1>9. \A a \in DOMAIN held' : h3[a].size >= held'[a]
  BY <1>1, <1>4, <1>6, <1>7 DEF Kept, Without
<1>10. Kept(D)'
  BY <1>5, <1>6, <1>7, <1>8, <1>9 DEF Kept, Without
<1>. QED BY <1>10 DEF HeapInv

(* The list of the heap keeps its invariant.                                *)
LEMMA HeapInvariant == Spec => [](Idle("heap") \/ HeapInv)
<1>. DEFINE Inv == Idle("heap") \/ HeapInv
<1>1. Init => Inv
  BY HeapInit DEF Init
<1>2. Inv /\ [Next]_vars => Inv'
  <2>. SUFFICES ASSUME Inv, [Next]_vars PROVE Inv'
    OBVIOUS
  <2>1. CASE UNCHANGED heap
    <3>1. HeapInv => HeapInv'
      BY <2>1 DEF heap, HeapInv, Kept
    <3>2. UNCHANGED part
      BY DEF Next, vars
    <3>. QED BY <3>1, <3>2 DEF Idle
  <2>2. CASE part = "heap" /\ H!Next
    <3>1. HeapInv
      BY <2>2 DEF Idle
    <3>. QED BY <2>2, <3>1, HeapKmalloc, HeapKfree DEF H!Next
  <2>. QED BY <2>1, <2>2 DEF Next, vars
<1>. QED BY <1>1, <1>2, PTL DEF Spec

(* Through any sequence of kmalloc and kfree the list tiles the heap with   *)
(* no two free neighbours, and the blocks in use are those callers hold,    *)
(* whatever the heap, the alignment and the sizes asked for.                *)
THEOREM HeapIsSound == Spec => []HeapSound
<1>1. Idle("heap") \/ HeapInv => HeapSound
  BY HeapInvSound DEF HeapSound
<1>. QED BY <1>1, HeapInvariant, PTL

(* The blocks of a list that end by n.                                      *)
EndBy(X, h, n) == {b \in X : End(h, b) <= n}

(* Blocks of the list add up to no more than the heap: those that end by n  *)
(* fit below n, since each starts where the ones before it have ended.      *)
LEMMA SumBound ==
    ASSUME NEW C, NEW h, Linked(C, h), NEW X, X \subseteq C
    PROVE  Sum(h, X) \in 0 .. HEAP_SIZE
<1>. DEFINE Bad == {n \in Nat : n > 0 /\ Sum(h, EndBy(X, h, n)) > n - 1}
<1>1. h \in Headers /\ X \in SUBSET (1 .. HEAP_SIZE) /\ HEAP_SIZE \in Nat
  BY HeapConstants DEF Linked
<1>2. \A n : EndBy(X, h, n) \in SUBSET (1 .. HEAP_SIZE)
  BY <1>1 DEF EndBy
<1>3. \A d \in X : /\ d \in C /\ d \in Nat /\ d >= 1 /\ HEADER \in Nat /\ h[d].size \in Nat
                   /\ End(h, d) = d + HEADER + h[d].size /\ End(h, d) \in Nat
                   /\ d < End(h, d) /\ End(h, d) <= 1 + HEAP_SIZE
  BY BlockFacts
<1>4. \A n : Sum(h, EndBy(X, h, n)) \in Nat
  BY <1>1, <1>2, SumFacts
<1>5. ASSUME NEW n \in Bad, \A k \in Bad : n <= k PROVE FALSE
  <2>1. n \in Nat /\ n > 0 /\ Sum(h, EndBy(X, h, n)) > n - 1
    OBVIOUS
  <2>2. CASE \E b \in X : End(h, b) = n
    <3>1. PICK b \in X : End(h, b) = n
      BY <2>2
    <3>2. PICK Y : Y = EndBy(X, h, n)
      OBVIOUS
    <3>3. Y \ {b} = EndBy(X, h, b)
      <4>1. ASSUME NEW d \in X, d # b PROVE End(h, d) <= n <=> End(h, d) <= b
        <5>1. d < b => End(h, d) <= b
          BY <1>3 DEF Linked, Ordered
        <5>2. b < d => End(h, b) <= d
          BY <1>3 DEF Linked, Ordered
        <5>. QED BY <1>3, <3>1, <4>1, <5>1, <5>2
      <4>2. ~(End(h, b) <= b)
        BY <1>3
      <4>. QED BY <3>2, <4>1, <4>2 DEF EndBy
    <3>4. b \in Y
      BY <3>1, <2>1, <3>2 DEF EndBy
    <3>5. Sum(h, Y) = h[b].size + Sum(h, EndBy(X, h, b))
      BY <1>1, <1>2, <3>2, <3>3, <3>4, SumFacts
    <3>6. b \notin Bad /\ b \in Nat /\ b > 0
      BY <1>3, <1>5, <3>1
    <3>7. Sum(h, EndBy(X, h, b)) <= b - 1
      BY <1>4, <3>6
    <3>8. Sum(h, EndBy(X, h, b)) \in Nat
      BY <1>4
    <3>. QED BY <1>3, <2>1, <3>1, <3>2, <3>5, <3>7, <3>8
  <2>3. CASE ~ \E b \in X : End(h, b) = n
    <3>1. CASE n = 1
      <4>1. EndBy(X, h, n) = {}
        BY <1>3, <3>1 DEF EndBy
      <4>2. Sum(h, {}) = 0
        BY <1>1, SumFacts
      <4>. QED BY <2>1, <3>1, <4>1, <4>2
    <3>2. CASE n # 1
      <4>1. EndBy(X, h, n) = EndBy(X, h, n - 1)
        BY <1>3, <2>1, <2>3 DEF EndBy
      <4>2. n - 1 \notin Bad /\ n - 1 \in Nat /\ n - 1 > 0
        BY <1>5, <2>1, <3>2
      <4>3. Sum(h, EndBy(X, h, n - 1)) <= n - 1 - 1
        BY <1>4, <4>2
      <4>4. Sum(h, EndBy(X, h, n - 1)) \in Nat
        BY <1>4
      <4>. QED BY <2>1, <4>1, <4>3, <4>4
    <3>. QED BY <3>1, <3>2
  <2>. QED BY <2>2, <2>3
<1>6. Bad = {}
  <2>1. Bad \subseteq Nat
    OBVIOUS
  <2>. HIDE DEF Bad
  <2>. QED BY <1>5, <2>1, LeastNat
<1>7. Sum(h, EndBy(X, h, 1 + HEAP_SIZE)) <= HEAP_SIZE
  <2>1. 1 + HEAP_SIZE \notin Bad /\ 1 + HEAP_SIZE \in Nat /\ 1 + HEAP_SIZE > 0
    BY <1>1, <1>6
  <2>. QED BY <1>1, <1>4, <2>1
<1>8. EndBy(X, h, 1 + HEAP_SIZE) = X
  BY <1>3 DEF EndBy
<1>. QED BY <1>1, <1>4, <1>7, <1>8

(* What callers hold has a size they asked for.                             *)
HeldSizes == \A b \in DOMAIN held : held[b] \in Sizes

(* With the list this is the type of the heap.                              *)
LEMMA HeapTypes ==
    ASSUME HeapInv, HeldSizes
    PROVE  H!TypeOK
<1>1. PICK C : Kept(C)
  BY DEF HeapInv
<1>2. Linked(C, hdr) /\ DOMAIN held = Used(C, hdr) /\ heap_used = Sum(hdr, DOMAIN held)
  BY <1>1 DEF Kept
<1>3. DOMAIN held \subseteq C /\ C \subseteq H!Address
  BY <1>2, HeapConstants DEF Used, Linked
<1>4. heap_used \in 0 .. HEAP_SIZE
  BY <1>2, <1>3, SumBound
<1>5. hdr \in [H!Address -> [size : 0 .. HEAP_SIZE, free : BOOLEAN,
                             next : H!Address \cup {H!NULL}, prev : H!Address \cup {H!NULL}]]
  <2>1. H!Address \cup {H!NULL} = 0 .. HEAP_SIZE
    BY HeapConstants
  <2>. QED BY <1>2, <2>1, HeapConstants DEF Linked, Headers, Header
<1>. QED BY <1>3, <1>4, <1>5 DEF H!TypeOK, HeldSizes

(* Headers, the count of used bytes and the callers' blocks stay in the     *)
(* heap.                                                                    *)
LEMMA HeapTyped == Spec => [](Idle("heap") \/ H!TypeOK)
<1>. DEFINE Inv == Idle("heap") \/ HeapInv
            Ty  == Idle("heap") \/ HeldSizes
<1>1. Init => Ty
  BY DEF Init, H!allocator_init, HeldSizes
<1>2. Ty /\ [Next]_vars => Ty'
  <2>. SUFFICES ASSUME Ty, [Next]_vars PROVE Ty'
    OBVIOUS
  <2>1. CASE UNCHANGED heap
    BY <2>1 DEF heap, HeldSizes, Next, vars, Idle
  <2>2. CASE part = "heap" /\ H!Next
    <3>1. HeldSizes
      BY <2>2 DEF Idle
    <3>2. ASSUME NEW n \in Sizes, H!kmalloc(n) PROVE HeldSizes'
      <4>1. PICK b : held' = [a \in DOMAIN held \cup {b} |-> IF a = b THEN n ELSE held[a]]
        BY <3>2, Zenon DEF H!kmalloc
      <4>. QED BY <3>1, <4>1 DEF HeldSizes
    <3>3. ASSUME NEW b, H!kfree(b) PROVE HeldSizes'
      BY <3>1, <3>3 DEF HeldSizes, H!kfree
    <3>. QED BY <2>2, <3>2, <3>3 DEF H!Next
  <2>. QED BY <2>1, <2>2 DEF Next, vars
<1>3. Inv /\ Ty => Idle("heap") \/ H!TypeOK
  BY HeapTypes
<1>. QED BY <1>1, <1>2, <1>3, HeapInvariant, PTL DEF Spec

=============================================================================
