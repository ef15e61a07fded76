----------------------------- MODULE Boot_proofs -----------------------------
(***************************************************************************)
(* From the BIOS to the first free frame, for every map and CMOS answer,   *)
(* size of memory and of frames, and list of fixed ranges.                 *)
(*                                                                         *)
(* What is asked of the frames given away must hold of those that may be   *)
(* given away next, the open ones, as well, and of the records in every    *)
(* stage. mark_allocated only closes frames and leaves none with a byte in *)
(* its range, mark_free only opens those that lie in its range whole. The  *)
(* loops over the map and over the fixed ranges are folds, that is,        *)
(* recursive functions on sets of indices: Loops shows that there is one,  *)
(* LoopKeeps that what each round keeps holds at the end.                  *)
(***************************************************************************)
EXTENDS Heap_proofs

-----------------------------------------------------------------------------
(* Loops *)

(* A function on sets of indices that computes what a loop does: from the   *)
(* value b, the step F for each index, in the order of the indices.         *)
Loop(g, b, F, n) ==
    \A A \in SUBSET (1 .. n) :
        g[A] = IF A = {} THEN b ELSE F[g[A \ {Greatest(A)}]][Greatest(A)]

(* There is one, whose values are in X if the steps stay there.             *)
Loops(X, b, F, n) == \E g : (\A A \in SUBSET (1 .. n) : g[A] \in X) /\ Loop(g, b, F, n)

(* For a loop of one round more.                                            *)
LEMMA LoopsMore ==
    ASSUME NEW X, NEW b \in X, NEW F, NEW n \in Nat,
           \A x \in X : F[x][n + 1] \in X,
           Loops(X, b, F, n)
    PROVE  Loops(X, b, F, n + 1)
<1>1. PICK m \in Nat : m = n + 1 /\ m \in 1 .. m
  OBVIOUS
<1>2. PICK h : (\A A \in SUBSET (1 .. n) : h[A] \in X) /\ Loop(h, b, F, n)
  BY DEF Loops
<1>3. \A A \in SUBSET (1 .. n) :
        h[A] = IF A = {} THEN b ELSE F[h[A \ {Greatest(A)}]][Greatest(A)]
  BY <1>2 DEF Loop
<1>. DEFINE g == [A \in SUBSET (1 .. m) |-> IF m \in A THEN F[h[A \ {m}]][m] ELSE h[A]]
<1>4. \A A \in SUBSET (1 .. m) : g[A] = IF m \in A THEN F[h[A \ {m}]][m] ELSE h[A]
  OBVIOUS
<1>. HIDE DEF g
<1>5. \A A \in SUBSET (1 .. m) : A \ {m} \in SUBSET (1 .. n) /\ A \ {m} \in SUBSET (1 .. m)
  <2>1. \A x \in 1 .. m : x # m => x \in 1 .. n
    BY <1>1
  <2>. QED BY <2>1
<1>6. ASSUME NEW A \in SUBSET (1 .. m)
      PROVE  g[A] \in X
  <2>1. CASE m \in A
    <3>1. g[A] = F[h[A \ {m}]][m]
      BY <1>4, <2>1
    <3>2. h[A \ {m}] \in X
      BY <1>2, <1>5
    <3>. QED BY <1>1, <3>1, <3>2
  <2>2. CASE m \notin A
    <3>1. A \in SUBSET (1 .. n)
      BY <1>1, <2>2
    <3>. QED BY <1>2, <1>4, <2>2, <3>1
  <2>. QED BY <2>1, <2>2
<1>7. ASSUME NEW A \in SUBSET (1 .. m)
      PROVE  g[A] = IF A = {} THEN b ELSE F[g[A \ {Greatest(A)}]][Greatest(A)]
  <2>1. CASE A = {}
    <3>1. A \in SUBSET (1 .. n) /\ m \notin A
      BY <2>1
    <3>. QED BY <1>3, <1>4, <2>1, <3>1
  <2>2. CASE m \in A
    <3>1. Greatest(A) = m
      <4>1. A # {} /\ A \subseteq 1 .. m
        BY <2>2
      <4>2. Greatest(A) \in A /\ \A y \in A : Greatest(A) >= y
        BY <4>1, GreatestFacts, Zenon
      <4>3. Greatest(A) \in 1 .. m /\ Greatest(A) >= m
        BY <2>2, <4>1, <4>2
      <4>. QED BY <1>1, <4>3
    <3>2. g[A \ {m}] = h[A \ {m}]
      BY <1>4, <1>5
    <3>3. g[A] = F[h[A \ {m}]][m] /\ A # {}
      BY <1>4, <2>2
    <3>. QED BY <3>1, <3>2, <3>3, Zenon
  <2>3. CASE A # {} /\ m \notin A
    <3>1. A \in SUBSET (1 .. n)
      BY <1>1, <2>3
    <3>2. Greatest(A) \in A
      BY <2>3, <3>1, GreatestFacts
    <3>3. A \ {Greatest(A)} \in SUBSET (1 .. m) /\ m \notin A \ {Greatest(A)}
      BY <2>3
    <3>4. g[A \ {Greatest(A)}] = h[A \ {Greatest(A)}] /\ g[A] = h[A]
      BY <1>4, <2>3, <3>3
    <3>. QED BY <1>3, <2>3, <3>1, <3>4, Zenon
  <2>. QED BY <2>1, <2>2, <2>3
<1>8. Loop(g, b, F, m)
  BY <1>7 DEF Loop
<1>9. Loops(X, b, F, m)
  BY <1>6, <1>8 DEF Loops
<1>. QED BY <1>1, <1>9

(* Of any number of rounds.                                                 *)
LEMMA LoopsAll ==
    ASSUME NEW X, NEW b \in X, NEW F, NEW n \in Nat,
           \A x \in X : \A i \in 1 .. n : F[x][i] \in X
    PROVE  Loops(X, b, F, n)
<1>. DEFINE Bad == {j \in Nat : j <= n /\ ~Loops(X, b, F, j)}
<1>1. ASSUME Bad # {} PROVE FALSE
  <2>1. PICK k \in Bad : \A j \in Bad : k <= j
    BY <1>1, LeastNat
  <2>2. Loops(X, b, F, 0)
    <3>1. \A A \in SUBSET (1 .. 0) : A = {}
      OBVIOUS
    <3>. DEFINE g == [A \in SUBSET (1 .. 0) |-> b]
    <3>2. \A A \in SUBSET (1 .. 0) : g[A] = b
      OBVIOUS
    <3>. HIDE DEF g
    <3>3. Loop(g, b, F, 0) /\ \A A \in SUBSET (1 .. 0) : g[A] \in X
      BY <3>1, <3>2 DEF Loop
    <3>. QED BY <3>3 DEF Loops
  <2>3. PICK j \in Nat : k = j + 1
    <3>1. k # 0
      BY <2>1, <2>2
    <3>2. k - 1 \in Nat /\ k = (k - 1) + 1
      BY <3>1
    <3>. QED BY <3>2
  <2>4. Loops(X, b, F, j)
    BY <2>1, <2>3
  <2>5. j + 1 \in 1 .. n
    BY <2>1, <2>3
  <2>6. Loops(X, b, F, j + 1)
    BY <2>4, <2>5, LoopsMore
  <2>. QED BY <2>1, <2>3, <2>6
<1>. QED BY <1>1

(* What g computes is that loop as long as the values stay in X.            *)
LoopIn(g, X, b, F, n) ==
    \A A \in SUBSET (1 .. n) :
        /\ A = {} => g[A] = b
        /\ A # {} /\ g[A \ {Greatest(A)}] \in X =>
              g[A] = F[g[A \ {Greatest(A)}]][Greatest(A)]

(* What holds before a loop and is kept by each round holds after it.       *)
LEMMA LoopKeeps ==
    ASSUME NEW X, NEW b \in X, NEW F, NEW n \in Nat, NEW g, LoopIn(g, X, b, F, n),
           \A x \in X : \A i \in 1 .. n : F[x][i] \in X,
           NEW I, <<0, b>> \in I,
           \A j \in 0 .. n - 1 : \A x \in X : <<j, x>> \in I => <<j + 1, F[x][j + 1]>> \in I
    PROVE  g[1 .. n] \in X /\ <<n, g[1 .. n]>> \in I
<1>. DEFINE Bad == {j \in Nat : j <= n /\ ~(g[1 .. j] \in X /\ <<j, g[1 .. j]>> \in I)}
<1>1. ASSUME Bad # {} PROVE FALSE
  <2>1. PICK k \in Bad : \A j \in Bad : k <= j
    BY <1>1, LeastNat
  <2>2. k # 0
    <3>1. 1 .. 0 \in SUBSET (1 .. n) /\ 1 .. 0 = {}
      OBVIOUS
    <3>2. g[1 .. 0] = b
      BY <3>1 DEF LoopIn
    <3>. QED BY <2>1, <3>2
  <2>3. PICK j \in Nat : k = j + 1
    <3>1. k - 1 \in Nat /\ k = (k - 1) + 1
      BY <2>2
    <3>. QED BY <3>1
  <2>4. g[1 .. j] \in X /\ <<j, g[1 .. j]>> \in I /\ j \in 0 .. n - 1
    BY <2>1, <2>3
  <2>5. j + 1 \in 1 .. n /\ 1 .. j + 1 \in SUBSET (1 .. n) /\ 1 .. j + 1 # {}
    <3>1. j + 1 \in 1 .. n /\ j + 1 \in 1 .. j + 1
      BY <2>4
    <3>2. \A x \in 1 .. j + 1 : x \in 1 .. n
      BY <3>1
    <3>. QED BY <3>1, <3>2
  <2>6. Greatest(1 .. j + 1) = j + 1 /\ (1 .. j + 1) \ {j + 1} = 1 .. j
    BY <2>4, GreatestOfPrefix
  <2>7. g[1 .. j + 1] = F[g[1 .. j]][j + 1]
    BY <2>4, <2>5, <2>6, Zenon DEF LoopIn
  <2>8. g[1 .. j + 1] \in X /\ <<j + 1, g[1 .. j + 1]>> \in I
    BY <2>4, <2>5, <2>7
  <2>. QED BY <2>1, <2>3, <2>8
<1>. QED BY <1>1

-----------------------------------------------------------------------------
(* Frames and the bytes in them *)

(* The constants of the boot are numbers.                                   *)
LEMMA BootConstants ==
    /\ FRAME_SIZE \in Nat /\ FRAME_SIZE > 0
    /\ B!MAX_FRAMES \in Nat /\ B!Frame = 0 .. B!MAX_FRAMES - 1
    /\ {KB, UINT32, UINT64} \subseteq Nat \ {0}
    /\ {MAX_TRACKED_MEMORY, RESERVED_LOW_END, KERNEL_OFFSET, KERNEL_END, MB, MB16,
        IDENTITY_MAPPED_LIMIT, RAMDISK_BASE, RAMDISK_END} \subseteq Nat
<1>1. FRAME_SIZE \in Nat /\ FRAME_SIZE > 0
  BY ElfAssumption DEF Positive
<1>2. {MAX_TRACKED_MEMORY, RESERVED_LOW_END, IDENTITY_MAPPED_LIMIT,
       RAMDISK_BASE, RAMDISK_END} \subseteq Nat
  BY BootAssumption
<1>3. {MB, MB16, KERNEL_OFFSET, KERNEL_END} \subseteq Nat
  BY BootAssumption
<1>4. {KB, UINT32, UINT64} \subseteq Nat \ {0}
  BY BootAssumption DEF Positive
<1>5. PICK d \in Nat : d = FRAME_SIZE /\ d > 0
  BY <1>1
<1>6. PICK m \in Nat : m = MAX_TRACKED_MEMORY
  BY <1>2
<1>7. m \div d \in Nat
  BY <1>5, <1>6
<1>. QED BY <1>1, <1>2, <1>3, <1>4, <1>5, <1>6, <1>7 DEF B!MAX_FRAMES, B!Frame

(* More frames have more bytes.                                             *)
LEMMA MoreBytes ==
    ASSUME NEW i \in Nat, NEW j \in Nat, i <= j, NEW d \in Nat
    PROVE  i * d \in Nat /\ i * d <= j * d
<1>1. PICK k \in Nat : j = i + k
  <2>1. j - i \in Nat /\ j = i + (j - i)
    OBVIOUS
  <2>. QED BY <2>1
<1>2. i * d \in Nat /\ k * d \in Nat /\ (i + k) * d = i * d + k * d
  OBVIOUS
<1>3. j * d = i * d + k * d
  BY <1>1, <1>2
<1>. QED BY <1>2, <1>3

(* A frame ends where the next begins.                                      *)
LEMMA NextFrame ==
    ASSUME NEW f \in Nat, NEW d \in Nat
    PROVE  f * d \in Nat /\ (f + 1) * d = f * d + d
OBVIOUS

(* Down is the frame an address lies in, Up the first that begins at or     *)
(* behind it.                                                               *)
LEMMA DownUp ==
    ASSUME NEW a \in Nat
    PROVE  /\ B!Down(a) \in Nat
           /\ B!Down(a) * FRAME_SIZE <= a /\ a < (B!Down(a) + 1) * FRAME_SIZE
           /\ B!Up(a) \in Nat
           /\ a <= B!Up(a) * FRAME_SIZE
<1>1. PICK d \in Nat : d = FRAME_SIZE /\ d > 0
  BY BootConstants
<1>2. PICK q \in Nat : q = a \div d
  BY <1>1
<1>3. q * d <= a /\ a < q * d + d
  BY <1>1, <1>2
<1>4. PICK x \in Nat : x = a + d - 1
  BY <1>1
<1>5. PICK u \in Nat : u = x \div d
  BY <1>1, <1>4
<1>6. x < u * d + d
  BY <1>1, <1>4, <1>5
<1>7. a <= u * d
  <2>1. u * d \in Nat
    OBVIOUS
  <2>. QED BY <1>1, <1>4, <1>6, <2>1
<1>8. (q + 1) * d = q * d + d
  BY NextFrame
<1>9. B!Down(a) = q
  BY <1>1, <1>2 DEF B!Down
<1>10. B!Up(a) = u
  BY <1>1, <1>4, <1>5 DEF B!Up
<1>. QED BY <1>1, <1>3, <1>7, <1>8, <1>9, <1>10

(* The bytes of a frame below another address, and above.                   *)
LEMMA FrameBelow ==
    ASSUME NEW f \in Nat, NEW a \in Nat, f < B!Down(a)
    PROVE  B!Bytes(f) \subseteq 0 .. a - 1
<1>1. PICK d \in Nat : d = FRAME_SIZE /\ d > 0
  BY BootConstants
<1>2. PICK q \in Nat : q = B!Down(a) /\ q * d <= a
  BY <1>1, DownUp
<1>3. f + 1 \in Nat /\ f + 1 <= q
  BY <1>2
<1>4. (f + 1) * d <= q * d /\ (f + 1) * d \in Nat /\ q * d \in Nat
  BY <1>3, MoreBytes
<1>5. f * d \in Nat
  BY NextFrame
<1>6. B!Bytes(f) = f * d .. (f + 1) * d - 1
  BY <1>1 DEF B!Bytes
<1>7. ASSUME NEW x \in f * d .. (f + 1) * d - 1 PROVE x \in 0 .. a - 1
  BY <1>2, <1>4, <1>5
<1>. QED BY <1>6, <1>7

(* The bytes of a frame that begins at an address or behind.                *)
LEMMA FrameAbove ==
    ASSUME NEW f \in Nat, NEW a \in Nat, f >= B!Up(a)
    PROVE  \A x \in B!Bytes(f) : x \in Nat /\ x >= a
<1>1. PICK d \in Nat : d = FRAME_SIZE /\ d > 0
  BY BootConstants
<1>2. PICK q \in Nat : q = B!Up(a) /\ a <= q * d
  BY <1>1, DownUp
<1>3. q * d <= f * d /\ f * d \in Nat /\ q * d \in Nat
  <2>1. q <= f
    BY <1>2
  <2>. QED BY <2>1, MoreBytes, NextFrame
<1>6. B!Bytes(f) = f * d .. (f + 1) * d - 1
  BY <1>1 DEF B!Bytes
<1>7. ASSUME NEW x \in f * d .. (f + 1) * d - 1 PROVE x \in Nat /\ x >= a
  <2>1. (f + 1) * d \in Nat
    BY <1>3, <1>1, NextFrame
  <2>. QED BY <1>2, <1>3, <2>1
<1>. QED BY <1>6, <1>7

(* The bytes of one of the first n frames.                                  *)
LEMMA FrameWithin ==
    ASSUME NEW n \in Nat, NEW f \in 0 .. n - 1
    PROVE  B!Bytes(f) \subseteq 0 .. n * FRAME_SIZE - 1
<1>1. PICK d \in Nat : d = FRAME_SIZE /\ d > 0
  BY BootConstants
<1>3. f \in Nat /\ f + 1 \in Nat /\ f + 1 <= n
  OBVIOUS
<1>4. (f + 1) * d <= n * d /\ (f + 1) * d \in Nat /\ n * d \in Nat /\ f * d \in Nat
  BY <1>3, MoreBytes, NextFrame
<1>6. B!Bytes(f) = f * d .. (f + 1) * d - 1
  BY <1>1 DEF B!Bytes
<1>7. ASSUME NEW x \in f * d .. (f + 1) * d - 1 PROVE x \in 0 .. n * d - 1
  BY <1>4
<1>. QED BY <1>1, <1>6, <1>7

-----------------------------------------------------------------------------
(* The books of the frames *)

(* What the records are made of.                                            *)
BookSet == [bits : SUBSET B!Frame, counted : SUBSET B!Frame, used : Nat]

(* The records of m agree, when there are t frames.                         *)
Books(m, t) ==
    /\ m \in BookSet
    /\ m.counted = m.bits \cap (0 .. t - 1)
    /\ m.used = Cardinality(m.counted)

(* The frames that may be given away.                                       *)
Open(m, t) == (0 .. t - 1) \ m.bits

(* The frame f has no byte from start to end.                               *)
Away(f, start, end) == B!Bytes(f) \cap B!Taken(start, end) = {}


(* Boot counts its frames like every module.                                *)
LEMMA BootCardinality == \A A : B!Cardinality(A) = Cardinality(A)
BY Zenon DEF B!Cardinality, Cardinality

(* The frames G are taken, or set free: the bitmap and the counts follow.   *)
TakenBooks(m, G) ==
    [bits |-> m.bits \cup G, counted |-> m.counted \cup G,
     used |-> m.used + Cardinality(G \ m.bits)]

(* The frames G are set free.                                               *)
FreedBooks(m, G) ==
    [bits |-> m.bits \ G, counted |-> m.counted \ G,
     used |-> B!Larger(m.used - Cardinality(G), 0)]

(* The records of m2 agree, those of m with the frames G taken.             *)
TakenFrom(m, t, G, m2) ==
    Books(m2, t) /\ Open(m2, t) = Open(m, t) \ G /\ m2.counted = m.counted \cup G

(* They do.                                                                 *)
LEMMA TakenAgree ==
    ASSUME NEW t \in 0 .. B!MAX_FRAMES, NEW m, Books(m, t), NEW G, G \subseteq 0 .. t - 1,
           NEW m2, m2 = TakenBooks(m, G)
    PROVE  TakenFrom(m, t, G, m2)
<1>1. /\ m2.bits = m.bits \cup G /\ m2.counted = m.counted \cup G
      /\ m2.used = m.used + Cardinality(G \ m.bits)
  BY DEF TakenBooks
<1>2. /\ m.bits \subseteq B!Frame /\ m.counted = m.bits \cap (0 .. t - 1)
      /\ m.used = Cardinality(m.counted)
  BY DEF Books, BookSet
<1>3. t \in Nat /\ G \subseteq B!Frame
  BY BootConstants
<1>4. G \ m.bits = G \ m.counted /\ m.counted \subseteq 0 .. t - 1
  BY <1>2
<1>5. PICK X : X = m.counted
  OBVIOUS
<1>6. PICK Y : Y = G \ X
  OBVIOUS
<1>7. IsFiniteSet(X) /\ IsFiniteSet(Y)
  <2>1. IsFiniteSet(0 .. t - 1)
    <3>1. 0 \in Int /\ t - 1 \in Int
      BY <1>3
    <3>. QED BY <3>1, FS_Interval, Zenon
  <2>2. X \subseteq 0 .. t - 1 /\ Y \subseteq 0 .. t - 1
    BY <1>4, <1>5, <1>6
  <2>. QED BY <2>1, <2>2, FS_Subset
<1>8. Cardinality(X \cup Y) = Cardinality(X) + Cardinality(Y)
  <2>1. X \cap Y = {}
    BY <1>6
  <2>2. Cardinality(X \cup Y) = Cardinality(X) + Cardinality(Y) - Cardinality({})
    BY <1>7, <2>1, FS_Union
  <2>3. Cardinality({}) = 0 /\ Cardinality(X) \in Nat /\ Cardinality(Y) \in Nat
    BY <1>7, FS_EmptySet, FS_CardinalityType
  <2>. QED BY <2>2, <2>3
<1>9. X \cup Y = m2.counted
  BY <1>1, <1>5, <1>6
<1>10. m2.used = Cardinality(m2.counted)
  BY <1>1, <1>2, <1>4, <1>5, <1>6, <1>8, <1>9
<1>11. m2 \in BookSet
  <2>1. m2.bits \in SUBSET B!Frame /\ m2.counted \in SUBSET B!Frame
    BY <1>1, <1>2, <1>3
  <2>2. m2.used \in Nat
    BY <1>5, <1>6, <1>7, <1>9, <1>10, FS_Union, FS_CardinalityType
  <2>3. m2 = [bits |-> m2.bits, counted |-> m2.counted, used |-> m2.used]
    BY <1>1, Zenon DEF TakenBooks
  <2>. QED BY <2>1, <2>2, <2>3 DEF BookSet
<1>. QED BY <1>1, <1>2, <1>3, <1>10, <1>11 DEF Books, Open, TakenFrom

(* The same for frames that are set free.                                   *)
LEMMA FreedAgree ==
    ASSUME NEW t \in 0 .. B!MAX_FRAMES, NEW m, Books(m, t), NEW G, G \subseteq m.counted,
           NEW m2, m2 = FreedBooks(m, G)
    PROVE  Books(m2, t) /\ Open(m2, t) = Open(m, t) \cup G /\ m2.counted = m.counted \ G
<1>1. /\ m2.bits = m.bits \ G /\ m2.counted = m.counted \ G
      /\ m2.used = B!Larger(m.used - Cardinality(G), 0)
  BY DEF FreedBooks
<1>2. /\ m.bits \subseteq B!Frame /\ m.counted = m.bits \cap (0 .. t - 1)
      /\ m.used = Cardinality(m.counted)
  BY DEF Books, BookSet
<1>3. t \in Nat
  BY BootConstants
<1>5. PICK X : X = m2.counted
  OBVIOUS
<1>7. IsFiniteSet(X) /\ IsFiniteSet(G)
  <2>1. IsFiniteSet(0 .. t - 1)
    <3>1. 0 \in Int /\ t - 1 \in Int
      BY <1>3
    <3>. QED BY <3>1, FS_Interval, Zenon
  <2>2. X \subseteq 0 .. t - 1 /\ G \subseteq 0 .. t - 1
    BY <1>1, <1>2, <1>5
  <2>. QED BY <2>1, <2>2, FS_Subset
<1>8. Cardinality(X \cup G) = Cardinality(X) + Cardinality(G)
      /\ Cardinality(X) \in Nat /\ Cardinality(G) \in Nat
  <2>1. X \cap G = {}
    BY <1>1, <1>5
  <2>2. Cardinality(X \cup G) = Cardinality(X) + Cardinality(G) - Cardinality({})
    BY <1>7, <2>1, FS_Union
  <2>3. Cardinality({}) = 0 /\ Cardinality(X) \in Nat /\ Cardinality(G) \in Nat
    BY <1>7, FS_EmptySet, FS_CardinalityType
  <2>. QED BY <2>2, <2>3
<1>9. X \cup G = m.counted
  BY <1>1, <1>5
<1>10. m2.used = Cardinality(m2.counted)
  <2>1. PICK x \in Nat, y \in Nat : x = Cardinality(X) /\ y = Cardinality(G)
    BY <1>8
  <2>2. m.used = x + y
    BY <1>2, <1>8, <1>9, <2>1, Zenon
  <2>3. m.used - Cardinality(G) = x
    BY <2>1, <2>2
  <2>. QED BY <1>1, <1>5, <2>1, <2>3 DEF B!Larger
<1>11. m2 \in BookSet
  <2>1. m2.bits \in SUBSET B!Frame /\ m2.counted \in SUBSET B!Frame
    BY <1>1, <1>2
  <2>2. m2.used \in Nat
    BY <1>5, <1>8, <1>10
  <2>3. m2 = [bits |-> m2.bits, counted |-> m2.counted, used |-> m2.used]
    BY <1>1, Zenon DEF FreedBooks
  <2>. QED BY <2>1, <2>2, <2>3 DEF BookSet
<1>. QED BY <1>1, <1>2, <1>10, <1>11 DEF Books, Open

(* m2 is m with no frame open that has a byte from start to end.            *)
Reserve(m, t, m2, start, end) ==
    /\ Books(m2, t) /\ m.counted \subseteq m2.counted
    /\ Open(m2, t) \subseteq Open(m, t)
    /\ \A f \in Open(m2, t) : Away(f, start, end)

(* A frame before a range, or behind it, is away from it.                   *)
LEMMA OutsideAway ==
    ASSUME NEW f \in Nat, NEW start \in Nat, NEW end \in Nat,
           f < B!Down(start) \/ f >= B!Up(end)
    PROVE  Away(f, start, end)
<1>1. CASE f < B!Down(start)
  <2>1. \A x \in B!Bytes(f) : x \in 0 .. start - 1
    BY <1>1, FrameBelow
  <2>2. \A x \in start .. end - 1 : x \notin 0 .. start - 1
    OBVIOUS
  <2>. QED BY <2>1, <2>2 DEF Away, B!Taken
<1>2. CASE f >= B!Up(end)
  <2>1. \A x \in B!Bytes(f) : x \in Nat /\ x >= end
    BY <1>2, FrameAbove
  <2>2. \A x \in start .. end - 1 : ~(x >= end)
    OBVIOUS
  <2>. QED BY <2>1, <2>2 DEF Away, B!Taken
<1>. QED BY <1>1, <1>2

(* mark_allocated takes every frame that has a byte in the range.           *)
LEMMA MarkAllocated ==
    ASSUME NEW t \in 0 .. B!MAX_FRAMES, NEW m, Books(m, t),
           NEW start \in Nat, NEW end \in Nat,
           NEW m2, m2 = B!mark_allocated(m, t, start, end)
    PROVE  Reserve(m, t, m2, start, end)
<1>0. t \in Nat
  BY BootConstants
<1>1. PICK lo \in Nat, hi \in Nat : lo = B!Down(start) /\ hi = B!Up(end)
  BY DownUp
<1>2. PICK G : G = lo .. B!Smaller(hi, t) - 1
  OBVIOUS
<1>3. m2 = TakenBooks(m, G)
  <2>1. G = B!Down(start) .. B!Smaller(B!Up(end), t) - 1
    BY <1>1, <1>2
  <2>. QED BY <2>1, BootCardinality, Zenon DEF B!mark_allocated, TakenBooks
<1>4. G \subseteq 0 .. t - 1 /\ \A f \in 0 .. t - 1 : f \notin G => f < lo \/ f >= hi
  BY <1>0, <1>2 DEF B!Smaller
<1>5. Books(m2, t) /\ Open(m2, t) = Open(m, t) \ G /\ m2.counted = m.counted \cup G
  <2>1. TakenFrom(m, t, G, m2)
    BY <1>3, <1>4, TakenAgree, Zenon
  <2>. QED BY <2>1 DEF TakenFrom
<1>6. ASSUME NEW f \in Open(m2, t) PROVE Away(f, start, end)
  <2>1. f \in 0 .. t - 1 /\ f \notin G
    BY <1>5 DEF Open
  <2>2. f \in Nat /\ (f < lo \/ f >= hi)
    BY <1>0, <1>4, <2>1
  <2>. QED BY <1>1, <2>2, OutsideAway
<1>. QED BY <1>5, <1>6 DEF Reserve

(* mark_free sets free only frames that lie in the range whole.             *)
LEMMA MarkFree ==
    ASSUME NEW t \in 0 .. B!MAX_FRAMES, NEW m, Books(m, t),
           NEW start \in Nat, NEW end \in Nat,
           NEW m2, m2 = B!mark_free(m, t, start, end)
    PROVE  /\ Books(m2, t)
           /\ \A f \in Open(m2, t) : \/ f \in Open(m, t)
                                     \/ B!Bytes(f) \subseteq B!Taken(start, end)
<1>0. t \in Nat
  BY BootConstants
<1>1. PICK lo \in Nat, hi \in Nat : lo = B!Up(start) /\ hi = B!Down(end)
  BY DownUp
<1>2. PICK G : G = (lo .. B!Smaller(hi, t) - 1) \cap m.bits
  OBVIOUS
<1>3. m2 = FreedBooks(m, G)
  <2>1. G = (B!Up(start) .. B!Smaller(B!Down(end), t) - 1) \cap m.bits
    BY <1>1, <1>2
  <2>. QED BY <2>1, BootCardinality, Zenon DEF B!mark_free, FreedBooks
<1>4. G \subseteq m.bits /\ \A f \in G : f \in 0 .. t - 1 /\ f \in Nat /\ lo <= f /\ f < hi
  BY <1>0, <1>2 DEF B!Smaller
<1>5. G \subseteq m.counted
  BY <1>4 DEF Books
<1>6. Books(m2, t) /\ Open(m2, t) = Open(m, t) \cup G
  BY <1>3, <1>5, FreedAgree
<1>7. ASSUME NEW f \in G PROVE B!Bytes(f) \subseteq B!Taken(start, end)
  <2>1. B!Bytes(f) \subseteq 0 .. end - 1
    BY <1>1, <1>4, FrameBelow
  <2>2. \A x \in B!Bytes(f) : x \in Nat /\ x >= start
    BY <1>1, <1>4, FrameAbove
  <2>. QED BY <2>1, <2>2 DEF B!Taken
<1>. QED BY <1>6, <1>7

(* frame_reserve_range keeps every frame it finds away from its range.      *)
LEMMA ReserveRange ==
    ASSUME total_frames \in 0 .. B!MAX_FRAMES, NEW m, Books(m, total_frames),
           NEW start \in Nat, NEW end \in Nat,
           NEW m2, m2 = B!frame_reserve_range(m, start, end)
    PROVE  Reserve(m, total_frames, m2, start, end)
<1>0. PICK t \in Nat : t = total_frames /\ t \in 0 .. B!MAX_FRAMES
  BY BootConstants
<1>1. PICK top \in Nat : top = t * FRAME_SIZE /\ top = B!MaxAddr
  BY <1>0, BootConstants, NextFrame DEF B!MaxAddr
<1>2. ASSUME NEW f \in Open(m, t) PROVE \A x \in B!Bytes(f) : x \in 0 .. top - 1
  <2>1. f \in 0 .. t - 1
    BY <1>2 DEF Open
  <2>. QED BY <1>0, <1>1, <2>1, FrameWithin
<1>3. CASE start < top
  <2>1. PICK e \in Nat : e = B!Smaller(end, top) /\ (e = end \/ e = top)
    BY DEF B!Smaller
  <2>2. m2 = B!mark_allocated(m, t, start, e)
    BY <1>0, <1>1, <1>3, <2>1 DEF B!frame_reserve_range, B!CanReserve
  <2>3. Reserve(m, t, m2, start, e)
    BY <1>0, <2>2, MarkAllocated
  <2>4. ASSUME NEW f \in Open(m2, t) PROVE Away(f, start, end)
    <3>1. B!Bytes(f) \cap (start .. e - 1) = {} /\ f \in Open(m, t)
      BY <2>3 DEF Reserve, Away, B!Taken
    <3>2. \A x \in B!Bytes(f) : x \in 0 .. top - 1
      BY <1>2, <3>1
    <3>3. \A x \in start .. end - 1 : x \in 0 .. top - 1 => x \in start .. e - 1
      BY <2>1
    <3>. QED BY <3>1, <3>2, <3>3 DEF Away, B!Taken
  <2>. QED BY <1>0, <2>3, <2>4 DEF Reserve
<1>4. CASE ~(start < top)
  <2>1. m2 = m
    BY <1>1, <1>4 DEF B!frame_reserve_range, B!CanReserve
  <2>2. ASSUME NEW f \in Open(m, t) PROVE Away(f, start, end)
    <3>1. \A x \in B!Bytes(f) : x \in 0 .. top - 1
      BY <1>2
    <3>2. \A x \in start .. end - 1 : x \notin 0 .. top - 1
      BY <1>4
    <3>. QED BY <3>1, <3>2 DEF Away, B!Taken
  <2>. QED BY <1>0, <2>1, <2>2 DEF Reserve
<1>. QED BY <1>3, <1>4

(* frame_alloc_below finds at most one frame, open and below the limit.     *)
LEMMA AllocBelow ==
    ASSUME total_frames \in 0 .. B!MAX_FRAMES, NEW m, NEW limit \in Nat,
           NEW G, G = B!frame_alloc_below(m, limit)
    PROVE  /\ G \subseteq Open(m, total_frames)
           /\ \A f \in G : f \in Nat /\ B!Bytes(f) \subseteq 0 .. limit - 1
<1>0. PICK t \in Nat : t = total_frames
  BY BootConstants
<1>1. PICK lo \in Nat, hi \in Nat : lo = B!Down(RESERVED_LOW_END) /\ hi = B!Down(limit)
  BY BootConstants, DownUp
<1>2. G \subseteq (lo .. B!Smaller(hi, t) - 1) \ m.bits
  BY <1>0, <1>1 DEF B!frame_alloc_below
<1>3. \A f \in G : f \in 0 .. t - 1 /\ f \notin m.bits /\ f \in Nat /\ f < hi
  BY <1>2 DEF B!Smaller
<1>4. \A f \in G : B!Bytes(f) \subseteq 0 .. limit - 1
  BY <1>1, <1>3, FrameBelow
<1>. QED BY <1>0, <1>3, <1>4 DEF Open

(* Taking open frames.                                                      *)
LEMMA TakeOpen ==
    ASSUME NEW t \in 0 .. B!MAX_FRAMES, NEW m, Books(m, t), NEW G, G \subseteq Open(m, t),
           NEW m2, m2 = B!Take(m, G)
    PROVE  TakenFrom(m, t, G, m2)
<1>1. G \subseteq 0 .. t - 1 /\ G \ m.bits = G
  BY DEF Open
<1>2. m2 = TakenBooks(m, G)
  BY <1>1, BootCardinality, Zenon DEF B!Take, TakenBooks
<1>. QED BY <1>1, <1>2, TakenAgree, Zenon

-----------------------------------------------------------------------------
(* The loops of the boot *)

(* An entry of the memory map, and where its region ends.                   *)
LEMMA EntryFacts ==
    ASSUME NEW e \in B!Entry
    PROVE  /\ e.base \in Nat /\ e.length \in Nat
           /\ B!Tracked(B!End64(e)) \in Nat
           /\ B!Tracked(B!End64(e)) <= e.base + e.length
<1>1. PICK u \in Nat : u = UINT64 /\ u > 0
  BY BootConstants
<1>2. Bases \cup Regions \subseteq 0 .. u - 1
  BY <1>1, BootAssumption
<1>3. e.base \in Bases /\ e.length \in Regions
  BY DEF B!Entry
<1>4. PICK x \in Nat, z \in Nat : x = e.base /\ z = e.length
  BY <1>1, <1>2, <1>3
<1>5. PICK w \in Nat : w = (x + z) % u /\ w <= x + z
  <2>1. PICK v \in Nat : v = x + z
    OBVIOUS
  <2>2. v % u \in Nat /\ v % u <= v
    BY <1>1
  <2>. QED BY <2>1, <2>2
<1>6. B!End64(e) = w
  BY <1>1, <1>4, <1>5 DEF B!End64
<1>7. PICK y \in Nat : y = MAX_TRACKED_MEMORY
  BY BootConstants
<1>. QED BY <1>4, <1>5, <1>6, <1>7 DEF B!Tracked, B!Smaller

(* What adds up the usable memory.                                          *)
Summed(g) ==
    g = [A \in SUBSET DOMAIN map |->
            IF A = {} THEN 0 ELSE B!AddUsable(g[A \ {Greatest(A)}], map[Greatest(A)])]

(* It is e820_get_total_usable_memory.                                      *)
LEMMA TotalIs == B!e820_get_total_usable_memory = (CHOOSE g : Summed(g))[DOMAIN map]
BY DEF B!e820_get_total_usable_memory, B!FoldLeft, B!MapThenFoldSet, B!Max, Summed, Greatest

(* The sum wraps, but it is a number.                                       *)
LEMMA TotalNat ==
    ASSUME map \in Seq(B!Entry)
    PROVE  B!e820_get_total_usable_memory \in Nat
<1>1. PICK n \in Nat : DOMAIN map = 1 .. n /\ \A i \in 1 .. n : map[i] \in B!Entry
  <2>1. Len(map) \in Nat /\ DOMAIN map = 1 .. Len(map) /\ \A i \in 1 .. Len(map) : map[i] \in B!Entry
    OBVIOUS
  <2>. QED BY <2>1
<1>2. PICK F : F = [x \in Nat |-> [i \in 1 .. n |-> B!AddUsable(x, map[i])]]
  OBVIOUS
<1>3. \A x \in Nat : \A i \in 1 .. n : F[x][i] = B!AddUsable(x, map[i])
  BY <1>2
<1>4. \A x \in Nat : \A i \in 1 .. n : B!AddUsable(x, map[i]) \in Nat
  <2>. SUFFICES ASSUME NEW x \in Nat, NEW i \in 1 .. n PROVE B!AddUsable(x, map[i]) \in Nat
    OBVIOUS
  <2>1. PICK z \in Nat, u \in Nat : z = map[i].length /\ u = UINT64 /\ u > 0
    <3>1. map[i] \in B!Entry
      BY <1>1
    <3>2. map[i].length \in Nat
      BY <3>1, EntryFacts
    <3>3. UINT64 \in Nat /\ UINT64 > 0
      BY BootConstants
    <3>. QED BY <3>2, <3>3
  <2>2. (x + z) % u \in Nat
    BY <2>1
  <2>. QED BY <2>1, <2>2 DEF B!AddUsable
<1>5. \A x \in Nat : \A i \in 1 .. n : F[x][i] \in Nat
  BY <1>3, <1>4
<1>6. \E g : Summed(g)
  <2>1. PICK h : (\A A \in SUBSET (1 .. n) : h[A] \in Nat) /\ Loop(h, 0, F, n)
    BY <1>5, LoopsAll DEF Loops
  <2>2. PICK g : g = [A \in SUBSET (1 .. n) |-> h[A]]
    OBVIOUS
  <2>3. ASSUME NEW A \in SUBSET (1 .. n)
        PROVE  h[A] = IF A = {} THEN 0 ELSE B!AddUsable(h[A \ {Greatest(A)}], map[Greatest(A)])
    <3>1. CASE A # {}
      <4>1. Greatest(A) \in 1 .. n /\ A \ {Greatest(A)} \in SUBSET (1 .. n)
        BY <3>1, GreatestFacts
      <4>2. h[A] = F[h[A \ {Greatest(A)}]][Greatest(A)]
        BY <2>1, <3>1, Zenon DEF Loop
      <4>. QED BY <1>3, <2>1, <3>1, <4>1, <4>2, Zenon
    <3>2. CASE A = {}
      BY <2>1, <3>2, Zenon DEF Loop
    <3>. QED BY <3>1, <3>2
  <2>4. \A A \in SUBSET (1 .. n) : A \ {Greatest(A)} \in SUBSET (1 .. n)
    OBVIOUS
  <2>5. \A A \in SUBSET (1 .. n) :
          h[A] = IF A = {} THEN 0 ELSE B!AddUsable(g[A \ {Greatest(A)}], map[Greatest(A)])
    BY <2>2, <2>3, <2>4, Zenon
  <2>. QED BY <1>1, <2>2, <2>5, Zenon DEF Summed
<1>7. PICK g : g = (CHOOSE k : Summed(k)) /\ Summed(g)
  BY <1>6
<1>8. LoopIn(g, Nat, 0, F, n)
  <2>. SUFFICES ASSUME NEW A \in SUBSET (1 .. n)
                PROVE  /\ A = {} => g[A] = 0
                       /\ A # {} /\ g[A \ {Greatest(A)}] \in Nat =>
                             g[A] = F[g[A \ {Greatest(A)}]][Greatest(A)]
    BY DEF LoopIn
  <2>1. g[A] = IF A = {} THEN 0 ELSE B!AddUsable(g[A \ {Greatest(A)}], map[Greatest(A)])
    BY <1>1, <1>7, Zenon DEF Summed
  <2>2. A # {} => Greatest(A) \in 1 .. n
    BY GreatestFacts
  <2>. QED BY <1>3, <2>1, <2>2, Zenon
<1>9. g[1 .. n] \in Nat
  <2>1. PICK I : I = Nat \X Nat
    OBVIOUS
  <2>2. <<0, 0>> \in I
        /\ \A j \in 0 .. n - 1 : \A x \in Nat : <<j, x>> \in I => <<j + 1, F[x][j + 1]>> \in I
    BY <1>5, <2>1
  <2>. QED BY <1>5, <1>8, <2>2, LoopKeeps, Zenon
<1>. QED BY <1>1, <1>7, <1>9, TotalIs, Zenon

(* What looks for the end of the highest usable region.                     *)
Raised(g) ==
    g = [A \in SUBSET DOMAIN map |->
            IF A = {} THEN 0 ELSE B!RaiseHighest(g[A \ {Greatest(A)}], map[Greatest(A)])]

(* It is highest_memory_from_e820.                                          *)
LEMMA HighestIs == B!highest_memory_from_e820 = (CHOOSE g : Raised(g))[DOMAIN map]
BY DEF B!highest_memory_from_e820, B!FoldLeft, B!MapThenFoldSet, B!Max, Raised, Greatest

(* It is a number, and 0 when the BIOS knows of no region.                  *)
LEMMA HighestNat ==
    ASSUME map \in Seq(B!Entry)
    PROVE  /\ B!highest_memory_from_e820 \in Nat
           /\ map = <<>> => B!highest_memory_from_e820 = 0
<1>1. PICK n \in Nat : DOMAIN map = 1 .. n /\ \A i \in 1 .. n : map[i] \in B!Entry
  <2>1. Len(map) \in Nat /\ DOMAIN map = 1 .. Len(map) /\ \A i \in 1 .. Len(map) : map[i] \in B!Entry
    OBVIOUS
  <2>. QED BY <2>1
<1>2. PICK F : F = [x \in Nat |-> [i \in 1 .. n |-> B!RaiseHighest(x, map[i])]]
  OBVIOUS
<1>3. \A x \in Nat : \A i \in 1 .. n : F[x][i] = B!RaiseHighest(x, map[i])
  BY <1>2
<1>4. \A x \in Nat : \A i \in 1 .. n : B!RaiseHighest(x, map[i]) \in Nat
  <2>. SUFFICES ASSUME NEW x \in Nat, NEW i \in 1 .. n PROVE B!RaiseHighest(x, map[i]) \in Nat
    OBVIOUS
  <2>1. map[i] \in B!Entry
    BY <1>1
  <2>2. B!Tracked(B!End64(map[i])) \in Nat
    BY <2>1, EntryFacts
  <2>. QED BY <2>2 DEF B!RaiseHighest, B!Larger
<1>5. \A x \in Nat : \A i \in 1 .. n : F[x][i] \in Nat
  BY <1>3, <1>4
<1>6. \E g : Raised(g)
  <2>1. PICK h : (\A A \in SUBSET (1 .. n) : h[A] \in Nat) /\ Loop(h, 0, F, n)
    BY <1>5, LoopsAll DEF Loops
  <2>2. PICK g : g = [A \in SUBSET (1 .. n) |-> h[A]]
    OBVIOUS
  <2>3. ASSUME NEW A \in SUBSET (1 .. n)
        PROVE  h[A] = IF A = {} THEN 0 ELSE B!RaiseHighest(h[A \ {Greatest(A)}], map[Greatest(A)])
    <3>1. CASE A # {}
      <4>1. Greatest(A) \in 1 .. n /\ A \ {Greatest(A)} \in SUBSET (1 .. n)
        BY <3>1, GreatestFacts
      <4>2. h[A] = F[h[A \ {Greatest(A)}]][Greatest(A)]
        BY <2>1, <3>1, Zenon DEF Loop
      <4>. QED BY <1>3, <2>1, <3>1, <4>1, <4>2, Zenon
    <3>2. CASE A = {}
      BY <2>1, <3>2, Zenon DEF Loop
    <3>. QED BY <3>1, <3>2
  <2>4. \A A \in SUBSET (1 .. n) : A \ {Greatest(A)} \in SUBSET (1 .. n)
    OBVIOUS
  <2>5. \A A \in SUBSET (1 .. n) :
          h[A] = IF A = {} THEN 0 ELSE B!RaiseHighest(g[A \ {Greatest(A)}], map[Greatest(A)])
    BY <2>2, <2>3, <2>4, Zenon
  <2>. QED BY <1>1, <2>2, <2>5, Zenon DEF Raised
<1>7. PICK g : g = (CHOOSE k : Raised(k)) /\ Raised(g)
  BY <1>6
<1>8. \A A \in SUBSET (1 .. n) :
        g[A] = IF A = {} THEN 0 ELSE B!RaiseHighest(g[A \ {Greatest(A)}], map[Greatest(A)])
  BY <1>1, <1>7, Zenon DEF Raised
<1>9. LoopIn(g, Nat, 0, F, n)
  <2>. SUFFICES ASSUME NEW A \in SUBSET (1 .. n)
                PROVE  /\ A = {} => g[A] = 0
                       /\ A # {} /\ g[A \ {Greatest(A)}] \in Nat =>
                             g[A] = F[g[A \ {Greatest(A)}]][Greatest(A)]
    BY DEF LoopIn
  <2>1. A # {} => Greatest(A) \in 1 .. n
    BY GreatestFacts
  <2>. QED BY <1>3, <1>8, <2>1, Zenon
<1>10. g[1 .. n] \in Nat
  <2>1. PICK I : I = Nat \X Nat
    OBVIOUS
  <2>2. <<0, 0>> \in I
        /\ \A j \in 0 .. n - 1 : \A x \in Nat : <<j, x>> \in I => <<j + 1, F[x][j + 1]>> \in I
    BY <1>5, <2>1
  <2>. QED BY <1>5, <1>9, <2>2, LoopKeeps, Zenon
<1>11. map = <<>> => 1 .. n = {}
  BY <1>1
<1>12. 1 .. n = {} => g[1 .. n] = 0
  BY <1>8
<1>. QED BY <1>1, <1>7, <1>10, <1>11, <1>12, HighestIs, Zenon

(* The BIOS calls all of it usable, or it is below the size in CMOS.        *)
There(f) ==
    IF B!e820_is_available
    THEN \E i \in DOMAIN map :
            /\ map[i].usable
            /\ B!Bytes(f) \subseteq B!Taken(map[i].base, map[i].base + map[i].length)
    ELSE B!Bytes(f) \subseteq B!Taken(0, total_kb * KB)

(* What sets the usable regions free.                                       *)
Freeing(g, m, t) ==
    g = [A \in SUBSET DOMAIN map |->
            IF A = {} THEN m ELSE B!FreeEntry(g[A \ {Greatest(A)}], t, map[Greatest(A)])]

(* It is FreeEntries.                                                       *)
LEMMA FreeEntriesIs ==
    ASSUME NEW m, NEW t
    PROVE  B!FreeEntries(m, t) = (CHOOSE g : Freeing(g, m, t))[DOMAIN map]
BY DEF B!FreeEntries, B!FoldLeft, B!MapThenFoldSet, B!Max, Freeing, Greatest

(* The frames of one region.                                                *)
LEMMA FreeOne ==
    ASSUME NEW t \in 0 .. B!MAX_FRAMES, NEW m, Books(m, t), NEW e \in B!Entry,
           NEW m2, m2 = B!FreeEntry(m, t, e)
    PROVE  /\ Books(m2, t)
           /\ \A f \in Open(m2, t) :
                 \/ f \in Open(m, t)
                 \/ e.usable /\ B!Bytes(f) \subseteq B!Taken(e.base, e.base + e.length)
<1>1. CASE e.usable /\ e.base <= MAX_TRACKED_MEMORY
  <2>1. PICK x \in Nat, y \in Nat, z \in Nat :
          x = e.base /\ z = e.length /\ y = B!Tracked(B!End64(e)) /\ y <= x + z
    BY EntryFacts
  <2>2. m2 = B!mark_free(m, t, x, y)
    BY <1>1, <2>1, Zenon DEF B!FreeEntry
  <2>3. /\ Books(m2, t)
        /\ \A f \in Open(m2, t) : f \in Open(m, t) \/ B!Bytes(f) \subseteq B!Taken(x, y)
    BY <2>2, MarkFree
  <2>4. B!Taken(x, y) \subseteq B!Taken(x, x + z)
    BY <2>1 DEF B!Taken
  <2>. QED BY <1>1, <2>1, <2>3, <2>4
<1>2. CASE ~(e.usable /\ e.base <= MAX_TRACKED_MEMORY)
  BY <1>2 DEF B!FreeEntry
<1>. QED BY <1>1, <1>2

(* All of them: what is set free is there.                                  *)
LEMMA FreeAll ==
    ASSUME map \in Seq(B!Entry), map # <<>>,
           NEW t \in 0 .. B!MAX_FRAMES, NEW m, Books(m, t), Open(m, t) = {},
           NEW m2, m2 = B!FreeEntries(m, t)
    PROVE  Books(m2, t) /\ \A f \in Open(m2, t) : There(f)
<1>1. PICK n \in Nat : DOMAIN map = 1 .. n /\ \A i \in 1 .. n : map[i] \in B!Entry
  <2>1. Len(map) \in Nat /\ DOMAIN map = 1 .. Len(map) /\ \A i \in 1 .. Len(map) : map[i] \in B!Entry
    OBVIOUS
  <2>. QED BY <2>1
<1>2. PICK X : X = {k \in BookSet : Books(k, t)}
  OBVIOUS
<1>3. \A k : k \in X <=> Books(k, t)
  BY <1>2 DEF Books
<1>4. PICK F : F = [x \in X |-> [i \in 1 .. n |-> B!FreeEntry(x, t, map[i])]]
  OBVIOUS
<1>5. \A x \in X : \A i \in 1 .. n : F[x][i] = B!FreeEntry(x, t, map[i])
  BY <1>4
<1>6. ASSUME NEW x \in X, NEW i \in 1 .. n
      PROVE  /\ F[x][i] \in X
             /\ \A f \in Open(F[x][i], t) : f \in Open(x, t) \/ There(f)
  <2>1. PICK y : y = F[x][i] /\ y = B!FreeEntry(x, t, map[i])
    BY <1>5
  <2>2. Books(x, t) /\ map[i] \in B!Entry
    BY <1>1, <1>3
  <2>3. /\ Books(y, t)
        /\ \A f \in Open(y, t) :
              \/ f \in Open(x, t)
              \/ /\ map[i].usable
                 /\ B!Bytes(f) \subseteq B!Taken(map[i].base, map[i].base + map[i].length)
    BY <2>1, <2>2, FreeOne
  <2>4. B!e820_is_available
    BY DEF B!e820_is_available
  <2>. QED BY <1>1, <1>3, <2>1, <2>3, <2>4 DEF There
<1>7. \A x \in X : \A i \in 1 .. n : F[x][i] \in X
  BY <1>6
<1>8. m \in X
  BY <1>3
<1>9. \E g : Freeing(g, m, t)
  <2>1. PICK h : (\A A \in SUBSET (1 .. n) : h[A] \in X) /\ Loop(h, m, F, n)
    BY <1>7, <1>8, LoopsAll DEF Loops
  <2>2. PICK g : g = [A \in SUBSET (1 .. n) |-> h[A]]
    OBVIOUS
  <2>3. ASSUME NEW A \in SUBSET (1 .. n)
        PROVE  h[A] = IF A = {} THEN m ELSE B!FreeEntry(h[A \ {Greatest(A)}], t, map[Greatest(A)])
    <3>1. CASE A # {}
      <4>1. Greatest(A) \in 1 .. n /\ A \ {Greatest(A)} \in SUBSET (1 .. n)
        BY <3>1, GreatestFacts
      <4>2. h[A] = F[h[A \ {Greatest(A)}]][Greatest(A)]
        BY <2>1, <3>1, Zenon DEF Loop
      <4>. QED BY <1>5, <2>1, <3>1, <4>1, <4>2, Zenon
    <3>2. CASE A = {}
      BY <2>1, <3>2, Zenon DEF Loop
    <3>. QED BY <3>1, <3>2
  <2>4. \A A \in SUBSET (1 .. n) : A \ {Greatest(A)} \in SUBSET (1 .. n)
    OBVIOUS
  <2>5. \A A \in SUBSET (1 .. n) :
          h[A] = IF A = {} THEN m ELSE B!FreeEntry(g[A \ {Greatest(A)}], t, map[Greatest(A)])
    BY <2>2, <2>3, <2>4, Zenon
  <2>. QED BY <1>1, <2>2, <2>5, Zenon DEF Freeing
<1>10. PICK g : g = (CHOOSE k : Freeing(k, m, t)) /\ Freeing(g, m, t)
  BY <1>9
<1>11. \A A \in SUBSET (1 .. n) :
         g[A] = IF A = {} THEN m ELSE B!FreeEntry(g[A \ {Greatest(A)}], t, map[Greatest(A)])
  BY <1>1, <1>10, Zenon DEF Freeing
<1>12. LoopIn(g, X, m, F, n)
  <2>. SUFFICES ASSUME NEW A \in SUBSET (1 .. n)
                PROVE  /\ A = {} => g[A] = m
                       /\ A # {} /\ g[A \ {Greatest(A)}] \in X =>
                             g[A] = F[g[A \ {Greatest(A)}]][Greatest(A)]
    BY DEF LoopIn
  <2>1. A # {} => Greatest(A) \in 1 .. n
    BY GreatestFacts
  <2>. QED BY <1>5, <1>11, <2>1, Zenon
<1>13. g[1 .. n] \in X /\ \A f \in Open(g[1 .. n], t) : There(f)
  <2>1. PICK I : I = {p \in Nat \X X : \A f \in Open(p[2], t) : There(f)}
    OBVIOUS
  <2>2. \A j \in Nat : \A x \in X : <<j, x>> \in I <=> \A f \in Open(x, t) : There(f)
    BY <2>1
  <2>3. <<0, m>> \in I
    BY <1>8, <2>2
  <2>4. \A j \in 0 .. n - 1 : \A x \in X : <<j, x>> \in I => <<j + 1, F[x][j + 1]>> \in I
    <3>. SUFFICES ASSUME NEW j \in 0 .. n - 1, NEW x \in X, <<j, x>> \in I
                  PROVE  <<j + 1, F[x][j + 1]>> \in I
      OBVIOUS
    <3>1. j \in Nat /\ j + 1 \in Nat /\ j + 1 \in 1 .. n
      OBVIOUS
    <3>. QED BY <1>6, <2>2, <3>1, Zenon
  <2>5. g[1 .. n] \in X /\ <<n, g[1 .. n]>> \in I
    BY <1>7, <1>8, <1>12, <2>3, <2>4, LoopKeeps, Zenon
  <2>. QED BY <2>2, <2>5
<1>14. m2 = g[1 .. n]
  BY <1>1, <1>10, FreeEntriesIs, Zenon
<1>. QED BY <1>3, <1>13, <1>14

(* What reserves the fixed ranges.                                          *)
Reserving(g) ==
    g = [A \in SUBSET DOMAIN FixedRanges |->
            IF A = {} THEN fm
            ELSE B!frame_reserve_range(g[A \ {Greatest(A)}], FixedRanges[Greatest(A)][1],
                                       FixedRanges[Greatest(A)][2])]

(* It is Reserved.                                                          *)
LEMMA ReservedIs == B!Reserved = (CHOOSE g : Reserving(g))[DOMAIN FixedRanges]
BY DEF B!Reserved, B!FoldLeft, B!MapThenFoldSet, B!Max, Reserving, Greatest

(* It is in no fixed range.                                                 *)
AwayFixed(f) == \A i \in DOMAIN FixedRanges : Away(f, FixedRanges[i][1], FixedRanges[i][2])

(* m has no frame open that is in one of the first k ranges, or was not     *)
(* open before.                                                             *)
ReservedTo(k, m) ==
    /\ fm.counted \subseteq m.counted
    /\ Open(m, total_frames) \subseteq Open(fm, total_frames)
    /\ \A i \in 1 .. k : \A f \in Open(m, total_frames) :
          Away(f, FixedRanges[i][1], FixedRanges[i][2])

(* The next range.                                                          *)
LEMMA ReserveNext ==
    ASSUME NEW n \in Nat, DOMAIN FixedRanges = 1 .. n,
           \A i \in 1 .. n : FixedRanges[i] \in Nat \X Nat,
           total_frames \in 0 .. B!MAX_FRAMES,
           NEW j \in 0 .. n - 1, NEW m, Books(m, total_frames), ReservedTo(j, m),
           NEW m2,
           m2 = B!frame_reserve_range(m, FixedRanges[j + 1][1], FixedRanges[j + 1][2])
    PROVE  ReservedTo(j + 1, m2)
<1>1. PICK a \in Nat, b \in Nat : a = FixedRanges[j + 1][1] /\ b = FixedRanges[j + 1][2]
  <2>1. j + 1 \in 1 .. n
    OBVIOUS
  <2>. QED BY <2>1
<1>2. Reserve(m, total_frames, m2, a, b)
  <2>1. m2 = B!frame_reserve_range(m, a, b)
    BY <1>1, Zenon
  <2>. QED BY <2>1, ReserveRange
<1>3. ASSUME NEW i \in 1 .. j + 1, NEW f \in Open(m2, total_frames)
      PROVE  Away(f, FixedRanges[i][1], FixedRanges[i][2])
  <2>1. CASE i = j + 1
    BY <1>1, <1>2, <2>1 DEF Reserve
  <2>2. CASE i # j + 1
    <3>1. i \in 1 .. j
      BY <2>2
    <3>. QED BY <1>2, <3>1 DEF Reserve, ReservedTo
  <2>. QED BY <2>1, <2>2
<1>. QED BY <1>2, <1>3 DEF Reserve, ReservedTo

(* All of them.                                                             *)
LEMMA ReserveAll ==
    ASSUME total_frames \in 0 .. B!MAX_FRAMES, Books(fm, total_frames),
           NEW m2, m2 = B!Reserved
    PROVE  /\ Books(m2, total_frames) /\ fm.counted \subseteq m2.counted
           /\ Open(m2, total_frames) \subseteq Open(fm, total_frames)
           /\ \A f \in Open(m2, total_frames) : AwayFixed(f)
<1>1. PICK n \in Nat : /\ DOMAIN FixedRanges = 1 .. n
                       /\ \A i \in 1 .. n : FixedRanges[i] \in Nat \X Nat
  <2>1. FixedRanges \in Seq(Nat \X Nat)
    BY BootAssumption
  <2>2. /\ Len(FixedRanges) \in Nat /\ DOMAIN FixedRanges = 1 .. Len(FixedRanges)
        /\ \A i \in 1 .. Len(FixedRanges) : FixedRanges[i] \in Nat \X Nat
    BY <2>1
  <2>. QED BY <2>2
<1>2. PICK X : X = {k \in BookSet : Books(k, total_frames)}
  OBVIOUS
<1>3. \A k : k \in X <=> Books(k, total_frames)
  BY <1>2 DEF Books
<1>4. PICK F : F = [x \in X |-> [i \in 1 .. n |->
                      B!frame_reserve_range(x, FixedRanges[i][1], FixedRanges[i][2])]]
  OBVIOUS
<1>5. \A x \in X : \A i \in 1 .. n :
        F[x][i] = B!frame_reserve_range(x, FixedRanges[i][1], FixedRanges[i][2])
  BY <1>4
<1>6. ASSUME NEW x \in X, NEW i \in 1 .. n
      PROVE  F[x][i] \in X
  <2>1. PICK a \in Nat, b \in Nat : a = FixedRanges[i][1] /\ b = FixedRanges[i][2]
    BY <1>1
  <2>2. PICK y : y = F[x][i] /\ y = B!frame_reserve_range(x, a, b)
    BY <1>5, <2>1
  <2>3. Reserve(x, total_frames, y, a, b)
    BY <1>3, <2>2, ReserveRange
  <2>. QED BY <1>3, <2>2, <2>3 DEF Reserve
<1>7. \A x \in X : \A i \in 1 .. n : F[x][i] \in X
  BY <1>6
<1>8. fm \in X
  BY <1>3
<1>9. \E g : Reserving(g)
  <2>1. PICK h : (\A A \in SUBSET (1 .. n) : h[A] \in X) /\ Loop(h, fm, F, n)
    BY <1>7, <1>8, LoopsAll DEF Loops
  <2>2. PICK g : g = [A \in SUBSET (1 .. n) |-> h[A]]
    OBVIOUS
  <2>3. ASSUME NEW A \in SUBSET (1 .. n)
        PROVE  h[A] = IF A = {} THEN fm
                      ELSE B!frame_reserve_range(h[A \ {Greatest(A)}],
                             FixedRanges[Greatest(A)][1], FixedRanges[Greatest(A)][2])
    <3>1. CASE A # {}
      <4>1. Greatest(A) \in 1 .. n /\ A \ {Greatest(A)} \in SUBSET (1 .. n)
        BY <3>1, GreatestFacts
      <4>2. h[A] = F[h[A \ {Greatest(A)}]][Greatest(A)]
        BY <2>1, <3>1, Zenon DEF Loop
      <4>. QED BY <1>5, <2>1, <3>1, <4>1, <4>2, Zenon
    <3>2. CASE A = {}
      BY <2>1, <3>2, Zenon DEF Loop
    <3>. QED BY <3>1, <3>2
  <2>4. \A A \in SUBSET (1 .. n) : A \ {Greatest(A)} \in SUBSET (1 .. n)
    OBVIOUS
  <2>5. \A A \in SUBSET (1 .. n) :
          h[A] = IF A = {} THEN fm
                 ELSE B!frame_reserve_range(g[A \ {Greatest(A)}],
                        FixedRanges[Greatest(A)][1], FixedRanges[Greatest(A)][2])
    BY <2>2, <2>3, <2>4, Zenon
  <2>. QED BY <1>1, <2>2, <2>5, Zenon DEF Reserving
<1>10. PICK g : g = (CHOOSE k : Reserving(k)) /\ Reserving(g)
  BY <1>9
<1>11. \A A \in SUBSET (1 .. n) :
         g[A] = IF A = {} THEN fm
                ELSE B!frame_reserve_range(g[A \ {Greatest(A)}],
                       FixedRanges[Greatest(A)][1], FixedRanges[Greatest(A)][2])
  BY <1>1, <1>10, Zenon DEF Reserving
<1>12. LoopIn(g, X, fm, F, n)
  <2>. SUFFICES ASSUME NEW A \in SUBSET (1 .. n)
                PROVE  /\ A = {} => g[A] = fm
                       /\ A # {} /\ g[A \ {Greatest(A)}] \in X =>
                             g[A] = F[g[A \ {Greatest(A)}]][Greatest(A)]
    BY DEF LoopIn
  <2>1. A # {} => Greatest(A) \in 1 .. n
    BY GreatestFacts
  <2>. QED BY <1>5, <1>11, <2>1, Zenon
<1>13. g[1 .. n] \in X /\ ReservedTo(n, g[1 .. n])
  <2>1. PICK I : I = {p \in Nat \X X : ReservedTo(p[1], p[2])}
    OBVIOUS
  <2>2. \A j \in Nat : \A x \in X : <<j, x>> \in I <=> ReservedTo(j, x)
    BY <2>1
  <2>3. <<0, fm>> \in I
    <3>1. ReservedTo(0, fm)
      BY DEF ReservedTo
    <3>. QED BY <1>8, <2>2, <3>1
  <2>4. \A j \in 0 .. n - 1 : \A x \in X : <<j, x>> \in I => <<j + 1, F[x][j + 1]>> \in I
    <3>. SUFFICES ASSUME NEW j \in 0 .. n - 1, NEW x \in X, <<j, x>> \in I
                  PROVE  <<j + 1, F[x][j + 1]>> \in I
      OBVIOUS
    <3>1. j \in Nat /\ j + 1 \in Nat /\ j + 1 \in 1 .. n
      OBVIOUS
    <3>2. PICK y : y = F[x][j + 1]
      OBVIOUS
    <3>3. Books(x, total_frames) /\ ReservedTo(j, x)
      BY <1>3, <2>2, <3>1
    <3>4. y = B!frame_reserve_range(x, FixedRanges[j + 1][1], FixedRanges[j + 1][2])
      BY <1>5, <3>1, <3>2, Zenon
    <3>5. ReservedTo(j + 1, y)
      BY <1>1, <3>3, <3>4, ReserveNext
    <3>6. y \in X
      BY <1>6, <3>1, <3>2
    <3>. QED BY <2>2, <3>1, <3>2, <3>5, <3>6
  <2>5. g[1 .. n] \in X /\ <<n, g[1 .. n]>> \in I
    BY <1>7, <1>8, <1>12, <2>3, <2>4, LoopKeeps, Zenon
  <2>. QED BY <2>2, <2>5
<1>14. m2 = g[1 .. n]
  BY <1>1, <1>10, ReservedIs, Zenon
<1>. QED BY <1>1, <1>3, <1>13, <1>14 DEF ReservedTo, AwayFixed

-----------------------------------------------------------------------------
(* The loader *)

(* The i-th sector of the image and the paragraph it belongs at.            *)
SectorAt(i) == [seg |-> KERNEL_OFFSET \div PARAGRAPH + (i - 1) * PARAS,
                lba |-> KERNEL_LBA_START + i - 1]

(* The image so far: the first n sectors, one behind the other.             *)
Loaded(n) == [i \in 1 .. n |-> SectorAt(i)]

(* A chunk of k sectors, read from lba on to the paragraphs from seg on.    *)
ChunkAt(seg, lba, k) == [i \in 1 .. k |-> [seg |-> seg + (i - 1) * PARAS, lba |-> lba + i - 1]]

(* Where the first n sectors end, in memory and on the disk.                *)
LoadedTo(n, seg, lba) ==
    seg = KERNEL_OFFSET \div PARAGRAPH + n * PARAS /\ lba = KERNEL_LBA_START + n

(* That chunk goes on where the first n sectors end.                        *)
GoesOn(n, seg, lba, k) ==
    /\ Loaded(n) \o ChunkAt(seg, lba, k) = Loaded(n + k)
    /\ LoadedTo(n + k, seg + k * PARAS, lba + k)

(* It does when it begins there.                                            *)
LEMMA LoadedMore ==
    ASSUME NEW n \in Nat, NEW k \in Nat, NEW seg, NEW lba, LoadedTo(n, seg, lba)
    PROVE  GoesOn(n, seg, lba, k)
<1>0. seg = KERNEL_OFFSET \div PARAGRAPH + n * PARAS /\ lba = KERNEL_LBA_START + n
  BY DEF LoadedTo
<1>1. PICK a \in Nat : a = KERNEL_OFFSET \div PARAGRAPH
  <2>1. PICK x \in Nat : x = KERNEL_OFFSET
    BY BootConstants
  <2>2. PICK y \in Nat : y = PARAGRAPH /\ y > 0
    <3>1. PARAGRAPH \in Nat \ {0}
      BY BootAssumption DEF Positive
    <3>. QED BY <3>1
  <2>3. x \div y \in Nat
    BY <2>2
  <2>. QED BY <2>1, <2>2, <2>3
<1>2. PICK d \in Nat, l \in Nat : d = PARAS /\ l = KERNEL_LBA_START
  <2>1. PARAS \in Nat
    BY BootAssumption DEF Positive
  <2>2. KERNEL_LBA_START \in Nat
    BY BootAssumption
  <2>. QED BY <2>1, <2>2
<1>3. ASSUME NEW i \in Nat
      PROVE  i * d \in Nat /\ (n + i) * d = n * d + i * d /\ n * d \in Nat
  OBVIOUS
<1>4. seg + k * PARAS = a + (n + k) * d
  BY <1>0, <1>1, <1>2, <1>3
<1>5. \A i : SectorAt(i) = [seg |-> a + (i - 1) * d, lba |-> l + i - 1]
  BY <1>1, <1>2 DEF SectorAt
<1>6. PICK S0 : S0 = [seg : Nat, lba : Nat]
  OBVIOUS
<1>7. PICK t : t = ChunkAt(seg, lba, k)
  OBVIOUS
<1>8. ASSUME NEW i \in 1 .. k PROVE t[i] = SectorAt(n + i) /\ t[i] \in S0
  <2>1. PICK j \in Nat : i = j + 1
    <3>1. i - 1 \in Nat /\ i = (i - 1) + 1
      OBVIOUS
    <3>. QED BY <3>1
  <2>2. i - 1 = j /\ (n + i) - 1 = n + j /\ lba + i - 1 = l + (n + i) - 1
        /\ lba + i - 1 \in Nat
    BY <1>0, <1>2, <2>1
  <2>3. j * d \in Nat /\ (n + j) * d = n * d + j * d /\ n * d \in Nat
    BY <1>3
  <2>4. seg + j * d = a + (n + j) * d /\ seg + j * d \in Nat
    BY <1>0, <1>1, <1>2, <2>3
  <2>5. t[i] = [seg |-> seg + (i - 1) * PARAS, lba |-> lba + i - 1]
    BY <1>7 DEF ChunkAt
  <2>6. t[i] = [seg |-> seg + j * d, lba |-> lba + i - 1]
    BY <1>2, <2>2, <2>5, Zenon
  <2>7. SectorAt(n + i) = [seg |-> a + (n + j) * d, lba |-> l + (n + i) - 1]
    BY <1>5, <2>2, Zenon
  <2>8. t[i] = SectorAt(n + i)
    BY <2>2, <2>4, <2>6, <2>7, Zenon
  <2>9. t[i] \in S0
    BY <1>6, <2>2, <2>4, <2>6
  <2>. QED BY <2>8, <2>9
<1>9. t \in Seq(S0) /\ Len(t) = k
  BY <1>7, <1>8 DEF ChunkAt
<1>10. ASSUME NEW m \in Nat
       PROVE  /\ Loaded(m) \in Seq(S0) /\ Len(Loaded(m)) = m
              /\ \A i \in 1 .. m : Loaded(m)[i] = SectorAt(i)
  <2>1. ASSUME NEW i \in 1 .. m PROVE SectorAt(i) \in S0
    <3>1. i - 1 \in Nat /\ (i - 1) * d \in Nat
      <4>1. PICK j \in Nat : j = i - 1
        OBVIOUS
      <4>2. j * d \in Nat
        BY <1>3
      <4>. QED BY <4>1, <4>2
    <3>2. a + (i - 1) * d \in Nat /\ l + i - 1 \in Nat
      BY <3>1
    <3>. QED BY <1>5, <1>6, <3>2
  <2>2. PICK f : f = Loaded(m)
    OBVIOUS
  <2>3. f = [i \in 1 .. m |-> SectorAt(i)]
    BY <2>2 DEF Loaded
  <2>4. f \in [1 .. m -> S0] /\ \A i \in 1 .. m : f[i] = SectorAt(i)
    BY <2>1, <2>3
  <2>5. f \in Seq(S0) /\ Len(f) = m
    BY <2>4
  <2>. QED BY <2>2, <2>4, <2>5
<1>11. PICK p : p = Loaded(n) /\ p \in Seq(S0) /\ Len(p) = n /\ \A i \in 1 .. n : p[i] = SectorAt(i)
  BY <1>10
<1>12. PICK q : q = Loaded(n + k) /\ q \in Seq(S0) /\ Len(q) = n + k
                /\ \A i \in 1 .. n + k : q[i] = SectorAt(i)
  BY <1>10
<1>13. PICK r : r = p \o t
  OBVIOUS
<1>14. /\ r \in Seq(S0) /\ Len(r) = n + k
       /\ \A i \in 1 .. n + k : r[i] = IF i <= n THEN p[i] ELSE t[i - n]
  <2>1. /\ r \in Seq(S0) /\ Len(r) = Len(p) + Len(t)
        /\ \A i \in 1 .. Len(p) + Len(t) : r[i] = IF i <= Len(p) THEN p[i] ELSE t[i - Len(p)]
    BY <1>9, <1>11, <1>13, ConcatProperties, Zenon
  <2>2. Len(p) = n /\ Len(t) = k
    BY <1>9, <1>11
  <2>. QED BY <2>1, <2>2, Zenon
<1>15. ASSUME NEW i \in 1 .. n + k PROVE r[i] = q[i]
  <2>1. r[i] = IF i <= n THEN p[i] ELSE t[i - n]
    BY <1>14
  <2>2. CASE i <= n
    BY <1>11, <1>12, <2>1, <2>2
  <2>3. CASE ~(i <= n)
    <3>1. PICK j \in 1 .. k : j = i - n /\ i = n + j
      BY <2>3
    <3>. QED BY <1>8, <1>12, <2>1, <2>3, <3>1
  <2>. QED BY <2>2, <2>3
<1>16. r = q
  <2>1. \A i \in 1 .. Len(r) : r[i] = q[i]
    BY <1>15, <1>14
  <2>. QED BY <1>12, <1>14, <2>1, SeqEqual
<1>17. LoadedTo(n + k, seg + k * PARAS, lba + k)
  BY <1>0, <1>1, <1>2, <1>4 DEF LoadedTo
<1>18. Loaded(n) \o ChunkAt(seg, lba, k) = Loaded(n + k)
  BY <1>7, <1>11, <1>12, <1>13, <1>16, Zenon
<1>. QED BY <1>17, <1>18 DEF GoesOn

-----------------------------------------------------------------------------
(* frame_init *)

(* Where memory ends: without a map, not behind what CMOS reports.          *)
LEMMA HighestFacts ==
    ASSUME map \in Seq(B!Entry), total_kb \in Nat
    PROVE  B!Highest \in Nat /\ (map = <<>> => B!Highest <= total_kb * KB)
<1>1. PICK w \in Nat : w = B!highest_memory_from_e820 /\ (map = <<>> => w = 0)
  BY HighestNat
<1>2. PICK u \in Nat, k \in Nat, l \in Nat, y \in Nat :
        u = UINT32 /\ u > 0 /\ k = KB /\ l = MAX_TRACKED_MEMORY /\ y = MB16
  BY BootConstants
<1>3. PICK x \in Nat : x = total_kb * k
  OBVIOUS
<1>4. x % u \in Nat /\ x % u <= x
  BY <1>2
<1>5. B!Highest = IF w >= y THEN w ELSE B!Smaller(x % u, l)
  BY <1>1, <1>2, <1>3, Zenon DEF B!Highest, B!Tracked
<1>. QED BY <1>1, <1>2, <1>3, <1>4, <1>5 DEF B!Smaller

(* It is, and not where the kernel lies or what it uses below.              *)
Clean(f) == There(f) /\ Away(f, 0, RESERVED_LOW_END) /\ Away(f, KERNEL_OFFSET, KERNEL_END)

(* The books before any frame is free.                                      *)
AllTaken(t) == [bits |-> B!Frame, counted |-> 0 .. t - 1, used |-> t]

(* They agree.                                                              *)
LEMMA AllTakenBooks ==
    ASSUME NEW t \in 0 .. B!MAX_FRAMES
    PROVE  Books(AllTaken(t), t) /\ Open(AllTaken(t), t) = {}
<1>1. PICK n \in Nat : n = B!MAX_FRAMES /\ B!Frame = 0 .. n - 1
  BY BootConstants
<1>2. t \in Nat /\ 0 .. t - 1 \subseteq 0 .. n - 1
  BY <1>1
<1>3. Cardinality(0 .. t - 1) = t
  <2>1. 0 \in Int /\ t - 1 \in Int
    BY <1>2
  <2>2. Cardinality(0 .. t - 1) = IF 0 > t - 1 THEN 0 ELSE (t - 1) - 0 + 1
    BY <2>1, FS_Interval, Zenon
  <2>. QED BY <1>2, <2>2
<1>. QED BY <1>1, <1>2, <1>3 DEF Books, BookSet, Open, AllTaken

(* The frames set free first are there.                                     *)
LEMMA FreedThere ==
    ASSUME map \in Seq(B!Entry), total_kb \in Nat,
           NEW t \in 0 .. B!MAX_FRAMES, t = B!Smaller(B!Highest \div FRAME_SIZE, B!MAX_FRAMES),
           NEW m, m = IF B!e820_is_available THEN B!FreeEntries(AllTaken(t), t)
                      ELSE B!mark_free(AllTaken(t), t, 0, t * FRAME_SIZE)
    PROVE  Books(m, t) /\ \A f \in Open(m, t) : There(f)
<1>1. PICK a : a = AllTaken(t) /\ Books(a, t) /\ Open(a, t) = {}
  BY AllTakenBooks
<1>2. B!e820_is_available <=> map # <<>>
  BY DEF B!e820_is_available
<1>3. CASE map # <<>>
  <2>1. m = B!FreeEntries(a, t)
    BY <1>1, <1>2, <1>3, Zenon
  <2>. QED BY <1>1, <1>3, <2>1, FreeAll
<1>4. CASE map = <<>>
  <2>1. PICK h \in Nat : h = B!Highest /\ h <= total_kb * KB
    BY <1>4, HighestFacts
  <2>2. PICK d \in Nat : d = FRAME_SIZE /\ d > 0
    BY BootConstants
  <2>3. PICK q \in Nat : q = h \div d /\ q * d <= h
    BY <2>2
  <2>4. t \in Nat /\ t <= q
    <3>1. B!MAX_FRAMES \in Nat
      BY BootConstants
    <3>. QED BY <2>1, <2>2, <2>3, <3>1 DEF B!Smaller
  <2>5. t * d \in Nat /\ t * d <= q * d /\ q * d \in Nat
    BY <2>4, MoreBytes
  <2>6. PICK z \in Nat : z = t * FRAME_SIZE /\ z <= h
    BY <2>2, <2>3, <2>5
  <2>7. m = B!mark_free(a, t, 0, z)
    BY <1>1, <1>2, <1>4, <2>6, Zenon
  <2>8. /\ Books(m, t)
        /\ \A f \in Open(m, t) : f \in Open(a, t) \/ B!Bytes(f) \subseteq B!Taken(0, z)
    BY <1>1, <2>7, MarkFree
  <2>9. PICK y \in Nat : y = total_kb * KB /\ z <= y
    <3>1. KB \in Nat
      BY BootConstants
    <3>2. total_kb * KB \in Nat
      BY <3>1
    <3>. QED BY <2>1, <2>6, <3>2
  <2>10. B!Taken(0, z) \subseteq B!Taken(0, total_kb * KB)
    BY <2>9 DEF B!Taken
  <2>. QED BY <1>1, <1>2, <1>4, <2>8, <2>10 DEF There
<1>. QED BY <1>3, <1>4

(* frame_init leaves clean frames open.                                     *)
LEMMA FrameInit ==
    ASSUME map \in Seq(B!Entry), total_kb \in Nat, B!frame_init
    PROVE  /\ total_frames' \in 0 .. B!MAX_FRAMES
           /\ Books(fm', total_frames')
           /\ \A f \in Open(fm', total_frames') : Clean(f)
<1>1. PICK t : t = B!Smaller(B!Highest \div FRAME_SIZE, B!MAX_FRAMES)
  OBVIOUS
<1>2. t \in 0 .. B!MAX_FRAMES
  <2>1. PICK h \in Nat, d \in Nat, n \in Nat :
          h = B!Highest /\ d = FRAME_SIZE /\ d > 0 /\ n = B!MAX_FRAMES
    BY HighestFacts, BootConstants
  <2>2. h \div d \in Nat
    BY <2>1
  <2>. QED BY <1>1, <2>1, <2>2 DEF B!Smaller
<1>3. PICK a : a = IF B!e820_is_available THEN B!FreeEntries(AllTaken(t), t)
                   ELSE B!mark_free(AllTaken(t), t, 0, t * FRAME_SIZE)
  OBVIOUS
<1>4. PICK b : b = B!mark_allocated(a, t, 0, RESERVED_LOW_END)
  OBVIOUS
<1>5. PICK k : k = B!mark_allocated(b, t, KERNEL_OFFSET, KERNEL_END)
  OBVIOUS
<1>6. total_frames' = t /\ fm' = k
  BY <1>1, <1>3, <1>4, <1>5, Zenon DEF B!frame_init, AllTaken
<1>7. Books(a, t) /\ \A f \in Open(a, t) : There(f)
  BY <1>1, <1>2, <1>3, FreedThere
<1>8. RESERVED_LOW_END \in Nat /\ KERNEL_OFFSET \in Nat /\ KERNEL_END \in Nat /\ 0 \in Nat
  BY BootConstants
<1>9. Reserve(a, t, b, 0, RESERVED_LOW_END)
  BY <1>2, <1>4, <1>7, <1>8, MarkAllocated
<1>10. Reserve(b, t, k, KERNEL_OFFSET, KERNEL_END)
  <2>1. Books(b, t)
    BY <1>9 DEF Reserve
  <2>. QED BY <1>2, <1>5, <1>8, <2>1, MarkAllocated
<1>11. ASSUME NEW f \in Open(k, t) PROVE Clean(f)
  BY <1>7, <1>9, <1>10 DEF Reserve, Clean
<1>. QED BY <1>2, <1>6, <1>10, <1>11 DEF Reserve

-----------------------------------------------------------------------------
(* From the BIOS to the first free frame                                   *)

(* load_kernel has read that many, and has them all when it is over.        *)
LoaderInv ==
    /\ sectors_left \in 0 .. KERNEL_SECTORS
    /\ image = Loaded(KERNEL_SECTORS - sectors_left)
    /\ current_lba = KERNEL_LBA_START + (KERNEL_SECTORS - sectors_left)
    /\ dest_seg = KERNEL_OFFSET \div PARAGRAPH + (KERNEL_SECTORS - sectors_left) * PARAS
    /\ stage \notin {"detect_e820", "load_kernel", "disk_error"} => sectors_left = 0

(* What is known of the size of memory.                                     *)
SizeInv == map \in Seq(B!Entry) /\ total_kb \in Nat /\ total_frames \in 0 .. B!MAX_FRAMES

(* The stages from which on a reservation has been made.                    *)
Framed == {"kernel_main", "ramdisk_init", "RAMDISK_INIT_FATAL", "up"}

(* The frames given away and those that may be are clean, and away from     *)
(* what has been reserved so far; before the ramdisk is, what was given     *)
(* away came from below it.                                                 *)
FramesInv ==
    /\ stage \notin Framed \ {"kernel_main"} => handed = {}
    /\ stage \in Framed =>
          /\ Books(fm, total_frames) /\ handed \subseteq fm.counted
          /\ \A f \in Open(fm, total_frames) \cup handed : Clean(f)
    /\ stage \in Framed \ {"kernel_main"} =>
          \A f \in Open(fm, total_frames) \cup handed : AwayFixed(f)
    /\ \A f \in handed : Away(f, RAMDISK_BASE, RAMDISK_END)
    /\ stage = "up" => \A f \in Open(fm, total_frames) : Away(f, RAMDISK_BASE, RAMDISK_END)

BootInv == LoaderInv /\ SizeInv /\ FramesInv

(* It is what was asked for.                                                *)
LEMMA BootInvSound ==
    ASSUME BootInv
    PROVE  B!BootSound
<1>1. B!KernelLoaded
  <2>1. KERNEL_SECTORS \in Nat
    BY BootAssumption DEF Positive
  <2>2. stage \notin {"detect_e820", "load_kernel", "disk_error"} => image = Loaded(KERNEL_SECTORS)
    BY <2>1 DEF BootInv, LoaderInv
  <2>. QED BY <2>2, Zenon DEF B!KernelLoaded, Loaded, SectorAt
<1>2. B!FramesUsable
  <2>. SUFFICES ASSUME NEW f \in handed
                PROVE  Clean(f) /\ AwayFixed(f) /\ Away(f, RAMDISK_BASE, RAMDISK_END)
    BY Zenon DEF B!FramesUsable, Clean, There, Away, AwayFixed
  <2>1. stage \in Framed \ {"kernel_main"}
    BY DEF BootInv, FramesInv
  <2>. QED BY <2>1 DEF BootInv, FramesInv
<1>3. B!CountsAgree
  <2>. SUFFICES ASSUME stage \in {"kernel_main", "ramdisk_init", "up"}
                PROVE  /\ fm.counted = fm.bits \cap (0 .. total_frames - 1)
                       /\ fm.used = B!Cardinality(fm.counted)
                       /\ handed \subseteq fm.counted
    BY DEF B!CountsAgree
  <2>1. Books(fm, total_frames) /\ handed \subseteq fm.counted
    BY DEF BootInv, FramesInv, Framed
  <2>. QED BY <2>1, BootCardinality DEF Books
<1>. QED BY <1>1, <1>2, <1>3 DEF B!BootSound

(* At first nothing is loaded and no frame known.                           *)
LEMMA BootInit ==
    ASSUME B!Init
    PROVE  BootInv
<1>0. KERNEL_SECTORS \in Nat /\ KERNEL_LBA_START \in Nat /\ PARAS \in Nat
  BY BootAssumption DEF Positive
<1>1. LoaderInv
  <2>1. sectors_left \in 0 .. KERNEL_SECTORS /\ KERNEL_SECTORS - sectors_left = 0
    BY <1>0 DEF B!Init
  <2>2. Loaded(0) = <<>>
    BY DEF Loaded
  <2>3. KERNEL_OFFSET \div PARAGRAPH \in Int
    <3>1. KERNEL_OFFSET \in Nat /\ PARAGRAPH \in Nat \ {0}
      BY BootAssumption DEF Positive
    <3>. QED BY <3>1
  <2>4. 0 * PARAS = 0
    BY <1>0
  <2>. QED BY <1>0, <2>1, <2>2, <2>3, <2>4 DEF B!Init, LoaderInv
<1>2. SizeInv
  BY BootConstants DEF B!Init, SizeInv
<1>3. FramesInv
  BY DEF B!Init, FramesInv, Framed
<1>. QED BY <1>1, <1>2, <1>3 DEF BootInv

(* The stages before the frames.                                            *)
LEMMA BootEarly ==
    ASSUME BootInv, B!detect_e820 \/ B!load_kernel \/ B!switch_to_pm \/ B!memory_init
    PROVE  BootInv'
<1>1. CASE B!detect_e820
  <2>1. stage = "detect_e820" /\ stage' \in {"detect_e820", "load_kernel"}
    BY <1>1, Zenon DEF B!detect_e820
  <2>2. map' \in Seq(B!Entry)
    BY <1>1 DEF B!detect_e820, BootInv, SizeInv
  <2>3. UNCHANGED <<sectors_left, current_lba, dest_seg, image, total_kb, total_frames, fm, handed>>
    BY <1>1 DEF B!detect_e820, B!loader
  <2>. QED BY <2>1, <2>2, <2>3 DEF BootInv, LoaderInv, Loaded, SizeInv, FramesInv, Framed
<1>2. CASE B!load_kernel
  <2>0. KERNEL_SECTORS \in Nat /\ KERNEL_CHUNK_SECTORS \in Nat /\ KERNEL_LBA_START \in Nat
    BY BootAssumption DEF Positive
  <2>1. stage = "load_kernel" /\ stage' \in {"load_kernel", "disk_error"} /\ sectors_left > 0
    BY <1>2, Zenon DEF B!load_kernel
  <2>2. UNCHANGED <<map, total_kb, total_frames, fm, handed>>
    BY <1>2 DEF B!load_kernel
  <2>3. LoaderInv'
    <3>1. CASE UNCHANGED B!loader
      BY <2>1, <3>1 DEF B!loader, BootInv, LoaderInv, Loaded
    <3>2. CASE /\ image' = image \o [i \in 1 .. B!Chunk |->
                         [seg |-> dest_seg + (i - 1) * PARAS, lba |-> current_lba + i - 1]]
               /\ current_lba' = current_lba + B!Chunk
               /\ sectors_left' = sectors_left - B!Chunk
               /\ dest_seg' = dest_seg + B!Chunk * PARAS
      <4>1. PICK k \in Nat : k = B!Chunk /\ k <= sectors_left
        BY <2>0 DEF B!Chunk, BootInv, LoaderInv
      <4>2. PICK n \in Nat : n = KERNEL_SECTORS - sectors_left
        BY <2>0 DEF BootInv, LoaderInv
      <4>3. /\ image = Loaded(n) /\ LoadedTo(n, dest_seg, current_lba)
            /\ sectors_left \in 0 .. KERNEL_SECTORS
        BY <4>2 DEF BootInv, LoaderInv, LoadedTo
      <4>4. /\ image' = Loaded(n) \o ChunkAt(dest_seg, current_lba, k)
            /\ dest_seg' = dest_seg + k * PARAS /\ current_lba' = current_lba + k
        BY <3>2, <4>1, <4>3, Zenon DEF ChunkAt
      <4>5. GoesOn(n, dest_seg, current_lba, k)
        BY <4>1, <4>2, <4>3, LoadedMore, Zenon
      <4>6. KERNEL_SECTORS - sectors_left' = n + k /\ sectors_left' \in 0 .. KERNEL_SECTORS
        BY <2>0, <3>2, <4>1, <4>2, <4>3
      <4>7. LoaderInv'
        <5>1. image' = Loaded(KERNEL_SECTORS - sectors_left')
          BY <4>4, <4>5, <4>6, Zenon DEF GoesOn
        <5>2. dest_seg' = KERNEL_OFFSET \div PARAGRAPH + (KERNEL_SECTORS - sectors_left') * PARAS
          BY <4>4, <4>5, <4>6, Zenon DEF GoesOn, LoadedTo
        <5>3. current_lba' = KERNEL_LBA_START + (KERNEL_SECTORS - sectors_left')
          BY <4>4, <4>5, <4>6, Zenon DEF GoesOn, LoadedTo
        <5>. QED BY <2>1, <4>6, <5>1, <5>2, <5>3, Zenon DEF LoaderInv, Loaded, SectorAt
      <4>. QED BY <4>7
    <3>. QED BY <1>2, <3>1, <3>2, Zenon DEF B!load_kernel
  <2>. QED BY <2>1, <2>2, <2>3 DEF BootInv, SizeInv, FramesInv, Framed
<1>3. CASE B!switch_to_pm
  BY <1>3 DEF B!switch_to_pm, B!loader, BootInv, LoaderInv, Loaded, SizeInv, FramesInv, Framed
<1>4. CASE B!memory_init
  <2>1. /\ stage = "memory_init" /\ stage' = "frame_init"
        /\ UNCHANGED <<map, sectors_left, current_lba, dest_seg, image, total_frames, fm, handed>>
    BY <1>4 DEF B!memory_init, B!loader
  <2>2. PICK k \in Nat : k = KB /\ k > 0
    <3>1. KB \in Nat \ {0}
      BY BootConstants
    <3>. QED BY <3>1
  <2>3. total_kb' \in Nat
    <3>1. CASE total_kb' = B!e820_get_total_usable_memory \div KB
      <4>1. PICK n \in Nat : n = B!e820_get_total_usable_memory
        BY TotalNat DEF BootInv, SizeInv
      <4>2. n \div k \in Nat
        BY <2>2
      <4>. QED BY <2>2, <3>1, <4>1, <4>2
    <3>2. CASE \E below \in CmosBelow, above \in CmosAbove : total_kb' = B!CmosTotal(below, above)
      <4>1. PICK x \in CmosBelow, y \in CmosAbove : total_kb' = B!CmosTotal(x, y)
        BY <3>2
      <4>2. x \in Nat /\ y \in Nat /\ CMOS_BLOCK \in Nat /\ MB \in Nat /\ MB16 \in Nat
        BY BootAssumption DEF Positive
      <4>3. PICK z \in Nat : z = MB16 \div k
        <5>1. PICK v \in Nat : v = MB16
          BY <4>2
        <5>2. v \div k \in Nat
          BY <2>2
        <5>. QED BY <5>1, <5>2
      <4>4. y * CMOS_BLOCK \in Nat
        BY <4>2
      <4>. QED BY <2>2, <4>1, <4>2, <4>3, <4>4 DEF B!CmosTotal
    <3>. QED BY <1>4, <3>1, <3>2, Zenon DEF B!memory_init
  <2>. QED BY <2>1, <2>3 DEF BootInv, LoaderInv, Loaded, SizeInv, FramesInv, Framed
<1>. QED BY <1>1, <1>2, <1>3, <1>4

(* The loader is done in the later stages.                                  *)
LEMMA LoaderDone ==
    ASSUME BootInv, stage \notin {"detect_e820", "load_kernel", "disk_error"},
           UNCHANGED <<sectors_left, current_lba, dest_seg, image>>
    PROVE  LoaderInv'
BY DEF BootInv, LoaderInv, Loaded, SectorAt

(* The frames before the ramdisk is reserved.                               *)
LEMMA BootFrames ==
    ASSUME BootInv, B!frame_init \/ B!paging_init
    PROVE  BootInv'
<1>1. CASE B!frame_init
  <2>1. /\ stage = "frame_init" /\ stage' = "kernel_main"
        /\ UNCHANGED <<sectors_left, current_lba, dest_seg, image, map, total_kb, handed>>
    BY <1>1 DEF B!frame_init, B!loader
  <2>2. /\ total_frames' \in 0 .. B!MAX_FRAMES /\ Books(fm', total_frames')
        /\ \A f \in Open(fm', total_frames') : Clean(f)
    BY <1>1, FrameInit DEF BootInv, SizeInv
  <2>3. handed = {}
    BY <2>1 DEF BootInv, FramesInv, Framed
  <2>4. \A f : Clean(f)' <=> Clean(f)
    BY <2>1 DEF Clean, There, Away, B!e820_is_available, B!Bytes, B!Taken
  <2>5. FramesInv'
    BY <2>1, <2>2, <2>3, <2>4 DEF FramesInv, Framed, Books, BookSet, Open
  <2>6. LoaderInv'
    BY <2>1, LoaderDone
  <2>7. SizeInv'
    BY <2>1, <2>2 DEF BootInv, SizeInv
  <2>. QED BY <2>5, <2>6, <2>7 DEF BootInv
<1>2. CASE B!paging_init
  <2>1. /\ stage = "kernel_main" /\ stage' = "ramdisk_init"
        /\ UNCHANGED <<sectors_left, current_lba, dest_seg, image, map, total_kb, total_frames>>
    BY <1>2 DEF B!paging_init, B!loader
  <2>2. PICK m, G : /\ m = B!Reserved /\ G = B!frame_alloc_below(m, IDENTITY_MAPPED_LIMIT)
                    /\ fm' = B!Take(m, G) /\ handed' = handed \cup G
    BY <1>2 DEF B!paging_init
  <2>3. PICK t \in 0 .. B!MAX_FRAMES : t = total_frames
    BY DEF BootInv, SizeInv
  <2>4. /\ Books(fm, t) /\ handed = {}
        /\ \A f \in Open(fm, t) : Clean(f)
    BY <2>1, <2>3 DEF BootInv, FramesInv, Framed
  <2>5. /\ Books(m, t) /\ Open(m, t) \subseteq Open(fm, t)
        /\ \A f \in Open(m, t) : AwayFixed(f)
    BY <2>2, <2>3, <2>4, ReserveAll
  <2>6. PICK l \in Nat, r \in Nat : l = IDENTITY_MAPPED_LIMIT /\ r = RAMDISK_BASE /\ l <= r
    BY BootConstants, BootAssumption
  <2>7. G \subseteq Open(m, t) /\ \A f \in G : B!Bytes(f) \subseteq 0 .. l - 1
    BY <2>2, <2>3, <2>6, AllocBelow
  <2>8. PICK m2 : m2 = fm' /\ Books(m2, t) /\ Open(m2, t) = Open(m, t) \ G /\ m2.counted = m.counted \cup G
    BY <2>2, <2>5, <2>7, TakeOpen DEF TakenFrom
  <2>9. \A f \in G : Away(f, RAMDISK_BASE, RAMDISK_END)
    <3>1. \A x \in B!Taken(RAMDISK_BASE, RAMDISK_END) : x \notin 0 .. l - 1
      <4>1. RAMDISK_END \in Nat
        BY BootConstants
      <4>. QED BY <2>6, <4>1 DEF B!Taken
    <3>. QED BY <2>7, <3>1 DEF Away
  <2>10. \A f : Clean(f)' <=> Clean(f)
    BY <2>1 DEF Clean, There, Away, B!e820_is_available, B!Bytes, B!Taken
  <2>11. \A f \in Open(m2, t) \cup G : Clean(f) /\ AwayFixed(f)
    BY <2>4, <2>5, <2>7, <2>8
  <2>12. FramesInv'
    <3>1. handed' = G /\ fm' = m2 /\ total_frames' = t
      BY <2>1, <2>2, <2>3, <2>4, <2>8
    <3>2. Books(m2, t) /\ G \subseteq m2.counted
      BY <2>8
    <3>. QED BY <2>1, <2>9, <2>10, <2>11, <3>1, <3>2
         DEF FramesInv, Framed, Books, BookSet, Open, AwayFixed, Away, B!Bytes, B!Taken
  <2>13. LoaderInv'
    BY <2>1, LoaderDone
  <2>14. SizeInv'
    BY <2>1 DEF BootInv, SizeInv
  <2>. QED BY <2>12, <2>13, <2>14 DEF BootInv
<1>. QED BY <1>1, <1>2

(* The ramdisk, and the frames given away before it.                        *)
LEMMA BootRamdisk ==
    ASSUME BootInv, B!ramdisk_init
    PROVE  BootInv'
<1>1. /\ stage = "ramdisk_init" /\ stage' \in {"up", "RAMDISK_INIT_FATAL"}
      /\ UNCHANGED <<sectors_left, current_lba, dest_seg, image, map, total_kb, total_frames>>
  BY DEF B!ramdisk_init, B!loader
<1>2. PICK m, G : /\ m = B!frame_reserve_range(fm, RAMDISK_BASE, RAMDISK_END)
                  /\ G = B!frame_alloc_below(m, IDENTITY_MAPPED_LIMIT)
                  /\ \/ fm' = B!Take(m, G) /\ handed' = handed \cup G
                     \/ fm' = m /\ handed' = handed
  BY DEF B!ramdisk_init
<1>3. PICK t \in 0 .. B!MAX_FRAMES : t = total_frames
  BY DEF BootInv, SizeInv
<1>4. /\ Books(fm, t) /\ handed \subseteq fm.counted
      /\ \A f \in Open(fm, t) \cup handed : Clean(f) /\ AwayFixed(f)
      /\ \A f \in handed : Away(f, RAMDISK_BASE, RAMDISK_END)
  BY <1>1, <1>3 DEF BootInv, FramesInv, Framed
<1>5. Reserve(fm, t, m, RAMDISK_BASE, RAMDISK_END)
  <2>1. RAMDISK_BASE \in Nat /\ RAMDISK_END \in Nat
    BY BootConstants
  <2>. QED BY <1>2, <1>3, <1>4, <2>1, ReserveRange
<1>6. /\ Books(m, t) /\ fm.counted \subseteq m.counted /\ Open(m, t) \subseteq Open(fm, t)
      /\ \A f \in Open(m, t) : Away(f, RAMDISK_BASE, RAMDISK_END)
  BY <1>5 DEF Reserve
<1>7. G \subseteq Open(m, t)
  <2>1. IDENTITY_MAPPED_LIMIT \in Nat
    BY BootConstants
  <2>. QED BY <1>2, <1>3, <2>1, AllocBelow
<1>8. PICK m2 : m2 = fm'
  OBVIOUS
<1>9. /\ Books(m2, t) /\ Open(m2, t) \subseteq Open(m, t)
      /\ handed' \subseteq m2.counted /\ handed' \subseteq handed \cup Open(m, t)
  <2>1. CASE fm' = B!Take(m, G) /\ handed' = handed \cup G
    <3>1. Books(m2, t) /\ Open(m2, t) = Open(m, t) \ G /\ m2.counted = m.counted \cup G
      BY <1>6, <1>7, <1>8, <2>1, TakeOpen DEF TakenFrom
    <3>. QED BY <1>4, <1>6, <1>7, <2>1, <3>1
  <2>2. CASE fm' = m /\ handed' = handed
    BY <1>4, <1>6, <1>8, <2>2
  <2>. QED BY <1>2, <2>1, <2>2
<1>10. /\ \A f \in Open(m2, t) \cup handed' : /\ Clean(f) /\ AwayFixed(f)
                                              /\ Away(f, RAMDISK_BASE, RAMDISK_END)
  BY <1>4, <1>6, <1>9
<1>11. \A f : Clean(f)' <=> Clean(f)
  BY <1>1 DEF Clean, There, Away, B!e820_is_available, B!Bytes, B!Taken
<1>12. FramesInv'
  BY <1>1, <1>3, <1>8, <1>9, <1>10, <1>11
     DEF FramesInv, Framed, Books, BookSet, Open, AwayFixed, Away, B!Bytes, B!Taken
<1>13. LoaderInv'
  BY <1>1, LoaderDone
<1>14. SizeInv'
  BY <1>1 DEF BootInv, SizeInv
<1>. QED BY <1>12, <1>13, <1>14 DEF BootInv

(* What is known of the frames when the kernel is up.                       *)
LEMMA UpFrames ==
    ASSUME BootInv, stage = "up"
    PROVE  /\ total_frames \in 0 .. B!MAX_FRAMES
           /\ Books(fm, total_frames) /\ handed \subseteq fm.counted
           /\ \A f \in Open(fm, total_frames) \cup handed :
                 Clean(f) /\ AwayFixed(f) /\ Away(f, RAMDISK_BASE, RAMDISK_END)
BY DEF BootInv, SizeInv, FramesInv, Framed

(* Books that agree, with frames known, keep the invariant.                 *)
LEMMA UpKept ==
    ASSUME BootInv, stage = "up",
           UNCHANGED <<stage, sectors_left, current_lba, dest_seg, image, map, total_kb,
                       total_frames>>,
           NEW m, m = fm', Books(m, total_frames), handed' \subseteq m.counted,
           Open(m, total_frames) \cup handed' \subseteq Open(fm, total_frames) \cup handed
    PROVE  BootInv'
<1>1. \A f \in Open(m, total_frames) \cup handed' :
         Clean(f) /\ AwayFixed(f) /\ Away(f, RAMDISK_BASE, RAMDISK_END)
  BY UpFrames
<1>2. \A f : Clean(f)' <=> Clean(f)
  BY DEF Clean, There, Away, B!e820_is_available, B!Bytes, B!Taken
<1>3. FramesInv'
  BY <1>1, <1>2 DEF FramesInv, Framed, Books, BookSet, Open, AwayFixed, Away, B!Bytes, B!Taken
<1>4. LoaderInv'
  BY LoaderDone
<1>5. SizeInv'
  BY DEF BootInv, SizeInv
<1>. QED BY <1>3, <1>4, <1>5 DEF BootInv

(* Frames are given away and come back.                                     *)
LEMMA BootUp ==
    ASSUME BootInv, B!frame_alloc \/ \E f \in B!Frame : B!frame_release(f)
    PROVE  BootInv'
<1>1. CASE B!frame_alloc
  <2>1. PICK limit, G :
          /\ limit \in {B!MaxAddr, IDENTITY_MAPPED_LIMIT}
          /\ G = B!frame_alloc_below(fm, limit)
          /\ fm' = B!Take(fm, G) /\ handed' = handed \cup G
          /\ stage = "up"
          /\ UNCHANGED <<stage, sectors_left, current_lba, dest_seg, image, map, total_kb,
                         total_frames>>
    BY <1>1 DEF B!frame_alloc, B!loader
  <2>2. PICK t \in 0 .. B!MAX_FRAMES : /\ t = total_frames
          /\ Books(fm, t) /\ handed \subseteq fm.counted
    BY <2>1, UpFrames
  <2>3. limit \in Nat
    <3>1. FRAME_SIZE \in Nat /\ IDENTITY_MAPPED_LIMIT \in Nat /\ t \in Nat
      BY BootConstants
    <3>2. t * FRAME_SIZE \in Nat
      BY <3>1
    <3>. QED BY <2>1, <2>2, <3>1, <3>2 DEF B!MaxAddr
  <2>4. G \subseteq Open(fm, t)
    BY <2>1, <2>2, <2>3, AllocBelow
  <2>5. PICK m : m = fm' /\ Books(m, t) /\ Open(m, t) = Open(fm, t) \ G
                 /\ m.counted = fm.counted \cup G
    BY <2>1, <2>2, <2>4, TakeOpen DEF TakenFrom
  <2>. QED BY <2>1, <2>2, <2>4, <2>5, UpKept
<1>2. CASE \E f \in B!Frame : B!frame_release(f)
  <2>1. PICK f : /\ f \in handed
          /\ fm' = [bits |-> fm.bits \ {f}, counted |-> fm.counted \ {f},
                    used |-> B!Larger(fm.used - 1, 0)]
          /\ handed' = handed \ {f}
          /\ stage = "up"
          /\ UNCHANGED <<stage, sectors_left, current_lba, dest_seg, image, map, total_kb,
                         total_frames>>
    BY <1>2 DEF B!frame_release, B!loader
  <2>2. PICK t \in 0 .. B!MAX_FRAMES : /\ t = total_frames
          /\ Books(fm, t) /\ handed \subseteq fm.counted
    BY <2>1, UpFrames
  <2>3. PICK m : m = fm' /\ m = FreedBooks(fm, {f})
    <3>1. Cardinality({f}) = 1
      BY FS_Singleton
    <3>. QED BY <2>1, <3>1, Zenon DEF FreedBooks
  <2>4. Books(m, t) /\ Open(m, t) = Open(fm, t) \cup {f} /\ m.counted = fm.counted \ {f}
    <3>1. {f} \subseteq fm.counted
      BY <2>1, <2>2
    <3>. QED BY <2>2, <2>3, <3>1, FreedAgree
  <2>5. handed' \subseteq m.counted
    BY <2>1, <2>2, <2>4
  <2>. QED BY <2>1, <2>2, <2>3, <2>4, <2>5, UpKept
<1>. QED BY <1>1, <1>2

(* The boot keeps its invariant.                                            *)
LEMMA BootInvariant == Spec => [](Idle("boot") \/ BootInv)
<1>. DEFINE Inv == Idle("boot") \/ BootInv
<1>1. Init => Inv
  BY BootInit DEF Init
<1>2. Inv /\ [Next]_vars => Inv'
  <2>. SUFFICES ASSUME Inv, [Next]_vars PROVE Inv'
    OBVIOUS
  <2>1. CASE UNCHANGED boot
    <3>1. BootInv => BootInv'
      BY <2>1 DEF boot, BootInv, LoaderInv, Loaded, SectorAt, SizeInv, FramesInv, Framed, Books,
         BookSet, Open, Clean, There, AwayFixed, Away, B!e820_is_available, B!Bytes, B!Taken
    <3>2. UNCHANGED part
      BY DEF Next, vars
    <3>. QED BY <3>1, <3>2 DEF Idle
  <2>2. CASE part = "boot" /\ B!Next
    <3>1. BootInv
      BY <2>2 DEF Idle
    <3>. QED BY <2>2, <3>1, BootEarly, BootFrames, BootRamdisk, BootUp DEF B!Next
  <2>. QED BY <2>1, <2>2 DEF Next, vars
<1>. QED BY <1>1, <1>2, PTL DEF Spec

(* Whatever the BIOS answers, the kernel runs only when its image is whole; *)
(* the frames given away then are usable memory that holds neither low      *)
(* memory nor the kernel, a fixed range or the ramdisk; and the bitmap, the *)
(* reference counts and the number of used frames agree.                    *)
THEOREM BootIsSound == Spec => []BootSound
<1>1. Idle("boot") \/ BootInv => BootSound
  BY BootInvSound DEF BootSound
<1>. QED BY <1>1, BootInvariant, PTL

(* The map has room for an entry.                                           *)
LEMMA MapLimit == E820_MAX_ENTRIES \in Nat /\ E820_MAX_ENTRIES > 0
<1>1. E820_MAX_ENTRIES \in Nat \ {0}
  <2>1. {KB, CMOS_BLOCK, PARAGRAPH, PARAS, KERNEL_CHUNK_SECTORS, KERNEL_SECTORS,
         UINT32, UINT64, E820_MAX_ENTRIES} \subseteq Nat \ {0}
    BY BootAssumption, Zenon DEF Positive
  <2>. QED BY <2>1, Zenon
<1>. QED BY <1>1

(* The stages, the entries of the map so far, and the books before there    *)
(* are any frames.                                                          *)
BootShape ==
    /\ stage \in {"detect_e820", "load_kernel", "disk_error", "memory_init", "frame_init"} \cup Framed
    /\ Len(map) <= E820_MAX_ENTRIES
    /\ stage = "detect_e820" => Len(map) < E820_MAX_ENTRIES
    /\ stage \notin Framed => fm = [bits |-> {}, counted |-> {}, used |-> 0]

(* Books that agree count no more frames than there may be.                 *)
LEMMA BooksBounded ==
    ASSUME NEW t \in 0 .. B!MAX_FRAMES, NEW m, Books(m, t)
    PROVE  m \in [bits : SUBSET B!Frame, counted : SUBSET B!Frame, used : 0 .. B!MAX_FRAMES]
<1>1. B!MAX_FRAMES \in Nat /\ t \in Nat /\ t <= B!MAX_FRAMES
  BY BootConstants
<1>2. m \in BookSet /\ m.counted \subseteq 0 .. t - 1 /\ m.used = Cardinality(m.counted)
  BY DEF Books
<1>3. IsFiniteSet(0 .. t - 1) /\ Cardinality(0 .. t - 1) <= t
  <2>1. 0 \in Int /\ t - 1 \in Int
    BY <1>1
  <2>2. /\ IsFiniteSet(0 .. t - 1)
        /\ Cardinality(0 .. t - 1) = IF 0 > t - 1 THEN 0 ELSE (t - 1) - 0 + 1
    BY <2>1, FS_Interval, Zenon
  <2>. QED BY <1>1, <2>2
<1>4. m.used \in Nat /\ m.used <= Cardinality(0 .. t - 1) /\ Cardinality(0 .. t - 1) \in Nat
  BY <1>2, <1>3, FS_Subset, FS_CardinalityType
<1>5. m.used \in 0 .. B!MAX_FRAMES
  BY <1>1, <1>3, <1>4
<1>. QED BY <1>2, <1>5 DEF BookSet

(* With the invariant this is the type of the boot.                         *)
LEMMA BootTypesSound ==
    ASSUME BootInv, BootShape
    PROVE  B!TypeOK
<1>1. B!MAX_FRAMES \in Nat /\ total_frames \in 0 .. B!MAX_FRAMES
  BY BootConstants DEF BootInv, SizeInv
<1>2. fm \in [bits : SUBSET B!Frame, counted : SUBSET B!Frame, used : 0 .. B!MAX_FRAMES]
  <2>1. CASE stage \in Framed
    BY <1>1, <2>1, BooksBounded DEF BootInv, FramesInv
  <2>2. CASE stage \notin Framed
    BY <1>1, <2>2 DEF BootShape
  <2>. QED BY <2>1, <2>2
<1>3. handed \subseteq B!Frame
  <2>1. CASE stage \in Framed
    BY <1>2, <2>1 DEF BootInv, FramesInv
  <2>2. CASE stage \notin Framed
    BY <2>2 DEF BootInv, FramesInv
  <2>. QED BY <2>1, <2>2
<1>4. /\ map \in Seq(B!Entry) /\ Len(map) <= E820_MAX_ENTRIES
      /\ sectors_left \in 0 .. KERNEL_SECTORS /\ total_kb \in Nat
  BY DEF BootInv, SizeInv, LoaderInv, BootShape
<1>5. stage \in {"detect_e820", "load_kernel", "disk_error", "memory_init", "frame_init",
                 "kernel_main", "ramdisk_init", "RAMDISK_INIT_FATAL", "up"}
  BY DEF BootShape, Framed
<1>. QED BY <1>1, <1>2, <1>3, <1>4, <1>5 DEF B!TypeOK

(* Every step of the boot keeps its shape.                                  *)
LEMMA BootShapeNext ==
    ASSUME BootInv, BootShape, B!Next
    PROVE  BootShape'
<1>1. CASE B!detect_e820
  <2>1. Len(map) \in Nat /\ E820_MAX_ENTRIES \in Nat /\ Len(map) < E820_MAX_ENTRIES
        /\ map \in Seq(B!Entry)
    <3>1. E820_MAX_ENTRIES \in Nat
      BY MapLimit
    <3>. QED BY <1>1, <3>1 DEF B!detect_e820, BootInv, SizeInv, BootShape
  <2>2. fm' = [bits |-> {}, counted |-> {}, used |-> 0]
    BY <1>1 DEF B!detect_e820, BootShape, Framed
  <2>3. CASE stage' = "load_kernel" /\ UNCHANGED map
    BY <2>1, <2>2, <2>3 DEF BootShape
  <2>4. CASE \E e \in B!Entry, last \in BOOLEAN :
                /\ map' = Append(map, e)
                /\ stage' = IF last \/ Len(map') >= E820_MAX_ENTRIES
                            THEN "load_kernel" ELSE "detect_e820"
    <3>1. Len(map') = Len(map) + 1
      BY <2>1, <2>4
    <3>2. /\ stage' \in {"load_kernel", "detect_e820"}
          /\ stage' = "detect_e820" => ~(Len(map') >= E820_MAX_ENTRIES)
      BY <2>4, Zenon
    <3>3. Len(map') <= E820_MAX_ENTRIES /\ (stage' = "detect_e820" => Len(map') < E820_MAX_ENTRIES)
      BY <2>1, <3>1, <3>2
    <3>. QED BY <2>2, <3>2, <3>3 DEF BootShape
  <2>. QED BY <1>1, <2>3, <2>4, Zenon DEF B!detect_e820
<1>2. CASE B!load_kernel \/ B!switch_to_pm \/ B!memory_init
  BY <1>2 DEF B!load_kernel, B!switch_to_pm, B!memory_init, BootShape, Framed
<1>3. CASE B!frame_init \/ B!paging_init \/ B!ramdisk_init \/ B!frame_alloc
           \/ \E f \in B!Frame : B!frame_release(f)
  <2>1. stage' \in Framed /\ stage' # "detect_e820" /\ map' = map
    BY <1>3, Zenon DEF B!frame_init, B!paging_init, B!ramdisk_init, B!frame_alloc,
                       B!frame_release, Framed
  <2>. QED BY <2>1 DEF BootShape
<1>. QED BY <1>1, <1>2, <1>3 DEF B!Next

(* The table of the map does not overflow, and frames are counted in bounds. *)
LEMMA BootTyped == Spec => [](Idle("boot") \/ B!TypeOK)
<1>. DEFINE Inv == Idle("boot") \/ BootInv
            Ty  == Idle("boot") \/ BootShape
<1>1. Init => Ty
  <2>. SUFFICES ASSUME B!Init PROVE BootShape
    BY DEF Init
  <2>. QED BY MapLimit DEF B!Init, BootShape, Framed
<1>2. Ty /\ Inv /\ [Next]_vars => Ty'
  <2>. SUFFICES ASSUME Ty, Inv, [Next]_vars PROVE Ty'
    OBVIOUS
  <2>1. UNCHANGED part
    BY DEF Next, vars
  <2>2. CASE UNCHANGED boot
    <3>1. BootShape => BootShape'
      BY <2>2 DEF boot, BootShape
    <3>. QED BY <2>1, <3>1 DEF Idle
  <2>3. CASE part = "boot" /\ B!Next
    BY <2>1, <2>3, BootShapeNext DEF Idle
  <2>. QED BY <2>2, <2>3 DEF Next, vars
<1>3. Inv /\ Ty => Idle("boot") \/ B!TypeOK
  BY BootTypesSound
<1>. QED BY <1>1, <1>2, <1>3, BootInvariant, PTL DEF Spec

=============================================================================
