--------------------------- MODULE Streams_proofs ---------------------------
(***************************************************************************)
(* What goes byte by byte: keys to their reader, bytes through a pipe,     *)
(* characters to the screen. What comes out is what went in, in that       *)
(* order.                                                                  *)
(*                                                                         *)
(* A ring, the keyboard's or a pipe's, is described by what lies in it,    *)
(* read from its tail. Every index is the remainder of a number less than  *)
(* two turns, so it comes back to one place. The keyboard's handler drops  *)
(* the key that finds one slot left; the buffer of a pipe implements       *)
(* ByteStream, in which the readers get what the writers sent as one       *)
(* sequence. The screen is described by the string that ends at its        *)
(* cursor.                                                                 *)
(***************************************************************************)
EXTENDS MCServices, SequenceTheorems, FiniteSetTheorems, WellFoundedInduction, TLAPS

(* A non-empty set of naturals has a least element. *)
LEMMA LeastNat ==
    ASSUME NEW A, A \subseteq Nat, A # {}
    PROVE  \E x \in A : \A y \in A : x <= y
<1>. DEFINE R == {ss \in Nat \X Nat : ss[1] < ss[2]}
<1>1. PICK x \in A : \A y \in A : ~ (<<y, x>> \in R)
  <2>1. IsWellFoundedOn(R, Nat)
    BY NatLessThanWellFounded, Zenon DEF OpToRel
  <2>. HIDE DEF R
  <2>. QED BY <2>1, WFMin
<1>2. \A y \in A : ~ (y < x)
  BY <1>1
<1>. QED BY <1>2

-----------------------------------------------------------------------------
(* Rings *)

(* Where an index that left a ring of N slots by less than one turn comes   *)
(* back into it.                                                            *)
LEMMA Wrap ==
    ASSUME NEW N \in Nat \ {0}, NEW x \in Int
    PROVE  /\ x % N \in 0 .. N - 1
           /\ 0 <= x /\ x < N => x % N = x
           /\ N <= x /\ x < 2 * N => x % N = x - N
           /\ -N <= x /\ x < 0 => x % N = x + N
OBVIOUS

(* An index that has gone less than two turns.                              *)
LEMMA Turn ==
    ASSUME NEW N \in Nat \ {0}, NEW x \in Nat, x < N + N
    PROVE  x % N = IF x < N THEN x ELSE x - N
OBVIOUS

(* The slot i places after slot f.                                          *)
LEMMA After ==
    ASSUME NEW N \in Nat \ {0}, NEW f \in 0 .. N - 1, NEW i \in 0 .. N
    PROVE  (f + i) % N = IF f + i < N THEN f + i ELSE f + i - N
<1>. DEFINE x == f + i
<1>1. x \in Nat /\ x < N + N
  OBVIOUS
<1>. HIDE DEF x
<1>2. x % N = IF x < N THEN x ELSE x - N
  BY <1>1, Turn, Zenon
<1>. QED BY <1>2 DEF x

(* The n entries of the ring b of N slots from slot f on, oldest first.     *)
Ring(b, N, f, n) == [i \in 1 .. n |-> b[(f + i - 1) % N]]

(* It is a sequence of what the slots hold.                                 *)
LEMMA RingSeq ==
    ASSUME NEW N \in Nat \ {0}, NEW A, NEW b \in [0 .. N - 1 -> A],
           NEW f \in 0 .. N - 1, NEW n \in Nat
    PROVE  /\ Ring(b, N, f, n) \in Seq(A)
           /\ Len(Ring(b, N, f, n)) = n
<1>1. \A i \in 1 .. n : (f + i - 1) % N \in 0 .. N - 1
  BY Wrap
<1>. QED BY <1>1 DEF Ring

(* Two indices less than one turn apart are in different slots.             *)
LEMMA WrapDiffers ==
    ASSUME NEW N \in Nat \ {0}, NEW f \in 0 .. N - 1, NEW i \in 0 .. N - 1,
           NEW j \in 0 .. N - 1, i # j
    PROVE  (f + i) % N # (f + j) % N
<1>1. (f + i) % N = IF f + i < N THEN f + i ELSE f + i - N
  <2>1. i \in 0 .. N
    OBVIOUS
  <2>. QED BY <2>1, After
<1>2. (f + j) % N = IF f + j < N THEN f + j ELSE f + j - N
  <2>1. j \in 0 .. N
    OBVIOUS
  <2>. QED BY <2>1, After
<1>. QED BY <1>1, <1>2

(* Taking m entries from the old end leaves the others in their order.      *)
LEMMA RingDrop ==
    ASSUME NEW N \in Nat \ {0}, NEW b, NEW f \in 0 .. N - 1,
           NEW n \in Nat, NEW m \in 0 .. n, n <= N
    PROVE  Ring(b, N, (f + m) % N, n - m) = SubSeq(Ring(b, N, f, n), m + 1, n)
<1>. DEFINE g == (f + m) % N
<1>1. g = IF f + m < N THEN f + m ELSE f + m - N
  <2>1. m \in 0 .. N
    OBVIOUS
  <2>. QED BY <2>1, After DEF g
<1>. HIDE DEF g
<1>2. \A i \in 1 .. n - m : (g + i - 1) % N = (f + (m + i) - 1) % N
  <2>. TAKE i \in 1 .. n - m
  <2>. DEFINE j == m + i - 1
              k == i - 1
  <2>1. /\ f + (m + i) - 1 = f + j /\ g + i - 1 = g + k /\ g \in 0 .. N - 1
        /\ j \in 0 .. N /\ k \in 0 .. N /\ j = m + k
    BY <1>1
  <2>. HIDE DEF j, k
  <2>2. (f + j) % N = IF f + j < N THEN f + j ELSE f + j - N
    BY <2>1, After
  <2>3. (g + k) % N = IF g + k < N THEN g + k ELSE g + k - N
    BY <2>1, After
  <2>4. (f + j) % N = (g + k) % N
    BY <1>1, <2>1, <2>2, <2>3
  <2>. QED BY <2>1, <2>4
<1>3. Len(Ring(b, N, f, n)) = n
  BY DEF Ring
<1>4. \A i \in 1 .. n - m : Ring(b, N, g, n - m)[i] = Ring(b, N, f, n)[m + i]
  BY <1>2 DEF Ring
<1>5. SubSeq(Ring(b, N, f, n), m + 1, n) = [i \in 1 .. n - m |-> Ring(b, N, f, n)[m + i]]
  BY DEF Ring
<1>6. Ring(b, N, g, n - m) = [i \in 1 .. n - m |-> Ring(b, N, g, n - m)[i]]
  BY DEF Ring
<1>. QED BY <1>4, <1>5, <1>6 DEF g

(* The ring d holds the n entries of the ring b and then the entries x, t    *)
(* in all.                                                                   *)
PutIn(N, b, d, f, n, t, x) ==
    /\ x = [i \in 1 .. t - n |-> x[i]]
    /\ \A i \in 1 .. n : d[(f + i - 1) % N] = b[(f + i - 1) % N]
    /\ \A i \in n + 1 .. t : d[(f + i - 1) % N] = x[i - n]

(* The entries of x behind those of s.                                      *)
Joined(r, s, x) == r = s \o x

(* Entries put behind those that are there, in slots that were free, are    *)
(* appended to them.                                                        *)
LEMMA RingPut ==
    ASSUME NEW N \in Nat \ {0}, NEW b, NEW d, NEW f \in 0 .. N - 1,
           NEW n \in Nat, NEW t \in 0 .. N, n <= t, NEW x, PutIn(N, b, d, f, n, t, x)
    PROVE  Joined(Ring(d, N, f, t), Ring(b, N, f, n), x)
<1>1. Len(Ring(b, N, f, n)) = n
  BY DEF Ring
<1>2. Ring(b, N, f, n) \o x
        = [i \in 1 .. t |-> IF i <= n THEN Ring(b, N, f, n)[i] ELSE x[i - n]]
  <2>1. x = [i \in 1 .. t - n |-> x[i]]
    BY Zenon DEF PutIn
  <2>2. Len(x) = t - n
    BY <2>1
  <2>. QED BY <1>1, <2>1, <2>2 DEF Ring
<1>3. \A i \in 1 .. t :
        Ring(d, N, f, t)[i] = IF i <= n THEN Ring(b, N, f, n)[i] ELSE x[i - n]
  <2>. TAKE i \in 1 .. t
  <2>1. Ring(d, N, f, t)[i] = d[(f + i - 1) % N]
    BY DEF Ring
  <2>2. CASE i <= n
    <3>1. i \in 1 .. n
      BY <2>2
    <3>. QED BY <2>1, <2>2, <3>1 DEF Ring, PutIn
  <2>3. CASE ~(i <= n)
    <3>1. i \in n + 1 .. t
      BY <2>3
    <3>. QED BY <2>1, <2>3, <3>1 DEF PutIn
  <2>. QED BY <2>2, <2>3
<1>4. Ring(d, N, f, t) = [i \in 1 .. t |-> Ring(d, N, f, t)[i]]
  BY DEF Ring
<1>5. Ring(d, N, f, t) = Ring(b, N, f, n) \o x
  BY <1>2, <1>3, <1>4
<1>. QED BY <1>5 DEF Joined

-----------------------------------------------------------------------------
(* The keyboard *)

(* How many keys lie between a tail t and a head h.                         *)
Gap(h, t) == (h - t) % KEYBOARD_BUFFER_SIZE

(* The distance from tail to head is less than a turn.                      *)
LEMMA GapValue ==
    ASSUME NEW h \in K!Slot, NEW t \in K!Slot
    PROVE  /\ Gap(h, t) = IF h >= t THEN h - t ELSE h - t + KEYBOARD_BUFFER_SIZE
           /\ Gap(h, t) \in 0 .. KEYBOARD_BUFFER_SIZE - 1
<1>. DEFINE x == h - t
            N == KEYBOARD_BUFFER_SIZE
<1>1. x \in Int /\ N \in Nat \ {0} /\ -N <= x /\ x < N
  BY KeyboardAssumption DEF K!Slot, Positive
<1>. HIDE DEF x, N
<1>2. x % N = IF x >= 0 THEN x ELSE x + N
  BY <1>1
<1>3. Gap(h, t) = IF x >= 0 THEN x ELSE x + N
  BY <1>2 DEF Gap, x, N
<1>. QED BY <1>1, <1>3, KeyboardAssumption DEF x, N, K!Slot, Positive

(* The slot after a slot, which is 0 after the last one.                    *)
LEMMA SuccValue ==
    ASSUME NEW i \in K!Slot
    PROVE  /\ K!Succ(i) = IF i + 1 < KEYBOARD_BUFFER_SIZE THEN i + 1 ELSE 0
           /\ K!Succ(i) \in K!Slot
<1>1. /\ KEYBOARD_BUFFER_SIZE \in Nat \ {0} /\ i \in 0 .. KEYBOARD_BUFFER_SIZE - 1
      /\ 1 \in 0 .. KEYBOARD_BUFFER_SIZE
  BY KeyboardAssumption DEF Positive, K!Slot
<1>2. (i + 1) % KEYBOARD_BUFFER_SIZE
         = IF i + 1 < KEYBOARD_BUFFER_SIZE THEN i + 1 ELSE i + 1 - KEYBOARD_BUFFER_SIZE
  BY <1>1, After
<1>. QED BY <1>1, <1>2 DEF K!Succ, K!Slot

(* The head is as far behind the tail as keys lie between them; putting one *)
(* where there is room and taking one change that number by one.            *)
LEMMA GapSteps ==
    ASSUME NEW h \in K!Slot, NEW t \in K!Slot
    PROVE  /\ (t + Gap(h, t)) % KEYBOARD_BUFFER_SIZE = h
           /\ K!Succ(h) # t => Gap(K!Succ(h), t) = Gap(h, t) + 1
           /\ Gap(h, t) > 0 => Gap(h, K!Succ(t)) = Gap(h, t) - 1
           /\ Gap(h, t) > 0 <=> h # t
<1>. DEFINE N == KEYBOARD_BUFFER_SIZE
            n == Gap(h, t)
            m == Gap(K!Succ(h), t)
            k == Gap(h, K!Succ(t))
            sh == K!Succ(h)
            st == K!Succ(t)
<1>1. N \in Nat \ {0} /\ h \in 0 .. N - 1 /\ t \in 0 .. N - 1
  BY KeyboardAssumption DEF Positive, K!Slot
<1>2. n = (IF h >= t THEN h - t ELSE h - t + N) /\ n \in 0 .. N - 1
  BY GapValue
<1>3. /\ sh = (IF h + 1 < N THEN h + 1 ELSE 0) /\ sh \in K!Slot
      /\ st = (IF t + 1 < N THEN t + 1 ELSE 0) /\ st \in K!Slot
  BY SuccValue
<1>4. m = (IF sh >= t THEN sh - t ELSE sh - t + N)
  BY <1>3, GapValue
<1>5. k = (IF h >= st THEN h - st ELSE h - st + N)
  BY <1>3, GapValue
<1>6. n \in 0 .. N
  BY <1>1, <1>2
<1>. HIDE DEF N, n, m, k, sh, st
<1>7. (t + n) % N = IF t + n < N THEN t + n ELSE t + n - N
  BY <1>1, <1>6, After
<1>8. (t + n) % N = h
  BY <1>1, <1>2, <1>7
<1>9. sh # t => m = n + 1
  BY <1>1, <1>2, <1>3, <1>4
<1>10. n > 0 => k = n - 1
  BY <1>1, <1>2, <1>3, <1>5
<1>11. n > 0 <=> h # t
  BY <1>1, <1>2
<1>. QED BY <1>8, <1>9, <1>10, <1>11 DEF N, n, m, k, sh, st

(* What is known of the keyboard: KeysInOrder, and that the reader takes    *)
(* from a ring that holds a key, since only it empties the ring.            *)
KeyboardInv ==
    /\ K!TypeOK
    /\ K!KeysInOrder
    /\ pc = "take" => K!Held > 0

(* The buffer of keyboard.c is a ring of this kind.                         *)
LEMMA BufferedRing ==
    /\ K!Buffered = Ring(key_buffer, KEYBOARD_BUFFER_SIZE, buffer_tail, Gap(buffer_head, buffer_tail))
    /\ K!Held = Gap(buffer_head, buffer_tail)
BY DEF K!Buffered, K!Held, Ring, Gap

(* An empty ring holds the keys in order.                                   *)
LEMMA KeyboardInit ==
    K!Init => KeyboardInv
<1>. SUFFICES ASSUME K!Init PROVE KeyboardInv
  OBVIOUS
<1>1. 0 \in K!Slot
  BY KeyboardAssumption DEF K!Slot, Positive
<1>2. Gap(0, 0) = 0
  BY <1>1, GapValue DEF K!Slot
<1>3. K!Buffered = <<>> /\ K!Held = 0
  BY <1>2, BufferedRing DEF K!Init, Ring
<1>4. K!TypeOK
  BY <1>1, KeyboardAssumption DEF K!Init, K!TypeOK, K!Slot
<1>5. K!KeysInOrder
  BY <1>3 DEF K!Init, K!KeysInOrder
<1>. QED BY <1>4, <1>5 DEF KeyboardInv, K!Init

(* Steps that leave the ring and the histories alone.                       *)
LEMMA KeyboardQuiet ==
    ASSUME KeyboardInv, K!TypeOK',
           UNCHANGED <<key_buffer, buffer_head, buffer_tail, typed, taken>>,
           pc' = "advance" => (K!Held > 0 /\ c' = key_buffer[buffer_tail]),
           pc' = "take" => K!Held > 0
    PROVE  KeyboardInv'
BY DEF KeyboardInv, K!KeysInOrder, K!Buffered, K!Held

(* A key that finds room goes behind those the ring holds.                  *)
LEMMA KeyPut ==
    ASSUME KeyboardInv, NEW k \in K!Char, K!buffer_put(k), K!Awake, irq' = K!NoKey,
           UNCHANGED <<buffer_tail, reader, c, taken, struck>>
    PROVE  KeyboardInv'
<1>. DEFINE N == KEYBOARD_BUFFER_SIZE
            n == Gap(buffer_head, buffer_tail)
<1>0. K!TypeOK /\ N \in Nat \ {0} /\ K!Slot = 0 .. N - 1
  BY KeyboardAssumption DEF KeyboardInv, Positive, K!Slot
<1>1. /\ pc' = "advance" => pc = "advance"
      /\ pc' = "take" => pc = "take"
      /\ pc' \in {"user", "check", "halt", "hlt", "take", "advance", "line"}
  BY <1>0 DEF K!Awake, K!TypeOK
<1>2. CASE ~K!HasRoom(buffer_tail)
  <2>1. UNCHANGED <<key_buffer, buffer_head, typed>>
    BY <1>2 DEF K!buffer_put
  <2>2. K!TypeOK'
    BY <1>0, <1>1, <2>1 DEF K!TypeOK, K!Slot
  <2>. QED BY <1>1, <2>1, <2>2, KeyboardQuiet DEF KeyboardInv, K!KeysInOrder
<1>3. CASE K!HasRoom(buffer_tail)
  <2>1. /\ key_buffer' = [key_buffer EXCEPT ![buffer_head] = k]
        /\ buffer_head' = K!Succ(buffer_head)
        /\ typed' = Append(typed, k)
        /\ K!Succ(buffer_head) # buffer_tail
    BY <1>3 DEF K!buffer_put, K!HasRoom
  <2>2. K!TypeOK'
    <3>1. K!Succ(buffer_head) \in K!Slot
      BY <1>0, SuccValue DEF K!TypeOK
    <3>2. typed' \in Seq(K!Char)
      BY <1>0, <2>1 DEF K!TypeOK
    <3>. QED BY <1>0, <1>1, <2>1, <3>1, <3>2 DEF K!TypeOK, K!Slot
  <2>3. /\ Gap(buffer_head', buffer_tail') = n + 1
        /\ (buffer_tail + n) % N = buffer_head
        /\ n \in 0 .. N - 1
        /\ n + 1 \in 0 .. N - 1
        /\ n > 0 => buffer_head # buffer_tail
    <3>1. buffer_head \in K!Slot /\ buffer_tail \in K!Slot /\ buffer_head' \in K!Slot
      BY <1>0, <2>2 DEF K!TypeOK
    <3>2. Gap(buffer_head', buffer_tail) = n + 1
      BY <2>1, <3>1, GapSteps
    <3>3. Gap(buffer_head', buffer_tail) \in 0 .. N - 1 /\ n \in 0 .. N - 1
      BY <3>1, GapValue
    <3>4. (buffer_tail + n) % N = buffer_head /\ (n > 0 => buffer_head # buffer_tail)
      BY <3>1, GapSteps
    <3>. QED BY <3>2, <3>3, <3>4
  <2>. HIDE DEF n
  <2>4. K!Buffered' = K!Buffered \o <<k>>
    <3>. DEFINE b == key_buffer
                d == key_buffer'
                f == buffer_tail
    <3>1. f \in 0 .. N - 1 /\ buffer_head \in 0 .. N - 1 /\ b \in [0 .. N - 1 -> K!Char \cup {K!NUL}]
      BY <1>0 DEF K!TypeOK
    <3>2. \A i \in 1 .. n : d[(f + i - 1) % N] = b[(f + i - 1) % N]
      <4>1. TAKE i \in 1 .. n
      <4>. DEFINE j == i - 1
      <4>2. j \in 0 .. N - 1 /\ n \in 0 .. N - 1 /\ j # n /\ f + i - 1 = f + j
        BY <2>3, <1>0, <3>1
      <4>. HIDE DEF j, f, N
      <4>3. (f + j) % N # (f + n) % N
        BY <1>0, <3>1, <4>2, WrapDiffers
      <4>4. (f + j) % N \in 0 .. N - 1
        BY <1>0, <3>1, <4>2, Wrap
      <4>. QED BY <2>1, <2>3, <3>1, <4>2, <4>3, <4>4 DEF f
    <3>. DEFINE t == n + 1
                x == <<k>>
    <3>3. \A i \in n + 1 .. t : d[(f + i - 1) % N] = x[i - n]
      <4>1. f + (n + 1) - 1 = f + n
        BY <2>3, <3>1
      <4>2. d[(f + n) % N] = k
        BY <2>1, <2>3, <3>1
      <4>. QED BY <2>3, <4>1, <4>2
    <3>4. n \in Nat /\ t \in 0 .. N /\ n <= t /\ t - n = 1
      BY <1>0, <2>3
    <3>5. x = [i \in 1 .. 1 |-> x[i]]
      OBVIOUS
    <3>. HIDE DEF b, d, f, N, x, t
    <3>8. PutIn(N, b, d, f, n, t, x)
      BY <3>2, <3>3, <3>4, <3>5 DEF PutIn
    <3>9. Joined(Ring(d, N, f, t), Ring(b, N, f, n), x)
      BY <1>0, <3>1, <3>4, <3>8, RingPut
    <3>6. K!Buffered = Ring(b, N, f, n)
      BY BufferedRing DEF b, N, f, n
    <3>7. K!Buffered' = Ring(d, N, f, t)
      BY <2>3, BufferedRing DEF d, N, f, n, t, K!Buffered, K!Held, Ring, Gap
    <3>. QED BY <3>9, <3>6, <3>7 DEF x, Joined
  <2>5. K!Held' = n + 1
    BY <2>3 DEF K!Held, Gap
  <2>6. taken \o K!Buffered' = typed'
    <3>1. taken \in Seq(K!Char \cup {K!NUL}) /\ K!Buffered \in Seq(K!Char \cup {K!NUL})
      <4>1. n \in Nat /\ key_buffer \in [0 .. N - 1 -> K!Char \cup {K!NUL}] /\ buffer_tail \in 0 .. N - 1
        BY <1>0, <2>3 DEF K!TypeOK
      <4>2. Ring(key_buffer, N, buffer_tail, n) \in Seq(K!Char \cup {K!NUL})
        BY <1>0, <4>1, RingSeq
      <4>. QED BY <1>0, <4>2, BufferedRing DEF K!TypeOK, n
    <3>2. taken \o (K!Buffered \o <<k>>) = Append(taken \o K!Buffered, k)
      <4>. HIDE DEF K!Buffered
      <4>. QED BY <3>1
    <3>. QED BY <2>1, <2>4, <3>2 DEF KeyboardInv, K!KeysInOrder
  <2>7. pc' = "advance" => c' = key_buffer'[buffer_tail']
    BY <1>0, <1>1, <2>1, <2>3, BufferedRing DEF KeyboardInv, K!KeysInOrder, n, K!TypeOK
  <2>. QED BY <2>2, <2>3, <2>5, <2>6, <2>7 DEF KeyboardInv, K!KeysInOrder
<1>. QED BY <1>2, <1>3

(* Moving the tail gives the reader the oldest key the ring holds.          *)
LEMMA KeyAdvance ==
    ASSUME KeyboardInv, K!Advance
    PROVE  KeyboardInv'
<1>. DEFINE N == KEYBOARD_BUFFER_SIZE
            b == key_buffer
            f == buffer_tail
            n == Gap(buffer_head, buffer_tail)
            C == K!Char \cup {K!NUL}
<1>0. K!TypeOK /\ N \in Nat \ {0} /\ K!Slot = 0 .. N - 1
  BY KeyboardAssumption DEF KeyboardInv, Positive, K!Slot
<1>1. /\ buffer_tail' = K!Succ(buffer_tail)
      /\ taken' = Append(taken, c)
      /\ pc' \in {"line", "user"}
      /\ UNCHANGED <<key_buffer, buffer_head, reader, c, typed, struck, irq>>
      /\ pc = "advance"
  BY DEF K!Advance
<1>2. /\ f \in 0 .. N - 1 /\ b \in [0 .. N - 1 -> C] /\ n \in 0 .. N - 1 /\ n > 0
      /\ c = b[f] /\ n \in Nat /\ 1 \in 0 .. n /\ n <= N
  <2>1. n \in 0 .. N - 1
    BY <1>0, GapValue DEF K!TypeOK
  <2>. QED BY <1>0, <1>1, <2>1, BufferedRing DEF KeyboardInv, K!KeysInOrder, K!TypeOK
<1>3. Gap(buffer_head', buffer_tail') = n - 1 /\ buffer_tail' \in K!Slot
  BY <1>0, <1>1, <1>2, GapSteps, SuccValue DEF K!TypeOK
<1>4. K!Buffered = Ring(b, N, f, n)
  BY BufferedRing
<1>5. K!Buffered' = Ring(b, N, (f + 1) % N, n - 1)
  BY <1>1, <1>3 DEF K!Buffered, K!Held, Ring, Gap, K!Succ
<1>. HIDE DEF n, f, N, b
<1>6. Ring(b, N, (f + 1) % N, n - 1) = SubSeq(Ring(b, N, f, n), 1 + 1, n)
  BY <1>0, <1>2, RingDrop
<1>7. /\ Ring(b, N, f, n) \in Seq(C)
      /\ Len(Ring(b, N, f, n)) = n
  BY <1>0, <1>2, RingSeq
<1>8. Ring(b, N, f, n)[1] = c
  <2>1. f + 1 - 1 = f /\ f % N = f
    BY <1>0, <1>2
  <2>. QED BY <1>2, <2>1 DEF Ring
<1>. DEFINE R == Ring(b, N, f, n)
<1>9. taken \in Seq(C) /\ c \in C
  BY <1>0 DEF K!TypeOK
<1>10. Append(taken, c) \o SubSeq(R, 2, n) = taken \o R
  <2>. HIDE DEF R, C
  <2>1. R \in Seq(C) /\ Len(R) = n /\ R[1] = c /\ n \in Nat /\ n > 0
    BY <1>7, <1>8, <1>2 DEF R
  <2>2. SubSeq(R, 2, n) \in Seq(C) /\ Len(SubSeq(R, 2, n)) = n - 1
        /\ \A i \in 1 .. n - 1 : SubSeq(R, 2, n)[i] = R[i + 1]
    BY <2>1
  <2>. DEFINE Q == SubSeq(R, 2, n)
  <2>. HIDE DEF Q
  <2>. QED BY <1>9, <2>1, <2>2 DEF Q
<1>11. taken' \o K!Buffered' = typed'
  <2>1. taken \o R = typed
    BY <1>4 DEF KeyboardInv, K!KeysInOrder
  <2>2. K!Buffered' = SubSeq(R, 2, n)
    BY <1>5, <1>6
  <2>. QED BY <1>1, <1>10, <2>1, <2>2
<1>12. taken' \in Seq(K!Char)
  <2>1. taken' = SubSeq(typed, 1, Len(taken) + 1) /\ Len(taken) + 1 <= Len(typed) /\ Len(taken) \in Nat
    <3>1. typed = taken \o R
      BY <1>4 DEF KeyboardInv, K!KeysInOrder
    <3>. HIDE DEF R, C
    <3>2. R \in Seq(C) /\ Len(R) = n /\ R[1] = c /\ n \in Nat /\ n > 0
      BY <1>7, <1>8, <1>2 DEF R
    <3>. QED BY <1>1, <1>9, <3>1, <3>2
  <2>2. typed \in Seq(K!Char)
    BY <1>0 DEF K!TypeOK
  <2>. QED BY <2>1, <2>2, SubSeqProperties
<1>13. K!TypeOK'
  BY <1>0, <1>1, <1>3, <1>12 DEF K!TypeOK, K!Slot
<1>. QED BY <1>1, <1>11, <1>13 DEF KeyboardInv, K!KeysInOrder

(* Every step of the keyboard and its readers keeps them in order.          *)
LEMMA KeyboardNext ==
    ASSUME KeyboardInv, K!Next
    PROVE  KeyboardInv'
<1>0. K!TypeOK
  BY DEF KeyboardInv
<1>1. ASSUME NEW k \in K!Char, K!Strike(k) PROVE KeyboardInv'
  <2>1. K!TypeOK'
    BY <1>0, <1>1, KeyboardAssumption DEF K!Strike, K!TypeOK, K!ring, K!Slot, Positive
  <2>. QED BY <1>1, <2>1, KeyboardQuiet DEF K!Strike, K!ring, KeyboardInv, K!KeysInOrder
<1>2. CASE K!keyboard_handler
  BY <1>0, <1>2, KeyPut DEF K!keyboard_handler, K!TypeOK
<1>3. CASE K!Tick
  <2>1. K!TypeOK'
    BY <1>0, <1>3 DEF K!Tick, K!Awake, K!TypeOK, K!ring, K!Slot
  <2>. QED BY <1>3, <2>1, KeyboardQuiet DEF K!Tick, K!Awake, K!ring, KeyboardInv, K!KeysInOrder
<1>4. CASE K!Call
  <2>1. K!TypeOK'
    BY <1>0, <1>4 DEF K!Call, K!TypeOK, K!ring, K!Slot
  <2>. QED BY <1>4, <2>1, KeyboardQuiet DEF K!Call, K!ring
<1>5. CASE K!Check
  <2>1. K!TypeOK'
    BY <1>0, <1>5 DEF K!Check, K!TypeOK, K!ring, K!Slot
  <2>2. buffer_head # buffer_tail => K!Held > 0
    BY <1>0, GapSteps, BufferedRing DEF K!TypeOK
  <2>. QED BY <1>5, <2>1, <2>2, KeyboardQuiet DEF K!Check, K!ring
<1>6. CASE K!Halt \/ K!Line
  <2>1. K!TypeOK'
    BY <1>0, <1>6 DEF K!Halt, K!Line, K!TypeOK, K!ring, K!Slot
  <2>. QED BY <1>6, <2>1, KeyboardQuiet DEF K!Halt, K!Line, K!ring
<1>7. CASE K!Take
  <2>1. K!TypeOK'
    BY <1>0, <1>7 DEF K!Take, K!TypeOK, K!ring, K!Slot
  <2>. QED BY <1>7, <2>1, KeyboardQuiet DEF K!Take, K!ring, KeyboardInv
<1>8. CASE K!Advance
  BY <1>8, KeyAdvance
<1>. QED BY <1>1, <1>2, <1>3, <1>4, <1>5, <1>6, <1>7, <1>8 DEF K!Next, K!Interrupt, K!Reader

(* The ring of the keyboard keeps its invariant.                            *)
LEMMA KeyboardInvariant == Spec => [](Idle("keyboard") \/ KeyboardInv)
<1>. DEFINE Inv == Idle("keyboard") \/ KeyboardInv
<1>1. Init => Inv
  BY KeyboardInit DEF Init
<1>2. Inv /\ [Next]_vars => Inv'
  <2>. SUFFICES ASSUME Inv, [Next]_vars PROVE Inv'
    OBVIOUS
  <2>1. CASE Idle("keyboard")
    BY <2>1 DEF Idle, Next, vars
  <2>2. CASE part = "keyboard" /\ K!Next
    BY <2>2, KeyboardNext DEF Idle
  <2>3. CASE UNCHANGED keyboard
    <3>1. KeyboardInv => KeyboardInv'
      BY <2>3 DEF keyboard, KeyboardInv, K!TypeOK, K!Slot, K!KeysInOrder, K!Buffered, K!Held
    <3>2. UNCHANGED part
      BY DEF Next, vars
    <3>. QED BY <3>1, <3>2 DEF Idle
  <2>. QED BY <2>1, <2>2, <2>3 DEF Next, vars, Idle
<1>. QED BY <1>1, <1>2, PTL DEF Spec

(* keyboard_getchar returns the keys buffer_put accepted, in the order they *)
(* were struck and none twice, whenever the interrupts come.                *)
THEOREM KeyboardInOrder == Spec => []KeysInOrder
<1>1. Idle("keyboard") \/ KeyboardInv => KeysInOrder
  BY DEF KeysInOrder, KeyboardInv
<1>. QED BY <1>1, KeyboardInvariant, PTL

-----------------------------------------------------------------------------
(***************************************************************************)
(* The bytes of a pipe. PipeInv is inductive: the write position follows   *)
(* from the read position and the count, the reference counts are the      *)
(* numbers of the open ends, and a process that sleeps in a call holds the *)
(* end it waits on.                                                        *)
(***************************************************************************)

(* The processes that hold an end.                                          *)
Holders(e) == {p \in Procs : e \in ends[p]}

(* The ring: where the next byte goes, and that an unused pipe is empty.    *)
PipeRing ==
    /\ read_pos \in 0 .. PIPE_CAPACITY - 1
    /\ count \in 0 .. PIPE_CAPACITY
    /\ write_pos = (read_pos + count) % PIPE_CAPACITY
    /\ DOMAIN buffer = 0 .. PIPE_CAPACITY - 1
    /\ sent \in [Procs -> Nat]
    /\ readers = 0 /\ writers = 0 => count = 0

(* The reference counts count the ends that are open.                       *)
PipeCounts ==
    /\ ends \in [Procs -> SUBSET {"r", "w"}]
    /\ IsFiniteSet(Holders("r")) /\ readers = Cardinality(Holders("r"))
    /\ IsFiniteSet(Holders("w")) /\ writers = Cardinality(Holders("w"))

(* The processes: one that sleeps in a call holds the end it waits on until *)
(* it exits, and a slot without a process holds none.                       *)
Why(e) == IF e = "r" THEN "read" ELSE "write"

PipeProcs ==
    /\ running \in Procs
    /\ at \in {"user", "exit", "closing", "halted"}
    /\ pstate \in [Procs -> {"DEAD", "READY", "RUNNING", "BLOCKED"}]
    /\ blk \in [Procs -> [why : {"none", "read", "write"}, n : {0} \cup Counts]]
    /\ at # "halted" => pstate[running] = "RUNNING"
    /\ at = "user" => blk[running].why = "none"
    /\ \A p \in Procs : pstate[p] = "DEAD" => ends[p] = {}
    /\ \A p \in Procs, e \in {"r", "w"} :
          blk[p].why = Why(e) =>
            /\ blk[p].n \in Counts
            /\ e \in ends[p] \/ (p = running /\ at = "closing")

(* Together they are inductive.                                             *)
PipeInv == PipeRing /\ PipeCounts /\ PipeProcs

(* The slot j places after slot w is at distance j from it.                 *)
LEMMA Distance ==
    ASSUME NEW N \in Nat \ {0}, NEW w \in 0 .. N - 1, NEW j \in 0 .. N - 1
    PROVE  (((w + j) % N) + N - w) % N = j
<1>. DEFINE s == (w + j) % N
            x == s + N - w
<1>1. s = IF w + j < N THEN w + j ELSE w + j - N
  <2>1. j \in 0 .. N
    OBVIOUS
  <2>. QED BY <2>1, After
<1>. HIDE DEF s
<1>2. x \in Nat /\ x < N + N /\ (x = j \/ x = j + N)
  BY <1>1
<1>. HIDE DEF x
<1>3. x % N = IF x < N THEN x ELSE x - N
  BY <1>2, Turn
<1>4. x % N = j
  BY <1>2, <1>3
<1>. QED BY <1>4 DEF x, s

(* The slots of a ring of n entries from slot f on, seen from the slot w    *)
(* behind them: the free ones come first, then the entries.                 *)
LEMMA FreeSlot ==
    ASSUME NEW N \in Nat \ {0}, NEW f \in 0 .. N - 1, NEW n \in 0 .. N,
           NEW w, w = (f + n) % N, NEW k \in n + 1 .. N
    PROVE  (((f + k - 1) % N) + N - w) % N = k - n - 1
<1>. DEFINE j == k - n - 1
            u == n + j
<1>1. w = (IF f + n < N THEN f + n ELSE f + n - N)
     /\ w \in 0 .. N - 1
  <2>1. (f + n) % N = IF f + n < N THEN f + n ELSE f + n - N
    BY After
  <2>. QED BY <2>1
<1>2. j \in 0 .. N - 1 /\ u \in 0 .. N /\ j \in 0 .. N /\ f + k - 1 = f + u /\ u = n + j
  OBVIOUS
<1>. HIDE DEF j, u
<1>3. (f + u) % N = (w + j) % N
  <2>1. (f + u) % N = IF f + u < N THEN f + u ELSE f + u - N
    BY <1>2, After
  <2>2. (w + j) % N = IF w + j < N THEN w + j ELSE w + j - N
    BY <1>1, <1>2, After
  <2>. QED BY <1>1, <1>2, <2>1, <2>2
<1>4. (((w + j) % N) + N - w) % N = j
  BY <1>1, <1>2, Distance
<1>. QED BY <1>2, <1>3, <1>4 DEF j

(* Counted from the slot behind the n-th entry, the i-th entry comes after  *)
(* all free slots.                                                          *)
LEMMA FullSlot ==
    ASSUME NEW N \in Nat \ {0}, NEW f \in 0 .. N - 1, NEW n \in 0 .. N,
           NEW w, w = (f + n) % N, NEW i \in 1 .. n
    PROVE  (((f + i - 1) % N) + N - w) % N = N - n + i - 1
<1>. DEFINE j == N - n + i - 1
            u == i - 1
<1>1. w = (IF f + n < N THEN f + n ELSE f + n - N)
     /\ w \in 0 .. N - 1
  <2>1. (f + n) % N = IF f + n < N THEN f + n ELSE f + n - N
    BY After
  <2>. QED BY <2>1
<1>2. j \in 0 .. N - 1 /\ u \in 0 .. N /\ j \in 0 .. N /\ f + i - 1 = f + u /\ j = N - n + u
  OBVIOUS
<1>. HIDE DEF j, u
<1>3. (f + u) % N = (w + j) % N
  <2>1. (f + u) % N = IF f + u < N THEN f + u ELSE f + u - N
    BY <1>2, After
  <2>2. (w + j) % N = IF w + j < N THEN w + j ELSE w + j - N
    BY <1>1, <1>2, After
  <2>. QED BY <1>1, <1>2, <2>1, <2>2
<1>4. (((w + j) % N) + N - w) % N = j
  BY <1>1, <1>2, Distance
<1>. QED BY <1>2, <1>3, <1>4 DEF j

(* An end is open while its count is not zero.                              *)
LEMMA EndOpen ==
    ASSUME PipeCounts
    PROVE  /\ readers \in Nat /\ writers \in Nat
           /\ P!Stream!Open("r") <=> readers > 0
           /\ P!Stream!Open("w") <=> writers > 0
           /\ readers = 0 <=> Holders("r") = {}
           /\ writers = 0 <=> Holders("w") = {}
<1>1. readers \in Nat /\ (readers = 0 <=> Holders("r") = {})
  BY FS_CardinalityType, FS_EmptySet DEF PipeCounts
<1>2. writers \in Nat /\ (writers = 0 <=> Holders("w") = {})
  BY FS_CardinalityType, FS_EmptySet DEF PipeCounts
<1>3. /\ P!Stream!Open("r") <=> Holders("r") # {}
      /\ P!Stream!Open("w") <=> Holders("w") # {}
  BY DEF P!Stream!Open, Holders
<1>. QED BY <1>1, <1>2, <1>3

(* The constants, one by one.                                               *)
LEMMA PipeConstants ==
    /\ PIPE_CAPACITY \in Nat \ {0} /\ PIPE_BUF \in Nat \ {0}
    /\ PIPE_BUF <= PIPE_CAPACITY
    /\ Counts \subseteq Nat
BY PipeBytesAssumption DEF Positive

(* What a pipe holds is what its ring does.                                 *)
LEMMA TransitRing ==
    P!InTransit = Ring(buffer, PIPE_CAPACITY, read_pos, count)
BY DEF P!InTransit, Ring

(* The count of a pipe is the number of bytes it holds.                     *)
LEMMA TransitLen ==
    ASSUME PipeRing
    PROVE  /\ Len(P!InTransit) = count
           /\ P!InTransit = <<>> <=> count = 0
<1>1. count \in Nat /\ Len(P!InTransit) = count
  BY DEF P!InTransit, PipeRing
<1>2. count = 0 => P!InTransit = <<>>
  BY DEF P!InTransit
<1>3. Len(<<>>) = 0
  OBVIOUS
<1>. QED BY <1>1, <1>2, <1>3

(* The bytes in a pipe change only with its ring.                           *)
LEMMA TransitStays ==
    ASSUME UNCHANGED <<buffer, read_pos, count>>
    PROVE  UNCHANGED P!InTransit
BY DEF P!InTransit

(* What a wake-up, or none, does to the process table.                      *)
Moved ==
    /\ pstate' \in [Procs -> {"DEAD", "READY", "RUNNING", "BLOCKED"}]
    /\ \A p \in Procs : /\ pstate[p] = "RUNNING" => pstate'[p] = "RUNNING"
                        /\ pstate'[p] = "DEAD" => pstate[p] = "DEAD"

(* process_wake_pipe_waiter readies at most one sleeper, whoever it is.     *)
LEMMA WakeMoves ==
    ASSUME PipeProcs, NEW why, P!process_wake_pipe_waiter(why) \/ UNCHANGED pstate
    PROVE  Moved
<1>1. CASE UNCHANGED pstate
  BY <1>1 DEF Moved, PipeProcs
<1>2. CASE P!process_wake_pipe_waiter(why)
  <2>. DEFINE W == {p \in Procs : pstate[p] = "BLOCKED" /\ blk[p].why = why}
  <2>1. pstate' = [p \in Procs |-> IF W # {} /\ p = P!Least(W) THEN "READY" ELSE pstate[p]]
    BY <1>2 DEF P!process_wake_pipe_waiter, P!Woken
  <2>2. CASE W = {}
    BY <2>1, <2>2 DEF Moved, PipeProcs
  <2>3. CASE W # {}
    <3>1. P!Least(W) \in W
      <4>1. W \subseteq Nat
        BY PipeBytesAssumption DEF Positive
      <4>. HIDE DEF W
      <4>2. \E x \in W : \A y \in W : x <= y
        BY <2>3, <4>1, LeastNat
      <4>. QED BY <4>2 DEF P!Least
    <3>2. pstate[P!Least(W)] = "BLOCKED"
      BY <3>1
    <3>. HIDE DEF W
    <3>. QED BY <2>1, <3>2 DEF Moved, PipeProcs
  <2>. QED BY <2>2, <2>3
<1>. QED BY <1>1, <1>2

(* pipe_read takes the oldest bytes off the stream, and says end of file    *)
(* only when it is so.                                                      *)
LEMMA ReadStep ==
    ASSUME PipeInv, NEW n \in Counts, "r" \in ends[running], ~P!ReadBlocks(n),
           P!pipe_read(n), UNCHANGED ends
    PROVE  P!Stream!Next /\ PipeRing' /\ Moved /\ UNCHANGED <<readers, writers>>
<1>. DEFINE m == P!Smaller(n, count)
            N == PIPE_CAPACITY
            x == [i \in 1 .. m |-> buffer[(read_pos + i - 1) % PIPE_CAPACITY]]
<1>1. /\ answer' = [by |-> running, want |-> n, res |-> m, data |-> x]
      /\ read_pos' = (read_pos + m) % N
      /\ count' = count - m
      /\ P!process_wake_pipe_waiter("write") \/ UNCHANGED pstate
      /\ UNCHANGED <<buffer, write_pos, readers, writers, sent>>
  BY DEF P!pipe_read, P!Answer
<1>2. /\ N \in Nat \ {0} /\ n \in Nat
      /\ read_pos \in 0 .. N - 1 /\ count \in 0 .. N
      /\ count \in Nat /\ count <= N
  BY PipeConstants DEF PipeInv, PipeRing
<1>3. m \in 0 .. count /\ m \in 0 .. n /\ m \in 0 .. N /\ (m = 0 <=> n = 0 \/ count = 0)
  BY <1>2 DEF P!Smaller
<1>4. running \in Procs /\ PipeRing /\ PipeCounts /\ PipeProcs
  BY DEF PipeInv, PipeProcs
<1>5. x = SubSeq(P!InTransit, 1, m)
  <2>1. P!InTransit = [i \in 1 .. count |-> buffer[(read_pos + i - 1) % N]]
    BY DEF P!InTransit
  <2>. HIDE DEF m, N
  <2>. QED BY <1>2, <1>3, <2>1 DEF N
<1>6. P!InTransit' = SubSeq(P!InTransit, m + 1, Len(P!InTransit))
  <2>1. P!InTransit' = Ring(buffer, N, (read_pos + m) % N, count - m)
    BY <1>1 DEF P!InTransit, Ring
  <2>. HIDE DEF m, N
  <2>2. Ring(buffer, N, (read_pos + m) % N, count - m)
           = SubSeq(Ring(buffer, N, read_pos, count), m + 1, count)
    BY <1>2, <1>3, RingDrop
  <2>. QED BY <1>4, <2>1, <2>2, TransitRing, TransitLen DEF N
<1>7. PipeRing'
  <2>1. (read_pos + m) % N \in 0 .. N - 1
    <3>. HIDE DEF m, N
    <3>. QED BY <1>2, <1>3, Wrap
  <2>2. write_pos = (((read_pos + m) % N) + (count - m)) % N
    <3>. HIDE DEF m, N
    <3>. DEFINE g == (read_pos + m) % N
                j == count - m
    <3>1. g = IF read_pos + m < N THEN read_pos + m ELSE read_pos + m - N
      BY <1>2, <1>3, After
    <3>2. (read_pos + count) % N
             = IF read_pos + count < N THEN read_pos + count ELSE read_pos + count - N
      BY <1>2, After
    <3>3. j \in 0 .. N /\ g \in 0 .. N - 1
      BY <1>2, <1>3, <2>1
    <3>. HIDE DEF g, j
    <3>4. (g + j) % N = IF g + j < N THEN g + j ELSE g + j - N
      BY <1>2, <3>3, After
    <3>5. (g + j) % N = (read_pos + count) % N
      BY <1>2, <1>3, <3>1, <3>2, <3>4 DEF j
    <3>. QED BY <1>4, <3>5 DEF g, j, PipeRing, N
  <2>3. count - m \in 0 .. N /\ (count = 0 => count - m = 0)
    BY <1>2, <1>3
  <2>4. /\ read_pos' \in 0 .. N - 1 /\ count' \in 0 .. N
        /\ write_pos' = (read_pos' + count') % N
        /\ readers' = 0 /\ writers' = 0 => count' = 0
    <3>. HIDE DEF m
    <3>. QED BY <1>1, <1>4, <2>1, <2>2, <2>3 DEF PipeRing
  <2>. QED BY <1>1, <1>4, <2>4 DEF PipeRing
<1>. HIDE DEF m, x, N
<1>8. CASE m > 0
  <2>1. m \in 1 .. n /\ m <= Len(P!InTransit)
    BY <1>2, <1>3, <1>4, <1>8, TransitLen
  <2>2. P!Stream!Take(running, n, m)
    BY <1>1, <1>5, <1>6, <2>1, Zenon DEF P!Stream!Take, P!Stream!Answer
  <2>3. P!Stream!Next
    BY <1>4, <2>1, <2>2 DEF P!Stream!Next
  <2>. QED BY <1>1, <1>4, <1>7, <2>3, WakeMoves
<1>9. CASE m = 0
  <2>1. x = <<>>
    BY <1>9 DEF x
  <2>2. UNCHANGED P!InTransit
    <3>1. Len(P!InTransit) = count /\ P!InTransit = [i \in 1 .. count |-> P!InTransit[i]]
      BY <1>4, TransitLen DEF P!InTransit
    <3>2. (read_pos + 0) % N = read_pos
      BY <1>2
    <3>3. read_pos' = read_pos /\ count' = count
      BY <1>1, <1>2, <1>9, <3>2
    <3>. QED BY <1>1, <3>3, TransitStays
  <2>3. CASE n = 0
    <3>1. P!Stream!Nothing(running, n)
      BY <1>1, <1>9, <2>1, <2>3 DEF P!Stream!Nothing, P!Stream!Answer
    <3>2. P!Stream!Next
      BY <1>1, <1>4, <2>2, <3>1 DEF P!Stream!Next
    <3>. QED BY <1>1, <1>4, <1>7, <3>2, WakeMoves
  <2>4. CASE n # 0
    <3>1. count = 0 /\ ~(writers > 0)
      BY <1>2, <1>3, <1>9, <2>4 DEF P!ReadBlocks
    <3>2. P!InTransit = <<>> /\ ~P!Stream!Open("w")
      BY <1>4, <3>1, TransitLen, EndOpen
    <3>3. P!Stream!EndOfFile(running, n)
      BY <1>1, <1>9, <2>1, <3>2 DEF P!Stream!EndOfFile, P!Stream!Answer
    <3>4. P!Stream!Next
      BY <1>1, <1>4, <2>2, <3>3 DEF P!Stream!Next
    <3>. QED BY <1>1, <1>4, <1>7, <3>4, WakeMoves
  <2>. QED BY <2>3, <2>4
<1>. QED BY <1>3, <1>8, <1>9

(* d is the ring b with bytes of o, numbered from q + 1, in the slots from w *)
(* on, which come behind the n entries from slot f on; they are t in all.    *)
Filled(N, b, d, f, n, w, t, o, q) ==
    /\ w = (f + n) % N
    /\ d = [i \in 0 .. N - 1 |->
              IF (i + N - w) % N < t - n THEN <<o, q + ((i + N - w) % N) + 1>> ELSE b[i]]

(* The m bytes process o sends after its first q ones.                      *)
Numbered(o, q, m) == [i \in 1 .. m |-> <<o, q + i>>]

(* Bytes written in a row are entries put behind the others.                *)
LEMMA FilledPut ==
    ASSUME NEW N \in Nat \ {0}, NEW b, NEW d, NEW f \in 0 .. N - 1, NEW n \in 0 .. N,
           NEW t \in 0 .. N, n <= t, NEW w, NEW o, NEW q \in Nat,
           Filled(N, b, d, f, n, w, t, o, q)
    PROVE  PutIn(N, b, d, f, n, t, Numbered(o, q, t - n))
<1>. DEFINE x == Numbered(o, q, t - n)
            Dist(i) == (i + N - w) % N
<1>0. w = (f + n) % N
  BY DEF Filled
<1>1. ASSUME NEW i \in 1 .. n
      PROVE  d[(f + i - 1) % N] = b[(f + i - 1) % N]
  <2>. DEFINE y == f + i - 1
              z == y % N
  <2>1. ((((f + i - 1) % N) + N - w) % N) = N - n + i - 1
    BY <1>0, FullSlot
  <2>2. y \in Int
    OBVIOUS
  <2>3. Dist(z) = N - n + i - 1
    BY <2>1
  <2>. HIDE DEF y
  <2>4. z \in 0 .. N - 1
    BY <2>2
  <2>. HIDE DEF z, Dist
  <2>5. ~(Dist(z) < t - n)
    BY <2>3
  <2>6. d[z] = b[z]
    BY <2>4, <2>5 DEF Filled, Dist
  <2>. QED BY <2>6 DEF z, y
<1>2. ASSUME NEW i \in n + 1 .. t
      PROVE  d[(f + i - 1) % N] = x[i - n]
  <2>. DEFINE y == f + i - 1
              z == y % N
  <2>1. i \in n + 1 .. N
    OBVIOUS
  <2>2. ((((f + i - 1) % N) + N - w) % N) = i - n - 1
    BY <1>0, <2>1, FreeSlot
  <2>3. y \in Int /\ Dist(z) = i - n - 1
    BY <2>1, <2>2
  <2>. HIDE DEF y
  <2>4. z \in 0 .. N - 1
    BY <2>3
  <2>. HIDE DEF z, Dist
  <2>5. Dist(z) < t - n /\ q + Dist(z) + 1 = q + (i - n) /\ i - n \in 1 .. t - n
    BY <2>3
  <2>6. d[z] = <<o, q + (i - n)>>
    BY <2>4, <2>5 DEF Filled, Dist
  <2>. QED BY <2>5, <2>6 DEF z, y, Numbered
<1>3. x = [i \in 1 .. t - n |-> x[i]]
  BY DEF Numbered
<1>. HIDE DEF x
<1>4. PutIn(N, b, d, f, n, t, x)
  BY <1>1, <1>2, <1>3 DEF PutIn
<1>. QED BY <1>4 DEF x

(* So they come out in a row, after the others.                             *)
LEMMA RingFill ==
    ASSUME NEW N \in Nat \ {0}, NEW b, NEW d, NEW f \in 0 .. N - 1, NEW n \in 0 .. N,
           NEW t \in 0 .. N, n <= t, NEW w, NEW o, NEW q \in Nat,
           Filled(N, b, d, f, n, w, t, o, q)
    PROVE  Joined(Ring(d, N, f, t), Ring(b, N, f, n), Numbered(o, q, t - n))
<1>1. n \in Nat
  OBVIOUS
<1>2. PutIn(N, b, d, f, n, t, Numbered(o, q, t - n))
  BY <1>1, FilledPut
<1>. DEFINE x == Numbered(o, q, t - n)
<1>. HIDE DEF x
<1>3. PutIn(N, b, d, f, n, t, x)
  BY <1>2 DEF x
<1>4. Joined(Ring(d, N, f, t), Ring(b, N, f, n), x)
  BY <1>1, <1>3, RingPut
<1>. QED BY <1>4 DEF x

(* PutBytes appends the bytes it accepts to those in transit, and splits no *)
(* write of PIPE_BUF bytes or fewer.                                        *)
LEMMA PutStep ==
    ASSUME PipeInv, NEW n \in Counts, "w" \in ends[running], ~P!WriteBlocks(n),
           n > 0, readers > 0, P!PutBytes(n), UNCHANGED ends
    PROVE  P!Stream!Next /\ PipeRing' /\ Moved /\ UNCHANGED <<readers, writers>>
<1>. DEFINE N == PIPE_CAPACITY
            free == N - count
            m == P!Smaller(n, free)
            Dist(i) == (i + N - write_pos) % N
            x == [i \in 1 .. m |-> <<running, sent[running] + i>>]
<1>1. /\ buffer' = [i \in DOMAIN buffer |->
                       IF Dist(i) < m THEN <<running, sent[running] + Dist(i) + 1>>
                       ELSE buffer[i]]
      /\ write_pos' = (write_pos + m) % N
      /\ count' = count + m
      /\ sent' = [sent EXCEPT ![running] = @ + m]
      /\ answer' = [by |-> running, want |-> n, res |-> m, data |-> <<>>]
      /\ P!process_wake_pipe_waiter("read")
      /\ UNCHANGED <<read_pos, readers, writers>>
  BY DEF P!PutBytes, P!Answer, P!Space
<1>2. /\ N \in Nat \ {0} /\ n \in Nat
      /\ read_pos \in 0 .. N - 1 /\ count \in 0 .. N
      /\ write_pos = (read_pos + count) % N
      /\ DOMAIN buffer = 0 .. N - 1
      /\ sent \in [Procs -> Nat]
  BY PipeConstants DEF PipeInv, PipeRing
<1>3. running \in Procs /\ PipeRing /\ PipeCounts /\ PipeProcs
  BY DEF PipeInv, PipeProcs
<1>4. /\ m \in 1 .. n /\ m <= N - count /\ m \in Nat
      /\ n <= PIPE_BUF => m = n
  <2>1. free # 0 /\ ~(n <= PIPE_BUF /\ free < n)
    BY DEF P!WriteBlocks, P!Space
  <2>. HIDE DEF N
  <2>. QED BY <1>2, <2>1 DEF P!Smaller
<1>7. P!InTransit' = P!InTransit \o x
  <2>. DEFINE t == count + m
              q == sent[running]
              d == buffer'
  <2>1. /\ N \in Nat \ {0} /\ read_pos \in 0 .. N - 1 /\ count \in 0 .. N
        /\ count <= t /\ t - count = m /\ t \in 0 .. N /\ q \in Nat
    <3>. HIDE DEF m, N
    <3>. QED BY <1>2, <1>3, <1>4
  <2>2. x = Numbered(running, q, m)
    BY DEF Numbered
  <2>. HIDE DEF t, m, x
  <2>3. P!InTransit' = Ring(d, N, read_pos, t) /\ P!InTransit = Ring(buffer, N, read_pos, count)
    BY <1>1 DEF P!InTransit, Ring, t
  <2>4. Filled(N, buffer, d, read_pos, count, write_pos, t, running, q)
    BY <1>1, <1>2, <2>1 DEF Filled
  <2>. HIDE DEF N, q, d
  <2>5. Joined(Ring(d, N, read_pos, t), Ring(buffer, N, read_pos, count), Numbered(running, q, t - count))
    BY <2>1, <2>4, RingFill
  <2>. QED BY <2>1, <2>2, <2>3, <2>5 DEF Joined
<1>8. PipeRing'
  <2>1. (write_pos + m) % N = (read_pos + (count + m)) % N
    <3>. HIDE DEF N, m
    <3>. DEFINE j == count + m
    <3>1. write_pos = IF read_pos + count < N THEN read_pos + count ELSE read_pos + count - N
      BY <1>2, After
    <3>2. m \in 0 .. N /\ j \in 0 .. N /\ write_pos \in 0 .. N - 1
      BY <1>2, <1>4, <3>1
    <3>. HIDE DEF j
    <3>3. (write_pos + m) % N = IF write_pos + m < N THEN write_pos + m ELSE write_pos + m - N
      BY <1>2, <3>2, After
    <3>4. (read_pos + j) % N = IF read_pos + j < N THEN read_pos + j ELSE read_pos + j - N
      BY <1>2, <3>2, After
    <3>5. (write_pos + m) % N = (read_pos + j) % N
      BY <1>2, <1>4, <3>1, <3>2, <3>3, <3>4 DEF j
    <3>. QED BY <3>5 DEF j
  <2>2. count + m \in 0 .. N
    BY <1>2, <1>4
  <2>. HIDE DEF m, Dist
  <2>3. DOMAIN buffer' = DOMAIN buffer
    BY <1>1
  <2>4. sent' \in [Procs -> Nat]
    BY <1>1, <1>2, <1>3, <1>4
  <2>5. /\ read_pos' \in 0 .. N - 1 /\ count' \in 0 .. N
        /\ write_pos' = (read_pos' + count') % N
        /\ readers' # 0
    BY <1>1, <1>2, <2>1, <2>2
  <2>. QED BY <1>2, <2>3, <2>4, <2>5 DEF PipeRing
<1>9. P!Stream!Accept(running, n, m)
  <2>1. P!Stream!Open("r")
    BY <1>3, EndOpen
  <2>2. Len(P!InTransit) + m <= PIPE_CAPACITY
    <3>. HIDE DEF m
    <3>. QED BY <1>2, <1>3, <1>4, TransitLen
  <2>. HIDE DEF m
  <2>3. UNCHANGED ends
    OBVIOUS
  <2>. QED BY <1>1, <1>4, <1>7, <2>1, <2>2, <2>3, Zenon DEF P!Stream!Accept, P!Stream!Answer
<1>. HIDE DEF m
<1>10. P!Stream!Next
  BY <1>3, <1>4, <1>9 DEF P!Stream!Next
<1>. QED BY <1>1, <1>3, <1>8, <1>10, WakeMoves

(* An answer that moves no byte.                                            *)
LEMMA AnswerStep ==
    ASSUME PipeInv, NEW n \in Counts,
           UNCHANGED <<buffer, read_pos, write_pos, count, readers, writers, sent, ends>>,
           \/ P!Stream!EndOfFile(running, n)
           \/ P!Stream!Broken(running, n)
           \/ P!Stream!TryAgain(running, n)
           \/ P!Stream!Nothing(running, n)
    PROVE  P!Stream!Next /\ PipeRing'
<1>1. UNCHANGED P!InTransit
  BY TransitStays
<1>2. P!Stream!Next
  BY <1>1 DEF P!Stream!Next, PipeInv, PipeProcs
<1>3. PipeRing'
  BY DEF PipeInv, PipeRing
<1>. QED BY <1>2, <1>3

(* pipe_write: nothing, a broken pipe that is broken, or PutBytes.          *)
LEMMA WriteStep ==
    ASSUME PipeInv, NEW n \in Counts, "w" \in ends[running], ~P!WriteBlocks(n),
           P!pipe_write(n), UNCHANGED ends
    PROVE  P!Stream!Next /\ PipeRing' /\ Moved /\ UNCHANGED <<readers, writers>>
<1>0. PipeCounts /\ PipeProcs
  BY DEF PipeInv
<1>1. CASE n > 0 /\ readers > 0 /\ P!PutBytes(n)
  BY <1>1, PutStep
<1>2. CASE n = 0 /\ P!Answer(0, 0, <<>>) /\ UNCHANGED <<P!ring, readers, writers, pstate, sent>>
  <2>1. P!Stream!Nothing(running, n)
    BY <1>2 DEF P!Stream!Nothing, P!Stream!Answer, P!Answer
  <2>2. P!Stream!Next /\ PipeRing'
    BY <1>2, <2>1, AnswerStep DEF P!ring
  <2>. QED BY <1>0, <1>2, <2>2, WakeMoves
<1>3. CASE n > 0 /\ readers = 0 /\ P!Answer(n, P!EPIPE, <<>>)
           /\ UNCHANGED <<P!ring, readers, writers, pstate, sent>>
  <2>1. ~P!Stream!Open("r")
    BY <1>0, <1>3, EndOpen
  <2>2. P!Stream!Broken(running, n)
    BY <1>3, <2>1 DEF P!Stream!Broken, P!Stream!Answer, P!Answer
  <2>3. P!Stream!Next /\ PipeRing'
    BY <1>3, <2>2, AnswerStep DEF P!ring
  <2>. QED BY <1>0, <1>3, <2>3, WakeMoves
<1>. QED BY <1>1, <1>2, <1>3 DEF P!pipe_write

(* "Try again" is said of a pipe that is empty and has a writer, or that    *)
(* has a reader and no room for the whole write.                            *)
LEMMA TryAgainStep ==
    ASSUME PipeInv, NEW n \in Counts,
           \/ "r" \in ends[running] /\ P!ReadBlocks(n)
           \/ "w" \in ends[running] /\ P!WriteBlocks(n),
           P!TryAgain(n), UNCHANGED ends
    PROVE  P!Stream!Next /\ PipeRing' /\ Moved /\ UNCHANGED <<readers, writers>>
<1>0. PipeRing /\ PipeCounts /\ PipeProcs
  BY DEF PipeInv
<1>1. /\ P!Stream!Open("r") <=> readers > 0
      /\ P!Stream!Open("w") <=> writers > 0
  BY <1>0, EndOpen
<1>2. /\ Len(P!InTransit) = count
      /\ P!InTransit = <<>> <=> count = 0
  BY <1>0, TransitLen
<1>3. /\ P!ReadBlocks(n) => count = 0 /\ writers > 0
      /\ P!WriteBlocks(n) => readers > 0 /\ count + n > PIPE_CAPACITY
  BY <1>0, PipeConstants DEF P!ReadBlocks, P!WriteBlocks, P!Space, PipeRing
<1>4. P!Stream!TryAgain(running, n)
  BY <1>1, <1>2, <1>3 DEF P!Stream!TryAgain, P!Stream!Answer, P!Answer, P!TryAgain, P!EAGAIN
<1>5. P!Stream!Next /\ PipeRing'
  BY <1>4, AnswerStep DEF P!TryAgain, P!ring
<1>. QED BY <1>0, <1>5, WakeMoves DEF P!TryAgain

(* A step that tells nobody anything and moves no byte and no end.          *)
LEMMA QuietStep ==
    ASSUME PipeInv, answer' = P!NoAnswer,
           UNCHANGED <<buffer, read_pos, write_pos, count, readers, writers, sent, ends>>
    PROVE  P!Stream!Next /\ PipeRing' /\ PipeCounts'
<1>1. UNCHANGED P!InTransit
  BY TransitStays
<1>2. P!Stream!Next
  BY <1>1 DEF P!Stream!Next, P!Stream!Quiet, P!NoAnswer, P!Stream!NoAnswer
<1>3. PipeRing' /\ PipeCounts'
  BY DEF PipeInv, PipeRing, PipeCounts, Holders
<1>. QED BY <1>2, <1>3

(* The counts and the processes after a call that was answered.             *)
LEMMA AnsweredStep ==
    ASSUME PipeInv, Moved, UNCHANGED <<ends, readers, writers, running>>,
           \/ UNCHANGED <<blk, at>>
           \/ /\ at = "exit" /\ at' = "user"
              /\ blk' = [blk EXCEPT ![running] = P!Awake]
    PROVE  PipeCounts' /\ PipeProcs'
<1>0. PipeProcs
  BY DEF PipeInv
<1>1. PipeCounts'
  BY DEF PipeInv, PipeCounts, Holders
<1>2. /\ pstate' \in [Procs -> {"DEAD", "READY", "RUNNING", "BLOCKED"}]
      /\ at' # "halted" => pstate'[running'] = "RUNNING"
      /\ \A p \in Procs : pstate'[p] = "DEAD" => ends'[p] = {}
      /\ running' \in Procs
      /\ at' \in {"user", "exit", "closing", "halted"}
  BY <1>0 DEF PipeProcs, Moved
<1>3. CASE UNCHANGED <<blk, at>>
  BY <1>0, <1>1, <1>2, <1>3 DEF PipeProcs
<1>4. CASE /\ at = "exit" /\ at' = "user"
           /\ blk' = [blk EXCEPT ![running] = P!Awake]
  <2>1. blk' \in [Procs -> [why : {"none", "read", "write"}, n : {0} \cup Counts]]
    BY <1>0, <1>4 DEF PipeProcs, P!Awake
  <2>2. blk'[running].why = "none"
    BY <1>0, <1>4 DEF PipeProcs, P!Awake
  <2>3. ASSUME NEW p \in Procs, NEW e \in {"r", "w"}, blk'[p].why = Why(e)
        PROVE  blk'[p].n \in Counts /\ e \in ends'[p]
    <3>1. p # running /\ blk'[p] = blk[p]
      BY <1>0, <1>4, <2>2, <2>3 DEF Why, PipeProcs
    <3>. QED BY <1>0, <1>4, <2>3, <3>1 DEF PipeProcs
  <2>. QED BY <1>1, <1>2, <1>4, <2>1, <2>2, <2>3 DEF PipeProcs
<1>. QED BY <1>3, <1>4

(* Another process takes over from the running one, which stays in the      *)
(* table or has let go of the pipe.                                         *)
LEMMA SwitchStep ==
    ASSUME PipeInv, NEW p \in P!Ready, NEW st \in {"READY", "BLOCKED", "DEAD"}, at # "halted",
           pstate' = [pstate EXCEPT ![running] = st, ![p] = "RUNNING"],
           st = "DEAD" => ends[running] = {},
           P!Switch(p), UNCHANGED ends,
           \/ UNCHANGED blk /\ at = "user"
           \/ blk' = [blk EXCEPT ![running] = P!Awake]
           \/ \E e \in {"r", "w"}, n \in Counts :
                 e \in ends[running] /\ blk' = [blk EXCEPT ![running] = [why |-> Why(e), n |-> n]]
    PROVE  PipeProcs'
<1>0. PipeProcs /\ running \in Procs /\ p \in Procs /\ pstate[p] = "READY"
  BY DEF PipeInv, PipeProcs, P!Ready
<1>1. /\ pstate' \in [Procs -> {"DEAD", "READY", "RUNNING", "BLOCKED"}]
      /\ running' = p /\ at' = "exit"
      /\ pstate'[p] = "RUNNING" /\ p # running
      /\ \A q \in Procs : pstate'[q] = "DEAD" => ends'[q] = {}
  BY <1>0 DEF PipeProcs, P!Switch
<1>2. /\ blk' \in [Procs -> [why : {"none", "read", "write"}, n : {0} \cup Counts]]
      /\ \A q \in Procs : q # running => blk'[q] = blk[q]
  BY <1>0 DEF PipeProcs, P!Awake, Why
<1>3. ASSUME NEW q \in Procs, NEW e \in {"r", "w"}, blk'[q].why = Why(e)
      PROVE  blk'[q].n \in Counts /\ e \in ends'[q]
  <2>1. CASE q # running
    BY <1>0, <1>2, <1>3, <2>1 DEF PipeProcs
  <2>2. CASE q = running
    <3>1. CASE UNCHANGED blk /\ at = "user"
      BY <1>0, <1>3, <2>2, <3>1 DEF PipeProcs, Why
    <3>2. CASE blk' = [blk EXCEPT ![running] = P!Awake]
      BY <1>0, <1>3, <2>2, <3>2 DEF PipeProcs, Why, P!Awake
    <3>3. ASSUME NEW d \in {"r", "w"}, NEW n \in Counts, d \in ends[running],
                 blk' = [blk EXCEPT ![running] = [why |-> Why(d), n |-> n]]
          PROVE  blk'[q].n \in Counts /\ e \in ends'[q]
      BY <1>0, <1>3, <2>2, <3>3 DEF PipeProcs, Why
    <3>. QED BY <3>1, <3>2, <3>3
  <2>. QED BY <2>1, <2>2
<1>. QED BY <1>1, <1>2, <1>3 DEF PipeProcs

(* pipe_create clears the pipe for its first two ends.                      *)
LEMMA CreateStep ==
    ASSUME PipeInv, P!pipe_create
    PROVE  P!Stream!Next /\ PipeInv'
<1>0. PipeRing /\ PipeCounts /\ PipeProcs /\ running \in Procs
  BY DEF PipeInv, PipeProcs
<1>1. /\ at = "user" /\ readers = 0 /\ writers = 0
      /\ buffer' = P!Empty /\ read_pos' = 0 /\ write_pos' = 0 /\ count' = 0
      /\ readers' = 1 /\ writers' = 1
      /\ ends' = [ends EXCEPT ![running] = {"r", "w"}]
      /\ answer' = P!NoAnswer
      /\ UNCHANGED <<pstate, running, blk, at, sent>>
  BY DEF P!pipe_create
<1>2. \A q \in Procs : ends[q] = {}
  <2>1. Holders("r") = {} /\ Holders("w") = {}
    BY <1>0, <1>1, EndOpen
  <2>. QED BY <1>0, <2>1 DEF Holders, PipeCounts
<1>3. Holders("r")' = {running} /\ Holders("w")' = {running}
  BY <1>0, <1>1, <1>2 DEF Holders, PipeCounts
<1>4. PipeCounts'
  <2>1. IsFiniteSet({running}) /\ Cardinality({running}) = 1
    BY FS_Singleton
  <2>2. ends' \in [Procs -> SUBSET {"r", "w"}]
    BY <1>0, <1>1 DEF PipeCounts
  <2>. QED BY <1>1, <1>3, <2>1, <2>2 DEF PipeCounts
<1>5. PipeRing'
  BY <1>0, <1>1, PipeConstants DEF PipeRing, P!Empty
<1>6. PipeProcs'
  BY <1>0, <1>1, <1>2 DEF PipeProcs, Why
<1>7. P!InTransit = <<>> /\ P!InTransit' = <<>>
  BY <1>0, <1>1, TransitLen DEF PipeRing, P!InTransit
<1>8. P!Stream!Create(running)
  BY <1>1, <1>2, <1>7 DEF P!Stream!Create
<1>9. P!Stream!Next
  BY <1>0, <1>1, <1>8 DEF P!Stream!Next, P!NoAnswer, P!Stream!NoAnswer
<1>. QED BY <1>4, <1>5, <1>6, <1>9 DEF PipeInv

(* The count of an end when one more process holds it, or one less.         *)
LEMMA HolderJoins ==
    ASSUME NEW A, NEW Z, NEW x, IsFiniteSet(A), x \notin A, Z = A \cup {x}
    PROVE  IsFiniteSet(Z) /\ Cardinality(Z) = Cardinality(A) + 1
BY FS_AddElement

(* A holder that leaves is one less.                                        *)
LEMMA HolderLeaves ==
    ASSUME NEW A, NEW Z, NEW x, IsFiniteSet(A), x \in A, Z = A \ {x}
    PROVE  IsFiniteSet(Z) /\ Cardinality(Z) = Cardinality(A) - 1
BY FS_RemoveElement

(* A child shares the ends of its parent, each counted once more.           *)
LEMMA InheritStep ==
    ASSUME PipeInv, NEW child \in Procs, P!process_fd_inherit(child)
    PROVE  P!Stream!Next /\ PipeInv'
<1>0. PipeRing /\ PipeCounts /\ PipeProcs /\ running \in Procs
  BY DEF PipeInv, PipeProcs
<1>1. /\ at = "user" /\ pstate[child] = "DEAD"
      /\ pstate' = [pstate EXCEPT ![child] = "READY"]
      /\ ends' = [ends EXCEPT ![child] = ends[running]]
      /\ readers' = readers + P!Held(running, "r")
      /\ writers' = writers + P!Held(running, "w")
      /\ answer' = P!NoAnswer
      /\ UNCHANGED <<buffer, read_pos, write_pos, count, running, blk, at, sent>>
  BY DEF P!process_fd_inherit, P!ring
<1>2. ends[child] = {} /\ child # running
  BY <1>0, <1>1 DEF PipeProcs
<1>3. ASSUME NEW e \in {"r", "w"}
      PROVE  Holders(e)' = IF e \in ends[running] THEN Holders(e) \cup {child} ELSE Holders(e)
  BY <1>0, <1>1, <1>2 DEF Holders, PipeCounts
<1>4. ends' \in [Procs -> SUBSET {"r", "w"}]
  BY <1>0, <1>1 DEF PipeCounts
<1>5. ASSUME NEW e \in {"r", "w"}, IsFiniteSet(Holders(e))
      PROVE  /\ IsFiniteSet(Holders(e)')
             /\ Cardinality(Holders(e)') = Cardinality(Holders(e)) + P!Held(running, e)
  <2>1. child \notin Holders(e)
    BY <1>2 DEF Holders
  <2>2. CASE e \in ends[running]
    <3>1. Holders(e)' = Holders(e) \cup {child}
      BY <1>3, <2>2
    <3>. QED BY <1>5, <2>1, <2>2, <3>1, HolderJoins DEF P!Held
  <2>3. CASE e \notin ends[running]
    <3>1. Holders(e)' = Holders(e)
      BY <1>3, <2>3
    <3>2. Cardinality(Holders(e)) \in Nat
      BY <1>5, FS_CardinalityType
    <3>. QED BY <1>5, <2>3, <3>1, <3>2 DEF P!Held
  <2>. QED BY <2>2, <2>3
<1>6. PipeCounts'
  BY <1>0, <1>1, <1>4, <1>5 DEF PipeCounts
<1>7. PipeRing'
  <2>1. readers' = 0 /\ writers' = 0 => readers = 0 /\ writers = 0
    BY <1>0, <1>1, EndOpen DEF P!Held
  <2>. QED BY <1>0, <1>1, <2>1 DEF PipeRing
<1>8. PipeProcs'
  <2>1. ASSUME NEW q \in Procs, NEW e \in {"r", "w"}, blk'[q].why = Why(e)
        PROVE  blk'[q].n \in Counts /\ e \in ends'[q]
    <3>1. e \in ends[q] /\ blk[q].n \in Counts
      BY <1>0, <1>1, <2>1 DEF PipeProcs
    <3>2. q # child
      BY <1>2, <3>1
    <3>. QED BY <1>0, <1>1, <3>1, <3>2 DEF PipeCounts
  <2>2. \A q \in Procs : pstate'[q] = "DEAD" => ends'[q] = {}
    BY <1>0, <1>1 DEF PipeProcs, PipeCounts
  <2>. QED BY <1>0, <1>1, <1>2, <2>1, <2>2 DEF PipeProcs
<1>9. P!Stream!Share(running, child)
  BY <1>1, <1>2, TransitStays DEF P!Stream!Share
<1>10. P!Stream!Next
  BY <1>0, <1>1, <1>9 DEF P!Stream!Next, P!NoAnswer, P!Stream!NoAnswer
<1>. QED BY <1>6, <1>7, <1>8, <1>10 DEF PipeInv

(* pipe_close gives one end back; with the last one the bytes in transit    *)
(* are gone.                                                                *)
LEMMA CloseStep ==
    ASSUME PipeInv, NEW e \in {"r", "w"}, e \in ends[running], P!pipe_close(e),
           at \in {"user", "closing"}, UNCHANGED <<running, blk, at, sent>>
    PROVE  P!Stream!Next /\ PipeInv'
<1>0. PipeRing /\ PipeCounts /\ PipeProcs /\ running \in Procs
  BY DEF PipeInv, PipeProcs
<1>1. /\ readers' = readers - (IF e = "r" THEN 1 ELSE 0)
      /\ writers' = writers - (IF e = "w" THEN 1 ELSE 0)
      /\ \/ readers' = 0 /\ writers' = 0
            /\ buffer' = P!Empty /\ read_pos' = 0 /\ write_pos' = 0 /\ count' = 0
         \/ ~(readers' = 0 /\ writers' = 0)
            /\ UNCHANGED <<buffer, read_pos, write_pos, count>>
      /\ ends' = [ends EXCEPT ![running] = @ \ {e}]
      /\ answer' = P!NoAnswer
  BY DEF P!pipe_close, P!ring
<1>2. Moved
  <2>1. \/ P!process_wake_pipe_waiter("write")
        \/ P!process_wake_pipe_waiter("read")
        \/ UNCHANGED pstate
    BY DEF P!pipe_close
  <2>. QED BY <1>0, <2>1, WakeMoves
<1>3. ASSUME NEW d \in {"r", "w"}
      PROVE  Holders(d)' = IF d = e THEN Holders(d) \ {running} ELSE Holders(d)
  BY <1>0, <1>1 DEF Holders, PipeCounts
<1>4. ends' \in [Procs -> SUBSET {"r", "w"}]
  BY <1>0, <1>1 DEF PipeCounts
<1>5. ASSUME NEW d \in {"r", "w"}, IsFiniteSet(Holders(d))
      PROVE  /\ IsFiniteSet(Holders(d)')
             /\ Cardinality(Holders(d)')
                  = Cardinality(Holders(d)) - (IF d = e THEN 1 ELSE 0)
  <2>1. CASE d = e
    <3>1. Holders(d)' = Holders(d) \ {running} /\ running \in Holders(d)
      BY <1>0, <1>3, <2>1 DEF Holders
    <3>. QED BY <1>5, <2>1, <3>1, HolderLeaves
  <2>2. CASE d # e
    <3>1. Holders(d)' = Holders(d)
      BY <1>3, <2>2
    <3>2. Cardinality(Holders(d)) \in Nat
      BY <1>5, FS_CardinalityType
    <3>. QED BY <1>5, <2>2, <3>1, <3>2
  <2>. QED BY <2>1, <2>2
<1>6. PipeCounts'
  BY <1>0, <1>1, <1>4, <1>5 DEF PipeCounts
<1>7. PipeRing'
  <2>1. CASE readers' = 0 /\ writers' = 0
    BY <1>0, <1>1, <2>1, PipeConstants DEF PipeRing, P!Empty
  <2>2. CASE ~(readers' = 0 /\ writers' = 0)
    <3>1. UNCHANGED <<buffer, read_pos, write_pos, count, sent>>
      BY <1>1, <2>2
    <3>. QED BY <1>0, <2>2, <3>1 DEF PipeRing
  <2>. QED BY <2>1, <2>2
<1>8. PipeProcs'
  <2>1. ASSUME NEW q \in Procs, NEW d \in {"r", "w"}, blk'[q].why = Why(d)
        PROVE  /\ blk'[q].n \in Counts
               /\ d \in ends'[q] \/ (q = running' /\ at' = "closing")
    <3>1. /\ blk[q].n \in Counts
          /\ d \in ends[q] \/ (q = running /\ at = "closing")
      BY <1>0, <2>1 DEF PipeProcs
    <3>2. q = running => at = "closing"
      BY <1>0, <2>1 DEF PipeProcs, Why
    <3>3. q # running => ends'[q] = ends[q]
      BY <1>0, <1>1 DEF PipeCounts
    <3>. QED BY <3>1, <3>2, <3>3
  <2>2. ASSUME NEW q \in Procs, pstate'[q] = "DEAD" PROVE ends'[q] = {}
    <3>1. ends[q] = {}
      BY <1>0, <1>2, <2>2 DEF PipeProcs, Moved
    <3>. QED BY <1>0, <1>1, <3>1 DEF PipeCounts
  <2>. QED BY <1>0, <1>2, <2>1, <2>2 DEF PipeProcs, Moved
<1>9. P!Stream!Close(running, e)
  <2>1. (\A q \in Procs : ends'[q] = {}) <=> readers' = 0 /\ writers' = 0
    <3>1. /\ readers' = 0 <=> Holders("r")' = {}
          /\ writers' = 0 <=> Holders("w")' = {}
      BY <1>6, FS_EmptySet DEF PipeCounts
    <3>. QED BY <1>4, <3>1 DEF Holders
  <2>2. readers' = 0 /\ writers' = 0 => P!InTransit' = <<>>
    BY <1>1 DEF P!InTransit
  <2>3. ~(readers' = 0 /\ writers' = 0) => P!InTransit' = P!InTransit
    BY <1>1, TransitStays
  <2>. QED BY <1>1, <2>1, <2>2, <2>3 DEF P!Stream!Close
<1>10. P!Stream!Next
  BY <1>0, <1>1, <1>9 DEF P!Stream!Next, P!NoAnswer, P!Stream!NoAnswer
<1>. QED BY <1>6, <1>7, <1>8, <1>10 DEF PipeInv

(* A call that cannot be served now: it sleeps, or is told to try again     *)
(* when nobody else could run.                                              *)
LEMMA BlockStep ==
    ASSUME PipeInv, at = "user", NEW e \in {"r", "w"}, NEW n \in Counts,
           e \in ends[running], UNCHANGED ends, P!Block(Why(e), n),
           e = "r" => P!ReadBlocks(n), e = "w" => P!WriteBlocks(n)
    PROVE  P!Stream!Next /\ PipeInv'
<1>1. CASE P!TryAgain(n) /\ UNCHANGED <<blk, running, at>>
  <2>1. P!Stream!Next /\ PipeRing' /\ Moved /\ UNCHANGED <<readers, writers>>
    BY <1>1, TryAgainStep
  <2>. QED BY <1>1, <2>1, AnsweredStep DEF PipeInv
<1>2. ASSUME NEW p \in P!Ready,
             blk' = [blk EXCEPT ![running] = [why |-> Why(e), n |-> n]],
             pstate' = [pstate EXCEPT ![running] = "BLOCKED", ![p] = "RUNNING"],
             P!Switch(p), answer' = P!NoAnswer,
             UNCHANGED <<P!ring, readers, writers, sent>>
      PROVE  P!Stream!Next /\ PipeInv'
  <2>1. P!Stream!Next /\ PipeRing' /\ PipeCounts'
    BY <1>2, QuietStep DEF P!ring
  <2>2. PipeProcs'
    <3>1. \E d \in {"r", "w"}, k \in Counts :
             d \in ends[running] /\ blk' = [blk EXCEPT ![running] = [why |-> Why(d), n |-> k]]
      BY <1>2
    <3>. QED BY <1>2, <3>1, SwitchStep
  <2>. QED BY <2>1, <2>2 DEF PipeInv
<1>. QED BY <1>1, <1>2 DEF P!Block

(* The retry of a resumed call is a call like the first.                    *)
LEMMA RetryStep ==
    ASSUME PipeInv, P!process_complete_pipe_io
    PROVE  P!Stream!Next /\ PipeInv'
<1>. DEFINE n == blk[running].n
            why == blk[running].why
<1>0. PipeProcs /\ running \in Procs /\ why \in {"none", "read", "write"}
  BY DEF PipeInv, PipeProcs
<1>1. /\ at = "exit" /\ at' = "user" /\ blk' = [blk EXCEPT ![running] = P!Awake]
      /\ UNCHANGED <<running, ends>> /\ P!Retry(blk[running])
  BY DEF P!process_complete_pipe_io
<1>2. /\ why = "read" => n \in Counts /\ "r" \in ends[running]
      /\ why = "write" => n \in Counts /\ "w" \in ends[running]
  BY <1>0, <1>1 DEF PipeProcs, Why
<1>3. P!Stream!Next /\ PipeRing' /\ Moved /\ UNCHANGED <<readers, writers>>
  <2>1. CASE why = "read"
    <3>1. IF P!ReadBlocks(n) THEN P!TryAgain(n) ELSE P!pipe_read(n)
      BY <1>1, <2>1 DEF P!Retry
    <3>. HIDE DEF n, why
    <3>. QED BY <1>1, <1>2, <2>1, <3>1, TryAgainStep, ReadStep
  <2>2. CASE why = "write"
    <3>1. IF P!WriteBlocks(n) THEN P!TryAgain(n) ELSE P!pipe_write(n)
      BY <1>1, <2>2 DEF P!Retry
    <3>. HIDE DEF n, why
    <3>. QED BY <1>1, <1>2, <2>2, <3>1, TryAgainStep, WriteStep
  <2>3. CASE why = "none"
    <3>1. answer' = P!NoAnswer /\ UNCHANGED <<P!ring, readers, writers, pstate, sent>>
      BY <1>1, <2>3 DEF P!Retry
    <3>2. P!Stream!Next /\ PipeRing'
      BY <1>1, <3>1, QuietStep DEF P!ring
    <3>. QED BY <1>0, <3>1, <3>2, WakeMoves
  <2>. QED BY <1>0, <2>1, <2>2, <2>3
<1>4. PipeCounts' /\ PipeProcs'
  BY <1>1, <1>3, AnsweredStep
<1>. QED BY <1>3, <1>4 DEF PipeInv

(* The exits: closing is announced, and a process without ends leaves.      *)
LEMMA ExitStep ==
    ASSUME PipeInv, P!process_mark_exit \/ P!scheduler_exit_current \/ P!scheduler_preempt
    PROVE  P!Stream!Next /\ PipeInv'
<1>0. PipeProcs /\ PipeCounts /\ running \in Procs
  BY DEF PipeInv, PipeProcs
<1>1. answer' = P!NoAnswer
      /\ UNCHANGED <<buffer, read_pos, write_pos, count, readers, writers, sent, ends>>
  BY DEF P!process_mark_exit, P!scheduler_exit_current, P!scheduler_preempt, P!ring, P!procs
<1>2. P!Stream!Next /\ PipeRing' /\ PipeCounts'
  BY <1>1, QuietStep
<1>3. CASE P!process_mark_exit
  <2>1. PipeProcs'
    BY <1>0, <1>3 DEF P!process_mark_exit, P!procs, PipeProcs
  <2>. QED BY <1>2, <2>1 DEF PipeInv
<1>4. CASE P!scheduler_preempt
  <2>1. PICK p \in P!Ready :
           /\ pstate' = [pstate EXCEPT ![running] = "READY", ![p] = "RUNNING"]
           /\ P!Switch(p)
    BY <1>4 DEF P!scheduler_preempt
  <2>2. at = "user" /\ UNCHANGED <<ends, blk>>
    BY <1>4 DEF P!scheduler_preempt
  <2>3. PipeProcs'
    BY <2>1, <2>2, SwitchStep
  <2>. QED BY <1>2, <2>3 DEF PipeInv
<1>5. CASE P!scheduler_exit_current
  <2>1. /\ at = "closing" /\ ends[running] = {} /\ UNCHANGED ends
        /\ blk' = [blk EXCEPT ![running] = P!Awake]
    BY <1>5 DEF P!scheduler_exit_current
  <2>2. ASSUME NEW p \in P!Ready,
               pstate' = [pstate EXCEPT ![running] = "DEAD", ![p] = "RUNNING"],
               P!Switch(p)
        PROVE  PipeProcs'
    BY <2>1, <2>2, SwitchStep
  <2>3. ASSUME pstate' = [pstate EXCEPT ![running] = "DEAD"],
               at' = "halted", UNCHANGED running
        PROVE  PipeProcs'
    <3>1. blk' \in [Procs -> [why : {"none", "read", "write"}, n : {0} \cup Counts]]
      BY <1>0, <2>1 DEF PipeProcs, P!Awake
    <3>2. pstate' \in [Procs -> {"DEAD", "READY", "RUNNING", "BLOCKED"}]
      BY <1>0, <2>3 DEF PipeProcs
    <3>3. \A q \in Procs : pstate'[q] = "DEAD" => ends'[q] = {}
      BY <1>0, <2>1, <2>3 DEF PipeProcs
    <3>4. ASSUME NEW q \in Procs, NEW e \in {"r", "w"}, blk'[q].why = Why(e)
          PROVE  blk'[q].n \in Counts /\ e \in ends'[q]
      <4>1. q # running /\ blk'[q] = blk[q]
        BY <1>0, <2>1, <3>4 DEF PipeProcs, P!Awake, Why
      <4>. QED BY <1>0, <2>1, <3>4, <4>1 DEF PipeProcs
    <3>. QED BY <1>0, <2>3, <3>1, <3>2, <3>3, <3>4 DEF PipeProcs
  <2>4. PipeProcs'
    BY <1>5, <2>2, <2>3 DEF P!scheduler_exit_current
  <2>. QED BY <1>2, <2>4 DEF PipeInv
<1>. QED BY <1>3, <1>4, <1>5

(* A new pipe is an empty stream with its creator at both ends.             *)
LEMMA PipeInit ==
    P!Init => PipeInv /\ P!Stream!Init
<1>. SUFFICES ASSUME P!Init PROVE PipeInv /\ P!Stream!Init
  OBVIOUS
<1>1. running \in Procs
  <2>1. \E x \in Procs : \A y \in Procs : x <= y
    <3>1. Procs \subseteq Nat /\ Procs # {}
      BY PipeBytesAssumption DEF Positive
    <3>. QED BY <3>1, LeastNat
  <2>. QED BY <2>1 DEF P!Init, P!Least
<1>2. PipeRing
  BY PipeConstants DEF P!Init, P!pipe_init, P!Empty, PipeRing
<1>3. Holders("r") = {} /\ Holders("w") = {} /\ ends \in [Procs -> SUBSET {"r", "w"}]
  BY DEF P!Init, Holders
<1>4. PipeCounts
  BY <1>3, FS_EmptySet DEF P!Init, P!pipe_init, PipeCounts
<1>5. PipeProcs
  BY <1>1 DEF P!Init, PipeProcs, P!Awake, Why
<1>6. P!InTransit = <<>>
  BY DEF P!Init, P!pipe_init, P!InTransit
<1>7. P!Stream!Init
  BY <1>6 DEF P!Init, P!Stream!Init, P!NoAnswer, P!Stream!NoAnswer
<1>. QED BY <1>2, <1>4, <1>5, <1>7 DEF PipeInv

(* Every step of the pipe is one of the stream, or none.                    *)
LEMMA PipeNext ==
    ASSUME PipeInv, P!Next
    PROVE  P!Stream!Next /\ PipeInv'
<1>1. ASSUME NEW n \in Counts, P!syscall_read(n) PROVE P!Stream!Next /\ PipeInv'
  <2>1. CASE ~P!ReadBlocks(n) /\ P!pipe_read(n) /\ UNCHANGED <<blk, running, at>>
    <3>1. P!Stream!Next /\ PipeRing' /\ Moved /\ UNCHANGED <<readers, writers>>
      BY <1>1, <2>1, ReadStep DEF P!syscall_read
    <3>. QED BY <1>1, <2>1, <3>1, AnsweredStep DEF PipeInv, P!syscall_read
  <2>2. CASE P!ReadBlocks(n) /\ P!Block("read", n)
    <3>1. Why("r") = "read" /\ "r" # "w"
      BY DEF Why
    <3>. QED BY <1>1, <2>2, <3>1, BlockStep DEF P!syscall_read
  <2>. QED BY <1>1, <2>1, <2>2 DEF P!syscall_read
<1>2. ASSUME NEW n \in Counts, P!syscall_write(n) PROVE P!Stream!Next /\ PipeInv'
  <2>1. CASE ~P!WriteBlocks(n) /\ P!pipe_write(n) /\ UNCHANGED <<blk, running, at>>
    <3>1. P!Stream!Next /\ PipeRing' /\ Moved /\ UNCHANGED <<readers, writers>>
      BY <1>2, <2>1, WriteStep DEF P!syscall_write
    <3>. QED BY <1>2, <2>1, <3>1, AnsweredStep DEF PipeInv, P!syscall_write
  <2>2. CASE P!WriteBlocks(n) /\ P!Block("write", n)
    <3>1. Why("w") = "write" /\ "r" # "w"
      BY DEF Why
    <3>. QED BY <1>2, <2>2, <3>1, BlockStep DEF P!syscall_write
  <2>. QED BY <1>2, <2>1, <2>2 DEF P!syscall_write
<1>3. ASSUME NEW e \in {"r", "w"}, P!syscall_close(e) PROVE P!Stream!Next /\ PipeInv'
  BY <1>3, CloseStep DEF P!syscall_close
<1>4. ASSUME P!process_fd_close_all PROVE P!Stream!Next /\ PipeInv'
  <2>. DEFINE e == IF "r" \in ends[running] THEN "r" ELSE "w"
  <2>1. e \in {"r", "w"} /\ e \in ends[running]
    BY <1>4 DEF P!process_fd_close_all, PipeInv, PipeCounts, PipeProcs
  <2>2. P!pipe_close(e) /\ at = "closing" /\ UNCHANGED <<running, blk, at, sent>>
    BY <1>4 DEF P!process_fd_close_all
  <2>. HIDE DEF e
  <2>. QED BY <2>1, <2>2, CloseStep
<1>. QED BY <1>1, <1>2, <1>3, <1>4, CreateStep, InheritStep, RetryStep, ExitStep DEF P!Next

(* One step, of the pipe or of another part.                                *)
LEMMA PipeStep ==
    ASSUME Idle("pipe") \/ PipeInv, [Next]_vars
    PROVE  /\ (Idle("pipe") \/ PipeInv)'
           /\ [P!Stream!Next]_<<ends, P!InTransit, sent, answer>>
<1>1. CASE UNCHANGED pipe
  <2>1. UNCHANGED P!InTransit
    BY <1>1, TransitStays DEF pipe
  <2>2. PipeInv => PipeInv'
    BY <1>1 DEF pipe, PipeInv, PipeRing, PipeCounts, PipeProcs, Holders
  <2>3. UNCHANGED part
    BY DEF Next, vars
  <2>. QED BY <1>1, <2>1, <2>2, <2>3 DEF pipe, Idle
<1>2. CASE part = "pipe" /\ P!Next
  BY <1>2, PipeNext DEF Idle
<1>. QED BY <1>1, <1>2 DEF Next, vars

(* The pipe keeps its invariant.                                            *)
LEMMA PipeInvariant == Spec => [](Idle("pipe") \/ PipeInv)
<1>. DEFINE Inv == Idle("pipe") \/ PipeInv
<1>1. Init => Inv
  BY PipeInit DEF Init
<1>2. Inv /\ [Next]_vars => Inv'
  BY PipeStep
<1>. QED BY <1>1, <1>2, PTL DEF Spec

(* The ring buffer of a pipe, whoever shares it, blocks, is woken, retried, *)
(* told to try again or dies, implements the byte stream: each byte once    *)
(* and in order, small writes whole, only true answers.                     *)
THEOREM PipeIsStream == Spec => StreamKept
<1>1. Init => P!Stream!Init
  BY PipeInit DEF Init
<1>2. (Idle("pipe") \/ PipeInv) /\ [Next]_vars
        => [P!Stream!Next]_<<ends, P!InTransit, sent, answer>>
  BY PipeStep
<1>. QED BY <1>1, <1>2, PipeInvariant, PTL DEF Spec, StreamKept, P!StreamKept, P!Stream!Spec

-----------------------------------------------------------------------------
(***************************************************************************)
(* The screen and the line of the shell. vga_puts prints a string          *)
(* character by character: the fold that says so is a recursive function   *)
(* on sets of indices, of which there is one for a string of any length.   *)
(*                                                                         *)
(* The screen is described by the string that ends at the cursor, with     *)
(* nothing behind it. A printed character makes it longer, a backspace, a  *)
(* blank and a backspace shorter; a scroll moves it up whole, since a line *)
(* and its prompt fit above the last row.                                  *)
(***************************************************************************)

(* The greatest of some numbers, of which there is one when they are        *)
(* bounded.                                                                 *)
Greatest(A) == CHOOSE x \in A : \A y \in A : x >= y

(* There is one when they are bounded.                                      *)
LEMMA GreatestFacts ==
    ASSUME NEW n \in Nat, NEW A, A \subseteq 1 .. n, A # {}
    PROVE  /\ Greatest(A) \in A
           /\ \A y \in A : Greatest(A) >= y
<1>. DEFINE G == {n - y : y \in A}
<1>1. G \subseteq Nat /\ G # {}
  <2>1. \A y \in A : y \in 1 .. n
    OBVIOUS
  <2>2. \A y \in A : n - y \in Nat
    BY <2>1
  <2>. QED BY <2>2
<1>. HIDE DEF G
<1>2. PICK d \in G : \A z \in G : d <= z
  BY <1>1, LeastNat
<1>3. PICK x \in A : d = n - x
  BY DEF G
<1>4. ASSUME NEW y \in A PROVE x >= y
  <2>1. d <= n - y
    BY <1>2 DEF G
  <2>. QED BY <1>3, <2>1
<1>. QED BY <1>4 DEF Greatest

(* The last index of a prefix.                                              *)
LEMMA GreatestOfPrefix ==
    ASSUME NEW k \in Nat
    PROVE  /\ Greatest(1 .. k + 1) = k + 1
           /\ (1 .. k + 1) \ {k + 1} = 1 .. k
<1>1. PICK m \in Nat : m = k + 1
  OBVIOUS
<1>2. m \in 1 .. m /\ 1 .. m \subseteq 1 .. m /\ 1 .. m # {}
  BY <1>1
<1>3. Greatest(1 .. m) \in 1 .. m /\ \A y \in 1 .. m : Greatest(1 .. m) >= y
  BY <1>2, GreatestFacts, Zenon
<1>4. Greatest(1 .. m) = m
  BY <1>2, <1>3
<1>. QED BY <1>1, <1>4

(* What vga_puts computes: the characters one by one, from the first.       *)
Printed(g, b, q) ==
    g = [A \in SUBSET DOMAIN q |->
            IF A = {} THEN b ELSE V!vga_putc(g[A \ {Greatest(A)}], q[Greatest(A)])]

(* It is the value at all indices of a string.                              *)
LEMMA PutsIs ==
    ASSUME NEW b, NEW q
    PROVE  V!vga_puts(b, q) = (CHOOSE g : Printed(g, b, q))[DOMAIN q]
BY DEF V!vga_puts, V!FoldLeft, V!MapThenFoldSet, V!Max, Printed, Greatest

(* On the prefixes of a string it goes from each to the next.               *)
Steps(g, b, q, n) ==
    /\ g[1 .. 0] = b
    /\ \A k \in 0 .. n - 1 : g[1 .. k + 1] = V!vga_putc(g[1 .. k], q[k + 1])

(* It does, for a string of n characters.                                   *)
LEMMA PrintedSteps ==
    ASSUME NEW b, NEW q, NEW n \in Nat, DOMAIN q = 1 .. n, NEW g, Printed(g, b, q)
    PROVE  Steps(g, b, q, n)
<1>1. \A A \in SUBSET (1 .. n) :
        g[A] = IF A = {} THEN b ELSE V!vga_putc(g[A \ {Greatest(A)}], q[Greatest(A)])
  BY Zenon DEF Printed
<1>2. g[1 .. 0] = b
  <2>1. 1 .. 0 \in SUBSET (1 .. n) /\ 1 .. 0 = {}
    OBVIOUS
  <2>. QED BY <1>1, <2>1, Zenon
<1>3. ASSUME NEW k \in 0 .. n - 1 PROVE g[1 .. k + 1] = V!vga_putc(g[1 .. k], q[k + 1])
  <2>1. k \in Nat /\ 1 .. k + 1 \in SUBSET (1 .. n) /\ 1 .. k + 1 # {}
    OBVIOUS
  <2>. QED BY <1>1, <2>1, GreatestOfPrefix, Zenon
<1>. QED BY <1>2, <1>3 DEF Steps

(* Of strings that begin alike it is the same.                              *)
SameStart(q, r, n) == \A i \in 1 .. n : q[i] = r[i]

(* After each character.                                                    *)
LEMMA PrintedAlike ==
    ASSUME NEW b, NEW q, NEW n \in Nat, NEW g, Steps(g, b, q, n),
           NEW r, NEW m \in Nat, NEW h, Steps(h, b, r, m),
           n <= m, SameStart(q, r, n)
    PROVE  g[1 .. n] = h[1 .. n]
<1>1. /\ g[1 .. 0] = b
      /\ \A k \in 0 .. n - 1 : g[1 .. k + 1] = V!vga_putc(g[1 .. k], q[k + 1])
  BY Zenon DEF Steps
<1>2. /\ h[1 .. 0] = b
      /\ \A k \in 0 .. m - 1 : h[1 .. k + 1] = V!vga_putc(h[1 .. k], r[k + 1])
  BY Zenon DEF Steps
<1>. DEFINE Bad == {k \in Nat : k <= n /\ g[1 .. k] # h[1 .. k]}
<1>3. ASSUME Bad # {} PROVE FALSE
  <2>1. PICK k \in Bad : \A j \in Bad : k <= j
    BY <1>3, LeastNat
  <2>2. CASE k = 0
    BY <1>1, <1>2, <2>1, <2>2
  <2>3. CASE k # 0
    <3>1. PICK j \in Nat : k = j + 1
      <4>1. k - 1 \in Nat /\ k = (k - 1) + 1
        BY <2>3
      <4>. QED BY <4>1
    <3>2. j \notin Bad /\ j <= n /\ k <= n /\ g[1 .. k] # h[1 .. k]
      BY <2>1, <3>1
    <3>3. g[1 .. j] = h[1 .. j]
      BY <3>2
    <3>4. j \in 0 .. n - 1 /\ j \in 0 .. m - 1 /\ j + 1 \in 1 .. n
      BY <3>1, <3>2
    <3>5. g[1 .. j + 1] = V!vga_putc(g[1 .. j], q[j + 1])
      BY <1>1, <3>4, Zenon
    <3>6. h[1 .. j + 1] = V!vga_putc(h[1 .. j], r[j + 1])
      BY <1>2, <3>4, Zenon
    <3>. QED BY <3>1, <3>2, <3>3, <3>4, <3>5, <3>6 DEF SameStart
  <2>. QED BY <2>2, <2>3
<1>. QED BY <1>3

(* And it exists.                                                           *)
Prints(b, n) == \A q : DOMAIN q = 1 .. n => \E g : Printed(g, b, q)

(* One of no characters.                                                   *)
LEMMA PrintsNone == ASSUME NEW b PROVE Prints(b, 0)
<1>. SUFFICES ASSUME NEW q, DOMAIN q = 1 .. 0 PROVE \E g : Printed(g, b, q)
  BY DEF Prints
<1>. DEFINE g == [A \in SUBSET DOMAIN q |-> b]
<1>1. \A A \in SUBSET DOMAIN q : A = {}
  OBVIOUS
<1>2. g = [A \in SUBSET DOMAIN q |->
            IF A = {} THEN b ELSE V!vga_putc(g[A \ {Greatest(A)}], q[Greatest(A)])]
  BY <1>1
<1>. QED BY <1>2 DEF Printed

(* One more than those of which it is so.                                  *)
LEMMA PrintsMore ==
    ASSUME NEW b, NEW n \in Nat, Prints(b, n)
    PROVE  Prints(b, n + 1)
<1>. SUFFICES ASSUME NEW q, DOMAIN q = 1 .. n + 1 PROVE \E g : Printed(g, b, q)
  BY DEF Prints
<1>. DEFINE r == [i \in 1 .. n |-> q[i]]
<1>1. PICK h : Printed(h, b, r)
  <2>1. DOMAIN r = 1 .. n
    OBVIOUS
  <2>. HIDE DEF r
  <2>. QED BY <2>1, Zenon DEF Prints
<1>2. \A A \in SUBSET (1 .. n) :
        h[A] = IF A = {} THEN b ELSE V!vga_putc(h[A \ {Greatest(A)}], r[Greatest(A)])
  BY <1>1, Zenon DEF Printed
<1>. DEFINE g == [A \in SUBSET (1 .. n + 1) |->
                    IF n + 1 \in A THEN V!vga_putc(h[A \ {n + 1}], q[n + 1]) ELSE h[A]]
<1>3. ASSUME NEW A \in SUBSET (1 .. n + 1)
      PROVE  g[A] = IF A = {} THEN b ELSE V!vga_putc(g[A \ {Greatest(A)}], q[Greatest(A)])
  <2>1. CASE A = {}
    BY <1>2, <2>1
  <2>2. CASE n + 1 \in A
    <3>0. PICK m \in Nat : m = n + 1
      OBVIOUS
    <3>1. Greatest(A) \in A /\ \A y \in A : Greatest(A) >= y
      BY <2>2, <3>0, GreatestFacts
    <3>2. Greatest(A) = n + 1
      <4>1. Greatest(A) \in 1 .. m /\ Greatest(A) >= m
        BY <2>2, <3>0, <3>1
      <4>. QED BY <3>0, <4>1
    <3>3. A \ {n + 1} \in SUBSET (1 .. n + 1) /\ n + 1 \notin A \ {n + 1}
      OBVIOUS
    <3>4. g[A \ {n + 1}] = h[A \ {n + 1}]
      BY <3>3, Zenon
    <3>5. g[A] = V!vga_putc(h[A \ {n + 1}], q[n + 1])
      BY <2>2, Zenon
    <3>6. A # {}
      BY <2>2
    <3>. HIDE DEF g
    <3>. QED BY <3>2, <3>4, <3>5, <3>6, Zenon
  <2>3. CASE A # {} /\ n + 1 \notin A
    <3>1. A \in SUBSET (1 .. n)
      BY <2>3
    <3>2. Greatest(A) \in A
      BY <2>3, <3>1, GreatestFacts
    <3>3. A \ {Greatest(A)} \in SUBSET (1 .. n + 1) /\ n + 1 \notin A \ {Greatest(A)}
      BY <2>3
    <3>4. g[A \ {Greatest(A)}] = h[A \ {Greatest(A)}]
      BY <3>3, Zenon
    <3>5. g[A] = h[A]
      BY <2>3, Zenon
    <3>6. r[Greatest(A)] = q[Greatest(A)]
      BY <3>1, <3>2, Zenon
    <3>. HIDE DEF g, r
    <3>. QED BY <1>2, <2>3, <3>1, <3>4, <3>5, <3>6, Zenon
  <2>. QED BY <2>1, <2>2, <2>3
<1>4. g = [A \in SUBSET DOMAIN q |->
            IF A = {} THEN b ELSE V!vga_putc(g[A \ {Greatest(A)}], q[Greatest(A)])]
  <2>1. DOMAIN g = SUBSET DOMAIN q /\ g = [A \in SUBSET DOMAIN q |-> g[A]]
    OBVIOUS
  <2>. HIDE DEF g
  <2>. QED BY <1>3, <2>1, Zenon
<1>. HIDE DEF g
<1>. QED BY <1>4, Zenon DEF Printed

(* Of any number.                                                          *)
LEMMA PrintsAll == ASSUME NEW b, NEW n \in Nat PROVE Prints(b, n)
<1>. DEFINE Bad == {k \in Nat : ~Prints(b, k)}
<1>1. ASSUME Bad # {} PROVE FALSE
  <2>1. PICK k \in Bad : \A j \in Bad : k <= j
    BY <1>1, LeastNat
  <2>2. k # 0
    BY <2>1, PrintsNone
  <2>3. PICK j \in Nat : k = j + 1
    <3>1. k - 1 \in Nat /\ k = (k - 1) + 1
      BY <2>2
    <3>. QED BY <3>1
  <2>4. Prints(b, j)
    <3>1. j \notin Bad
      BY <2>1, <2>3
    <3>. QED BY <3>1
  <2>5. Prints(b, k)
    BY <2>3, <2>4, PrintsMore
  <2>. QED BY <2>5
<1>. QED BY <1>1

(* So a string is printed by printing all but its last character and then   *)
(* that one.                                                                *)
LEMMA PutsAppend ==
    ASSUME NEW A, NEW q \in Seq(A), NEW ch \in A, NEW b
    PROVE  /\ V!vga_puts(b, <<>>) = b
           /\ V!vga_puts(b, Append(q, ch)) = V!vga_putc(V!vga_puts(b, q), ch)
<1>. DEFINE r == Append(q, ch)
<1>1. PICK n \in Nat : n = Len(q)
  OBVIOUS
<1>2. /\ DOMAIN q = 1 .. n /\ DOMAIN r = 1 .. n + 1 /\ r[n + 1] = ch
      /\ \A i \in 1 .. n : q[i] = r[i]
  BY <1>1
<1>. HIDE DEF r
<1>. DEFINE g == CHOOSE x : Printed(x, b, q)  h == CHOOSE x : Printed(x, b, r)
            e == CHOOSE x : Printed(x, b, <<>>)
<1>3. Printed(g, b, q) /\ Printed(h, b, r) /\ Printed(e, b, <<>>)
  <2>1. n + 1 \in Nat /\ DOMAIN <<>> = 1 .. 0
    OBVIOUS
  <2>2. (\E x : Printed(x, b, q)) /\ (\E x : Printed(x, b, r)) /\ (\E x : Printed(x, b, <<>>))
    BY <1>2, <2>1, PrintsAll DEF Prints
  <2>. QED BY <2>2, Zenon
<1>4. /\ V!vga_puts(b, q) = g[1 .. n] /\ V!vga_puts(b, r) = h[1 .. n + 1]
      /\ V!vga_puts(b, <<>>) = e[1 .. 0]
  <2>1. DOMAIN <<>> = 1 .. 0
    OBVIOUS
  <2>. QED BY <1>2, <2>1, PutsIs, Zenon
<1>. HIDE DEF g, h, e
<1>5. PICK m \in Nat : m = n + 1 /\ n <= m
  OBVIOUS
<1>6. Steps(g, b, q, n) /\ Steps(h, b, r, m) /\ Steps(e, b, <<>>, 0)
  <2>1. DOMAIN r = 1 .. m /\ DOMAIN <<>> = 1 .. 0
    BY <1>2, <1>5
  <2>. QED BY <1>2, <1>3, <2>1, PrintedSteps, Zenon
<1>7. e[1 .. 0] = b
  BY <1>6 DEF Steps
<1>8. h[1 .. n + 1] = V!vga_putc(h[1 .. n], ch)
  <2>1. n \in 0 .. m - 1
    BY <1>5
  <2>2. h[1 .. n + 1] = V!vga_putc(h[1 .. n], r[n + 1])
    BY <1>6, <2>1, Zenon DEF Steps
  <2>. QED BY <1>2, <2>2
<1>9. g[1 .. n] = h[1 .. n]
  <2>1. SameStart(q, r, n)
    BY <1>2 DEF SameStart
  <2>. QED BY <1>5, <1>6, <2>1, PrintedAlike
<1>. QED BY <1>4, <1>7, <1>8, <1>9 DEF r

(* A screen: its cells and where its cursor is.                             *)
Screen(s) ==
    /\ s = [cells |-> s.cells, row |-> s.row, col |-> s.col]
    /\ s.cells = [i \in V!Cell |-> s.cells[i]]
    /\ s.row \in 0 .. VGA_HEIGHT - 1
    /\ s.col \in 0 .. VGA_WIDTH - 1

Pos(s) == s.row * VGA_WIDTH + s.col

(* How many cells there are.                                                *)
Cells == VGA_WIDTH * VGA_HEIGHT

(* The constants, one by one.                                               *)
LEMMA ConsoleConstants ==
    /\ VGA_WIDTH \in Nat /\ VGA_WIDTH > 0 /\ VGA_HEIGHT \in Nat /\ VGA_HEIGHT > 0
    /\ CMD_BUFFER_SIZE \in Nat /\ CMD_BUFFER_SIZE > 0
    /\ 2 + CMD_BUFFER_SIZE - 1 <= VGA_WIDTH * (VGA_HEIGHT - 1)
    /\ "newline" \notin Letters /\ "backspace" \notin Letters
<1>1. {VGA_WIDTH, VGA_HEIGHT, CMD_BUFFER_SIZE} \subseteq Nat \ {0}
  BY ConsoleAssumption DEF Positive
<1>2. 2 + CMD_BUFFER_SIZE - 1 <= VGA_WIDTH * (VGA_HEIGHT - 1)
  BY ConsoleAssumption, Zenon
<1>3. "newline" \notin Letters /\ "backspace" \notin Letters
  BY ConsoleAssumption
<1>. QED BY <1>1, <1>2, <1>3

(* Rows of w cells, h of them.                                              *)
LEMMA Grid ==
    ASSUME NEW w \in Nat, NEW h \in Nat, NEW y \in 0 .. h - 1, NEW x \in 0 .. w - 1
    PROVE  /\ w * h \in Nat /\ y * w \in Nat /\ y * w + x < w * h
           /\ (y + 1) * w = y * w + w /\ (y - 1) * w = y * w - w
           /\ (h - 1) * w = w * h - w /\ w * (h - 1) = w * h - w
           /\ y + 1 >= h => y * w + w = w * h
           /\ y + 1 < h => y * w + w < w * h
           /\ y > 0 => y * w >= w
<1>1. PICK d \in Nat : h = y + 1 + d
  <2>1. h - y - 1 \in Nat /\ h = y + 1 + (h - y - 1)
    OBVIOUS
  <2>. QED BY <2>1
<1>2. /\ w * h = y * w + w + d * w /\ d * w \in Nat /\ y * w \in Nat
      /\ (h - 1) * w = y * w + d * w /\ w * (h - 1) = y * w + d * w
  BY <1>1
<1>3. (y + 1) * w = y * w + w /\ (y - 1) * w = y * w - w
  OBVIOUS
<1>4. y + 1 >= h => d * w = 0
  BY <1>1
<1>5. y + 1 < h => d * w > 0
  <2>1. y + 1 < h => d > 0
    BY <1>1
  <2>2. w > 0
    OBVIOUS
  <2>. QED BY <2>1, <2>2
<1>6. y > 0 => y * w >= w
  <2>1. ASSUME y > 0 PROVE y * w >= w
    <3>1. PICK z \in Nat : y = z + 1
      <4>1. y - 1 \in Nat /\ y = (y - 1) + 1
        BY <2>1
      <4>. QED BY <4>1
    <3>2. y * w = z * w + w /\ z * w \in Nat
      BY <3>1
    <3>. QED BY <3>2
  <2>. QED BY <2>1
<1>. QED BY <1>2, <1>3, <1>4, <1>5, <1>6

(* The numbers of a screen.                                                 *)
LEMMA ScreenGrid ==
    ASSUME NEW s, Screen(s)
    PROVE  /\ s.row \in Nat /\ s.row < VGA_HEIGHT /\ s.col \in Nat /\ s.col < VGA_WIDTH
           /\ Cells \in Nat /\ Pos(s) \in Nat /\ Pos(s) < Cells
           /\ Cells - VGA_WIDTH \in Nat
           /\ (s.row + 1) * VGA_WIDTH = s.row * VGA_WIDTH + VGA_WIDTH
           /\ (s.row - 1) * VGA_WIDTH = s.row * VGA_WIDTH - VGA_WIDTH
           /\ (VGA_HEIGHT - 1) * VGA_WIDTH = Cells - VGA_WIDTH
           /\ VGA_WIDTH * (VGA_HEIGHT - 1) = Cells - VGA_WIDTH
           /\ s.row + 1 >= VGA_HEIGHT => s.row * VGA_WIDTH + VGA_WIDTH = Cells
           /\ s.row + 1 < VGA_HEIGHT => s.row * VGA_WIDTH + VGA_WIDTH < Cells
           /\ V!Cell = 0 .. Cells - 1
<1>. DEFINE y == s.row  x == s.col  w == VGA_WIDTH  h == VGA_HEIGHT
<1>1. w \in Nat /\ h \in Nat /\ y \in 0 .. h - 1 /\ x \in 0 .. w - 1
  BY ConsoleConstants DEF Screen
<1>2. Pos(s) = y * w + x /\ Cells = w * h /\ V!Cell = 0 .. w * h - 1
  BY DEF Pos, Cells, V!Cell
<1>. HIDE DEF y, x, w, h
<1>3. /\ w * h \in Nat /\ y * w \in Nat /\ y * w + x < w * h
      /\ (y + 1) * w = y * w + w /\ (y - 1) * w = y * w - w
      /\ (h - 1) * w = w * h - w /\ w * (h - 1) = w * h - w
      /\ y + 1 >= h => y * w + w = w * h
      /\ y + 1 < h => y * w + w < w * h
  BY <1>1, Grid
<1>4. /\ y \in Nat /\ y < h /\ x \in Nat /\ x < w
      /\ y * w + x \in Nat
      /\ w * h - w \in Nat
  BY <1>1, <1>3
<1>. QED BY <1>2, <1>3, <1>4 DEF y, x, w, h

(* What a screen looks like but for its column, which Put may leave behind  *)
(* the last one.                                                            *)
Rows(s) ==
    /\ s = [cells |-> s.cells, row |-> s.row, col |-> s.col]
    /\ s.cells = [i \in V!Cell |-> s.cells[i]]
    /\ s.row \in 0 .. VGA_HEIGHT - 1

(* A row further up, and what is in it when the screen scrolls.             *)
UpBy(a, b) ==
    \A i \in V!Cell : b[i] = IF i + VGA_WIDTH \in V!Cell THEN a[i + VGA_WIDTH] ELSE V!Blank

(* The next row, with the cells as they are or one row up.                  *)
LEMMA NextRowFacts ==
    ASSUME NEW s, Rows(s), NEW p, p = V!NextRow(s)
    PROVE  /\ Screen(p) /\ p.col = 0
           /\ s.row + 1 < VGA_HEIGHT => p.row = s.row + 1 /\ p.cells = s.cells
           /\ s.row + 1 >= VGA_HEIGHT => p.row = VGA_HEIGHT - 1 /\ UpBy(s.cells, p.cells)
<1>1. /\ VGA_WIDTH \in Nat /\ VGA_WIDTH > 0 /\ VGA_HEIGHT \in Nat /\ VGA_HEIGHT > 0
      /\ s.row \in 0 .. VGA_HEIGHT - 1
  BY ConsoleConstants DEF Rows
<1>2. CASE s.row + 1 < VGA_HEIGHT
  <2>1. ~(s.row + 1 >= VGA_HEIGHT)
    BY <1>1, <1>2
  <2>2. p = [s EXCEPT !.row = s.row + 1, !.col = 0]
    BY <2>1 DEF V!NextRow
  <2>3. p = [cells |-> s.cells, row |-> s.row + 1, col |-> 0]
    BY <2>2 DEF Rows
  <2>4. p.cells = s.cells /\ p.row = s.row + 1 /\ p.col = 0
    BY <2>3
  <2>5. s.row + 1 \in 0 .. VGA_HEIGHT - 1 /\ 0 \in 0 .. VGA_WIDTH - 1
    BY <1>1, <1>2
  <2>6. Screen(p)
    BY <2>3, <2>4, <2>5 DEF Screen, Rows
  <2>. QED BY <2>1, <2>4, <2>6
<1>3. CASE s.row + 1 >= VGA_HEIGHT
  <2>. DEFINE k == [i \in V!Cell |-> IF i + VGA_WIDTH \in V!Cell THEN s.cells[i + VGA_WIDTH]
                                     ELSE V!Blank]
  <2>1. p = [cells |-> k, row |-> VGA_HEIGHT - 1, col |-> 0]
    BY <1>3, Zenon DEF V!NextRow, V!vga_scroll
  <2>2. k = [i \in V!Cell |-> k[i]] /\ UpBy(s.cells, k)
    BY DEF UpBy
  <2>. HIDE DEF k
  <2>3. p.cells = k /\ p.row = VGA_HEIGHT - 1 /\ p.col = 0
    BY <2>1
  <2>4. VGA_HEIGHT - 1 \in 0 .. VGA_HEIGHT - 1 /\ 0 \in 0 .. VGA_WIDTH - 1
    BY <1>1
  <2>5. ~(s.row + 1 < VGA_HEIGHT)
    BY <1>1, <1>3
  <2>6. Screen(p)
    BY <2>1, <2>2, <2>3, <2>4 DEF Screen
  <2>. QED BY <2>2, <2>3, <2>5, <2>6
<1>. QED BY <1>1, <1>2, <1>3

(* A character that is printed.                                             *)
Plain(ch) == ch # "newline" /\ ch # "backspace"

(* The cells once a character is where the cursor was.                      *)
With(a, n, ch, b) == \A i \in V!Cell : b[i] = IF i = n THEN ch ELSE a[i]

(* It goes where the cursor is, and the cursor one cell on; behind the last *)
(* cell all rows go up.                                                     *)
LEMMA PutFacts ==
    ASSUME NEW s, Screen(s), NEW ch, Plain(ch), NEW p, p = V!vga_putc(s, ch)
    PROVE  /\ Screen(p)
           /\ \/ /\ Pos(s) + 1 < Cells /\ Pos(p) = Pos(s) + 1
                 /\ With(s.cells, Pos(s), ch, p.cells)
              \/ /\ Pos(s) + 1 = Cells /\ Pos(p) = Cells - VGA_WIDTH
                 /\ \E k : With(s.cells, Pos(s), ch, k) /\ UpBy(k, p.cells)
<1>1. PICK k : k = [s.cells EXCEPT ![Pos(s)] = ch]
  OBVIOUS
<1>2. PICK t : t = [cells |-> k, row |-> s.row, col |-> s.col + 1]
  OBVIOUS
<1>3. p = IF t.col >= VGA_WIDTH THEN V!NextRow(t) ELSE t
  <2>1. p = V!Put(s, ch)
    BY DEF V!vga_putc, Plain, V!NewLine, V!Backspace
  <2>2. [s EXCEPT !.cells[s.row * VGA_WIDTH + s.col] = ch, !.col = s.col + 1] = t
    <3>1. [s EXCEPT !.cells[s.row * VGA_WIDTH + s.col] = ch, !.col = s.col + 1]
          = [[s EXCEPT !.cells = [s.cells EXCEPT ![s.row * VGA_WIDTH + s.col] = ch]]
                EXCEPT !.col = s.col + 1]
      BY Zenon
    <3>2. k = [s.cells EXCEPT ![s.row * VGA_WIDTH + s.col] = ch]
      BY <1>1 DEF Pos
    <3>3. PICK u : u = [s EXCEPT !.cells = k]
      OBVIOUS
    <3>4. u = [cells |-> k, row |-> s.row, col |-> s.col]
      BY <3>3 DEF Screen
    <3>5. [u EXCEPT !.col = s.col + 1] = t
      BY <1>2, <3>4
    <3>. QED BY <3>1, <3>2, <3>3, <3>5, Zenon
  <2>. QED BY <2>1, <2>2, Zenon DEF V!Put
<1>4. /\ s.row \in Nat /\ s.row < VGA_HEIGHT /\ s.col \in Nat /\ s.col < VGA_WIDTH
      /\ Cells \in Nat /\ Pos(s) \in Nat /\ Pos(s) < Cells
      /\ Pos(s) = s.row * VGA_WIDTH + s.col /\ s.row * VGA_WIDTH \in Nat
      /\ s.row + 1 >= VGA_HEIGHT => s.row * VGA_WIDTH + VGA_WIDTH = Cells
      /\ s.row + 1 < VGA_HEIGHT => s.row * VGA_WIDTH + VGA_WIDTH < Cells
      /\ (s.row + 1) * VGA_WIDTH = s.row * VGA_WIDTH + VGA_WIDTH
      /\ (VGA_HEIGHT - 1) * VGA_WIDTH = Cells - VGA_WIDTH
      /\ VGA_WIDTH \in Nat /\ VGA_HEIGHT \in Nat
  <2>1. s.row * VGA_WIDTH \in Nat
    BY ScreenGrid, ConsoleConstants
  <2>. QED BY <2>1, ScreenGrid, ConsoleConstants DEF Pos
<1>5. k = [i \in V!Cell |-> k[i]] /\ With(s.cells, Pos(s), ch, k)
  BY <1>1 DEF Screen, With
<1>6. Rows(t) /\ t.row = s.row /\ t.cells = k /\ t.col = s.col + 1
  BY <1>2, <1>5 DEF Rows, Screen
<1>7. CASE t.col < VGA_WIDTH
  <2>1. p = t
    BY <1>3, <1>4, <1>6, <1>7
  <2>2. t.col \in 0 .. VGA_WIDTH - 1
    BY <1>4, <1>6, <1>7
  <2>3. Screen(t)
    BY <1>6, <2>2 DEF Screen, Rows
  <2>4. t.row * VGA_WIDTH = s.row * VGA_WIDTH
    BY <1>6
  <2>5. Pos(t) = Pos(s) + 1
    BY <1>4, <1>6, <2>4 DEF Pos
  <2>6. Pos(t) < Cells
    BY <2>3, ScreenGrid
  <2>. QED BY <1>5, <1>6, <2>1, <2>3, <2>5, <2>6
<1>8. CASE t.col >= VGA_WIDTH
  <2>1. p = V!NextRow(t) /\ Pos(s) + 1 = s.row * VGA_WIDTH + VGA_WIDTH
    BY <1>3, <1>4, <1>6, <1>8
  <2>2. CASE s.row + 1 < VGA_HEIGHT
    <3>1. Screen(p) /\ p.row = s.row + 1 /\ p.col = 0 /\ p.cells = k
      BY <1>6, <2>1, <2>2, NextRowFacts
    <3>2. p.row * VGA_WIDTH = s.row * VGA_WIDTH + VGA_WIDTH
      BY <1>4, <3>1
    <3>3. Pos(p) = Pos(s) + 1 /\ Pos(s) + 1 < Cells
      BY <1>4, <2>1, <2>2, <3>1, <3>2 DEF Pos
    <3>. QED BY <1>5, <3>1, <3>3
  <2>3. CASE s.row + 1 >= VGA_HEIGHT
    <3>1. Screen(p) /\ p.row = VGA_HEIGHT - 1 /\ p.col = 0 /\ UpBy(k, p.cells)
      BY <1>6, <2>1, <2>3, NextRowFacts
    <3>2. p.row * VGA_WIDTH = Cells - VGA_WIDTH
      BY <1>4, <3>1
    <3>3. Pos(p) = Cells - VGA_WIDTH /\ Pos(s) + 1 = Cells
      BY <1>4, <2>1, <2>3, <3>1, <3>2 DEF Pos
    <3>. QED BY <1>5, <3>1, <3>3
  <2>. QED BY <1>4, <2>2, <2>3
<1>. QED BY <1>4, <1>6, <1>7, <1>8

(* The cursor one cell back, across the start of a row.                     *)
LEMMA BackFacts ==
    ASSUME NEW s, Screen(s), Pos(s) > 0, NEW p, p = V!vga_putc(s, "backspace")
    PROVE  Screen(p) /\ Pos(p) = Pos(s) - 1 /\ p.cells = s.cells
<1>1. p = V!Back(s)
  BY DEF V!vga_putc, V!NewLine, V!Backspace
<1>2. /\ s.row \in Nat /\ s.row < VGA_HEIGHT /\ s.col \in Nat /\ s.col < VGA_WIDTH
      /\ Pos(s) = s.row * VGA_WIDTH + s.col /\ s.row * VGA_WIDTH \in Nat
      /\ (s.row - 1) * VGA_WIDTH = s.row * VGA_WIDTH - VGA_WIDTH
      /\ VGA_WIDTH \in Nat /\ VGA_HEIGHT \in Nat
  <2>1. s.row * VGA_WIDTH \in Nat
    BY ScreenGrid, ConsoleConstants
  <2>. QED BY <2>1, ScreenGrid, ConsoleConstants DEF Pos
<1>3. CASE s.col > 0
  <2>1. p = [s EXCEPT !.col = s.col - 1]
    BY <1>1, <1>3 DEF V!Back
  <2>2. p = [cells |-> s.cells, row |-> s.row, col |-> s.col - 1]
    BY <2>1 DEF Screen
  <2>3. p.cells = s.cells /\ p.row = s.row /\ p.col = s.col - 1
    BY <2>2
  <2>4. s.col - 1 \in 0 .. VGA_WIDTH - 1
    BY <1>2, <1>3
  <2>5. Screen(p)
    BY <2>2, <2>4 DEF Screen
  <2>6. Pos(p) = Pos(s) - 1
    BY <1>2, <2>3 DEF Pos
  <2>. QED BY <2>3, <2>5, <2>6
<1>4. CASE ~(s.col > 0)
  <2>1. s.col = 0 /\ s.row > 0
    <3>1. s.col = 0
      BY <1>2, <1>4
    <3>2. s.row = 0 => s.row * VGA_WIDTH = 0
      BY <1>2
    <3>. QED BY <1>2, <3>1, <3>2
  <2>2. p = [s EXCEPT !.row = s.row - 1, !.col = VGA_WIDTH - 1]
    BY <1>1, <1>4, <2>1 DEF V!Back
  <2>3. p = [cells |-> s.cells, row |-> s.row - 1, col |-> VGA_WIDTH - 1]
    BY <2>2 DEF Screen
  <2>4. p.cells = s.cells /\ p.row = s.row - 1 /\ p.col = VGA_WIDTH - 1
    BY <2>3
  <2>5. s.row - 1 \in 0 .. VGA_HEIGHT - 1 /\ VGA_WIDTH - 1 \in 0 .. VGA_WIDTH - 1
    BY <1>2, <2>1
  <2>6. Screen(p)
    BY <2>3, <2>5 DEF Screen
  <2>7. Pos(p) = Pos(s) - 1
    BY <1>2, <2>1, <2>4 DEF Pos
  <2>. QED BY <2>4, <2>6, <2>7
<1>. QED BY <1>3, <1>4

(* A string stands before the cursor, and nothing from there on.            *)
Shown(s, q) ==
    /\ Screen(s)
    /\ Len(q) <= Pos(s)
    /\ \A i \in 1 .. Len(q) : s.cells[Pos(s) - Len(q) + i - 1] = q[i]
    /\ \A i \in V!Cell : i >= Pos(s) => s.cells[i] = V!Blank

(* A character is printed behind the string, if they fit above the last     *)
(* row; when the screen scrolls the string goes up with it.                 *)
LEMMA ShownPut ==
    ASSUME NEW A, NEW q \in Seq(A), NEW ch \in A, Plain(ch),
           NEW s, Shown(s, q), Len(q) + 1 <= Cells - VGA_WIDTH,
           NEW p, p = V!vga_putc(s, ch)
    PROVE  Shown(p, Append(q, ch))
<1>1. PICK n \in Nat : n = Len(q)
  OBVIOUS
<1>2. PICK r : r = Append(q, ch)
  OBVIOUS
<1>3. /\ Len(r) = n + 1 /\ r[n + 1] = ch
      /\ \A i \in 1 .. n : r[i] = q[i]
  BY <1>1, <1>2
<1>4. PICK a \in Nat : a = Pos(s)
  BY ScreenGrid DEF Shown
<1>5. PICK m \in Nat : m = Cells
  BY ScreenGrid DEF Shown
<1>6. PICK w \in Nat : w = VGA_WIDTH
  BY ConsoleConstants
<1>7. V!Cell = 0 .. m - 1 /\ a < m /\ n <= a /\ n + 1 <= m - w
  BY <1>1, <1>4, <1>5, <1>6, ScreenGrid DEF Shown
<1>8. /\ \A i \in 1 .. n : s.cells[a - n + i - 1] = q[i]
      /\ \A i \in V!Cell : i >= a => s.cells[i] = V!Blank
  BY <1>1, <1>4 DEF Shown
<1>9. /\ Screen(p)
      /\ \/ a + 1 < m /\ Pos(p) = a + 1 /\ With(s.cells, a, ch, p.cells)
         \/ /\ a + 1 = m /\ Pos(p) = m - w
            /\ \E k : With(s.cells, a, ch, k) /\ UpBy(k, p.cells)
  BY <1>4, <1>5, <1>6, PutFacts DEF Shown
<1>10. CASE a + 1 < m /\ Pos(p) = a + 1 /\ With(s.cells, a, ch, p.cells)
  <2>1. \A i \in 1 .. n + 1 : p.cells[a + 1 - (n + 1) + i - 1] = r[i]
    <3>. SUFFICES ASSUME NEW i \in 1 .. n + 1
                  PROVE  p.cells[a + 1 - (n + 1) + i - 1] = r[i]
      OBVIOUS
    <3>1. PICK j \in Nat : j = a - n + i - 1
      BY <1>7
    <3>2. j \in V!Cell /\ a + 1 - (n + 1) + i - 1 = j
      BY <1>7, <3>1
    <3>3. p.cells[j] = IF j = a THEN ch ELSE s.cells[j]
      BY <1>10, <3>2 DEF With
    <3>4. CASE i = n + 1
      BY <1>3, <3>1, <3>2, <3>3, <3>4
    <3>5. CASE i \in 1 .. n
      <4>1. j # a
        BY <3>1, <3>5, <1>7
      <4>. QED BY <1>3, <1>8, <3>1, <3>2, <3>3, <3>5, <4>1
    <3>. QED BY <3>4, <3>5
  <2>2. \A i \in V!Cell : i >= a + 1 => p.cells[i] = V!Blank
    <3>. SUFFICES ASSUME NEW i \in V!Cell, i >= a + 1 PROVE p.cells[i] = V!Blank
      OBVIOUS
    <3>1. i >= a /\ i # a
      BY <1>7
    <3>. QED BY <1>8, <1>10, <3>1 DEF With
  <2>3. n + 1 <= a + 1
    BY <1>7
  <2>. QED BY <1>2, <1>3, <1>9, <1>10, <2>1, <2>2, <2>3 DEF Shown
<1>11. CASE /\ a + 1 = m /\ Pos(p) = m - w
            /\ \E k : With(s.cells, a, ch, k) /\ UpBy(k, p.cells)
  <2>1. PICK k : With(s.cells, a, ch, k) /\ UpBy(k, p.cells)
    BY <1>11
  <2>2. \A i \in 1 .. n + 1 : p.cells[m - w - (n + 1) + i - 1] = r[i]
    <3>. SUFFICES ASSUME NEW i \in 1 .. n + 1
                  PROVE  p.cells[m - w - (n + 1) + i - 1] = r[i]
      OBVIOUS
    <3>1. PICK j \in Nat : j = m - w - (n + 1) + i - 1
      BY <1>7
    <3>2. j \in V!Cell /\ j + w \in V!Cell /\ j + w = a - n + i - 1
      BY <1>7, <1>11, <3>1
    <3>3. p.cells[j] = IF j + w = a THEN ch ELSE s.cells[j + w]
      BY <1>6, <2>1, <3>2 DEF With, UpBy
    <3>4. CASE i = n + 1
      BY <1>3, <1>7, <3>1, <3>2, <3>3, <3>4
    <3>5. CASE i \in 1 .. n
      <4>1. j + w # a
        BY <3>2, <3>5, <1>7
      <4>. QED BY <1>3, <1>8, <3>1, <3>2, <3>3, <3>5, <4>1
    <3>. QED BY <3>4, <3>5
  <2>3. \A i \in V!Cell : i >= m - w => p.cells[i] = V!Blank
    <3>. SUFFICES ASSUME NEW i \in V!Cell, i >= m - w PROVE p.cells[i] = V!Blank
      OBVIOUS
    <3>1. i + w \notin V!Cell
      BY <1>7
    <3>. QED BY <1>6, <2>1, <3>1 DEF UpBy
  <2>4. n + 1 <= m - w
    BY <1>7
  <2>. QED BY <1>2, <1>3, <1>9, <1>11, <2>2, <2>3, <2>4 DEF Shown
<1>. QED BY <1>9, <1>10, <1>11

(* What a newline leaves: an empty row to write in.                         *)
LEMMA ShownNewLine ==
    ASSUME NEW s, Shown(s, <<>>), NEW p, p = V!vga_putc(s, "newline")
    PROVE  Shown(p, <<>>)
<1>1. p = V!NextRow(s)
  BY DEF V!vga_putc, V!NewLine, V!Backspace
<1>2. Rows(s) /\ Screen(s)
  BY DEF Shown, Screen, Rows
<1>3. /\ Screen(p) /\ p.col = 0
      /\ s.row + 1 < VGA_HEIGHT => p.row = s.row + 1 /\ p.cells = s.cells
      /\ s.row + 1 >= VGA_HEIGHT => p.row = VGA_HEIGHT - 1 /\ UpBy(s.cells, p.cells)
  BY <1>1, <1>2, NextRowFacts
<1>4. /\ s.row \in Nat /\ s.row < VGA_HEIGHT /\ s.col \in Nat /\ s.col < VGA_WIDTH
      /\ Pos(s) = s.row * VGA_WIDTH + s.col /\ s.row * VGA_WIDTH \in Nat
      /\ (s.row + 1) * VGA_WIDTH = s.row * VGA_WIDTH + VGA_WIDTH
      /\ (VGA_HEIGHT - 1) * VGA_WIDTH = Cells - VGA_WIDTH
      /\ VGA_WIDTH \in Nat /\ VGA_HEIGHT \in Nat
      /\ Pos(p) = p.row * VGA_WIDTH + p.col /\ Pos(p) \in Nat
      /\ Cells \in Nat /\ V!Cell = 0 .. Cells - 1
  <2>1. s.row * VGA_WIDTH \in Nat
    BY <1>2, ScreenGrid, ConsoleConstants
  <2>. QED BY <1>2, <1>3, <2>1, ScreenGrid, ConsoleConstants DEF Pos
<1>5. \A i \in V!Cell : i >= Pos(s) => s.cells[i] = V!Blank
  BY DEF Shown
<1>6. \A i \in V!Cell : i >= Pos(p) => p.cells[i] = V!Blank
  <2>1. CASE s.row + 1 < VGA_HEIGHT
    <3>1. p.row * VGA_WIDTH = s.row * VGA_WIDTH + VGA_WIDTH /\ p.cells = s.cells
      BY <1>3, <1>4, <2>1
    <3>2. Pos(p) >= Pos(s)
      BY <1>3, <1>4, <3>1
    <3>3. Pos(p) \in Nat /\ Pos(s) \in Nat /\ \A i \in V!Cell : i \in Nat
      BY <1>4
    <3>. QED BY <1>5, <3>1, <3>2, <3>3
  <2>2. CASE s.row + 1 >= VGA_HEIGHT
    <3>1. p.row * VGA_WIDTH = Cells - VGA_WIDTH
      BY <1>3, <1>4, <2>2
    <3>2. Pos(p) = Cells - VGA_WIDTH
      BY <1>3, <1>4, <3>1
    <3>3. \A i \in V!Cell : i >= Pos(p) => i + VGA_WIDTH \notin V!Cell
      BY <1>4, <3>2
    <3>. QED BY <1>3, <2>2, <3>3 DEF UpBy
  <2>3. s.row + 1 < VGA_HEIGHT \/ s.row + 1 >= VGA_HEIGHT
    BY <1>4
  <2>. QED BY <2>1, <2>2, <2>3, Zenon
<1>. QED BY <1>3, <1>4, <1>6 DEF Shown

(* The end of a string is a string.                                         *)
LEMMA ShownLess ==
    ASSUME NEW s, NEW q, Shown(s, q)
    PROVE  Shown(s, <<>>)
<1>1. Pos(s) \in Nat
  BY ScreenGrid DEF Shown
<1>. QED BY <1>1 DEF Shown

(* Anything but a backspace leaves the rest of the screen empty.            *)
LEMMA ShownOut ==
    ASSUME NEW s, Shown(s, <<>>), NEW ch, ch # "backspace", NEW p, p = V!vga_putc(s, ch)
    PROVE  Shown(p, <<>>)
<1>1. CASE ch = "newline"
  BY <1>1, ShownNewLine
<1>2. CASE ch # "newline"
  <2>1. <<>> \in Seq({ch}) /\ ch \in {ch} /\ Plain(ch) /\ Len(<<>>) = 0
    BY <1>2 DEF Plain
  <2>2. 0 + 1 <= Cells - VGA_WIDTH
    <3>1. VGA_WIDTH * (VGA_HEIGHT - 1) = Cells - VGA_WIDTH /\ Cells - VGA_WIDTH \in Nat
      BY ScreenGrid DEF Shown
    <3>. QED BY <3>1, ConsoleConstants
  <2>3. Shown(p, Append(<<>>, ch))
    BY <2>1, <2>2, ShownPut
  <2>. QED BY <2>3, ShownLess
<1>. QED BY <1>1, <1>2

(* A backspace, a blank and a backspace take the last character away, also  *)
(* when it stands at the end of the row above.                              *)
LEMMA ShownErase ==
    ASSUME NEW A, NEW q \in Seq(A), NEW ch \in A, NEW s, Shown(s, Append(q, ch)),
           NEW s1, s1 = V!vga_putc(s, "backspace"), NEW s2, s2 = V!vga_putc(s1, V!Blank),
           NEW s3, s3 = V!vga_putc(s2, "backspace")
    PROVE  Shown(s3, q)
<1>1. PICK n \in Nat : n = Len(q)
  OBVIOUS
<1>2. PICK r : r = Append(q, ch)
  OBVIOUS
<1>3. Len(r) = n + 1 /\ \A i \in 1 .. n : r[i] = q[i]
  BY <1>1, <1>2
<1>4. PICK a \in Nat, m \in Nat : a = Pos(s) /\ m = Cells /\ a < m /\ V!Cell = 0 .. m - 1
  BY ScreenGrid DEF Shown
<1>5. /\ n + 1 <= a /\ Screen(s)
      /\ \A i \in 1 .. n + 1 : s.cells[a - (n + 1) + i - 1] = r[i]
      /\ \A i \in V!Cell : i >= a => s.cells[i] = V!Blank
  BY <1>2, <1>3, <1>4 DEF Shown
<1>6. Screen(s1) /\ Pos(s1) = a - 1 /\ s1.cells = s.cells
  <2>1. Pos(s) > 0
    BY <1>4, <1>5
  <2>. QED BY <1>4, <1>5, <2>1, BackFacts
<1>7. Screen(s2) /\ Pos(s2) = a /\ With(s.cells, a - 1, V!Blank, s2.cells)
  <2>1. Plain(V!Blank)
    BY Zenon DEF Plain, V!Blank
  <2>2. /\ Screen(s2)
        /\ \/ Pos(s1) + 1 < Cells /\ Pos(s2) = Pos(s1) + 1 /\ With(s1.cells, Pos(s1), V!Blank, s2.cells)
           \/ Pos(s1) + 1 = Cells
    BY <1>6, <2>1, PutFacts
  <2>3. (a - 1) + 1 = a /\ a # m
    BY <1>4
  <2>. QED BY <1>4, <1>6, <2>2, <2>3
<1>8. Screen(s3) /\ Pos(s3) = a - 1 /\ s3.cells = s2.cells
  <2>1. Pos(s2) > 0
    BY <1>4, <1>5, <1>7
  <2>. QED BY <1>7, <2>1, BackFacts
<1>9. \A i \in 1 .. n : s3.cells[a - 1 - n + i - 1] = q[i]
  <2>. SUFFICES ASSUME NEW i \in 1 .. n PROVE s3.cells[a - 1 - n + i - 1] = q[i]
    OBVIOUS
  <2>1. PICK j \in Nat : j = a - 1 - n + i - 1
    BY <1>5
  <2>2. j \in V!Cell /\ j = a - (n + 1) + i - 1 /\ j # a - 1 /\ i \in 1 .. n + 1
    BY <1>4, <1>5, <2>1
  <2>3. s2.cells[j] = s.cells[j]
    BY <1>7, <2>2 DEF With
  <2>4. s.cells[j] = q[i]
    BY <1>3, <1>5, <2>2
  <2>. QED BY <1>8, <2>1, <2>3, <2>4
<1>10. \A i \in V!Cell : i >= a - 1 => s3.cells[i] = V!Blank
  <2>. SUFFICES ASSUME NEW i \in V!Cell, i >= a - 1 PROVE s3.cells[i] = V!Blank
    OBVIOUS
  <2>1. i = a - 1 \/ i >= a
    BY <1>4
  <2>. QED BY <1>5, <1>7, <1>8, <2>1 DEF With
<1>11. n <= a - 1
  BY <1>4, <1>5
<1>. QED BY <1>1, <1>8, <1>9, <1>10, <1>11 DEF Shown

(* All of a string that has no backspace.                                   *)
LEMMA ShownAll ==
    ASSUME NEW A, "backspace" \notin A, NEW s, Shown(s, <<>>), NEW q \in Seq(A)
    PROVE  Shown(V!vga_puts(s, q), <<>>)
<1>. DEFINE Bad == {n \in Nat : \E r \in Seq(A) :
                       Len(r) = n /\ ~Shown(V!vga_puts(s, r), <<>>)}
<1>1. ASSUME Bad # {} PROVE FALSE
  <2>1. PICK k \in Bad : \A j \in Bad : k <= j
    BY <1>1, LeastNat
  <2>2. PICK r \in Seq(A) : Len(r) = k /\ ~Shown(V!vga_puts(s, r), <<>>)
    BY <2>1
  <2>3. CASE r = <<>>
    <3>1. CASE A = {}
      <4>1. <<>> \in Seq({0}) /\ 0 \in {0}
        OBVIOUS
      <4>2. V!vga_puts(s, <<>>) = s
        BY <4>1, PutsAppend
      <4>. QED BY <2>2, <2>3, <4>2
    <3>2. CASE A # {}
      <4>1. PICK ch : ch \in A
        BY <3>2
      <4>2. V!vga_puts(s, <<>>) = s
        BY <2>2, <4>1, PutsAppend
      <4>. QED BY <2>2, <2>3, <4>2
    <3>. QED BY <3>1, <3>2
  <2>4. CASE r # <<>>
    <3>1. PICK f \in Seq(A), ch \in A : r = Append(f, ch) /\ Len(f) + 1 = k
      <4>1. /\ SubSeq(r, 1, k - 1) \in Seq(A) /\ r[k] \in A
            /\ r = Append(SubSeq(r, 1, k - 1), r[k]) /\ Len(SubSeq(r, 1, k - 1)) + 1 = k
        BY <2>2, <2>4
      <4>. QED BY <4>1
    <3>2. Len(f) \in Nat /\ ~(k <= Len(f))
      BY <3>1
    <3>3. Shown(V!vga_puts(s, f), <<>>)
      BY <2>1, <3>2
    <3>4. V!vga_puts(s, r) = V!vga_putc(V!vga_puts(s, f), ch)
      BY <3>1, PutsAppend
    <3>5. ch # "backspace"
      OBVIOUS
    <3>6. Shown(V!vga_puts(s, r), <<>>)
      BY <3>3, <3>4, <3>5, ShownOut
    <3>. QED BY <2>2, <3>6
  <2>. QED BY <2>3, <2>4
<1>2. Len(q) \in Nat
  OBVIOUS
<1>. QED BY <1>1, <1>2

(* How long a line there is room for.                                       *)
LEMMA RoomForLine ==
    ASSUME NEW s, Screen(s)
    PROVE  /\ 2 + CMD_BUFFER_SIZE - 1 <= Cells - VGA_WIDTH /\ Cells - VGA_WIDTH \in Nat
           /\ CMD_BUFFER_SIZE \in Nat /\ CMD_BUFFER_SIZE > 0
<1>1. VGA_WIDTH * (VGA_HEIGHT - 1) = Cells - VGA_WIDTH /\ Cells - VGA_WIDTH \in Nat
  BY ScreenGrid
<1>. QED BY <1>1, ConsoleConstants

(* The prompt on an empty rest of the screen.                               *)
LEMMA ShownPrompt ==
    ASSUME NEW s, Shown(s, <<>>), NEW p, p = V!vga_puts(s, V!Prompt)
    PROVE  Shown(p, V!Prompt)
<1>1. PICK gt : gt = ">"
  OBVIOUS
<1>2. PICK bl : bl = V!Blank
  OBVIOUS
<1>3. Plain(gt) /\ Plain(bl)
  BY <1>1, <1>2, Zenon DEF Plain, V!Blank
<1>4. PICK A : A = {gt, bl}
  OBVIOUS
<1>5. /\ <<>> \in Seq(A) /\ <<gt>> \in Seq(A) /\ gt \in A /\ bl \in A
      /\ <<gt>> = Append(<<>>, gt) /\ V!Prompt = Append(<<gt>>, bl)
      /\ Len(<<>>) = 0 /\ Len(<<gt>>) = 1
  <2>1. V!Prompt = <<gt, bl>>
    BY <1>1, <1>2 DEF V!Prompt
  <2>. QED BY <1>4, <2>1
<1>6. PICK t : t = V!vga_putc(s, gt)
  OBVIOUS
<1>7. p = V!vga_putc(t, bl)
  <2>1. V!vga_puts(s, <<>>) = s
    BY <1>5, PutsAppend
  <2>2. V!vga_puts(s, <<gt>>) = V!vga_putc(V!vga_puts(s, <<>>), gt)
    BY <1>5, PutsAppend
  <2>3. V!vga_puts(s, V!Prompt) = V!vga_putc(V!vga_puts(s, <<gt>>), bl)
    BY <1>5, PutsAppend
  <2>. QED BY <1>6, <2>1, <2>2, <2>3
<1>8. 0 + 1 <= Cells - VGA_WIDTH /\ 1 + 1 <= Cells - VGA_WIDTH
  BY RoomForLine DEF Shown
<1>9. Shown(t, <<gt>>)
  BY <1>3, <1>5, <1>6, <1>8, ShownPut
<1>. QED BY <1>3, <1>5, <1>7, <1>8, <1>9, ShownPut

(* The screen after vga_clear.                                              *)
LEMMA ShownClear == Shown(V!vga_clear, <<>>)
<1>1. PICK s : s = V!vga_clear
  OBVIOUS
<1>2. 0 \in 0 .. VGA_HEIGHT - 1 /\ 0 \in 0 .. VGA_WIDTH - 1 /\ VGA_WIDTH \in Nat
  BY ConsoleConstants
<1>. DEFINE k == [i \in V!Cell |-> V!Blank]
<1>3. s = [cells |-> k, row |-> 0, col |-> 0]
  BY <1>1, Zenon DEF V!vga_clear
<1>4. k = [i \in V!Cell |-> k[i]] /\ \A i \in V!Cell : k[i] = V!Blank
  OBVIOUS
<1>. HIDE DEF k
<1>5. s.cells = k /\ s.row = 0 /\ s.col = 0
  BY <1>3
<1>6. Pos(s) = 0
  BY <1>2, <1>5 DEF Pos
<1>7. Screen(s)
  BY <1>2, <1>3, <1>4, <1>5 DEF Screen
<1>8. Shown(s, <<>>)
  BY <1>4, <1>5, <1>6, <1>7 DEF Shown
<1>. QED BY <1>1, <1>8

(* Every command leaves the rest of the screen empty.                       *)
LEMMA ShownCommand ==
    ASSUME NEW s, Shown(s, <<>>), NEW line \in Seq(Letters),
           NEW p, p = V!shell_execute(s, line)
    PROVE  Shown(p, <<>>)
<1>1. PICK A : A = Letters \cup {"o", "u", "t", "newline"}
  OBVIOUS
<1>2. "backspace" \notin A
  BY <1>1, ConsoleConstants
<1>3. V!Report \in Seq(A)
  BY <1>1 DEF V!Report, V!NewLine
<1>4. line # <<>> => Append(Tail(line), V!NewLine) \in Seq(A)
  <2>1. line # <<>> => Tail(line) \in Seq(Letters)
    OBVIOUS
  <2>2. Seq(Letters) \subseteq Seq(A) /\ V!NewLine \in A
    BY <1>1 DEF V!NewLine
  <2>. QED BY <2>1, <2>2
<1>5. <<"u">> \o line \o <<V!NewLine, "t", V!NewLine>> \in Seq(A)
  <2>1. /\ <<"u">> \in Seq(A) /\ line \in Seq(A)
        /\ <<V!NewLine, "t", V!NewLine>> \in Seq(A)
    BY <1>1 DEF V!NewLine
  <2>. QED BY <2>1
<1>6. \/ p = s \/ p = V!vga_clear \/ p = V!vga_puts(s, V!Report)
      \/ line # <<>> /\ p = V!vga_puts(s, Append(Tail(line), V!NewLine))
      \/ p = V!vga_puts(s, <<"u">> \o line \o <<V!NewLine, "t", V!NewLine>>)
  BY DEF V!shell_execute
<1>. QED BY <1>2, <1>3, <1>4, <1>5, <1>6, ShownAll, ShownClear

(* The invariant: the line is one that fits, and the screen shows it.       *)
ConsoleInv ==
    /\ cmd \in Seq(Letters) /\ Len(cmd) <= CMD_BUFFER_SIZE - 1
    /\ up => Shown(screen, V!Prompt \o cmd)
    /\ ~up => Shown(screen, <<>>)
    /\ up \in BOOLEAN /\ strokes \in 0 .. MaxStrokes

(* The line behind the prompt.                                              *)
LEMMA PromptLine ==
    ASSUME NEW q \in Seq(Letters)
    PROVE  /\ V!Prompt \o q \in Seq(Letters \cup {">", V!Blank})
           /\ Len(V!Prompt \o q) = 2 + Len(q)
           /\ \A ch \in Letters : V!Prompt \o Append(q, ch) = Append(V!Prompt \o q, ch)
<1>1. PICK A : A = Letters \cup {">", V!Blank}
  OBVIOUS
<1>2. V!Prompt \in Seq(A) /\ q \in Seq(A) /\ Len(V!Prompt) = 2
  BY <1>1 DEF V!Prompt
<1>3. PICK r \in Seq(A) : r = V!Prompt
  BY <1>2
<1>4. r \o q \in Seq(A) /\ Len(r \o q) = 2 + Len(q)
  <2>1. Len(r) = 2 /\ q \in Seq(A) /\ Len(q) \in Nat
    BY <1>2, <1>3
  <2>2. r \o q \in Seq(A)
    BY <2>1
  <2>3. Len(r \o q) = Len(r) + Len(q)
    BY <2>1, ConcatProperties
  <2>. QED BY <2>1, <2>2, <2>3
<1>5. \A ch \in A : r \o Append(q, ch) = Append(r \o q, ch)
  BY <1>2, <1>3
<1>. QED BY <1>1, <1>3, <1>4, <1>5

(* It starts so.                                                            *)
LEMMA ConsoleInit ==
    ASSUME V!Init
    PROVE  ConsoleInv
<1>1. Shown(screen, V!Prompt)
  BY ShownClear, ShownPrompt DEF V!Init
<1>2. cmd = <<>> /\ V!Prompt \o cmd = V!Prompt
  BY DEF V!Init, V!Prompt
<1>3. Len(<<>>) <= CMD_BUFFER_SIZE - 1
  BY ConsoleConstants
<1>4. up = TRUE /\ strokes \in 0 .. MaxStrokes
  BY ConsoleAssumption DEF V!Init
<1>. QED BY <1>1, <1>2, <1>3, <1>4 DEF ConsoleInv

(* Enter: the command, then a prompt of its own.                            *)
LEMMA EnterShows ==
    ASSUME ConsoleInv, up, strokes' \in 0 .. MaxStrokes, V!Enter
    PROVE  ConsoleInv'
<1>1. Shown(screen, V!Prompt \o cmd) /\ cmd \in Seq(Letters)
  BY DEF ConsoleInv
<1>2. PICK s : s = V!vga_putc(screen, "newline")
  OBVIOUS
<1>3. PICK done : done = V!shell_execute(s, cmd)
  OBVIOUS
<1>4. Shown(done, <<>>)
  <2>1. Shown(s, <<>>)
    BY <1>1, <1>2, ShownLess, ShownNewLine
  <2>. QED BY <1>1, <1>3, <2>1, ShownCommand
<1>5. cmd' = <<>> /\ V!Prompt \o <<>> = V!Prompt
  BY DEF V!Enter, V!Prompt
<1>6. up' => screen' = V!vga_puts(done, V!Prompt)
  BY <1>2, <1>3, Zenon DEF V!Enter, V!NewLine
<1>7. up' => Shown(screen', V!Prompt)
  BY <1>4, <1>6, ShownPrompt
<1>8. Len(<<>>) <= CMD_BUFFER_SIZE - 1
  BY ConsoleConstants
<1>9. up' \in BOOLEAN /\ (~up' => screen' = done)
  BY <1>2, <1>3, Zenon DEF V!Enter, V!NewLine
<1>10. ~up' => Shown(screen', <<>>)
  BY <1>4, <1>9
<1>. QED BY <1>5, <1>7, <1>8, <1>9, <1>10 DEF ConsoleInv

(* Backspace: a character off the line and off the screen.                  *)
LEMMA EraseShows ==
    ASSUME ConsoleInv, up, strokes' \in 0 .. MaxStrokes, V!Erase
    PROVE  ConsoleInv'
<1>1. CASE cmd = <<>> /\ UNCHANGED <<cmd, screen>>
  BY <1>1 DEF ConsoleInv, V!Erase
<1>2. CASE /\ cmd # <<>> /\ cmd' = V!Front(cmd)
           /\ screen' = V!vga_puts(screen, <<V!Backspace, V!Blank, V!Backspace>>)
  <2>1. PICK q \in Seq(Letters), ch \in Letters : cmd = Append(q, ch) /\ cmd' = q
    <3>1. PICK n \in Nat : n = Len(cmd)
      BY DEF ConsoleInv
    <3>2. /\ SubSeq(cmd, 1, n - 1) \in Seq(Letters) /\ cmd[n] \in Letters
          /\ cmd = Append(SubSeq(cmd, 1, n - 1), cmd[n])
      BY <1>2, <3>1 DEF ConsoleInv
    <3>3. cmd' = SubSeq(cmd, 1, n - 1)
      BY <1>2, <3>1 DEF V!Front
    <3>. QED BY <3>2, <3>3
  <2>2. /\ V!Prompt \o q \in Seq(Letters \cup {">", V!Blank})
        /\ V!Prompt \o cmd = Append(V!Prompt \o q, ch)
    BY <2>1, PromptLine
  <2>3. PICK bs, bl : bs = V!Backspace /\ bl = V!Blank
    OBVIOUS
  <2>4. PICK s1 : s1 = V!vga_putc(screen, bs)
    OBVIOUS
  <2>5. PICK s2 : s2 = V!vga_putc(s1, bl)
    OBVIOUS
  <2>6. screen' = V!vga_putc(s2, bs)
    <3>1. PICK A, s : A = {bs, bl} /\ s = screen
      OBVIOUS
    <3>2. PICK q0 \in Seq(A), q1 \in Seq(A), q2 \in Seq(A), q3 \in Seq(A) :
             /\ q0 = <<>> /\ q1 = <<bs>> /\ q2 = <<bs, bl>> /\ q3 = <<bs, bl, bs>>
      <4>1. /\ <<>> \in Seq(A) /\ <<bs>> \in Seq(A) /\ <<bs, bl>> \in Seq(A)
            /\ <<bs, bl, bs>> \in Seq(A)
        BY <3>1
      <4>. QED BY <4>1, Zenon
    <3>3. /\ bs \in A /\ bl \in A
          /\ q1 = Append(q0, bs) /\ q2 = Append(q1, bl) /\ q3 = Append(q2, bs)
      BY <3>1, <3>2
    <3>4. V!vga_puts(s, q0) = s
      BY <3>2, <3>3, PutsAppend
    <3>5. V!vga_puts(s, q1) = V!vga_putc(V!vga_puts(s, q0), bs)
      BY <3>3, PutsAppend, Zenon
    <3>6. V!vga_puts(s, q2) = V!vga_putc(V!vga_puts(s, q1), bl)
      BY <3>3, PutsAppend, Zenon
    <3>7. V!vga_puts(s, q3) = V!vga_putc(V!vga_puts(s, q2), bs)
      BY <3>3, PutsAppend, Zenon
    <3>. QED BY <1>2, <2>3, <2>4, <2>5, <3>1, <3>2, <3>4, <3>5, <3>6, <3>7, Zenon
  <2>7. Shown(screen', V!Prompt \o q)
    <3>1. Shown(screen, Append(V!Prompt \o q, ch))
      BY <2>2 DEF ConsoleInv
    <3>2. bs = "backspace"
      BY <2>3 DEF V!Backspace
    <3>3. ch \in Letters \cup {">", V!Blank}
      OBVIOUS
    <3>. QED BY <2>2, <2>3, <2>4, <2>5, <2>6, <3>1, <3>2, <3>3, ShownErase
  <2>8. Len(q) <= CMD_BUFFER_SIZE - 1
    BY <2>1, ConsoleConstants DEF ConsoleInv
  <2>. QED BY <2>1, <2>7, <2>8 DEF ConsoleInv, V!Erase
<1>. QED BY <1>1, <1>2 DEF V!Erase

(* A key: at the end of the line and of the screen, if there is room.       *)
LEMMA TypeShows ==
    ASSUME ConsoleInv, up, strokes' \in 0 .. MaxStrokes,
           NEW ch \in Letters, V!Type(ch)
    PROVE  ConsoleInv'
<1>1. CASE ~V!LineHasRoom /\ UNCHANGED <<cmd, screen>>
  BY <1>1 DEF ConsoleInv, V!Type
<1>2. CASE V!LineHasRoom /\ cmd' = Append(cmd, ch) /\ screen' = V!vga_putc(screen, ch)
  <2>1. cmd \in Seq(Letters) /\ Shown(screen, V!Prompt \o cmd)
    BY DEF ConsoleInv
  <2>2. PICK A : A = Letters \cup {">", V!Blank}
    OBVIOUS
  <2>3. PICK q \in Seq(A) : q = V!Prompt \o cmd
    BY <2>1, <2>2, PromptLine
  <2>4. Len(q) = 2 + Len(cmd) /\ V!Prompt \o cmd' = Append(q, ch)
    BY <1>2, <2>1, <2>3, PromptLine
  <2>5. Len(q) + 1 <= Cells - VGA_WIDTH /\ Len(cmd) + 1 <= CMD_BUFFER_SIZE - 1
    <3>1. Len(cmd) \in Nat /\ Len(cmd) < CMD_BUFFER_SIZE - 1
      BY <1>2, <2>1 DEF V!LineHasRoom
    <3>. QED BY <2>1, <2>4, <3>1, RoomForLine DEF Shown
  <2>6. Plain(ch) /\ ch \in A
    BY <2>2, ConsoleConstants DEF Plain
  <2>7. Shown(screen', Append(q, ch))
    BY <1>2, <2>1, <2>3, <2>5, <2>6, ShownPut
  <2>8. cmd' \in Seq(Letters) /\ Len(cmd') <= CMD_BUFFER_SIZE - 1
    BY <1>2, <2>1, <2>5
  <2>. QED BY <2>3, <2>4, <2>7, <2>8 DEF ConsoleInv, V!Type
<1>. QED BY <1>1, <1>2 DEF V!Type

(* Any key keeps it.                                                        *)
LEMMA ConsoleNext ==
    ASSUME ConsoleInv, V!Next
    PROVE  ConsoleInv'
<1>1. /\ up
      /\ V!Enter \/ V!Erase \/ \E ch \in Letters : V!Type(ch)
  BY Zenon DEF V!Next
<1>2. strokes' \in 0 .. MaxStrokes
  <2>1. strokes < MaxStrokes /\ strokes' = strokes + 1
    BY Zenon DEF V!Next
  <2>. QED BY <2>1, ConsoleAssumption DEF ConsoleInv
<1>. QED BY <1>1, <1>2, EnterShows, EraseShows, TypeShows

(* The shell and its screen keep theirs.                                    *)
LEMMA ConsoleInvariant == Spec => [](Idle("console") \/ ConsoleInv)
<1>. DEFINE Inv == Idle("console") \/ ConsoleInv
<1>1. Init => Inv
  BY ConsoleInit DEF Init
<1>2. Inv /\ [Next]_vars => Inv'
  <2>. SUFFICES ASSUME Inv, [Next]_vars PROVE Inv'
    OBVIOUS
  <2>1. CASE UNCHANGED console
    <3>1. ConsoleInv => ConsoleInv'
      BY <2>1 DEF console, ConsoleInv
    <3>2. UNCHANGED part
      BY DEF Next, vars
    <3>. QED BY <3>1, <3>2 DEF Idle
  <2>2. CASE part = "console" /\ V!Next
    BY <2>2, ConsoleNext DEF Idle
  <2>. QED BY <2>1, <2>2 DEF Next, vars
<1>. QED BY <1>1, <1>2, PTL DEF Spec

(* What the user sees is what shell_execute gets (vga.c, shell.c): the      *)
(* screen ends in the prompt and the line, whatever the size of both, and   *)
(* wraps, scrolls and erasures move both alike.                             *)
THEOREM ScreenFollows == Spec => []ScreenShowsLine
<1>1. Idle("console") \/ ConsoleInv => ScreenShowsLine
  <2>1. ConsoleInv => V!ScreenShowsLine
    <3>1. V!Cursor = Pos(screen)
      BY DEF V!Cursor, Pos
    <3>. QED BY <3>1 DEF ConsoleInv, V!ScreenShowsLine, Shown
  <2>. QED BY <2>1 DEF ScreenShowsLine
<1>. QED BY <1>1, ConsoleInvariant, PTL

(* The line and the NUL behind it stay in cmd_buffer, the cursor on screen. *)
LEMMA ConsoleTyped == Spec => [](Idle("console") \/ V!TypeOK)
<1>1. ConsoleInv => V!TypeOK
  <2>. SUFFICES ASSUME ConsoleInv PROVE V!TypeOK
    OBVIOUS
  <2>1. Screen(screen)
    BY DEF ConsoleInv, Shown
  <2>2. Len(cmd) < CMD_BUFFER_SIZE
    BY ConsoleConstants DEF ConsoleInv
  <2>3. DOMAIN screen.cells = V!Cell
    BY <2>1, Zenon DEF Screen
  <2>. QED BY <2>1, <2>2, <2>3 DEF ConsoleInv, V!TypeOK, Screen
<1>2. (Idle("console") \/ ConsoleInv) => (Idle("console") \/ V!TypeOK)
  BY <1>1
<1>. QED BY <1>2, ConsoleInvariant, PTL

=============================================================================
