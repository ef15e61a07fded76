--------------------------- MODULE Memory_proofs ---------------------------
(***************************************************************************)
(* Frames and address spaces, for every number of slots, pages and frames: *)
(* reference counts are exact, no writable frame has two users, and the    *)
(* sharing is invisible to the programs.                                   *)
(*                                                                         *)
(* The argument is about counts R and spaces S given as values: what an    *)
(* allocation, a release, a hand-over, a shared reference and write        *)
(* protection do to them is stated once, and each action is one or two of  *)
(* these.  That lets a step which takes two frames be seen as two.         *)
(***************************************************************************)
EXTENDS Memory, FiniteSetTheorems, NaturalsInduction, WellFoundedInduction, TLAPS

-----------------------------------------------------------------------------
(* The inductive invariant *)

Spaces == Slot \cup {0}

(* Every space there is: those of the processes and the unfinished one.     *)
Sp == [o \in Spaces |-> SpaceOf(o)]

(* An absent entry has no flags, and tables are mapped writable.            *)
Sane(S) ==
    \A o \in Spaces : \A c \in Cells :
        /\ S[o][c].f = 0 => S[o][c] = NoEntry
        /\ c \notin Pages => S[o][c].f = 0 \/ S[o][c] = ReadWrite(S[o][c].f)

(* A frame that is shared is shared at one address.                         *)
SameCell(S) ==
    \A o, q \in Spaces : \A c, d \in Cells :
        S[o][c].f # 0 /\ S[o][c].f = S[q][d].f => c = d

(* A writable frame has one user; but while fork takes references the pages *)
(* of the process x are in the unfinished space as well.                    *)
Exclusive(S, x) ==
    \A o, q \in Spaces : \A c \in Cells :
        S[o][c].w /\ S[q][c].f = S[o][c].f =>
            o = q \/ (c \in Pages /\ x # 0 /\ o \in {0, x} /\ q \in {0, x})

Uses(S, f) == {u \in Spaces \X Cells : S[u[1]][u[2]].f = f}

CountFor(f, n) == IF f = KernelFrame /\ n = 0 THEN 1 ELSE n

Counted(R, S) == \A f \in Frame : R[f] = CountFor(f, Cardinality(Uses(S, f)))

Good(R, S, x) ==
    /\ R \in [Frame -> 0 .. MAX_REFS]
    /\ S \in [Spaces -> [Cells -> Entry]]
    /\ Sane(S) /\ SameCell(S) /\ Exclusive(S, x) /\ Counted(R, S)

Sharer == IF pc = "retain" THEN cur ELSE 0

(* Who has a space: the running process is alive, the dead have none.       *)
Inhabited ==
    /\ cur # 0 => life[cur] = "live"
    /\ pc # "user" => cur # 0 /\ nw[Dir].f # 0
    /\ pc = "user" => nw = Empty
    /\ \A p \in Slot : IF life[p] = "dead" THEN space[p] = Empty
                       ELSE space[p][Dir].f # 0

(* A page is under a table.                                                 *)
Under(s) == \A c \in Pages : s[c].f # 0 => s[TableOf(c)].f # 0

Tabled == Under(nw) /\ \A p \in Slot : Under(space[p])

(* How far the space under construction is.                                 *)
Progress ==
    /\ pc \in {"tables", "retain", "inherit"} => Dead # {}
    /\ pc = "tables" =>
          /\ \A c \in Pages : nw[c] = NoEntry
          /\ \A t \in Tables : nw[t].f # 0 => Shareable(t)
    /\ pc = "retain" =>
          /\ TablesToDo = {}
          /\ \A c \in Pages : nw[c] = NoEntry \/ nw[c] = Parent[c]
          /\ \A c \in PagesToDo : Retainable(Parent[c].f)
    /\ pc = "inherit" => \A c \in Pages : nw[c] = Parent[c]
    /\ pc = "load" =>
          /\ \A c \in Pages \ ImagePages : nw[c] = NoEntry
          /\ \A c \in Pages : nw[c].f # 0 => data[nw[c].f] = 0

(* What the CPU has cached is what the tables say.                          *)
Coherent == \A c \in Pages : tlb[c].f # 0 => cur # 0 /\ tlb[c] = Parent[c]

MemTypes ==
    /\ data \in [Frame -> Contents]
    /\ life \in [Slot -> {"dead", "live", "zombie"}]
    /\ heap_end \in [Slot -> 0 .. PROCESS_HEAP_LIMIT]
    /\ cur \in Slot \cup {0}
    /\ tlb \in [Pages -> Entry]
    /\ pc \in {"user", "tables", "retain", "inherit", "load", "undo"}
    /\ built \in 0 .. MaxBuilt
    /\ space \in [Slot -> [Cells -> Entry]]
    /\ nw \in [Cells -> Entry]

MemInv ==
    /\ MemTypes
    /\ Good(refs, Sp, Sharer)
    /\ Inhabited
    /\ Tabled
    /\ Progress
    /\ Coherent
    /\ HeapBelowBreak

-----------------------------------------------------------------------------
(* Numbers, cells and slots *)

(* A non-empty set of naturals has a least element.                         *)
LEMMA LeastOf ==
    ASSUME NEW S, S \subseteq Nat, S # {}
    PROVE  \E x \in S : \A y \in S : x <= y
<1>. DEFINE R == {ss \in Nat \X Nat : ss[1] < ss[2]}
<1>1. PICK x \in S : \A y \in S : ~ (<<y, x>> \in R)
  <2>1. IsWellFoundedOn(R, Nat)
    BY NatLessThanWellFounded, Zenon DEF OpToRel
  <2>. HIDE DEF R
  <2>. QED BY <2>1, WFMin
<1>2. \A y \in S : ~ (y < x)
  BY <1>1
<1>. QED BY <1>2

(* Lowest is a member of the set, or 0 when the set is empty.               *)
LEMMA LowestIn ==
    ASSUME NEW S, S \subseteq Nat
    PROVE  /\ S = {} => Lowest(S) = 0
           /\ S # {} => Lowest(S) \in S
<1>1. CASE S = {}
  BY <1>1 DEF Lowest
<1>2. CASE S # {}
  <2>1. \E x \in S : \A y \in S : x <= y
    BY <1>2, LeastOf
  <2>. QED BY <1>2, <2>1 DEF Lowest
<1>. QED BY <1>1, <1>2

(* The kinds of cells.                                                      *)
LEMMA CellKinds ==
    /\ Dir \in Cells /\ Dir \notin Pages /\ Dir \notin Tables
    /\ Tables \subseteq Cells /\ Pages \subseteq Cells /\ Tables \cap Pages = {}
    /\ \A c \in Cells : c = Dir \/ c \in Tables \/ c \in Pages
    /\ CodePage \in Pages /\ StackPage \in Pages
    /\ TextPages \subseteq Pages /\ HeapPages \subseteq Pages /\ ImagePages \subseteq Pages
    /\ \A i \in 0 .. 3 : Table(i) \in Tables
    /\ Table(0) # Table(3)
    /\ CodePage # StackPage /\ CodePage \notin HeapPages /\ StackPage \notin HeapPages
    /\ HeapPages \cap ImagePages = {}
<1>1. /\ \A i, j : Table(i) # Page(j) /\ Dir # Table(i) /\ Dir # Page(i)
      /\ \A i, j : Page(i) = Page(j) <=> i = j
      /\ \A i, j : Table(i) = Table(j) <=> i = j
  BY DEF Dir, Table, Page
<1>. USE MemoryAssumption
<1>2. /\ Dir \in Cells /\ Dir \notin Pages /\ Dir \notin Tables
      /\ Tables \subseteq Cells /\ Pages \subseteq Cells /\ Tables \cap Pages = {}
      /\ \A c \in Cells : c = Dir \/ c \in Tables \/ c \in Pages
  BY <1>1 DEF Cells, Pages, Tables, CodePage, StackPage, TextPages, HeapPages
<1>3. /\ CodePage \in Pages /\ StackPage \in Pages
      /\ TextPages \subseteq Pages /\ HeapPages \subseteq Pages /\ ImagePages \subseteq Pages
  BY DEF Pages, ImagePages
<1>4. (\A i \in 0 .. 3 : Table(i) \in Tables) /\ Table(0) # Table(3)
  BY <1>1 DEF Tables
<1>5. CodePage # StackPage /\ CodePage \notin HeapPages /\ StackPage \notin HeapPages
  BY <1>1 DEF CodePage, StackPage, HeapPages
<1>6. HeapPages \cap ImagePages = {}
  BY <1>1, <1>5 DEF HeapPages, ImagePages, TextPages
<1>. QED BY <1>2, <1>3, <1>4, <1>5, <1>6

(* Every page has its table.                                                *)
LEMMA TableKinds ==
    /\ \A c \in Pages : TableOf(c) \in Tables
    /\ TableOf(CodePage) = Table(0) /\ TableOf(StackPage) = Table(3)
<1>1. \A c : TableOf(c) \in {Table(0), Table(1), Table(2), Table(3)}
  BY DEF TableOf
<1>2. \A c : TableOf(c) \in Tables
  <2>1. Table(0) \in Tables /\ Table(1) \in Tables /\ Table(2) \in Tables /\ Table(3) \in Tables
    BY CellKinds
  <2>. QED BY <1>1, <2>1
<1>3. StackPage \notin TextPages
  BY MemoryAssumption DEF StackPage, TextPages, Page
<1>. QED BY <1>2, <1>3, CellKinds DEF TableOf

(* A loop over ascending indices ends at the first cell that is left.       *)
LEMMA FirstIn ==
    ASSUME NEW C, C \subseteq Cells, C # {}
    PROVE  First(C) \in C
<1>1. \A c \in Cells : c[2] \in Nat
  BY MemoryAssumption DEF Cells, Dir, Tables, Table, Pages, Page, CodePage, StackPage,
     TextPages, HeapPages
<1>. DEFINE T == {c[2] : c \in C}
<1>2. T \subseteq Nat /\ T # {}
  BY <1>1
<1>3. PICK x \in T : \A y \in T : x <= y
  <2>. HIDE DEF T
  <2>. QED BY <1>2, LeastOf
<1>4. PICK c \in C : x = c[2]
  BY <1>3
<1>5. \A d \in C : c[2] <= d[2]
  BY <1>3, <1>4
<1>. QED BY <1>5 DEF First

(* There are finitely many spaces and cells.                                *)
LEMMA Finitely ==
    IsFiniteSet(Cells) /\ IsFiniteSet(Spaces) /\ IsFiniteSet(Spaces \X Cells)
<1>. DEFINE K == {"dir", "table", "page"}
            N == 0 .. (TEXT_PAGES + HEAP_PAGES + 4)
<1>1. Cells \in SUBSET (K \X N)
  BY MemoryAssumption DEF Cells, Dir, Tables, Table, Pages, Page, CodePage, StackPage,
     TextPages, HeapPages
<1>2. IsFiniteSet(K)
  <2>1. IsFiniteSet({"dir"})
    BY FS_Singleton
  <2>2. IsFiniteSet({"dir"} \cup {"table"})
    BY <2>1, FS_AddElement
  <2>3. IsFiniteSet(({"dir"} \cup {"table"}) \cup {"page"})
    BY <2>2, FS_AddElement
  <2>4. ({"dir"} \cup {"table"}) \cup {"page"} = K
    OBVIOUS
  <2>. QED BY <2>3, <2>4
<1>3. IsFiniteSet(N)
  BY MemoryAssumption, FS_Interval
<1>4. IsFiniteSet(K \X N)
  <2>. HIDE DEF K, N
  <2>. QED BY <1>2, <1>3, FS_Product
<1>5. IsFiniteSet(Cells)
  <2>. HIDE DEF K, N
  <2>. QED BY <1>1, <1>4, FS_Subset
<1>6. IsFiniteSet(Spaces)
  <2>1. IsFiniteSet(Slot)
    BY MemoryAssumption, FS_Interval DEF Slot
  <2>. QED BY <2>1, FS_AddElement DEF Spaces
<1>7. IsFiniteSet(Spaces \X Cells)
  BY <1>5, <1>6, FS_Product
<1>. QED BY <1>5, <1>6, <1>7

(* Entries.                                                                 *)
LEMMA EntryKinds ==
    /\ NoEntry \in Entry /\ NoEntry.f = 0 /\ ~NoEntry.w /\ ~NoEntry.cow
    /\ \A fr \in Frame :
          /\ ReadWrite(fr) \in Entry /\ ReadOnly(fr) \in Entry
          /\ ReadWrite(fr).f = fr /\ ReadOnly(fr).f = fr
          /\ ReadWrite(fr).w /\ ~ReadOnly(fr).w
          /\ ~ReadWrite(fr).cow /\ ~ReadOnly(fr).cow
    /\ \A e \in Entry : /\ e.f \in Frame \cup {0} /\ e.w \in BOOLEAN /\ e.cow \in BOOLEAN
<1>1. TRUE \in BOOLEAN /\ FALSE \in BOOLEAN
  OBVIOUS
<1>2. NoEntry \in Entry /\ NoEntry.f = 0 /\ ~NoEntry.w /\ ~NoEntry.cow
  BY <1>1 DEF NoEntry, Entry
<1>3. ASSUME NEW fr \in Frame
      PROVE  /\ ReadWrite(fr) \in Entry /\ ReadOnly(fr) \in Entry
             /\ ReadWrite(fr).f = fr /\ ReadOnly(fr).f = fr
             /\ ReadWrite(fr).w /\ ~ReadOnly(fr).w
             /\ ~ReadWrite(fr).cow /\ ~ReadOnly(fr).cow
  BY <1>1 DEF ReadWrite, ReadOnly, Entry
<1>. QED BY <1>2, <1>3 DEF Entry

(* Slots, spaces and frames.                                                *)
LEMMA SlotKinds ==
    /\ 0 \notin Slot /\ 1 \in Slot /\ Slot \subseteq Spaces /\ 0 \in Spaces
    /\ \A o \in Spaces : o = 0 \/ o \in Slot
    /\ 0 \notin Frame /\ 1 .. FRAMES \subseteq Frame /\ KernelFrame \in Frame
    /\ KernelFrame \notin 1 .. FRAMES
    /\ \A f \in Frame : f = KernelFrame \/ f \in 1 .. FRAMES
BY MemoryAssumption DEF Slot, Spaces, Frame, KernelFrame

-----------------------------------------------------------------------------
(* What the steps are made of *)

(* Uses are compared cell by cell.                                          *)
LEMMA SameUses ==
    ASSUME NEW A, NEW B, A \subseteq Spaces \X Cells, B \subseteq Spaces \X Cells,
           \A o \in Spaces, c \in Cells : <<o, c>> \in A <=> <<o, c>> \in B
    PROVE  A = B
<1>1. ASSUME NEW u \in Spaces \X Cells PROVE u \in A <=> u \in B
  <2>1. PICK o \in Spaces, c \in Cells : u = <<o, c>>
    OBVIOUS
  <2>. QED BY <2>1
<1>. QED BY <1>1

(* A cell uses the frame it maps.                                           *)
LEMMA UsesAre ==
    ASSUME NEW S, NEW f
    PROVE  /\ Uses(S, f) \subseteq Spaces \X Cells
           /\ IsFiniteSet(Uses(S, f)) /\ Cardinality(Uses(S, f)) \in Nat
           /\ \A o \in Spaces, c \in Cells : <<o, c>> \in Uses(S, f) <=> S[o][c].f = f
<1>1. Uses(S, f) \in SUBSET (Spaces \X Cells)
  BY DEF Uses
<1>2. IsFiniteSet(Uses(S, f))
  BY <1>1, Finitely, FS_Subset
<1>3. Cardinality(Uses(S, f)) \in Nat
  BY <1>2, FS_CardinalityType
<1>4. \A o \in Spaces, c \in Cells : <<o, c>> \in Uses(S, f) <=> S[o][c].f = f
  BY DEF Uses
<1>. QED BY <1>1, <1>2, <1>3, <1>4

LEMMA SameFrames ==
    ASSUME NEW S, NEW T, NEW f,
           \A o \in Spaces, c \in Cells : T[o][c].f = f <=> S[o][c].f = f
    PROVE  Uses(T, f) = Uses(S, f)
<1>1. Uses(T, f) \subseteq Spaces \X Cells /\ Uses(S, f) \subseteq Spaces \X Cells
  BY DEF Uses
<1>2. ASSUME NEW o \in Spaces, NEW c \in Cells
      PROVE  <<o, c>> \in Uses(T, f) <=> <<o, c>> \in Uses(S, f)
  BY DEF Uses
<1>. QED BY <1>1, <1>2, SameUses

(* A frame whose count is 0 is used nowhere.                                *)
LEMMA Unused ==
    ASSUME NEW R, NEW S, Counted(R, S), NEW fr \in Frame, R[fr] = 0
    PROVE  /\ Uses(S, fr) = {}
           /\ \A o \in Spaces, c \in Cells : S[o][c].f # fr
<1>1. Cardinality(Uses(S, fr)) = 0
  BY UsesAre DEF Counted, CountFor
<1>2. Uses(S, fr) = {}
  BY <1>1, UsesAre, FS_EmptySet
<1>. QED BY <1>2, UsesAre

(* A frame that is used has as its count the number of its uses.            *)
LEMMA UsedCount ==
    ASSUME NEW R, NEW S, Counted(R, S), NEW o \in Spaces, NEW c \in Cells,
           S[o][c].f \in Frame
    PROVE  /\ R[S[o][c].f] = Cardinality(Uses(S, S[o][c].f))
           /\ R[S[o][c].f] # 0
<1>. DEFINE f == S[o][c].f
<1>1. <<o, c>> \in Uses(S, f)
  BY UsesAre
<1>2. Cardinality(Uses(S, f)) # 0
  <2>. HIDE DEF f
  <2>. QED BY <1>1, UsesAre, FS_EmptySet
<1>. QED BY <1>2 DEF Counted, CountFor

(* A free frame mapped at an empty cell: one user, count 1.                 *)
LEMMA Alloc ==
    ASSUME NEW R, NEW S, NEW x, Good(R, S, x),
           NEW o \in Spaces, NEW c \in Cells, S[o][c].f = 0,
           NEW fr \in 1 .. FRAMES, R[fr] = 0,
           NEW e \in {ReadWrite(fr), ReadOnly(fr)},
           c \notin Pages => e = ReadWrite(fr)
    PROVE  Good([R EXCEPT ![fr] = 1], [S EXCEPT ![o][c] = e], x)
<1>. DEFINE T == [S EXCEPT ![o][c] = e]
            Q == [R EXCEPT ![fr] = 1]
<1>1. fr \in Frame /\ fr # 0 /\ fr # KernelFrame
  BY SlotKinds
<1>2. e \in Entry /\ e.f = fr
  BY <1>1, EntryKinds
<1>3. R \in [Frame -> 0 .. MAX_REFS] /\ S \in [Spaces -> [Cells -> Entry]]
  BY DEF Good
<1>4. T \in [Spaces -> [Cells -> Entry]]
  BY <1>2, <1>3
<1>5. \A q \in Spaces, d \in Cells : T[q][d] = IF q = o /\ d = c THEN e ELSE S[q][d]
  BY <1>3
<1>6. Q \in [Frame -> 0 .. MAX_REFS] /\ \A f \in Frame : Q[f] = IF f = fr THEN 1 ELSE R[f]
  BY <1>1, <1>3, MemoryAssumption
<1>7. Uses(S, fr) = {} /\ \A q \in Spaces, d \in Cells : S[q][d].f # fr
  BY <1>1, Unused DEF Good
<1>. HIDE DEF T, Q
<1>8. Sane(T)
  BY <1>1, <1>2, <1>5 DEF Good, Sane
<1>9. SameCell(T)
  BY <1>2, <1>5, <1>7 DEF Good, SameCell
<1>10. Exclusive(T, x)
  <2>1. ASSUME NEW q \in Spaces, NEW r \in Spaces, NEW d \in Cells,
               T[q][d].w, T[r][d].f = T[q][d].f
        PROVE  q = r \/ (d \in Pages /\ x # 0 /\ q \in {0, x} /\ r \in {0, x})
    <3>1. CASE q = o /\ d = c
      BY <2>1, <3>1, <1>2, <1>5, <1>7
    <3>2. CASE r = o /\ d = c
      BY <2>1, <3>2, <1>2, <1>5, <1>7
    <3>3. CASE ~(q = o /\ d = c) /\ ~(r = o /\ d = c)
      BY <2>1, <3>3, <1>5 DEF Good, Exclusive
    <3>. QED BY <3>1, <3>2, <3>3
  <2>. QED BY <2>1 DEF Exclusive
<1>11. ASSUME NEW f \in Frame
       PROVE  Q[f] = CountFor(f, Cardinality(Uses(T, f)))
  <2>1. CASE f = fr
    <3>1. \A q \in Spaces, d \in Cells : T[q][d].f = fr <=> q = o /\ d = c
      BY <1>2, <1>5, <1>7
    <3>2. Uses(T, fr) = {<<o, c>>}
      <4>1. {<<o, c>>} \subseteq Spaces \X Cells
        OBVIOUS
      <4>2. \A q \in Spaces, d \in Cells : <<q, d>> \in {<<o, c>>} <=> q = o /\ d = c
        OBVIOUS
      <4>. QED BY <3>1, <4>1, <4>2, UsesAre, SameUses
    <3>. QED BY <2>1, <3>2, <1>1, <1>6, FS_Singleton DEF CountFor
  <2>2. CASE f # fr
    <3>0. f # 0
      BY SlotKinds
    <3>1. \A q \in Spaces, d \in Cells : T[q][d].f = f <=> S[q][d].f = f
      BY <2>2, <3>0, <1>2, <1>5
    <3>2. Uses(T, f) = Uses(S, f)
      BY <3>1, SameFrames
    <3>. QED BY <2>2, <3>2, <1>6 DEF Good, Counted
  <2>. QED BY <2>1, <2>2
<1>. QED BY <1>4, <1>6, <1>8, <1>9, <1>10, <1>11 DEF Good, Counted, T, Q

(* The counts after the cells C of the space s are released.                *)
Released(R, s, C) ==
    [f \in Frame |->
        LET n == Cardinality({c \in C : s[c].f = f})
            least == IF f = KernelFrame THEN 1 ELSE 0
        IN  IF R[f] - n < least THEN least ELSE R[f] - n]

Cleared(s, C) == [c \in Cells |-> IF c \in C THEN NoEntry ELSE s[c]]

(* Cells of one space are as many as the uses they make.                    *)
LEMMA CellsCount ==
    ASSUME NEW o \in Spaces, NEW A, A \subseteq Cells
    PROVE  /\ IsFiniteSet(A) /\ Cardinality(A) \in Nat
           /\ IsFiniteSet({o} \X A) /\ Cardinality({o} \X A) = Cardinality(A)
           /\ {o} \X A \subseteq Spaces \X Cells
           /\ \A q \in Spaces, c \in Cells : <<q, c>> \in {o} \X A <=> q = o /\ c \in A
<1>1. IsFiniteSet(A)
  BY Finitely, FS_Subset
<1>2. Cardinality(A) \in Nat
  BY <1>1, FS_CardinalityType
<1>3. IsFiniteSet({o}) /\ Cardinality({o}) = 1
  BY FS_Singleton
<1>4. IsFiniteSet({o} \X A) /\ Cardinality({o} \X A) = 1 * Cardinality(A)
  BY <1>1, <1>3, FS_Product
<1>5. Cardinality({o} \X A) = Cardinality(A)
  BY <1>2, <1>4
<1>. QED BY <1>1, <1>2, <1>4, <1>5

(* Cells given up: every frame loses exactly the uses that are gone, and    *)
(* kernel code keeps its reservation.                                       *)
LEMMA Drop ==
    ASSUME NEW R, NEW S, NEW x, Good(R, S, x),
           NEW o \in Spaces, NEW C, C \subseteq Cells
    PROVE  Good(Released(R, S[o], C), [S EXCEPT ![o] = Cleared(S[o], C)], x)
<1>. DEFINE T == [S EXCEPT ![o] = Cleared(S[o], C)]
            Q == Released(R, S[o], C)
<1>1. R \in [Frame -> 0 .. MAX_REFS] /\ S \in [Spaces -> [Cells -> Entry]]
  BY DEF Good
<1>2. Cleared(S[o], C) \in [Cells -> Entry]
  BY <1>1, EntryKinds DEF Cleared
<1>3. T \in [Spaces -> [Cells -> Entry]]
  BY <1>1, <1>2
<1>4. \A q \in Spaces, d \in Cells : T[q][d] = IF q = o /\ d \in C THEN NoEntry ELSE S[q][d]
  BY <1>1 DEF Cleared
<1>5. NoEntry.f = 0 /\ ~NoEntry.w
  BY EntryKinds
<1>6. ASSUME NEW f \in Frame
      PROVE  /\ Q[f] = CountFor(f, Cardinality(Uses(T, f)))
             /\ Q[f] \in 0 .. MAX_REFS
  <2>. DEFINE A == {c \in C : S[o][c].f = f}
              D == {o} \X A
  <2>1. /\ Cardinality(A) \in Nat /\ IsFiniteSet(D) /\ Cardinality(D) = Cardinality(A)
        /\ D \subseteq Spaces \X Cells
        /\ \A q \in Spaces, c \in Cells : <<q, c>> \in D <=> q = o /\ c \in A
    <3>1. A \subseteq Cells
      OBVIOUS
    <3>. HIDE DEF A
    <3>. QED BY <3>1, CellsCount
  <2>2. Uses(T, f) = Uses(S, f) \ D
    <3>0. f # 0
      BY SlotKinds
    <3>1. Uses(T, f) \subseteq Spaces \X Cells /\ Uses(S, f) \ D \subseteq Spaces \X Cells
      BY DEF Uses
    <3>2. ASSUME NEW q \in Spaces, NEW c \in Cells
          PROVE  <<q, c>> \in Uses(T, f) <=> <<q, c>> \in Uses(S, f) \ D
      <4>1. <<q, c>> \in Uses(T, f) <=> T[q][c].f = f
        <5>. HIDE DEF T
        <5>. QED BY UsesAre
      <4>2. <<q, c>> \in Uses(S, f) <=> S[q][c].f = f
        BY UsesAre
      <4>3. <<q, c>> \in D <=> q = o /\ c \in C /\ S[o][c].f = f
        BY <2>1
      <4>. HIDE DEF T, D
      <4>. QED BY <1>4, <1>5, <3>0, <4>1, <4>2, <4>3
    <3>. HIDE DEF T, D
    <3>. QED BY <3>1, <3>2, SameUses
  <2>3. Uses(S, f) \cap D = D
    <3>1. ASSUME NEW q \in Spaces, NEW c \in Cells, <<q, c>> \in D
          PROVE  <<q, c>> \in Uses(S, f)
      BY <2>1, <3>1, UsesAre
    <3>2. D \subseteq Uses(S, f)
      <4>1. ASSUME NEW u \in D PROVE u \in Uses(S, f)
        <5>1. PICK q \in Spaces, c \in Cells : u = <<q, c>>
          BY <2>1
        <5>. QED BY <5>1, <3>1
      <4>. QED BY <4>1
    <3>. QED BY <3>2
  <2>4. Cardinality(Uses(T, f)) = Cardinality(Uses(S, f)) - Cardinality(A)
    <3>1. IsFiniteSet(Uses(S, f))
      BY UsesAre
    <3>2. Cardinality(Uses(S, f) \ D) = Cardinality(Uses(S, f)) - Cardinality(D)
      <4>. HIDE DEF D
      <4>. QED BY <2>3, <3>1, FS_Difference
    <3>. QED BY <2>1, <2>2, <3>2
  <2>5. Cardinality(Uses(T, f)) \in Nat /\ Cardinality(Uses(S, f)) \in Nat
    BY UsesAre
  <2>6. R[f] = CountFor(f, Cardinality(Uses(S, f))) /\ R[f] \in 0 .. MAX_REFS
    BY <1>1 DEF Good, Counted
  <2>7. Q[f] = LET least == IF f = KernelFrame THEN 1 ELSE 0
               IN  IF R[f] - Cardinality(A) < least THEN least ELSE R[f] - Cardinality(A)
    BY DEF Released
  <2>. HIDE DEF A, D, T, Q
  <2>. QED BY <2>1, <2>4, <2>5, <2>6, <2>7, MemoryAssumption DEF CountFor
<1>7. Q \in [Frame -> 0 .. MAX_REFS]
  BY <1>6 DEF Released
<1>. HIDE DEF T, Q
<1>8. Sane(T)
  BY <1>4, <1>5 DEF Good, Sane
<1>9. SameCell(T)
  BY <1>4, <1>5 DEF Good, SameCell
<1>10. Exclusive(T, x)
  <2>1. ASSUME NEW q \in Spaces, NEW r \in Spaces, NEW d \in Cells,
               T[q][d].w, T[r][d].f = T[q][d].f
        PROVE  q = r \/ (d \in Pages /\ x # 0 /\ q \in {0, x} /\ r \in {0, x})
    <3>1. T[q][d] = S[q][d] /\ S[q][d].w
      BY <1>4, <1>5, <2>1
    <3>2. S[q][d].f # 0
      <4>1. S[q][d].f = 0 => S[q][d] = NoEntry
        BY DEF Good, Sane
      <4>. QED BY <1>5, <3>1, <4>1
    <3>3. T[r][d] = S[r][d]
      BY <1>4, <1>5, <2>1, <3>1, <3>2
    <3>. QED BY <2>1, <3>1, <3>3 DEF Good, Exclusive
  <2>. QED BY <2>1 DEF Exclusive
<1>. QED BY <1>3, <1>6, <1>7, <1>8, <1>9, <1>10 DEF Good, Counted, T, Q

(* While nobody shares, the pages of a space are nobody else's to write.    *)
LEMMA Sharing ==
    ASSUME NEW R, NEW S, NEW x, Good(R, S, 0)
    PROVE  Good(R, S, x)
BY DEF Good, Exclusive

(* The unfinished space is handed over to a slot without one.               *)
LEMMA HandOver ==
    ASSUME NEW R, NEW S, Good(R, S, 0), NEW p \in Slot, S[p] = Empty
    PROVE  Good(R, [S EXCEPT ![p] = S[0], ![0] = Empty], 0)
<1>. DEFINE T == [S EXCEPT ![p] = S[0], ![0] = Empty]
<1>1. S \in [Spaces -> [Cells -> Entry]] /\ p \in Spaces /\ 0 \in Spaces /\ p # 0
  BY SlotKinds DEF Good
<1>2. Empty \in [Cells -> Entry] /\ \A c \in Cells : Empty[c] = NoEntry
  BY EntryKinds DEF Empty
<1>3. T \in [Spaces -> [Cells -> Entry]]
  BY <1>1, <1>2
<1>4. \A q \in Spaces, d \in Cells :
          T[q][d] = IF q = 0 THEN NoEntry ELSE IF q = p THEN S[0][d] ELSE S[q][d]
  BY <1>1, <1>2
<1>5. NoEntry.f = 0 /\ ~NoEntry.w /\ \A d \in Cells : S[p][d] = NoEntry
  BY <1>2, EntryKinds
<1>6. ASSUME NEW f \in Frame
      PROVE  Cardinality(Uses(T, f)) = Cardinality(Uses(S, f))
  <2>. DEFINE A == {c \in Cells : S[0][c].f = f}
              Z == {u \in Uses(S, f) : u[1] # 0}
              D == {0} \X A
              E == {p} \X A
  <2>0. f # 0
    BY SlotKinds
  <2>1. A \subseteq Cells
    OBVIOUS
  <2>2. /\ Cardinality(A) \in Nat
        /\ IsFiniteSet(D) /\ Cardinality(D) = Cardinality(A) /\ D \subseteq Spaces \X Cells
        /\ \A q \in Spaces, c \in Cells : <<q, c>> \in D <=> q = 0 /\ c \in A
    <3>. HIDE DEF A
    <3>. QED BY <1>1, <2>1, CellsCount
  <2>3. /\ IsFiniteSet(E) /\ Cardinality(E) = Cardinality(A) /\ E \subseteq Spaces \X Cells
        /\ \A q \in Spaces, c \in Cells : <<q, c>> \in E <=> q = p /\ c \in A
    <3>. HIDE DEF A
    <3>. QED BY <1>1, <2>1, CellsCount
  <2>4. /\ Z \subseteq Spaces \X Cells /\ IsFiniteSet(Z)
        /\ \A q \in Spaces, c \in Cells : <<q, c>> \in Z <=> q # 0 /\ S[q][c].f = f
    <3>1. Z \in SUBSET Uses(S, f)
      OBVIOUS
    <3>2. IsFiniteSet(Z) /\ Uses(S, f) \subseteq Spaces \X Cells
      <4>. HIDE DEF Z
      <4>. QED BY <3>1, UsesAre, FS_Subset
    <3>3. ASSUME NEW q \in Spaces, NEW c \in Cells
          PROVE  <<q, c>> \in Z <=> q # 0 /\ S[q][c].f = f
      BY UsesAre
    <3>. QED BY <3>1, <3>2, <3>3
  <2>5. Uses(S, f) = Z \cup D
    <3>1. ASSUME NEW q \in Spaces, NEW c \in Cells
          PROVE  <<q, c>> \in Uses(S, f) <=> <<q, c>> \in Z \cup D
      <4>1. <<q, c>> \in Uses(S, f) <=> S[q][c].f = f
        BY UsesAre
      <4>2. <<q, c>> \in D <=> q = 0 /\ S[0][c].f = f
        BY <2>2
      <4>. HIDE DEF Z, D
      <4>. QED BY <2>4, <4>1, <4>2
    <3>2. Uses(S, f) \subseteq Spaces \X Cells /\ Z \cup D \subseteq Spaces \X Cells
      BY <2>2, <2>4, UsesAre
    <3>. HIDE DEF Z, D
    <3>. QED BY <3>1, <3>2, SameUses
  <2>6. Uses(T, f) = Z \cup E
    <3>1. ASSUME NEW q \in Spaces, NEW c \in Cells
          PROVE  <<q, c>> \in Uses(T, f) <=> <<q, c>> \in Z \cup E
      <4>1. <<q, c>> \in Uses(T, f) <=> T[q][c].f = f
        <5>. HIDE DEF T
        <5>. QED BY UsesAre
      <4>2. <<q, c>> \in E <=> q = p /\ S[0][c].f = f
        BY <2>3
      <4>. HIDE DEF Z, E, T
      <4>. QED BY <1>1, <1>4, <1>5, <2>0, <2>4, <4>1, <4>2
    <3>2. Uses(T, f) \subseteq Spaces \X Cells /\ Z \cup E \subseteq Spaces \X Cells
      BY <2>3, <2>4, UsesAre
    <3>. HIDE DEF Z, E, T
    <3>. QED BY <3>1, <3>2, SameUses
  <2>7. Z \cap D = {} /\ Z \cap E = {}
    <3>1. ASSUME NEW u \in Z, u \in D \/ u \in E PROVE FALSE
      <4>1. PICK q \in Spaces, c \in Cells : u = <<q, c>>
        BY <2>4
      <4>. HIDE DEF Z, D, E
      <4>. QED BY <1>5, <2>0, <2>2, <2>3, <2>4, <3>1, <4>1
    <3>. QED BY <3>1
  <2>8. /\ Cardinality(Z \cup D) = Cardinality(Z) + Cardinality(A) - Cardinality({})
        /\ Cardinality(Z \cup E) = Cardinality(Z) + Cardinality(A) - Cardinality({})
    <3>. HIDE DEF Z, D, E, A
    <3>. QED BY <2>2, <2>3, <2>4, <2>7, FS_Union
  <2>. HIDE DEF Z, D, E, A, T
  <2>. QED BY <2>5, <2>6, <2>8
<1>. HIDE DEF T
<1>7. Sane(T)
  BY <1>1, <1>4, <1>5 DEF Good, Sane
<1>8. SameCell(T)
  <2>1. ASSUME NEW q \in Spaces, NEW r \in Spaces, NEW c \in Cells, NEW d \in Cells,
               T[q][c].f # 0, T[q][c].f = T[r][d].f
        PROVE  c = d
    <3>. DEFINE Was(y) == IF y = p THEN 0 ELSE y
    <3>1. /\ T[q][c] = S[Was(q)][c] /\ Was(q) \in Spaces
          /\ T[r][d] = S[Was(r)][d] /\ Was(r) \in Spaces
      BY <1>1, <1>4, <1>5, <2>1
    <3>. HIDE DEF Was
    <3>. QED BY <2>1, <3>1 DEF Good, SameCell
  <2>. QED BY <2>1 DEF SameCell
<1>9. Exclusive(T, 0)
  <2>1. ASSUME NEW q \in Spaces, NEW r \in Spaces, NEW d \in Cells,
               T[q][d].w, T[r][d].f = T[q][d].f
        PROVE  q = r
    <3>. DEFINE Was(y) == IF y = p THEN 0 ELSE y
    <3>1. q # 0 /\ T[q][d] = S[Was(q)][d] /\ S[Was(q)][d].w /\ Was(q) \in Spaces
      BY <1>1, <1>4, <1>5, <2>1
    <3>2. S[Was(q)][d].f # 0
      <4>1. S[Was(q)][d].f = 0 => S[Was(q)][d] = NoEntry
        BY <3>1 DEF Good, Sane
      <4>. QED BY <1>5, <3>1, <4>1
    <3>3. r # 0 /\ T[r][d] = S[Was(r)][d] /\ Was(r) \in Spaces
      BY <1>1, <1>4, <1>5, <2>1, <3>1, <3>2
    <3>4. Was(q) = Was(r)
      <4>. HIDE DEF Was
      <4>. QED BY <2>1, <3>1, <3>3 DEF Good, Exclusive
    <3>. QED BY <3>1, <3>3, <3>4
  <2>. QED BY <2>1 DEF Exclusive
<1>. QED BY <1>3, <1>6, <1>7, <1>8, <1>9 DEF Good, Counted, T

(* fork takes one more reference to a page of the process x.                *)
LEMMA Share ==
    ASSUME NEW R, NEW S, NEW x \in Slot, Good(R, S, x), NEW c \in Pages,
           S[0][c].f = 0, S[x][c].f \in Frame, R[S[x][c].f] # MAX_REFS
    PROVE  Good([R EXCEPT ![S[x][c].f] = @ + 1], [S EXCEPT ![0][c] = S[x][c]], x)
<1>. DEFINE T == [S EXCEPT ![0][c] = S[x][c]]
            g == S[x][c].f
            Q == [R EXCEPT ![g] = @ + 1]
<1>1. /\ R \in [Frame -> 0 .. MAX_REFS] /\ S \in [Spaces -> [Cells -> Entry]]
      /\ x \in Spaces /\ 0 \in Spaces /\ x # 0 /\ c \in Cells /\ g # 0 /\ g \in Frame
  BY SlotKinds, CellKinds DEF Good
<1>2. T \in [Spaces -> [Cells -> Entry]]
  BY <1>1
<1>3. \A q \in Spaces, d \in Cells : T[q][d] = IF q = 0 /\ d = c THEN S[x][c] ELSE S[q][d]
  BY <1>1
<1>4. Q \in [Frame -> 0 .. MAX_REFS] /\ \A f \in Frame : Q[f] = IF f = g THEN R[f] + 1 ELSE R[f]
  <2>1. R[g] \in 0 .. MAX_REFS /\ R[g] # MAX_REFS
    BY <1>1
  <2>2. R[g] + 1 \in 0 .. MAX_REFS
    BY <2>1, MemoryAssumption
  <2>. HIDE DEF g
  <2>. QED BY <1>1, <2>2
<1>5. ASSUME NEW f \in Frame
      PROVE  Q[f] = CountFor(f, Cardinality(Uses(T, f)))
  <2>. HIDE DEF T, g
  <2>1. CASE f = g
    <3>1. <<0, c>> \notin Uses(S, g)
      BY <1>1, UsesAre
    <3>2. Uses(T, g) = Uses(S, g) \cup {<<0, c>>}
      <4>1. /\ Uses(T, g) \subseteq Spaces \X Cells
            /\ Uses(S, g) \cup {<<0, c>>} \subseteq Spaces \X Cells
        BY <1>1, UsesAre
      <4>2. ASSUME NEW q \in Spaces, NEW d \in Cells
            PROVE  <<q, d>> \in Uses(T, g) <=> <<q, d>> \in Uses(S, g) \cup {<<0, c>>}
        <5>1. <<q, d>> \in Uses(T, g) <=> T[q][d].f = g
          BY UsesAre
        <5>2. <<q, d>> \in Uses(S, g) <=> S[q][d].f = g
          BY UsesAre
        <5>3. <<q, d>> = <<0, c>> <=> q = 0 /\ d = c
          OBVIOUS
        <5>. QED BY <1>3, <5>1, <5>2, <5>3 DEF g
      <4>. QED BY <4>1, <4>2, SameUses
    <3>3. Cardinality(Uses(T, g)) = Cardinality(Uses(S, g)) + 1
      BY <3>1, <3>2, UsesAre, FS_AddElement
    <3>4. R[g] = Cardinality(Uses(S, g))
      <4>1. Counted(R, S)
        BY DEF Good
      <4>. QED BY <1>1, <4>1, UsedCount DEF g
    <3>5. Cardinality(Uses(S, g)) \in Nat
      BY UsesAre
    <3>. HIDE DEF Q
    <3>. QED BY <1>1, <1>4, <2>1, <3>3, <3>4, <3>5 DEF CountFor
  <2>2. CASE f # g
    <3>0. f # 0
      BY SlotKinds
    <3>1. \A q \in Spaces, d \in Cells : T[q][d].f = f <=> S[q][d].f = f
      BY <1>1, <1>3, <2>2, <3>0 DEF g
    <3>2. Uses(T, f) = Uses(S, f)
      BY <3>1, SameFrames
    <3>. HIDE DEF Q
    <3>. QED BY <1>4, <2>2, <3>2 DEF Good, Counted
  <2>. QED BY <2>1, <2>2
<1>. HIDE DEF T, Q
<1>6. Sane(T)
  BY <1>1, <1>3, CellKinds DEF Good, Sane, g
<1>7. SameCell(T)
  <2>1. ASSUME NEW q \in Spaces, NEW r \in Spaces, NEW a \in Cells, NEW d \in Cells,
               T[q][a].f # 0, T[q][a].f = T[r][d].f
        PROVE  a = d
    <3>. DEFINE Was(y, b) == IF y = 0 /\ b = c THEN x ELSE y
    <3>1. /\ T[q][a] = S[Was(q, a)][a] /\ Was(q, a) \in Spaces
          /\ T[r][d] = S[Was(r, d)][d] /\ Was(r, d) \in Spaces
      BY <1>1, <1>3
    <3>. HIDE DEF Was
    <3>. QED BY <2>1, <3>1 DEF Good, SameCell
  <2>. QED BY <2>1 DEF SameCell
<1>8. Exclusive(T, x)
  <2>1. ASSUME NEW q \in Spaces, NEW r \in Spaces, NEW d \in Cells,
               T[q][d].w, T[r][d].f = T[q][d].f
        PROVE  q = r \/ (d \in Pages /\ x # 0 /\ q \in {0, x} /\ r \in {0, x})
    <3>. DEFINE Was(y) == IF y = 0 /\ d = c THEN x ELSE y
    <3>1. /\ T[q][d] = S[Was(q)][d] /\ Was(q) \in Spaces
          /\ T[r][d] = S[Was(r)][d] /\ Was(r) \in Spaces
      BY <1>1, <1>3
    <3>2. \/ Was(q) = Was(r)
          \/ (d \in Pages /\ x # 0 /\ Was(q) \in {0, x} /\ Was(r) \in {0, x})
      <4>. HIDE DEF Was
      <4>. QED BY <2>1, <3>1 DEF Good, Exclusive
    <3>. QED BY <1>1, <3>2
  <2>. QED BY <2>1 DEF Exclusive
<1>. QED BY <1>2, <1>4, <1>5, <1>6, <1>7, <1>8 DEF Good, Counted, T, Q

(* What write protection leaves of an entry.                                *)
LEMMA Protected ==
    ASSUME NEW s \in [Cells -> Entry]
    PROVE  /\ Protect(s) \in [Cells -> Entry]
           /\ \A c \in Cells : /\ Protect(s)[c].f = s[c].f
                               /\ c \notin Pages => Protect(s)[c] = s[c]
                               /\ c \in Pages => ~Protect(s)[c].w
                               /\ ~s[c].w /\ ~s[c].cow => Protect(s)[c] = s[c]
<1>1. ASSUME NEW c \in Cells
      PROVE  /\ Protect(s)[c] \in Entry
             /\ Protect(s)[c].f = s[c].f
             /\ c \notin Pages => Protect(s)[c] = s[c]
             /\ c \in Pages => ~Protect(s)[c].w
             /\ ~s[c].w /\ ~s[c].cow => Protect(s)[c] = s[c]
  <2>1. s[c] \in Entry
    OBVIOUS
  <2>2. CASE c \in Pages /\ (s[c].w \/ s[c].cow)
    <3>1. Protect(s)[c] = [s[c] EXCEPT !.w = FALSE, !.cow = TRUE]
      BY <2>2 DEF Protect
    <3>2. TRUE \in BOOLEAN /\ FALSE \in BOOLEAN
      OBVIOUS
    <3>3. Protect(s)[c] \in Entry /\ Protect(s)[c].f = s[c].f /\ ~Protect(s)[c].w
      BY <2>1, <3>1, <3>2 DEF Entry
    <3>. QED BY <2>2, <3>3
  <2>3. CASE ~(c \in Pages /\ (s[c].w \/ s[c].cow))
    <3>1. Protect(s)[c] = s[c]
      BY <2>3 DEF Protect
    <3>2. c \in Pages => ~s[c].w
      BY <2>3
    <3>. QED BY <2>1, <3>1, <3>2
  <2>. QED BY <2>2, <2>3
<1>2. Protect(s) = [c \in Cells |-> Protect(s)[c]]
  BY DEF Protect
<1>. QED BY <1>1, <1>2

(* Protecting both sides ends the sharing of writable frames.               *)
LEMMA ProtectBoth ==
    ASSUME NEW R, NEW S, NEW x \in Slot, Good(R, S, x)
    PROVE  Good(R, [S EXCEPT ![x] = Protect(S[x]), ![0] = Protect(S[0])], 0)
<1>. DEFINE T == [S EXCEPT ![x] = Protect(S[x]), ![0] = Protect(S[0])]
<1>1. /\ S \in [Spaces -> [Cells -> Entry]]
      /\ x \in Spaces /\ 0 \in Spaces /\ x # 0
  BY SlotKinds DEF Good
<1>2. T \in [Spaces -> [Cells -> Entry]]
  BY <1>1, Protected
<1>3. \A q \in Spaces : T[q] = IF q \in {0, x} THEN Protect(S[q]) ELSE S[q]
  BY <1>1
<1>4. \A q \in Spaces, d \in Cells :
          /\ T[q][d].f = S[q][d].f
          /\ d \notin Pages => T[q][d] = S[q][d]
          /\ q \notin {0, x} => T[q][d] = S[q][d]
          /\ d \in Pages /\ q \in {0, x} => ~T[q][d].w
          /\ ~S[q][d].w /\ ~S[q][d].cow => T[q][d] = S[q][d]
  <2>. HIDE DEF T
  <2>. QED BY <1>1, <1>3, Protected
<1>. HIDE DEF T
<1>5. \A f : Uses(T, f) = Uses(S, f)
  BY <1>4, SameFrames
<1>6. Sane(T)
  BY <1>4, EntryKinds DEF Good, Sane
<1>7. SameCell(T)
  BY <1>4 DEF Good, SameCell
<1>8. Exclusive(T, 0)
  <2>1. ASSUME NEW q \in Spaces, NEW r \in Spaces, NEW d \in Cells,
               T[q][d].w, T[r][d].f = T[q][d].f
        PROVE  q = r
    <3>1. d \notin Pages \/ q \notin {0, x}
      BY <1>4, <2>1
    <3>2. T[q][d] = S[q][d] /\ S[r][d].f = S[q][d].f
      BY <1>4, <2>1, <3>1
    <3>. QED BY <2>1, <3>1, <3>2 DEF Good, Exclusive
  <2>. QED BY <2>1 DEF Exclusive
<1>. QED BY <1>2, <1>5, <1>6, <1>7, <1>8 DEF Good, Counted, T

(* The only user of a frame may write it.                                   *)
LEMMA Keep ==
    ASSUME NEW R, NEW S, NEW x, Good(R, S, x), NEW o \in Spaces, NEW c \in Cells,
           S[o][c].f \in Frame, R[S[o][c].f] = 1
    PROVE  Good(R, [S EXCEPT ![o][c] = ReadWrite(S[o][c].f)], x)
<1>. DEFINE g == S[o][c].f
            T == [S EXCEPT ![o][c] = ReadWrite(g)]
<1>1. S \in [Spaces -> [Cells -> Entry]] /\ g # 0 /\ g \in Frame
  BY SlotKinds DEF Good
<1>2. ReadWrite(g) \in Entry /\ ReadWrite(g).f = g
  BY <1>1, EntryKinds
<1>3. T \in [Spaces -> [Cells -> Entry]]
  BY <1>1, <1>2
<1>4. \A q \in Spaces, d \in Cells :
          T[q][d] = IF q = o /\ d = c THEN ReadWrite(g) ELSE S[q][d]
  BY <1>1
<1>5. \A q \in Spaces, d \in Cells : T[q][d].f = S[q][d].f
  BY <1>2, <1>4
<1>6. \A q \in Spaces, d \in Cells : S[q][d].f = g => q = o /\ d = c
  <2>. HIDE DEF T
  <2>1. Cardinality(Uses(S, g)) = 1
    <3>1. Counted(R, S)
      BY DEF Good
    <3>. QED BY <1>1, <3>1, UsedCount
  <2>2. IsFiniteSet(Uses(S, g))
    BY UsesAre
  <2>3. PICK u : Uses(S, g) = {u}
    <3>. HIDE DEF g
    <3>. QED BY <2>1, <2>2, FS_Singleton
  <2>4. <<o, c>> = u
    <3>1. <<o, c>> \in Uses(S, g)
      BY UsesAre
    <3>. QED BY <2>3, <3>1
  <2>5. ASSUME NEW q \in Spaces, NEW d \in Cells, S[q][d].f = g
        PROVE  q = o /\ d = c
    <3>1. <<q, d>> \in Uses(S, g)
      BY <2>5, UsesAre
    <3>. QED BY <2>3, <2>4, <3>1
  <2>. QED BY <2>5
<1>. HIDE DEF T, g
<1>7. \A f : Uses(T, f) = Uses(S, f)
  BY <1>5, SameFrames
<1>8. Sane(T)
  BY <1>1, <1>2, <1>4 DEF Good, Sane
<1>9. SameCell(T)
  BY <1>5 DEF Good, SameCell
<1>10. Exclusive(T, x)
  <2>1. ASSUME NEW q \in Spaces, NEW r \in Spaces, NEW d \in Cells,
               T[q][d].w, T[r][d].f = T[q][d].f
        PROVE  q = r \/ (d \in Pages /\ x # 0 /\ q \in {0, x} /\ r \in {0, x})
    <3>1. CASE q = o /\ d = c
      BY <1>2, <1>4, <1>5, <1>6, <2>1, <3>1
    <3>2. CASE ~(q = o /\ d = c)
      BY <1>4, <1>5, <2>1, <3>2 DEF Good, Exclusive
    <3>. QED BY <3>1, <3>2
  <2>. QED BY <2>1 DEF Exclusive
<1>. QED BY <1>3, <1>7, <1>8, <1>9, <1>10 DEF Good, Counted, T, g

-----------------------------------------------------------------------------
(* The steps that build a space *)

(* The spaces, slot by slot.                                                *)
LEMMA SpIs ==
    /\ Sp = [o \in Spaces |-> IF o = 0 THEN nw ELSE space[o]]
    /\ Sp' = [o \in Spaces |-> IF o = 0 THEN nw' ELSE space'[o]]
    /\ Sp[0] = nw /\ \A p \in Slot : Sp[p] = space[p]
BY SlotKinds DEF Sp, SpaceOf

(* A step changes the unfinished space or that of one process.              *)
LEMMA SpSteps ==
    /\ UNCHANGED space => Sp' = [Sp EXCEPT ![0] = nw']
    /\ \A p \in Slot : \A s : /\ space \in [Slot -> [Cells -> Entry]]
                              /\ space' = [space EXCEPT ![p] = s]
                              => Sp' = [Sp EXCEPT ![p] = s, ![0] = nw']
    /\ UNCHANGED <<space, nw>> => Sp' = Sp
<1>1. ASSUME UNCHANGED space PROVE Sp' = [Sp EXCEPT ![0] = nw']
  BY <1>1, SpIs, SlotKinds
<1>2. ASSUME NEW p \in Slot, NEW s, space \in [Slot -> [Cells -> Entry]],
             space' = [space EXCEPT ![p] = s]
      PROVE  Sp' = [Sp EXCEPT ![p] = s, ![0] = nw']
  <2>1. \A q \in Slot : space'[q] = IF q = p THEN s ELSE space[q]
    BY <1>2
  <2>. QED BY <2>1, SpIs, SlotKinds
<1>3. ASSUME UNCHANGED <<space, nw>> PROVE Sp' = Sp
  BY <1>3, SpIs
<1>. QED BY <1>1, <1>2, <1>3

(* frame_alloc and paging_alloc_frame find a free frame or none.            *)
LEMMA AllocFinds ==
    ASSUME NEW r
    PROVE  /\ frame_alloc(r) = 0 \/ (frame_alloc(r) \in 1 .. FRAMES /\ r[frame_alloc(r)] = 0)
           /\ \/ paging_alloc_frame(r) = 0
              \/ (paging_alloc_frame(r) \in 1 .. FRAMES /\ r[paging_alloc_frame(r)] = 0)
<1>1. ASSUME NEW n \in {FRAMES, LOW_FRAMES}
      PROVE  \/ frame_alloc_below(r, n) = 0
             \/ frame_alloc_below(r, n) \in 1 .. FRAMES /\ r[frame_alloc_below(r, n)] = 0
  <2>. DEFINE F == {f \in 1 .. n : r[f] = 0}
  <2>1. F \subseteq Nat /\ F \subseteq 1 .. FRAMES
    BY MemoryAssumption
  <2>2. Lowest(F) = 0 \/ Lowest(F) \in F
    <3>. HIDE DEF F
    <3>. QED BY <2>1, LowestIn
  <2>3. Lowest(F) \in F => Lowest(F) \in 1 .. FRAMES /\ r[Lowest(F)] = 0
    BY <2>1
  <2>. QED BY <2>2, <2>3 DEF frame_alloc_below
<1>. QED BY <1>1 DEF frame_alloc, paging_alloc_frame

(* Where the running process is.                                            *)
LEMMA Here ==
    ASSUME MemInv, cur # 0
    PROVE  /\ cur \in Slot /\ cur \in Spaces /\ life[cur] = "live"
           /\ Parent \in [Cells -> Entry] /\ Parent = Sp[cur] /\ Parent = space[cur]
           /\ Parent[Dir].f # 0
           /\ nw = Sp[0]
BY SlotKinds, SpIs DEF MemInv, MemTypes, Inhabited, Parent

(* A step that only builds keeps the rest of the invariant.                 *)
LEMMA Building ==
    ASSUME MemInv, UNCHANGED <<space, life, heap_end, cur>>, tlb' \in {tlb, NoTlb},
           built' \in 0 .. MaxBuilt, data' \in [Frame -> Contents],
           pc' \in {"user", "tables", "retain", "inherit", "load", "undo"},
           nw' \in [Cells -> Entry], Good(refs', Sp', Sharer'), Under(nw'),
           IF pc' = "user" THEN nw' = Empty ELSE cur # 0 /\ nw'[Dir].f # 0,
           Progress'
    PROVE  MemInv'
<1>1. NoTlb \in [Pages -> Entry] /\ \A c \in Pages : NoTlb[c].f = 0
  BY EntryKinds DEF NoTlb
<1>2. MemTypes'
  BY <1>1 DEF MemInv, MemTypes
<1>3. Inhabited'
  BY DEF MemInv, Inhabited
<1>4. Tabled'
  BY DEF MemInv, Tabled, Under
<1>5. Coherent'
  BY <1>1 DEF MemInv, Coherent, Parent
<1>6. HeapBelowBreak'
  BY DEF MemInv, HeapBelowBreak
<1>. QED BY <1>2, <1>3, <1>4, <1>5, <1>6 DEF MemInv

(* The unfinished space gets a free frame at an empty cell.                 *)
LEMMA Extend ==
    ASSUME MemInv, NEW c \in Cells, nw[c].f = 0, NEW fr \in 1 .. FRAMES, refs[fr] = 0,
           NEW e \in {ReadWrite(fr), ReadOnly(fr)}, c \notin Pages => e = ReadWrite(fr),
           UNCHANGED space, refs' = [refs EXCEPT ![fr] = 1], nw' = [nw EXCEPT ![c] = e],
           Sharer' = Sharer
    PROVE  Good(refs', Sp', Sharer')
<1>1. Sp[0] = nw /\ 0 \in Spaces /\ Sp' = [Sp EXCEPT ![0] = nw']
  BY SpIs, SpSteps, SlotKinds
<1>2. Sp' = [Sp EXCEPT ![0][c] = e]
  BY <1>1
<1>3. Good(refs, Sp, Sharer)
  BY DEF MemInv
<1>4. Good([refs EXCEPT ![fr] = 1], [Sp EXCEPT ![0][c] = e], Sharer)
  BY <1>1, <1>3, Alloc
<1>. QED BY <1>2, <1>4

(* paging_clone_directory begins with a directory.                          *)
LEMMA ForkBeginStep == ASSUME MemInv, ForkBegin PROVE MemInv'
<1>. DEFINE d == paging_alloc_frame(refs)
<1>1. /\ pc = "user" /\ cur # 0 /\ Child # 0 /\ d # 0
      /\ refs' = [refs EXCEPT ![d] = 1] /\ data' = [data EXCEPT ![d] = 0]
      /\ nw' = [Empty EXCEPT ![Dir] = ReadWrite(d)]
      /\ pc' = "tables" /\ built < MaxBuilt /\ built' = built + 1
      /\ UNCHANGED <<space, life, heap_end, cur, tlb>>
  BY DEF ForkBegin, Does, Running
<1>2. d \in 1 .. FRAMES /\ refs[d] = 0 /\ d \in Frame
  BY <1>1, AllocFinds, SlotKinds
<1>. HIDE DEF d
<1>3. nw = Empty /\ \A c \in Cells : nw[c] = NoEntry
  BY <1>1 DEF MemInv, Inhabited, Empty
<1>4. \A c \in Cells : nw'[c] = IF c = Dir THEN ReadWrite(d) ELSE NoEntry
  BY <1>1, CellKinds DEF Empty
<1>5. /\ ReadWrite(d) \in Entry /\ ReadWrite(d).f = d /\ d # 0
      /\ NoEntry \in Entry /\ NoEntry.f = 0
  BY <1>1, <1>2, EntryKinds
<1>6. Good(refs', Sp', Sharer')
  <2>1. Sharer' = Sharer
    BY <1>1 DEF Sharer
  <2>. QED BY <1>1, <1>2, <1>3, <1>5, <2>1, CellKinds, Extend
<1>7. nw' \in [Cells -> Entry]
  BY <1>1, <1>5 DEF Empty
<1>8. Under(nw')
  BY <1>4, <1>5, CellKinds DEF Under
<1>9. Progress'
  <2>1. Dead' = Dead /\ Dead # {}
    <3>1. Dead # {}
      BY <1>1, LowestIn DEF Child
    <3>. QED BY <1>1, <3>1 DEF Dead
  <2>2. \A c \in Pages : nw'[c] = NoEntry
    BY <1>4, CellKinds
  <2>3. \A t \in Tables : nw'[t].f = 0
    BY <1>4, <1>5, CellKinds
  <2>. QED BY <1>1, <2>1, <2>2, <2>3 DEF Progress
<1>10. built' \in 0 .. MaxBuilt /\ data' \in [Frame -> Contents]
  <2>1. built \in 0 .. MaxBuilt /\ data \in [Frame -> Contents]
    BY DEF MemInv, MemTypes
  <2>2. 0 \in Contents /\ MaxBuilt \in Nat
    BY MemoryAssumption
  <2>3. built' \in 0 .. MaxBuilt
    BY <1>1, <2>1, <2>2
  <2>4. data' \in [Frame -> Contents]
    BY <1>1, <2>1, <2>2
  <2>. QED BY <2>3, <2>4
<1>11. nw'[Dir].f # 0
  BY <1>4, <1>5, CellKinds
<1>. QED BY <1>1, <1>6, <1>7, <1>8, <1>9, <1>10, <1>11, Building

(* A frame of the parent's is in use.                                       *)
LEMMA InUse ==
    ASSUME MemInv, NEW o \in Spaces, NEW c \in Cells, Sp[o][c].f # 0
    PROVE  Sp[o][c].f \in Frame /\ refs[Sp[o][c].f] # 0
<1>1. Good(refs, Sp, Sharer)
  BY DEF MemInv
<1>2. Sp[o][c] \in Entry
  BY <1>1 DEF Good
<1>3. Sp[o][c].f \in Frame
  BY <1>2, EntryKinds
<1>. QED BY <1>1, <1>3, UsedCount DEF Good

(* Phase 1 copies one table of the parent, or gives up.                     *)
LEMMA CloneTableStep == ASSUME MemInv, CloneTable PROVE MemInv'
<1>. DEFINE t == First(TablesToDo)
            fr == paging_alloc_frame(refs)
<1>1. /\ pc = "tables" /\ TablesToDo # {}
      /\ UNCHANGED <<space, life, heap_end, cur, tlb, built>>
      /\ \/ /\ fr # 0
            /\ refs' = [refs EXCEPT ![fr] = 1]
            /\ data' = [data EXCEPT ![fr] = 0]
            /\ nw' = [nw EXCEPT ![t] = ReadWrite(fr)]
            /\ pc' = IF Shareable(t) THEN "tables" ELSE "undo"
         \/ /\ pc' = "undo"
            /\ UNCHANGED <<refs, data, nw>>
  BY DEF CloneTable
<1>2. cur # 0 /\ nw[Dir].f # 0 /\ nw \in [Cells -> Entry]
  BY <1>1 DEF MemInv, Inhabited, MemTypes
<1>3. t \in Tables /\ t \in Cells /\ Parent[t].f # 0 /\ nw[t].f = 0
  <2>1. TablesToDo \subseteq Tables /\ Tables \subseteq Cells
    BY CellKinds DEF TablesToDo
  <2>2. t \in TablesToDo
    BY <1>1, <2>1, FirstIn
  <2>. QED BY <2>1, <2>2 DEF TablesToDo
<1>. HIDE DEF t
<1>4. built' \in 0 .. MaxBuilt /\ Dead' = Dead /\ Dead # {} /\ Parent' = Parent
  BY <1>1 DEF MemInv, MemTypes, Dead, Parent, Progress
<1>5. CASE /\ pc' = "undo" /\ UNCHANGED <<refs, data, nw>>
  <2>1. Good(refs', Sp', Sharer')
    <3>1. Sp' = Sp /\ Sharer' = Sharer
      BY <1>1, <1>5, SpSteps DEF Sharer
    <3>. QED BY <1>5, <3>1 DEF MemInv
  <2>2. Progress'
    BY <1>5 DEF Progress
  <2>3. data' \in [Frame -> Contents] /\ nw' \in [Cells -> Entry] /\ Under(nw') /\ nw'[Dir].f # 0
    BY <1>2, <1>5 DEF MemInv, MemTypes, Tabled
  <2>. QED BY <1>1, <1>2, <1>4, <1>5, <2>1, <2>2, <2>3, Building
<1>6. CASE /\ fr # 0
           /\ refs' = [refs EXCEPT ![fr] = 1]
           /\ data' = [data EXCEPT ![fr] = 0]
           /\ nw' = [nw EXCEPT ![t] = ReadWrite(fr)]
           /\ pc' = IF Shareable(t) THEN "tables" ELSE "undo"
  <2>1. fr \in 1 .. FRAMES /\ refs[fr] = 0 /\ fr \in Frame
    BY <1>6, AllocFinds, SlotKinds
  <2>. HIDE DEF fr
  <2>2. ReadWrite(fr) \in Entry /\ ReadWrite(fr).f # 0
    BY <1>6, <2>1, EntryKinds
  <2>3. nw' \in [Cells -> Entry] /\ \A c \in Cells : nw'[c] = IF c = t THEN ReadWrite(fr) ELSE nw[c]
    BY <1>2, <1>3, <1>6, <2>2
  <2>4. t \notin Pages /\ t # Dir
    BY <1>3, CellKinds
  <2>5. Good(refs', Sp', Sharer')
    <3>1. Sharer' = Sharer
      BY <1>1, <1>6 DEF Sharer
    <3>. QED BY <1>1, <1>3, <1>6, <2>1, <3>1, Extend
  <2>6. nw'[Dir].f # 0
    BY <1>2, <2>3, <2>4, CellKinds
  <2>7. \A c \in Pages : nw[c] = NoEntry /\ nw'[c] = NoEntry
    BY <1>1, <2>3, <2>4, CellKinds DEF MemInv, Progress
  <2>8. Under(nw')
    BY <2>7, EntryKinds DEF Under
  <2>9. Progress'
    <3>1. ASSUME pc' = "tables", NEW u \in Tables, nw'[u].f # 0 PROVE Shareable(u)'
      <4>1. Shareable(u)
        <5>1. CASE u = t
          BY <1>6, <3>1, <5>1
        <5>2. CASE u # t
          <6>1. nw[u].f # 0
            BY <2>3, <3>1, <5>2, CellKinds
          <6>. QED BY <1>1, <6>1 DEF MemInv, Progress
        <5>. QED BY <5>1, <5>2
      <4>2. ASSUME NEW c \in PagesOf(Parent, u) PROVE Parent[c].f # fr
        <5>1. c \in Cells /\ Parent[c].f # 0
          BY CellKinds DEF PagesOf
        <5>2. refs[Parent[c].f] # 0
          BY <1>2, <5>1, Here, InUse
        <5>. QED BY <2>1, <5>2
      <4>3. ASSUME NEW c \in PagesOf(Parent, u) PROVE refs'[Parent[c].f] = refs[Parent[c].f]
        <5>1. c \in Cells /\ Parent[c].f # 0
          BY CellKinds DEF PagesOf
        <5>2. Parent[c].f \in Frame
          BY <1>2, <5>1, Here, InUse
        <5>3. refs \in [Frame -> 0 .. MAX_REFS]
          BY DEF MemInv, Good
        <5>. QED BY <1>6, <4>2, <5>2, <5>3
      <4>4. Shareable(u)' <=> \A c \in PagesOf(Parent, u) :
                                   refs'[Parent[c].f] # 0 /\ refs'[Parent[c].f] # MAX_REFS
        BY <1>4 DEF Shareable, Retainable, PagesOf
      <4>. QED BY <4>1, <4>3, <4>4 DEF Shareable, Retainable
    <3>. QED BY <1>4, <1>6, <2>7, <3>1 DEF Progress
  <2>10. data' \in [Frame -> Contents]
    <3>1. data \in [Frame -> Contents] /\ 0 \in Contents
      BY MemoryAssumption DEF MemInv, MemTypes
    <3>. QED BY <1>6, <3>1
  <2>. QED BY <1>1, <1>2, <1>4, <1>6, <2>3, <2>5, <2>6, <2>8, <2>9, <2>10, Building
<1>. QED BY <1>1, <1>5, <1>6

(* Phase 1 is over: every frame of the parent's can take a reference.       *)
LEMMA CloneTablesDoneStep == ASSUME MemInv, CloneTablesDone PROVE MemInv'
<1>1. /\ pc = "tables" /\ TablesToDo = {} /\ pc' = "retain"
      /\ UNCHANGED <<refs, data, space, life, heap_end, cur, tlb, nw, built>>
  BY DEF CloneTablesDone
<1>2. cur # 0 /\ nw[Dir].f # 0 /\ nw' = nw
  BY <1>1 DEF MemInv, Inhabited
<1>3. Good(refs', Sp', Sharer')
  <2>1. Sp' = Sp /\ Sharer = 0
    BY <1>1, SpSteps DEF Sharer
  <2>2. Good(refs, Sp, 0)
    BY <2>1 DEF MemInv
  <2>. QED BY <1>1, <2>1, <2>2, Sharing
<1>4. Progress'
  <2>1. Dead' = Dead /\ Parent' = Parent /\ TablesToDo' = TablesToDo /\ PagesToDo' = PagesToDo
    BY <1>1 DEF Dead, Parent, TablesToDo, PagesToDo
  <2>2. \A c \in Pages : nw[c] = NoEntry
    BY <1>1 DEF MemInv, Progress
  <2>3. ASSUME NEW c \in PagesToDo PROVE Retainable(Parent[c].f)
    <3>1. c \in Pages /\ Parent[c].f # 0
      BY DEF PagesToDo
    <3>2. Parent[TableOf(c)].f # 0 /\ TableOf(c) \in Tables
      BY <1>2, <3>1, Here, TableKinds DEF MemInv, Tabled, Under
    <3>3. nw[TableOf(c)].f # 0
      BY <1>1, <3>2 DEF TablesToDo
    <3>4. Shareable(TableOf(c))
      BY <1>1, <3>2, <3>3 DEF MemInv, Progress
    <3>. QED BY <3>1, <3>4 DEF Shareable, PagesOf
  <2>4. \A c \in PagesToDo : Retainable(Parent[c].f)' <=> Retainable(Parent[c].f)
    BY <1>1, <2>1 DEF Retainable
  <2>5. Dead # {}
    BY <1>1 DEF MemInv, Progress
  <2>. QED BY <1>1, <2>1, <2>2, <2>3, <2>4, <2>5 DEF Progress
<1>5. /\ built' \in 0 .. MaxBuilt /\ data' \in [Frame -> Contents]
      /\ nw' \in [Cells -> Entry] /\ Under(nw')
  BY <1>1 DEF MemInv, MemTypes, Tabled
<1>. QED BY <1>1, <1>2, <1>3, <1>4, <1>5, Building

(* Phase 2a takes a reference, and never finds a count at its limit.        *)
LEMMA RetainStep == ASSUME MemInv, Retain PROVE MemInv'
<1>. DEFINE c == First(PagesToDo)
            f == Parent[c].f
<1>1. /\ pc = "retain" /\ PagesToDo # {}
      /\ UNCHANGED <<data, space, life, heap_end, cur, tlb, built>>
      /\ Retainable(f) => /\ refs' = [refs EXCEPT ![f] = @ + 1]
                          /\ nw' = [nw EXCEPT ![c] = Parent[c]]
                          /\ pc' = pc
  BY DEF Retain
<1>2. /\ cur # 0 /\ nw[Dir].f # 0 /\ nw \in [Cells -> Entry] /\ TablesToDo = {}
      /\ refs \in [Frame -> 0 .. MAX_REFS]
  BY <1>1 DEF MemInv, Inhabited, MemTypes, Good, Progress
<1>3. c \in Pages /\ c \in Cells /\ Parent[c].f # 0 /\ nw[c].f = 0 /\ Retainable(f)
  <2>1. PagesToDo \subseteq Pages /\ Pages \subseteq Cells
    BY CellKinds DEF PagesToDo
  <2>2. c \in PagesToDo
    BY <1>1, <2>1, FirstIn
  <2>3. Retainable(f)
    BY <1>1, <2>2 DEF MemInv, Progress
  <2>. QED BY <2>1, <2>2, <2>3 DEF PagesToDo
<1>. HIDE DEF c
<1>4. /\ cur \in Slot /\ cur \in Spaces /\ Parent \in [Cells -> Entry] /\ Parent = Sp[cur]
      /\ nw = Sp[0]
  BY <1>2, Here
<1>5. f \in Frame /\ refs[f] # MAX_REFS
  <2>1. f \in Frame
    BY <1>3, <1>4, InUse
  <2>. QED BY <1>3, <2>1 DEF Retainable
<1>6. nw' \in [Cells -> Entry] /\ \A d \in Cells : nw'[d] = IF d = c THEN Parent[c] ELSE nw[d]
  BY <1>1, <1>2, <1>3, <1>4
<1>7. Good(refs', Sp', Sharer')
  <2>1. Sharer = cur /\ Sharer' = cur
    BY <1>1, <1>3 DEF Sharer
  <2>2. Sp' = [Sp EXCEPT ![0][c] = Sp[cur][c]]
    BY <1>1, <1>3, <1>4, SpSteps
  <2>3. Good(refs, Sp, cur)
    BY <2>1 DEF MemInv
  <2>4. Good([refs EXCEPT ![f] = @ + 1], [Sp EXCEPT ![0][c] = Sp[cur][c]], cur)
    BY <1>3, <1>4, <1>5, <2>3, Share
  <2>. QED BY <1>1, <1>3, <2>1, <2>2, <2>4
<1>8. \A t \in Tables : nw'[t] = nw[t]
  BY <1>3, <1>6, CellKinds
<1>9. Under(nw')
  <2>1. ASSUME NEW d \in Pages, nw'[d].f # 0 PROVE nw'[TableOf(d)].f # 0
    <3>1. TableOf(d) \in Tables /\ d \in Cells
      BY CellKinds, TableKinds
    <3>2. CASE d = c
      <4>1. Parent[TableOf(d)].f # 0
        BY <1>2, <1>3, <3>2, Here DEF MemInv, Tabled, Under
      <4>. QED BY <1>2, <1>8, <3>1, <4>1 DEF TablesToDo
    <3>3. CASE d # c
      BY <1>6, <1>8, <2>1, <3>1, <3>3 DEF MemInv, Tabled, Under
    <3>. QED BY <3>2, <3>3
  <2>. QED BY <2>1 DEF Under
<1>10. Progress'
  <2>1. Dead' = Dead /\ Dead # {} /\ Parent' = Parent /\ pc' = "retain"
    BY <1>1, <1>3 DEF Dead, Parent, MemInv, Progress
  <2>2. TablesToDo' = {}
    BY <1>2, <1>8, <2>1 DEF TablesToDo
  <2>3. \A d \in Pages : nw'[d] = NoEntry \/ nw'[d] = Parent[d]
    BY <1>1, <1>6, CellKinds DEF MemInv, Progress
  <2>4. ASSUME NEW d \in PagesToDo' PROVE Retainable(Parent[d].f)'
    <3>1. d \in Pages /\ d \in Cells /\ Parent[d].f # 0 /\ nw'[d].f = 0
      BY <2>1, CellKinds DEF PagesToDo
    <3>2. d # c
      BY <1>3, <1>6, <3>1
    <3>3. d \in PagesToDo
      BY <1>6, <3>1, <3>2 DEF PagesToDo
    <3>4. Retainable(Parent[d].f)
      BY <1>1, <3>3 DEF MemInv, Progress
    <3>5. Parent[d].f # f
      BY <1>3, <1>4, <3>1, <3>2 DEF MemInv, Good, SameCell
    <3>6. Parent[d].f \in Frame
      BY <1>4, <3>1, InUse
    <3>7. refs'[Parent[d].f] = refs[Parent[d].f]
      <4>. HIDE DEF f
      <4>. QED BY <1>1, <1>2, <1>3, <3>5, <3>6
    <3>. QED BY <2>1, <3>4, <3>7 DEF Retainable
  <2>. QED BY <2>1, <2>2, <2>3, <2>4 DEF Progress
<1>11. nw'[Dir].f # 0
  BY <1>2, <1>3, <1>6, CellKinds
<1>12. built' \in 0 .. MaxBuilt /\ data' \in [Frame -> Contents]
  BY <1>1 DEF MemInv, MemTypes
<1>13. pc' = "retain"
  BY <1>1, <1>3
<1>. QED BY <1>1, <1>2, <1>6, <1>7, <1>9, <1>10, <1>11, <1>12, <1>13, Building

(* Phase 2b protects both sides and forgets the cached translations.        *)
LEMMA CommitStep == ASSUME MemInv, Commit PROVE MemInv'
<1>1. /\ pc = "retain" /\ PagesToDo = {} /\ pc' = "inherit"
      /\ space' = [space EXCEPT ![cur] = Protect(space[cur])]
      /\ nw' = Protect(nw) /\ tlb' = NoTlb
      /\ UNCHANGED <<refs, data, life, heap_end, cur, built>>
  BY DEF Commit, ParentAfterClone, TlbAfterClone
<1>2. /\ cur # 0 /\ nw[Dir].f # 0 /\ nw \in [Cells -> Entry]
      /\ space \in [Slot -> [Cells -> Entry]]
  BY <1>1 DEF MemInv, Inhabited, MemTypes
<1>3. /\ cur \in Slot /\ Parent \in [Cells -> Entry] /\ Parent = Sp[cur]
      /\ Parent = space[cur] /\ nw = Sp[0] /\ cur \in Spaces /\ 0 \in Spaces
  BY <1>2, Here, SlotKinds
<1>4. /\ nw' \in [Cells -> Entry] /\ Protect(Parent) \in [Cells -> Entry]
      /\ \A c \in Cells : nw'[c].f = nw[c].f /\ Protect(Parent)[c].f = Parent[c].f
  BY <1>1, <1>2, <1>3, Protected
<1>5. /\ space' \in [Slot -> [Cells -> Entry]]
      /\ \A p \in Slot, c \in Cells : space'[p][c].f = space[p][c].f
      /\ \A p \in Slot : p # cur => space'[p] = space[p]
      /\ space'[cur] = Protect(Parent)
  BY <1>1, <1>2, <1>3, <1>4
<1>6. NoTlb \in [Pages -> Entry] /\ \A c \in Pages : NoTlb[c].f = 0
  BY EntryKinds DEF NoTlb
<1>7. MemTypes'
  BY <1>1, <1>4, <1>5, <1>6 DEF MemInv, MemTypes
<1>8. Good(refs', Sp', Sharer')
  <2>1. Sharer = cur /\ Sharer' = 0
    BY <1>1 DEF Sharer
  <2>2. Sp' = [Sp EXCEPT ![cur] = Protect(Sp[cur]), ![0] = Protect(Sp[0])]
    BY <1>1, <1>2, <1>3, SpSteps
  <2>3. Good(refs, Sp, cur)
    BY <2>1 DEF MemInv
  <2>4. Good(refs, [Sp EXCEPT ![cur] = Protect(Sp[cur]), ![0] = Protect(Sp[0])], 0)
    BY <1>3, <2>3, ProtectBoth
  <2>. QED BY <1>1, <2>1, <2>2, <2>4
<1>9. Inhabited'
  <2>1. ASSUME NEW p \in Slot
        PROVE  IF life[p] = "dead" THEN space'[p] = Empty ELSE space'[p][Dir].f # 0
    <3>1. IF life[p] = "dead" THEN space[p] = Empty ELSE space[p][Dir].f # 0
      BY DEF MemInv, Inhabited
    <3>2. life[cur] = "live"
      BY <1>2, Here
    <3>3. space'[p][Dir].f = space[p][Dir].f /\ (p # cur => space'[p] = space[p])
      BY <1>5, CellKinds
    <3>. QED BY <3>1, <3>2, <3>3
  <2>2. nw'[Dir].f # 0 /\ life[cur] = "live"
    BY <1>2, <1>4, Here, CellKinds
  <2>. QED BY <1>1, <1>2, <2>1, <2>2 DEF Inhabited
<1>10. Tabled'
  <2>1. \A c \in Pages : c \in Cells /\ TableOf(c) \in Cells
    BY CellKinds, TableKinds
  <2>2. Under(nw) /\ \A p \in Slot : Under(space[p])
    BY DEF MemInv, Tabled
  <2>3. Under(nw')
    BY <1>4, <2>1, <2>2 DEF Under
  <2>4. \A p \in Slot : Under(space'[p])
    BY <1>5, <2>1, <2>2 DEF Under
  <2>. QED BY <2>3, <2>4 DEF Tabled, Under
<1>11. Progress'
  <2>1. Dead' = Dead /\ Dead # {} /\ Parent' = Protect(Parent)
    BY <1>1, <1>5 DEF MemInv, Progress, Dead, Parent
  <2>2. ASSUME NEW c \in Pages PROVE nw'[c] = Protect(Parent)[c]
    <3>1. nw[c] = Parent[c]
      <4>1. nw[c] = NoEntry \/ nw[c] = Parent[c]
        BY <1>1 DEF MemInv, Progress
      <4>2. nw[c] = NoEntry => Parent[c].f = 0
        BY <1>1, EntryKinds DEF PagesToDo
      <4>3. Parent[c].f = 0 => Parent[c] = NoEntry
        <5>1. Sane(Sp) /\ c \in Cells
          BY CellKinds DEF MemInv, Good
        <5>. QED BY <1>3, <5>1 DEF Sane
      <4>. QED BY <4>1, <4>2, <4>3
    <3>. QED BY <1>1, <3>1, CellKinds DEF Protect
  <2>. QED BY <1>1, <2>1, <2>2 DEF Progress
<1>12. Coherent'
  BY <1>1, <1>6 DEF Coherent
<1>13. HeapBelowBreak'
  BY <1>1, <1>5, CellKinds DEF MemInv, HeapBelowBreak
<1>. QED BY <1>7, <1>8, <1>9, <1>10, <1>11, <1>12, <1>13 DEF MemInv

(* The child is born.                                                       *)
LEMMA ForkDoneStep == ASSUME MemInv, ForkDone PROVE MemInv'
<1>1. /\ pc = "inherit" /\ pc' = "user"
      /\ space' = [space EXCEPT ![Child] = nw]
      /\ life' = [life EXCEPT ![Child] = "live"]
      /\ heap_end' = [heap_end EXCEPT ![Child] = heap_end[cur]]
      /\ nw' = Empty
      /\ UNCHANGED <<refs, data, cur, tlb, built>>
  BY DEF ForkDone
<1>2. /\ cur # 0 /\ nw[Dir].f # 0 /\ MemTypes
  BY <1>1 DEF MemInv, Inhabited
<1>3. /\ cur \in Slot /\ Parent = space[cur] /\ nw = Sp[0] /\ life[cur] = "live"
      /\ cur \in Spaces /\ 0 \in Spaces
  BY <1>2, Here, SlotKinds
<1>4. Child \in Slot /\ life[Child] = "dead" /\ Child # cur
  <2>1. Dead # {} /\ Dead \subseteq Nat
    BY <1>1 DEF MemInv, Progress, Dead, Slot
  <2>2. Child \in Dead
    BY <2>1, LowestIn DEF Child
  <2>. QED BY <1>3, <2>2 DEF Dead
<1>. DEFINE k == Child
<1>. HIDE DEF k
<1>5. /\ \A p \in Slot : space'[p] = IF p = k THEN nw ELSE space[p]
      /\ \A p \in Slot : life'[p] = IF p = k THEN "live" ELSE life[p]
      /\ \A p \in Slot : heap_end'[p] = IF p = k THEN heap_end[cur] ELSE heap_end[p]
      /\ k \in Slot /\ k # cur /\ life[k] = "dead"
  BY <1>1, <1>2, <1>4 DEF MemTypes, k
<1>6. Empty \in [Cells -> Entry] /\ \A c \in Cells : Empty[c] = NoEntry /\ Empty[c].f = 0
  BY EntryKinds DEF Empty
<1>7. MemTypes'
  <2>1. space' \in [Slot -> [Cells -> Entry]]
    BY <1>1, <1>2, <1>4 DEF MemTypes
  <2>2. life' \in [Slot -> {"dead", "live", "zombie"}]
    BY <1>1, <1>2, <1>4 DEF MemTypes
  <2>3. heap_end' \in [Slot -> 0 .. PROCESS_HEAP_LIMIT]
    BY <1>1, <1>2, <1>3, <1>4 DEF MemTypes
  <2>. QED BY <1>1, <1>2, <1>6, <2>1, <2>2, <2>3 DEF MemTypes
<1>8. Good(refs', Sp', Sharer')
  <2>1. Sharer = 0 /\ Sharer' = 0
    BY <1>1 DEF Sharer
  <2>2. Sp' = [Sp EXCEPT ![k] = Sp[0], ![0] = Empty]
    BY <1>1, <1>2, <1>3, <1>4, SpSteps DEF MemTypes, k
  <2>3. Good(refs, Sp, 0)
    BY <2>1 DEF MemInv
  <2>4. Sp[k] = Empty
    BY <1>5, SpIs DEF MemInv, Inhabited
  <2>5. Good(refs, [Sp EXCEPT ![k] = Sp[0], ![0] = Empty], 0)
    BY <1>5, <2>3, <2>4, HandOver
  <2>. QED BY <1>1, <2>1, <2>2, <2>5
<1>9. Inhabited'
  <2>1. ASSUME NEW p \in Slot
        PROVE  IF life'[p] = "dead" THEN space'[p] = Empty ELSE space'[p][Dir].f # 0
    <3>1. IF life[p] = "dead" THEN space[p] = Empty ELSE space[p][Dir].f # 0
      BY DEF MemInv, Inhabited
    <3>. QED BY <1>2, <1>5, <3>1
  <2>2. life'[cur] = "live"
    BY <1>3, <1>5
  <2>. QED BY <1>1, <2>1, <2>2 DEF Inhabited
<1>10. Tabled'
  <2>1. \A c \in Pages : c \in Cells /\ TableOf(c) \in Cells
    BY CellKinds, TableKinds
  <2>2. Under(nw) /\ \A p \in Slot : Under(space[p])
    BY DEF MemInv, Tabled
  <2>3. Under(nw')
    BY <1>1, <1>6, <2>1 DEF Under
  <2>4. \A p \in Slot : Under(space'[p])
    BY <1>5, <2>2
  <2>. QED BY <2>3, <2>4 DEF Tabled, Under
<1>11. Progress'
  BY <1>1 DEF Progress
<1>12. Coherent'
  <2>1. Parent' = Parent
    BY <1>1, <1>3, <1>5 DEF Parent
  <2>. QED BY <1>1, <2>1 DEF MemInv, Coherent
<1>13. HeapBelowBreak'
  <2>1. ASSUME NEW p \in Slot, NEW c \in HeapPages, space'[p][c].f # 0
        PROVE  Start(c) < align_up(heap_end'[p])
    <3>1. CASE p = k
      <4>1. c \in Pages
        BY CellKinds
      <4>2. nw[c] = space[cur][c]
        BY <1>1, <1>3, <4>1 DEF MemInv, Progress
      <4>. QED BY <1>3, <1>5, <2>1, <3>1, <4>2 DEF MemInv, HeapBelowBreak
    <3>2. CASE p # k
      BY <1>5, <2>1, <3>2 DEF MemInv, HeapBelowBreak
    <3>. QED BY <3>1, <3>2
  <2>. QED BY <2>1 DEF HeapBelowBreak
<1>. QED BY <1>7, <1>8, <1>9, <1>10, <1>11, <1>12, <1>13 DEF MemInv

(* Steps that only give up.                                                 *)
LEMMA GiveUpStep ==
    ASSUME MemInv, pc \in {"inherit", "load"}, pc' = "undo", tlb' \in {tlb, NoTlb},
           UNCHANGED <<refs, data, space, life, heap_end, cur, nw, built>>
    PROVE  MemInv'
<1>1. Good(refs', Sp', Sharer')
  <2>1. Sp' = Sp /\ Sharer' = Sharer
    BY SpSteps DEF Sharer
  <2>. QED BY <2>1 DEF MemInv
<1>2. Progress'
  BY DEF Progress
<1>3. /\ cur # 0 /\ nw'[Dir].f # 0 /\ nw' \in [Cells -> Entry] /\ Under(nw')
      /\ built' \in 0 .. MaxBuilt /\ data' \in [Frame -> Contents]
  BY DEF MemInv, MemTypes, Inhabited, Tabled
<1>. QED BY <1>1, <1>2, <1>3, Building

(* Directories are never shared.                                            *)
LEMMA OwnDir ==
    ASSUME MemInv, NEW o \in Spaces, NEW q \in Spaces, o # q, Sp[o][Dir].f # 0
    PROVE  Sp[o][Dir].f # Sp[q][Dir].f
<1>1. Sp[o][Dir] = ReadWrite(Sp[o][Dir].f)
  BY CellKinds DEF MemInv, Good, Sane
<1>2. Sp[o][Dir].f \in Frame
  BY CellKinds, InUse
<1>3. Sp[o][Dir].w
  BY <1>1, <1>2, EntryKinds
<1>. QED BY <1>3, CellKinds DEF MemInv, Good, Exclusive

(* A space that is not active is given back whole.                          *)
LEMMA Dropped ==
    ASSUME MemInv, NEW o \in Spaces, NEW q \in Spaces, o # q, Sp[o][Dir].f # 0
    PROVE  /\ destroy_address_space(Sp[o], Sp[q][Dir].f) = Released(refs, Sp[o], Mapped(Sp[o]))
           /\ Good(Released(refs, Sp[o], Mapped(Sp[o])), [Sp EXCEPT ![o] = Empty], Sharer)
<1>1. destroy_address_space(Sp[o], Sp[q][Dir].f) = Released(refs, Sp[o], Mapped(Sp[o]))
  BY OwnDir DEF destroy_address_space, frame_release, Released
<1>2. Mapped(Sp[o]) \subseteq Cells
  BY DEF Mapped
<1>3. Cleared(Sp[o], Mapped(Sp[o])) = Empty
  <2>1. \A c \in Cells : Sp[o][c].f = 0 => Sp[o][c] = NoEntry
    BY DEF MemInv, Good, Sane
  <2>. QED BY <2>1 DEF Cleared, Mapped, Empty
<1>4. Good(refs, Sp, Sharer)
  BY DEF MemInv
<1>5. Good(Released(refs, Sp[o], Mapped(Sp[o])),
           [Sp EXCEPT ![o] = Cleared(Sp[o], Mapped(Sp[o]))], Sharer)
  BY <1>2, <1>4, Drop
<1>. QED BY <1>1, <1>3, <1>5

(* Every failing path drops the unfinished space and nothing else.          *)
LEMMA UndoStep == ASSUME MemInv, Undo PROVE MemInv'
<1>1. /\ pc = "undo" /\ pc' = "user" /\ nw' = Empty
      /\ refs' = destroy_address_space(nw, Parent[Dir].f)
      /\ UNCHANGED <<data, space, life, heap_end, cur, tlb, built>>
  BY DEF Undo
<1>2. cur # 0 /\ nw[Dir].f # 0
  BY <1>1 DEF MemInv, Inhabited
<1>3. /\ cur \in Slot /\ cur \in Spaces /\ Parent = Sp[cur] /\ nw = Sp[0] /\ 0 \in Spaces
      /\ cur # 0
  BY <1>2, Here, SlotKinds
<1>4. Good(refs', Sp', Sharer')
  <2>1. /\ refs' = Released(refs, Sp[0], Mapped(Sp[0]))
        /\ Good(Released(refs, Sp[0], Mapped(Sp[0])), [Sp EXCEPT ![0] = Empty], Sharer)
    BY <1>1, <1>2, <1>3, Dropped
  <2>2. Sp' = [Sp EXCEPT ![0] = Empty]
    BY <1>1, SpSteps
  <2>3. Sharer' = Sharer
    BY <1>1 DEF Sharer
  <2>. QED BY <2>1, <2>2, <2>3
<1>5. Empty \in [Cells -> Entry] /\ Under(Empty)
  <2>1. \A c \in Cells : Empty[c].f = 0
    BY EntryKinds DEF Empty
  <2>2. \A c \in Pages : Empty[c].f = 0
    BY <2>1, CellKinds
  <2>. QED BY <2>2, EntryKinds DEF Empty, Under
<1>6. Progress' /\ built' \in 0 .. MaxBuilt /\ data' \in [Frame -> Contents]
  BY <1>1 DEF Progress, MemInv, MemTypes
<1>. QED BY <1>1, <1>4, <1>5, <1>6, Building

(* A writable frame is used once and counted once.                          *)
LEMMA Alone ==
    ASSUME NEW R, NEW S, NEW x, Good(R, S, x), NEW o \in Spaces, NEW c \in Cells,
           S[o][c].w, c \notin Pages \/ x = 0
    PROVE  /\ S[o][c].f \in Frame
           /\ Uses(S, S[o][c].f) = {<<o, c>>}
           /\ Cardinality(Uses(S, S[o][c].f)) = 1
           /\ R[S[o][c].f] = 1
<1>. DEFINE f == S[o][c].f
<1>1. S[o][c] \in Entry
  BY DEF Good
<1>2. f \in Frame
  <2>1. S[o][c].f = 0 => S[o][c] = NoEntry
    BY DEF Good, Sane
  <2>. QED BY <1>1, <2>1, EntryKinds
<1>3. \A q \in Spaces, d \in Cells : S[q][d].f = f <=> q = o /\ d = c
  <2>1. ASSUME NEW q \in Spaces, NEW d \in Cells, S[q][d].f = f PROVE q = o /\ d = c
    <3>1. d = c
      BY <1>2, <2>1, SlotKinds DEF Good, SameCell
    <3>2. q = o
      BY <2>1, <3>1 DEF Good, Exclusive
    <3>. QED BY <3>1, <3>2
  <2>. QED BY <2>1
<1>4. Uses(S, f) = {<<o, c>>}
  <2>1. {<<o, c>>} \subseteq Spaces \X Cells /\ Uses(S, f) \subseteq Spaces \X Cells
    BY DEF Uses
  <2>2. ASSUME NEW q \in Spaces, NEW d \in Cells
        PROVE  <<q, d>> \in Uses(S, f) <=> <<q, d>> \in {<<o, c>>}
    <3>1. <<q, d>> \in Uses(S, f) <=> S[q][d].f = f
      BY UsesAre
    <3>2. <<q, d>> \in {<<o, c>>} <=> q = o /\ d = c
      OBVIOUS
    <3>. QED BY <1>3, <3>1, <3>2
  <2>. HIDE DEF f
  <2>. QED BY <2>1, <2>2, SameUses
<1>5. Cardinality(Uses(S, f)) = 1
  BY <1>4, FS_Singleton
<1>6. R[f] = 1
  <2>1. Counted(R, S)
    BY DEF Good
  <2>. QED BY <1>2, <1>5, <2>1 DEF Counted, CountFor
<1>. QED BY <1>2, <1>4, <1>5, <1>6

(* The free frame fr can be mapped at c by e, under the table t.            *)
TakesPage(R, s, c, fr, e, t) ==
    /\ fr \in 1 .. FRAMES /\ R[fr] = 0 /\ s[c].f = 0
    /\ e \in {ReadWrite(fr), ReadOnly(fr)}
    /\ t # 0 /\ t = MapTable(s, c, [R EXCEPT ![fr] = 1])

(* What that does to the counts and the spaces.                             *)
PageTaken(R, S, x, o, c, fr, e, t) ==
    /\ Good([R EXCEPT ![fr] = 1, ![t] = 1], [S EXCEPT ![o] = WithPage(S[o], c, e, t)], x)
    /\ \A d \in Cells : WithPage(S[o], c, e, t)[d] =
                          IF d = c THEN e
                          ELSE IF d = TableOf(c) THEN ReadWrite(t) ELSE S[o][d]
    /\ t \in Frame /\ t # fr
    /\ \A q \in Spaces, d \in Pages : S[q][d].f # t

(* paging_map_page_in_directory of a free frame, in any space: the page,    *)
(* and a table if there was none.                                           *)
LEMMA MapPage ==
    ASSUME NEW R, NEW S, NEW x, Good(R, S, x), NEW o \in Spaces, NEW c \in Pages,
           NEW fr, NEW e, NEW t, TakesPage(R, S[o], c, fr, e, t)
    PROVE  PageTaken(R, S, x, o, c, fr, e, t)
<1>. DEFINE k == TableOf(c)
            r == [R EXCEPT ![fr] = 1]
            T == [S EXCEPT ![o][c] = e]
<1>0. /\ fr \in 1 .. FRAMES /\ R[fr] = 0 /\ S[o][c].f = 0
      /\ e \in {ReadWrite(fr), ReadOnly(fr)}
      /\ t # 0 /\ t = MapTable(S[o], c, r)
  BY DEF TakesPage
<1>1. /\ k \in Cells /\ k \notin Pages /\ c \in Cells /\ k # c
  BY CellKinds, TableKinds
<1>2. /\ R \in [Frame -> 0 .. MAX_REFS] /\ S \in [Spaces -> [Cells -> Entry]]
      /\ fr \in Frame /\ fr # 0
  BY <1>0, SlotKinds DEF Good
<1>3. Good(r, T, x)
  BY <1>0, <1>1, Alloc
<1>. HIDE DEF k
<1>4. /\ T \in [Spaces -> [Cells -> Entry]]
      /\ T[o] = [S[o] EXCEPT ![c] = e]
      /\ T[o][k] = S[o][k]
      /\ \A q \in Spaces, d \in Cells : d # c => T[q][d] = S[q][d]
      /\ r \in [Frame -> 0 .. MAX_REFS] /\ r[fr] = 1
  BY <1>1, <1>2, <1>3 DEF Good
<1>5. WithPage(S[o], c, e, t) = [T[o] EXCEPT ![k] = ReadWrite(t)]
  BY <1>4 DEF WithPage, k
<1>6. \A d \in Cells : WithPage(S[o], c, e, t)[d] =
                         IF d = c THEN e ELSE IF d = k THEN ReadWrite(t) ELSE S[o][d]
  <2>1. T[o] \in [Cells -> Entry] /\ S[o] \in [Cells -> Entry]
    BY <1>2, <1>4
  <2>2. \A d \in Cells : T[o][d] = IF d = c THEN e ELSE S[o][d]
    <3>. HIDE DEF T
    <3>. QED BY <1>1, <1>4, <2>1
  <2>. HIDE DEF T
  <2>. QED BY <1>1, <1>5, <2>1, <2>2
<1>7. [S EXCEPT ![o] = WithPage(S[o], c, e, t)] = [T EXCEPT ![o][k] = ReadWrite(t)]
  BY <1>2, <1>4, <1>5
<1>8. [R EXCEPT ![fr] = 1, ![t] = 1] = [r EXCEPT ![t] = 1]
  OBVIOUS
<1>9. t = IF S[o][k].f # 0 THEN S[o][k].f ELSE paging_alloc_frame(r)
  BY <1>0 DEF MapTable, k
<1>. HIDE DEF T, r
<1>10. CASE S[o][k].f # 0
  <2>1. S[o][k] = ReadWrite(t) /\ t = S[o][k].f /\ t \in Frame
    <3>1. S[o][k] = ReadWrite(S[o][k].f)
      BY <1>1, <1>10 DEF Good, Sane
    <3>2. S[o][k] \in Entry
      BY <1>1, <1>2
    <3>. QED BY <1>9, <1>10, <3>1, <3>2, EntryKinds
  <2>2. S[o][k].w
    BY <2>1, EntryKinds
  <2>3. T[o][k].f = t /\ T[o][k].w /\ T[o][k] = ReadWrite(t)
    BY <1>4, <2>1, <2>2
  <2>4. r[t] = 1
    BY <1>1, <1>3, <2>3, Alone
  <2>5. [r EXCEPT ![t] = 1] = r /\ [T EXCEPT ![o][k] = ReadWrite(t)] = T
    BY <1>1, <1>4, <2>1, <2>3, <2>4
  <2>6. t # fr
    <3>1. Counted(R, S)
      BY DEF Good
    <3>. QED BY <1>0, <1>1, <1>2, <2>1, <3>1, Unused
  <2>7. \A q \in Spaces, d \in Pages : S[q][d].f # t
    <3>1. ASSUME NEW q \in Spaces, NEW d \in Pages, S[q][d].f = t PROVE FALSE
      <4>1. d = k
        BY <1>1, <1>10, <2>1, <3>1, CellKinds DEF Good, SameCell
      <4>. QED BY <1>1, <4>1
    <3>. QED BY <3>1
  <2>. QED BY <1>3, <1>6, <1>7, <1>8, <2>1, <2>5, <2>6, <2>7 DEF k, PageTaken
<1>11. CASE S[o][k].f = 0
  <2>1. t = paging_alloc_frame(r)
    BY <1>9, <1>11
  <2>2. t \in 1 .. FRAMES /\ r[t] = 0 /\ t \in Frame
    BY <1>0, <2>1, AllocFinds, SlotKinds
  <2>3. T[o][k].f = 0
    BY <1>4, <1>11
  <2>4. Good([r EXCEPT ![t] = 1], [T EXCEPT ![o][k] = ReadWrite(t)], x)
    BY <1>1, <1>3, <2>2, <2>3, Alloc
  <2>5. t # fr
    BY <1>4, <2>2
  <2>6. \A q \in Spaces, d \in Pages : S[q][d].f # t
    <3>1. R[t] = 0
      BY <1>2, <2>2, <2>5 DEF r
    <3>2. Counted(R, S)
      BY DEF Good
    <3>. QED BY <2>2, <3>1, <3>2, Unused, CellKinds
  <2>. QED BY <1>6, <1>7, <1>8, <2>2, <2>4, <2>5, <2>6 DEF k, PageTaken
<1>. QED BY <1>10, <1>11

(* paging_create_address_space: a directory and the low table, or nothing.  *)
LEMMA ExecBeginStep == ASSUME MemInv, ExecBegin PROVE MemInv'
<1>. DEFINE d == paging_alloc_frame(refs)
            r == [refs EXCEPT ![d] = 1]
            t == paging_alloc_frame(r)
<1>1. /\ pc = "user" /\ cur # 0 /\ d # 0
      /\ \/ /\ t # 0
            /\ refs' = [r EXCEPT ![t] = 1]
            /\ data' = [data EXCEPT ![d] = 0, ![t] = 0]
            /\ nw' = [Empty EXCEPT ![Dir] = ReadWrite(d), ![Table(0)] = ReadWrite(t)]
            /\ pc' = "load"
         \/ /\ refs' = r
            /\ data' = [data EXCEPT ![d] = 0]
            /\ nw' = [Empty EXCEPT ![Dir] = ReadWrite(d)]
            /\ pc' = "undo"
      /\ built < MaxBuilt /\ built' = built + 1
      /\ UNCHANGED <<space, life, heap_end, cur, tlb>>
  BY DEF ExecBegin, Does, Running
<1>2. d \in 1 .. FRAMES /\ refs[d] = 0 /\ d \in Frame /\ d # 0
  BY <1>1, AllocFinds, SlotKinds
<1>3. t # 0 => t \in 1 .. FRAMES /\ r[t] = 0 /\ t \in Frame
  <2>. HIDE DEF r
  <2>. QED BY AllocFinds, SlotKinds
<1>. HIDE DEF d, r, t
<1>4. nw = Empty /\ \A c \in Cells : nw[c] = NoEntry
  BY <1>1 DEF MemInv, Inhabited, Empty
<1>5. /\ ReadWrite(d) \in Entry /\ ReadWrite(d).f = d
      /\ t # 0 => ReadWrite(t) \in Entry
      /\ NoEntry \in Entry /\ NoEntry.f = 0
  BY <1>2, <1>3, EntryKinds
<1>6. /\ Table(0) \in Cells /\ Table(0) # Dir /\ Table(0) \notin Pages
      /\ Dir \in Cells /\ Dir \notin Pages
  BY CellKinds
<1>7. nw' \in [Cells -> Entry] /\ nw'[Dir] = ReadWrite(d) /\ \A c \in Pages : nw'[c] = NoEntry
  <2>1. \A c \in Pages : c \in Cells /\ c # Dir /\ c # Table(0)
    BY CellKinds
  <2>2. Empty \in [Cells -> Entry] /\ \A c \in Cells : Empty[c] = NoEntry
    BY <1>5 DEF Empty
  <2>. QED BY <1>1, <1>5, <1>6, <2>1, <2>2
<1>8. Good(refs', Sp', Sharer')
  <2>1. Sharer = 0 /\ Sharer' = 0 /\ Sp[0] = nw /\ 0 \in Spaces /\ Sp' = [Sp EXCEPT ![0] = nw']
    BY <1>1, SpIs, SpSteps, SlotKinds DEF Sharer
  <2>. DEFINE T == [Sp EXCEPT ![0][Dir] = ReadWrite(d)]
  <2>2. Good(refs, Sp, 0) /\ Sp[0][Dir].f = 0 /\ Sp \in [Spaces -> [Cells -> Entry]]
    BY <1>4, <1>5, <1>6, <2>1 DEF MemInv, Good
  <2>3. Good(r, T, 0)
    BY <1>2, <1>6, <2>1, <2>2, Alloc DEF r
  <2>4. T[0] = [Empty EXCEPT ![Dir] = ReadWrite(d)] /\ T[0][Table(0)].f = 0
    BY <1>4, <1>5, <1>6, <2>1, <2>2
  <2>5. CASE t # 0 /\ refs' = [r EXCEPT ![t] = 1]
             /\ nw' = [Empty EXCEPT ![Dir] = ReadWrite(d), ![Table(0)] = ReadWrite(t)]
    <3>1. Good([r EXCEPT ![t] = 1], [T EXCEPT ![0][Table(0)] = ReadWrite(t)], 0)
      <4>. HIDE DEF T
      <4>. QED BY <1>3, <1>6, <2>1, <2>3, <2>4, <2>5, Alloc
    <3>2. [T EXCEPT ![0][Table(0)] = ReadWrite(t)] = Sp'
      BY <2>1, <2>2, <2>4, <2>5
    <3>. QED BY <2>1, <2>5, <3>1, <3>2
  <2>6. CASE refs' = r /\ nw' = [Empty EXCEPT ![Dir] = ReadWrite(d)]
    <3>1. T = Sp'
      BY <1>4, <2>1, <2>2, <2>6
    <3>. QED BY <2>1, <2>3, <2>6, <3>1
  <2>. QED BY <1>1, <2>5, <2>6
<1>9. Under(nw')
  BY <1>5, <1>7 DEF Under
<1>10. Progress'
  BY <1>1, <1>5, <1>7 DEF Progress
<1>11. built' \in 0 .. MaxBuilt /\ data' \in [Frame -> Contents]
  <2>1. built \in 0 .. MaxBuilt /\ data \in [Frame -> Contents]
    BY DEF MemInv, MemTypes
  <2>2. 0 \in Contents /\ MaxBuilt \in Nat
    BY MemoryAssumption
  <2>3. built' \in 0 .. MaxBuilt
    BY <1>1, <2>1, <2>2
  <2>4. data' \in [Frame -> Contents]
    BY <1>1, <2>1, <2>2
  <2>. QED BY <2>3, <2>4
<1>12. nw'[Dir].f # 0 /\ pc' \in {"load", "undo"}
  BY <1>1, <1>2, <1>5, <1>7
<1>. QED BY <1>1, <1>7, <1>8, <1>9, <1>10, <1>11, <1>12, Building

(* The loader maps one page, or gives up.                                   *)
LEMMA ExecMapStep == ASSUME MemInv, ExecMap PROVE MemInv'
<1>. DEFINE c == First(ImageToDo)
            fr == frame_alloc(refs)
            r == [refs EXCEPT ![fr] = 1]
            t == MapTable(nw, c, r)
            e == IF c = StackPage THEN ReadWrite(fr) ELSE ReadOnly(fr)
<1>1. /\ pc = "load" /\ ImageToDo # {} /\ tlb' = NoTlb
      /\ \/ /\ fr # 0 /\ t # 0
            /\ refs' = [r EXCEPT ![t] = 1]
            /\ data' = [data EXCEPT ![fr] = 0, ![t] = 0]
            /\ nw' = WithPage(nw, c, e, t)
            /\ pc' = pc
         \/ /\ pc' = "undo"
            /\ UNCHANGED <<refs, data, nw>>
      /\ UNCHANGED <<space, life, heap_end, cur, built>>
  BY DEF ExecMap
<1>2. CASE pc' = "undo" /\ UNCHANGED <<refs, data, nw>>
  BY <1>1, <1>2, GiveUpStep
<1>3. CASE /\ fr # 0 /\ t # 0
           /\ refs' = [r EXCEPT ![t] = 1]
           /\ data' = [data EXCEPT ![fr] = 0, ![t] = 0]
           /\ nw' = WithPage(nw, c, e, t)
           /\ pc' = pc
  <2>1. fr \in 1 .. FRAMES /\ refs[fr] = 0 /\ fr \in Frame
    BY <1>3, AllocFinds, SlotKinds
  <2>2. c \in ImagePages /\ c \in Pages /\ c \in Cells /\ nw[c].f = 0
    <3>1. ImageToDo \subseteq ImagePages /\ ImagePages \subseteq Pages /\ Pages \subseteq Cells
      BY CellKinds DEF ImageToDo
    <3>2. c \in ImageToDo
      BY <1>1, <3>1, FirstIn
    <3>. QED BY <3>1, <3>2 DEF ImageToDo
  <2>. HIDE DEF c, fr
  <2>3. e \in {ReadWrite(fr), ReadOnly(fr)} /\ e \in Entry /\ e.f = fr
    BY <2>1, EntryKinds
  <2>. HIDE DEF e
  <2>4. /\ Sp[0] = nw /\ 0 \in Spaces /\ Sp' = [Sp EXCEPT ![0] = nw'] /\ Sharer = 0 /\ Sharer' = 0
        /\ Good(refs, Sp, 0) /\ cur # 0 /\ nw[Dir].f # 0 /\ nw \in [Cells -> Entry]
        /\ data \in [Frame -> Contents]
    <3>1. Sharer = 0 /\ Sharer' = 0
      BY <1>1, <1>3 DEF Sharer
    <3>. QED BY <1>1, <3>1, SpIs, SpSteps, SlotKinds DEF MemInv, Inhabited, MemTypes
  <2>5. /\ Good([refs EXCEPT ![fr] = 1, ![t] = 1], [Sp EXCEPT ![0] = WithPage(nw, c, e, t)], 0)
        /\ \A d \in Cells : WithPage(nw, c, e, t)[d] =
                              IF d = c THEN e
                              ELSE IF d = TableOf(c) THEN ReadWrite(t) ELSE nw[d]
        /\ t \in Frame /\ t # fr
        /\ \A q \in Spaces, d \in Pages : Sp[q][d].f # t
    <3>1. TakesPage(refs, Sp[0], c, fr, e, t)
      BY <1>3, <2>1, <2>2, <2>3, <2>4 DEF TakesPage
    <3>. HIDE DEF t
    <3>3. PageTaken(refs, Sp, 0, 0, c, fr, e, t)
      BY <2>2, <2>4, <3>1, MapPage
    <3>. QED BY <2>4, <3>3 DEF PageTaken
  <2>6. refs' = [refs EXCEPT ![fr] = 1, ![t] = 1]
    BY <1>3
  <2>. HIDE DEF t, r
  <2>7. Good(refs', Sp', Sharer')
    BY <1>3, <2>4, <2>5, <2>6
  <2>8. \A d \in Cells : nw'[d] = IF d = c THEN e
                                  ELSE IF d = TableOf(c) THEN ReadWrite(t) ELSE nw[d]
    BY <1>3, <2>5
  <2>9. ReadWrite(t) \in Entry /\ ReadWrite(t).f = t /\ t # 0
    BY <1>3, <2>5, EntryKinds
  <2>10. nw' \in [Cells -> Entry]
    <3>1. 0 \in Spaces /\ Sp' \in [Spaces -> [Cells -> Entry]] /\ Sp'[0] = nw'
      BY <2>4, <2>7, SpIs DEF Good
    <3>. QED BY <3>1
  <2>11. \A d \in Pages : d \in Cells /\ TableOf(d) \in Tables /\ TableOf(d) \in Cells
                          /\ TableOf(d) \notin Pages /\ TableOf(d) # Dir /\ d # Dir
    BY CellKinds, TableKinds
  <2>12. \A d \in Pages : nw'[d] = IF d = c THEN e ELSE nw[d]
    BY <2>2, <2>8, <2>11
  <2>13. Under(nw')
    <3>1. ASSUME NEW d \in Pages, nw'[d].f # 0 PROVE nw'[TableOf(d)].f # 0
      <4>1. CASE TableOf(d) = TableOf(c)
        BY <2>2, <2>8, <2>9, <2>11, <4>1
      <4>2. CASE TableOf(d) # TableOf(c)
        <5>1. nw'[d] = nw[d] /\ nw'[TableOf(d)] = nw[TableOf(d)]
          BY <2>2, <2>8, <2>11, <4>2
        <5>. QED BY <3>1, <5>1 DEF MemInv, Tabled, Under
      <4>. QED BY <4>1, <4>2
    <3>. QED BY <3>1 DEF Under
  <2>14. nw'[Dir].f # 0
    BY <2>2, <2>4, <2>8, <2>11, CellKinds
  <2>15. data' \in [Frame -> Contents] /\ \A f \in Frame : data'[f] = IF f \in {fr, t} THEN 0 ELSE data[f]
    <3>1. 0 \in Contents
      BY MemoryAssumption
    <3>. QED BY <1>3, <2>1, <2>4, <2>5, <3>1
  <2>16. Progress'
    <3>1. \A d \in Pages \ ImagePages : nw'[d] = NoEntry
      BY <1>1, <2>2, <2>12 DEF MemInv, Progress
    <3>2. ASSUME NEW d \in Pages, nw'[d].f # 0 PROVE data'[nw'[d].f] = 0
      <4>1. CASE d = c
        BY <2>1, <2>3, <2>12, <2>15, <4>1
      <4>2. CASE d # c
        <5>1. nw'[d] = nw[d] /\ data[nw[d].f] = 0
          BY <1>1, <2>12, <3>2, <4>2 DEF MemInv, Progress
        <5>2. nw[d].f \in Frame
          BY <2>4, <2>11, <3>2, <5>1, InUse
        <5>. QED BY <2>15, <5>1, <5>2
      <4>. QED BY <4>1, <4>2
    <3>. QED BY <1>1, <1>3, <3>1, <3>2 DEF Progress
  <2>17. built' \in 0 .. MaxBuilt
    BY <1>1 DEF MemInv, MemTypes
  <2>. QED BY <1>1, <1>3, <2>4, <2>7, <2>10, <2>13, <2>14, <2>15, <2>16, <2>17, Building
<1>. QED BY <1>1, <1>2, <1>3

(* The point of no return: the new space replaces the old, which is given   *)
(* back.                                                                    *)
LEMMA ExecCommitStep == ASSUME MemInv, ExecCommit PROVE MemInv'
<1>1. /\ pc = "load" /\ pc' = "user" /\ nw' = Empty /\ tlb' = NoTlb
      /\ refs' = destroy_address_space(Parent, nw[Dir].f)
      /\ space' = [space EXCEPT ![cur] = nw]
      /\ heap_end' = [heap_end EXCEPT ![cur] = 0]
      /\ UNCHANGED <<data, life, cur, built>>
  BY DEF ExecCommit, SwitchThenDestroy
<1>2. /\ cur # 0 /\ nw[Dir].f # 0 /\ MemTypes
  BY <1>1 DEF MemInv, Inhabited
<1>3. /\ cur \in Slot /\ Parent = space[cur] /\ nw = Sp[0] /\ life[cur] = "live"
      /\ cur \in Spaces /\ 0 \in Spaces /\ Parent = Sp[cur] /\ Parent[Dir].f # 0
  BY <1>2, Here, SlotKinds
<1>4. /\ \A p \in Slot : space'[p] = IF p = cur THEN nw ELSE space[p]
      /\ \A p \in Slot : heap_end'[p] = IF p = cur THEN 0 ELSE heap_end[p]
  BY <1>1, <1>2, <1>3 DEF MemTypes
<1>5. Empty \in [Cells -> Entry] /\ \A c \in Cells : Empty[c] = NoEntry /\ Empty[c].f = 0
  BY EntryKinds DEF Empty
<1>6. NoTlb \in [Pages -> Entry] /\ \A c \in Pages : NoTlb[c].f = 0
  BY EntryKinds DEF NoTlb
<1>7. MemTypes'
  <2>1. space' \in [Slot -> [Cells -> Entry]]
    BY <1>1, <1>2, <1>3 DEF MemTypes
  <2>2. 0 \in 0 .. PROCESS_HEAP_LIMIT
    BY MemoryAssumption DEF PROCESS_HEAP_LIMIT
  <2>3. heap_end' \in [Slot -> 0 .. PROCESS_HEAP_LIMIT]
    BY <1>1, <1>2, <1>3, <2>2 DEF MemTypes
  <2>. QED BY <1>1, <1>2, <1>5, <1>6, <2>1, <2>3 DEF MemTypes
<1>8. Good(refs', Sp', Sharer')
  <2>1. Sharer = 0 /\ Sharer' = 0
    BY <1>1 DEF Sharer
  <2>. DEFINE T == [Sp EXCEPT ![cur] = Empty]
  <2>2. Sp' = [Sp EXCEPT ![cur] = nw, ![0] = Empty] /\ Sp \in [Spaces -> [Cells -> Entry]]
    BY <1>1, <1>2, <1>3, SpSteps DEF MemTypes, MemInv, Good
  <2>3. /\ refs' = Released(refs, Sp[cur], Mapped(Sp[cur]))
        /\ Good(Released(refs, Sp[cur], Mapped(Sp[cur])), [Sp EXCEPT ![cur] = Empty], Sharer)
    BY <1>1, <1>2, <1>3, Dropped
  <2>4. Good(refs', T, 0)
    BY <2>1, <2>3
  <2>5. T[cur] = Empty /\ T[0] = nw
    BY <1>2, <1>3, <2>2
  <2>6. Good(refs', [T EXCEPT ![cur] = T[0], ![0] = Empty], 0)
    <3>. HIDE DEF T
    <3>. QED BY <1>3, <2>4, <2>5, HandOver
  <2>7. [T EXCEPT ![cur] = T[0], ![0] = Empty] = Sp'
    <3>1. [T EXCEPT ![cur] = T[0], ![0] = Empty] = [Sp EXCEPT ![cur] = nw, ![0] = Empty]
      BY <1>2, <1>3, <2>5
    <3>. QED BY <2>2, <3>1
  <2>. QED BY <2>1, <2>6, <2>7
<1>9. Inhabited'
  <2>1. ASSUME NEW p \in Slot
        PROVE  IF life'[p] = "dead" THEN space'[p] = Empty ELSE space'[p][Dir].f # 0
    <3>1. IF life[p] = "dead" THEN space[p] = Empty ELSE space[p][Dir].f # 0
      BY DEF MemInv, Inhabited
    <3>. QED BY <1>1, <1>2, <1>3, <1>4, <3>1
  <2>. QED BY <1>1, <1>3, <2>1 DEF Inhabited
<1>10. Tabled'
  <2>1. \A c \in Pages : c \in Cells /\ TableOf(c) \in Cells
    BY CellKinds, TableKinds
  <2>2. Under(nw) /\ \A p \in Slot : Under(space[p])
    BY DEF MemInv, Tabled
  <2>3. Under(nw')
    BY <1>1, <1>5, <2>1 DEF Under
  <2>4. \A p \in Slot : Under(space'[p])
    BY <1>4, <2>2
  <2>. QED BY <2>3, <2>4 DEF Tabled, Under
<1>11. Progress'
  BY <1>1 DEF Progress
<1>12. Coherent'
  BY <1>1, <1>6 DEF Coherent
<1>13. HeapBelowBreak'
  <2>1. ASSUME NEW p \in Slot, NEW c \in HeapPages, space'[p][c].f # 0
        PROVE  Start(c) < align_up(heap_end'[p])
    <3>1. c \in Pages \ ImagePages
      BY CellKinds
    <3>2. nw[c].f = 0
      BY <1>1, <3>1, EntryKinds DEF MemInv, Progress
    <3>. QED BY <1>4, <2>1, <3>2 DEF MemInv, HeapBelowBreak
  <2>. QED BY <2>1 DEF HeapBelowBreak
<1>. QED BY <1>7, <1>8, <1>9, <1>10, <1>11, <1>12, <1>13 DEF MemInv

-----------------------------------------------------------------------------
(* The steps of a running program *)

(* Rounding an address up to a page.                                        *)
LEMMA RoundUp ==
    ASSUME NEW h \in Nat
    PROVE  align_up(h) \in Nat /\ h <= align_up(h)
<1>1. PAGE_SIZE \in Nat /\ PAGE_SIZE > 0
  BY MemoryAssumption
<1>. DEFINE a == h + PAGE_SIZE - 1
<1>2. a \in Nat
  BY <1>1
<1>3. /\ a \div PAGE_SIZE \in Nat /\ a % PAGE_SIZE \in 0 .. PAGE_SIZE - 1
      /\ a = PAGE_SIZE * (a \div PAGE_SIZE) + (a % PAGE_SIZE)
  <2>. HIDE DEF a
  <2>. QED BY <1>1, <1>2
<1>4. (a \div PAGE_SIZE) * PAGE_SIZE \in Nat /\ (a \div PAGE_SIZE) * PAGE_SIZE >= h
  BY <1>1, <1>3
<1>. QED BY <1>4 DEF align_up

(* The page of a heap address, and where it starts.                         *)
LEMMA HeapAddress ==
    ASSUME NEW a \in Address
    PROVE  PageOf(a) \in HeapPages /\ Start(PageOf(a)) <= a /\ Start(PageOf(a)) \in Int
<1>1. PAGE_SIZE \in Nat /\ PAGE_SIZE > 0 /\ HEAP_PAGES \in Nat /\ TEXT_PAGES \in Nat
  BY MemoryAssumption
<1>2. a \in Nat /\ a < HEAP_PAGES * PAGE_SIZE
  BY <1>1 DEF Address, PROCESS_HEAP_LIMIT
<1>. DEFINE q == a \div PAGE_SIZE
<1>3. /\ q \in Nat /\ a % PAGE_SIZE \in 0 .. PAGE_SIZE - 1
      /\ a = PAGE_SIZE * q + (a % PAGE_SIZE)
  BY <1>1, <1>2
<1>. HIDE DEF q
<1>4. q < HEAP_PAGES
  <2>1. SUFFICES ASSUME q >= HEAP_PAGES PROVE FALSE
    BY <1>1, <1>3
  <2>2. PAGE_SIZE * q >= PAGE_SIZE * HEAP_PAGES
    BY <1>1, <1>3, <2>1
  <2>. QED BY <1>1, <1>2, <1>3, <2>2
<1>5. q + 1 \in 1 .. HEAP_PAGES
  BY <1>1, <1>3, <1>4
<1>6. PageOf(a) = Page(TEXT_PAGES + q + 1)
  BY DEF PageOf, q
<1>7. PageOf(a) \in HeapPages
  <2>1. Page(TEXT_PAGES + (q + 1)) \in HeapPages
    BY <1>5 DEF HeapPages
  <2>2. TEXT_PAGES + (q + 1) = TEXT_PAGES + q + 1
    BY <1>1, <1>3
  <2>. QED BY <1>6, <2>1, <2>2
<1>8. Start(PageOf(a)) = q * PAGE_SIZE
  <2>1. PageOf(a)[2] = TEXT_PAGES + q + 1
    BY <1>6 DEF Page
  <2>2. PageOf(a)[2] - TEXT_PAGES - 1 = q
    BY <1>1, <1>3, <2>1
  <2>. QED BY <2>2 DEF Start
<1>9. q * PAGE_SIZE \in Int /\ q * PAGE_SIZE <= a
  BY <1>1, <1>2, <1>3
<1>. QED BY <1>7, <1>8, <1>9

(* Where heap pages start.                                                  *)
LEMMA HeapStart ==
    ASSUME NEW c \in HeapPages
    PROVE  Start(c) \in Int
<1>1. PICK i \in 1 .. HEAP_PAGES : c = Page(TEXT_PAGES + i)
  BY DEF HeapPages
<1>2. c[2] = TEXT_PAGES + i /\ i \in Int /\ TEXT_PAGES \in Int /\ PAGE_SIZE \in Int
  BY <1>1, MemoryAssumption DEF Page
<1>. QED BY <1>2 DEF Start

(* A step of the running program that changes at most its own space s.      *)
LEMMA OwnStep ==
    ASSUME MemInv, Running, UNCHANGED <<pc, nw, built, life, cur>>,
           data' \in [Frame -> Contents], heap_end' \in [Slot -> 0 .. PROCESS_HEAP_LIMIT],
           tlb' \in [Pages -> Entry],
           NEW s \in [Cells -> Entry], space' = [space EXCEPT ![cur] = s],
           Good(refs', [Sp EXCEPT ![cur] = s], 0), s[Dir] = Parent[Dir], Under(s),
           \A c \in Pages : tlb'[c].f # 0 => tlb'[c] = s[c],
           \A c \in HeapPages : s[c].f # 0 => Start(c) < align_up(heap_end'[cur]),
           \A p \in Slot : p # cur => heap_end'[p] = heap_end[p]
    PROVE  MemInv'
<1>1. pc = "user" /\ cur # 0 /\ MemTypes
  BY DEF Running, MemInv
<1>2. /\ cur \in Slot /\ Parent = space[cur] /\ life[cur] = "live" /\ Parent[Dir].f # 0
      /\ nw = Sp[0] /\ 0 \in Spaces /\ cur \in Spaces
  BY <1>1, Here, SlotKinds
<1>3. /\ space' \in [Slot -> [Cells -> Entry]]
      /\ \A p \in Slot : space'[p] = IF p = cur THEN s ELSE space[p]
  BY <1>1, <1>2 DEF MemTypes
<1>4. MemTypes'
  BY <1>1, <1>3 DEF MemTypes
<1>5. Good(refs', Sp', Sharer')
  <2>1. Sharer' = 0
    BY <1>1 DEF Sharer
  <2>2. Sp' = [Sp EXCEPT ![cur] = s, ![0] = Sp[0]]
    BY <1>1, <1>2, SpSteps DEF MemTypes
  <2>3. Sp \in [Spaces -> [Cells -> Entry]]
    BY DEF MemInv, Good
  <2>4. Sp' = [Sp EXCEPT ![cur] = s]
    BY <1>1, <1>2, <2>2, <2>3
  <2>. QED BY <2>1, <2>4
<1>6. Inhabited'
  <2>1. ASSUME NEW p \in Slot
        PROVE  IF life'[p] = "dead" THEN space'[p] = Empty ELSE space'[p][Dir].f # 0
    <3>1. IF life[p] = "dead" THEN space[p] = Empty ELSE space[p][Dir].f # 0
      BY DEF MemInv, Inhabited
    <3>. QED BY <1>2, <1>3, <3>1
  <2>. QED BY <1>1, <1>2, <2>1 DEF MemInv, Inhabited
<1>7. Tabled'
  <2>1. Under(nw) /\ \A p \in Slot : Under(space[p])
    BY DEF MemInv, Tabled
  <2>2. \A p \in Slot : Under(space'[p])
    BY <1>3, <2>1
  <2>. QED BY <2>1, <2>2 DEF Tabled, Under
<1>8. Progress'
  BY <1>1 DEF Progress
<1>9. Coherent'
  <2>1. Parent' = s
    BY <1>2, <1>3 DEF Parent
  <2>. QED BY <1>1, <2>1 DEF Coherent
<1>10. HeapBelowBreak'
  <2>1. ASSUME NEW p \in Slot, NEW c \in HeapPages, space'[p][c].f # 0
        PROVE  Start(c) < align_up(heap_end'[p])
    <3>1. CASE p = cur
      BY <1>3, <2>1, <3>1
    <3>2. CASE p # cur
      BY <1>3, <2>1, <3>2 DEF MemInv, HeapBelowBreak
    <3>. QED BY <3>1, <3>2
  <2>. QED BY <2>1 DEF HeapBelowBreak
<1>. QED BY <1>4, <1>5, <1>6, <1>7, <1>8, <1>9, <1>10 DEF MemInv

(* What the running program finds.                                          *)
LEMMA Before ==
    ASSUME MemInv, Running
    PROVE  /\ cur \in Slot /\ cur \in Spaces /\ Parent \in [Cells -> Entry]
           /\ Parent = space[cur] /\ Parent = Sp[cur] /\ nw = Sp[0]
           /\ Good(refs, Sp, 0) /\ Under(Parent) /\ Sane(Sp)
           /\ Sp \in [Spaces -> [Cells -> Entry]]
           /\ space \in [Slot -> [Cells -> Entry]]
           /\ heap_end \in [Slot -> 0 .. PROCESS_HEAP_LIMIT]
           /\ tlb \in [Pages -> Entry] /\ data \in [Frame -> Contents]
           /\ \A c \in Pages : tlb[c].f # 0 => tlb[c] = Parent[c]
           /\ \A c \in Pages : Translation(c) = Parent[c]
           /\ \A c \in HeapPages : Parent[c].f # 0 => Start(c) < align_up(heap_end[cur])
<1>1. pc = "user" /\ cur # 0 /\ MemTypes
  BY DEF Running, MemInv
<1>2. /\ cur \in Slot /\ cur \in Spaces /\ Parent \in [Cells -> Entry]
      /\ Parent = space[cur] /\ Parent = Sp[cur] /\ nw = Sp[0]
  BY <1>1, Here
<1>3. Good(refs, Sp, 0)
  BY <1>1 DEF MemInv, Sharer
<1>4. Under(Parent)
  BY <1>2 DEF MemInv, Tabled
<1>5. \A c \in Pages : tlb[c].f # 0 => tlb[c] = Parent[c]
  BY DEF MemInv, Coherent
<1>6. \A c \in Pages : Translation(c) = Parent[c]
  BY <1>5 DEF Translation
<1>7. \A c \in HeapPages : Parent[c].f # 0 => Start(c) < align_up(heap_end[cur])
  BY <1>2 DEF MemInv, HeapBelowBreak
<1>. QED BY <1>1, <1>2, <1>3, <1>4, <1>5, <1>6, <1>7 DEF MemTypes, Good

(* Reads and stores fill the cache with what the tables say.                *)
LEMMA AccessStep ==
    ASSUME MemInv, Running, UNCHANGED <<refs, space, life, heap_end, cur, pc, nw, built>>,
           data' \in [Frame -> Contents], NEW c \in Pages,
           tlb' = tlb \/ tlb' = [tlb EXCEPT ![c] = Translation(c)]
    PROVE  MemInv'
<1>1. Parent \in [Cells -> Entry] /\ cur \in Slot /\ cur \in Spaces /\ c \in Cells
  BY Before, CellKinds
<1>2. space' = [space EXCEPT ![cur] = Parent] /\ [Sp EXCEPT ![cur] = Parent] = Sp
  <2>1. /\ space \in [Slot -> [Cells -> Entry]] /\ Sp \in [Spaces -> [Cells -> Entry]]
        /\ Parent = space[cur] /\ Parent = Sp[cur]
    BY Before
  <2>. QED BY <1>1, <2>1
<1>3. Good(refs', [Sp EXCEPT ![cur] = Parent], 0)
  BY <1>2, Before
<1>4. tlb' \in [Pages -> Entry] /\ \A d \in Pages : tlb'[d].f # 0 => tlb'[d] = Parent[d]
  <2>1. tlb \in [Pages -> Entry] /\ Translation(c) = Parent[c] /\ Parent[c] \in Entry
    BY <1>1, Before
  <2>2. \A d \in Pages : tlb[d].f # 0 => tlb[d] = Parent[d]
    BY Before
  <2>. QED BY <2>1, <2>2
<1>5. /\ Under(Parent) /\ heap_end' \in [Slot -> 0 .. PROCESS_HEAP_LIMIT]
      /\ \A d \in HeapPages : Parent[d].f # 0 => Start(d) < align_up(heap_end'[cur])
      /\ \A p \in Slot : heap_end'[p] = heap_end[p]
  BY Before
<1>. QED BY <1>1, <1>2, <1>3, <1>4, <1>5, OwnStep

(* SYS_BRK gives up the pages above the new break and no others.            *)
LEMMA BrkStep == ASSUME MemInv, NEW n \in 0 .. PROCESS_HEAP_LIMIT + 1, Brk(n) PROVE MemInv'
<1>. DEFINE C == GivenUp(n)
            s == Cleared(Parent, C)
<1>1. /\ Running /\ n <= PROCESS_HEAP_LIMIT
      /\ refs' = frame_release(Parent, C \cap Mapped(Parent))
      /\ space' = [space EXCEPT ![cur] =
                      [c \in Cells |-> IF c \in C THEN NoEntry ELSE space[cur][c]]]
      /\ tlb' = [c \in Pages |-> IF c \in C THEN NoEntry ELSE tlb[c]]
      /\ heap_end' = [heap_end EXCEPT ![cur] = n]
      /\ UNCHANGED <<data, life, cur, pc, nw, built>>
  BY DEF Brk, Does, BrkInRange
<1>2. C \subseteq HeapPages /\ C \subseteq Pages /\ C \subseteq Cells
  BY CellKinds DEF GivenUp
<1>3. /\ cur \in Slot /\ cur \in Spaces /\ Parent \in [Cells -> Entry] /\ Parent = Sp[cur]
      /\ Parent = space[cur] /\ Good(refs, Sp, 0) /\ Under(Parent) /\ Sane(Sp)
      /\ tlb \in [Pages -> Entry] /\ heap_end \in [Slot -> 0 .. PROCESS_HEAP_LIMIT]
      /\ data \in [Frame -> Contents]
  BY <1>1, Before
<1>4. \A c \in HeapPages : Parent[c].f # 0 => Start(c) < align_up(heap_end[cur])
  BY <1>1, Before
<1>5. \A c \in Pages : tlb[c].f # 0 => tlb[c] = Parent[c]
  BY <1>1, Before
<1>6. space' = [space EXCEPT ![cur] = s]
  BY <1>1, <1>3 DEF Cleared
<1>7. /\ s \in [Cells -> Entry]
      /\ \A c \in Cells : s[c] = IF c \in C THEN NoEntry ELSE Parent[c]
  BY <1>3, EntryKinds DEF Cleared
<1>8. refs' = Released(refs, Parent, C)
  <2>1. ASSUME NEW f \in Frame
        PROVE  {c \in C \cap Mapped(Parent) : Parent[c].f = f} = {c \in C : Parent[c].f = f}
    <3>1. f # 0
      BY SlotKinds
    <3>. QED BY <1>2, <3>1 DEF Mapped
  <2>. HIDE DEF C
  <2>. QED BY <1>1, <2>1 DEF frame_release, Released
<1>9. Good(refs', [Sp EXCEPT ![cur] = s], 0)
  <2>1. Good(Released(refs, Sp[cur], C), [Sp EXCEPT ![cur] = Cleared(Sp[cur], C)], 0)
    <3>. HIDE DEF C
    <3>. QED BY <1>2, <1>3, Drop
  <2>. QED BY <1>3, <1>8, <2>1
<1>. HIDE DEF s
<1>10. s[Dir] = Parent[Dir]
  BY <1>2, <1>7, CellKinds
<1>11. Under(s)
  <2>1. \A c \in Pages : c \in Cells /\ TableOf(c) \in Cells /\ TableOf(c) \notin C
    BY <1>2, CellKinds, TableKinds
  <2>. QED BY <1>3, <1>7, <2>1, EntryKinds DEF Under
<1>12. /\ tlb' \in [Pages -> Entry]
       /\ \A c \in Pages : tlb'[c].f # 0 => tlb'[c] = s[c]
  <2>1. NoEntry \in Entry /\ NoEntry.f = 0
    BY EntryKinds
  <2>2. \A c \in Pages : c \in Cells
    BY CellKinds
  <2>. HIDE DEF C
  <2>. QED BY <1>1, <1>3, <1>5, <1>7, <2>1, <2>2
<1>13. n \in 0 .. PROCESS_HEAP_LIMIT /\ n \in Nat
  <2>1. PROCESS_HEAP_LIMIT \in Nat
    BY MemoryAssumption DEF PROCESS_HEAP_LIMIT
  <2>. QED BY <1>1, <2>1
<1>14. /\ heap_end' \in [Slot -> 0 .. PROCESS_HEAP_LIMIT]
       /\ heap_end'[cur] = n
       /\ \A p \in Slot : p # cur => heap_end'[p] = heap_end[p]
  BY <1>1, <1>3, <1>13
<1>15. ASSUME NEW c \in HeapPages, s[c].f # 0
       PROVE  Start(c) < align_up(heap_end'[cur])
  <2>1. c \in Cells /\ Start(c) \in Int
    BY CellKinds, HeapStart
  <2>2. c \notin C /\ Parent[c].f # 0
    BY <1>7, <1>15, <2>1, EntryKinds
  <2>3. ~(Start(c) >= align_up(n))
    BY <1>4, <2>2 DEF GivenUp
  <2>4. align_up(n) \in Nat
    BY <1>13, RoundUp
  <2>. QED BY <1>14, <2>1, <2>3, <2>4
<1>16. data' \in [Frame -> Contents]
  BY <1>1, <1>3
<1>. QED BY <1>1, <1>6, <1>7, <1>9, <1>10, <1>11, <1>12, <1>14, <1>15, <1>16, OwnStep

(* A step that maps the page c of the running program anew.                 *)
LEMMA RemapStep ==
    ASSUME MemInv, Running, NEW c \in Pages, NEW s \in [Cells -> Entry],
           space' = [space EXCEPT ![cur] = s],
           Good(refs', [Sp EXCEPT ![cur] = s], 0),
           \A d \in Cells : d # c /\ d # TableOf(c) => s[d] = Parent[d],
           s[TableOf(c)].f # 0,
           c \in HeapPages => Start(c) < align_up(heap_end[cur]),
           data' \in [Frame -> Contents],
           tlb' = [tlb EXCEPT ![c] = NoEntry],
           UNCHANGED <<life, heap_end, cur, pc, nw, built>>
    PROVE  MemInv'
<1>1. /\ cur \in Slot /\ Under(Parent) /\ tlb \in [Pages -> Entry]
      /\ heap_end \in [Slot -> 0 .. PROCESS_HEAP_LIMIT]
  BY Before
<1>2. \A d \in HeapPages : Parent[d].f # 0 => Start(d) < align_up(heap_end[cur])
  BY Before
<1>3. \A d \in Pages : tlb[d].f # 0 => tlb[d] = Parent[d]
  BY Before
<1>4. \A d \in Pages : /\ d \in Cells /\ TableOf(d) \in Cells /\ d # TableOf(c)
                       /\ TableOf(d) # c /\ d # Dir /\ TableOf(d) # Dir
  BY CellKinds, TableKinds
<1>5. s[Dir] = Parent[Dir]
  BY <1>4, CellKinds
<1>6. Under(s)
  <2>1. ASSUME NEW d \in Pages, s[d].f # 0 PROVE s[TableOf(d)].f # 0
    <3>1. CASE TableOf(d) = TableOf(c)
      BY <3>1
    <3>2. CASE TableOf(d) # TableOf(c)
      <4>1. s[d] = Parent[d] /\ s[TableOf(d)] = Parent[TableOf(d)]
        BY <1>4, <3>2
      <4>. QED BY <1>1, <2>1, <4>1 DEF Under
    <3>. QED BY <3>1, <3>2
  <2>. QED BY <2>1 DEF Under
<1>7. tlb' \in [Pages -> Entry] /\ \A d \in Pages : tlb'[d].f # 0 => tlb'[d] = s[d]
  <2>1. NoEntry \in Entry /\ NoEntry.f = 0
    BY EntryKinds
  <2>2. \A d \in Pages : d # c => s[d] = Parent[d]
    BY <1>4
  <2>. QED BY <1>1, <1>3, <2>1, <2>2
<1>8. \A d \in HeapPages : s[d].f # 0 => Start(d) < align_up(heap_end'[cur])
  <2>1. \A d \in HeapPages : d # c => s[d] = Parent[d]
    BY <1>4, CellKinds
  <2>. QED BY <1>2, <2>1
<1>. QED BY <1>1, <1>5, <1>6, <1>7, <1>8, OwnStep

(* The running program gets page c for itself, in the frame f that holds v  *)
(* and that nobody else uses; its space becomes s.                          *)
Owns(c, v, f, s) ==
    /\ s = [Parent EXCEPT ![c] = ReadWrite(f)]
    /\ Parent[c].f \in Frame
    /\ space' = [space EXCEPT ![cur] = s]
    /\ data' = [data EXCEPT ![f] = v]
    /\ tlb' = [tlb EXCEPT ![c] = NoEntry]
    /\ UNCHANGED <<life, heap_end, cur, pc, nw, built>>
    /\ Good(refs', [Sp EXCEPT ![cur] = s], 0)
    /\ \A q \in Spaces, d \in Cells : Sp[q][d].f = f => q = cur /\ d = c

(* The last owner of a copy-on-write frame keeps it; another one gets a     *)
(* free frame for itself and gives its reference back.                      *)
LEMMA CowIs ==
    ASSUME MemInv, Running, NEW c \in Pages, NEW v, resolve_cow_fault(c, v)
    PROVE  \E f \in Frame, s \in [Cells -> Entry] : Owns(c, v, f, s)
<1>. DEFINE old == Parent[c].f
            new == frame_alloc(refs)
<1>1. /\ cur \in Slot /\ cur \in Spaces /\ Parent \in [Cells -> Entry]
      /\ Parent = space[cur] /\ Parent = Sp[cur] /\ Good(refs, Sp, 0)
      /\ space \in [Slot -> [Cells -> Entry]] /\ Sp \in [Spaces -> [Cells -> Entry]]
      /\ c \in Cells
  BY Before, CellKinds
<1>2. /\ tlb' = [tlb EXCEPT ![c] = NoEntry]
      /\ UNCHANGED <<life, heap_end, cur, pc, nw, built>>
      /\ Parent[c].cow
      /\ refs[old] # 1 => new # 0
      /\ \/ /\ refs[old] = 1 /\ UNCHANGED refs
            /\ space' = [space EXCEPT ![cur][c] = ReadWrite(old)]
            /\ data' = [data EXCEPT ![old] = v]
         \/ /\ refs[old] # 1
            /\ space' = [space EXCEPT ![cur][c] = ReadWrite(new)]
            /\ data' = [data EXCEPT ![new] = v]
            /\ refs' = [frame_release(Parent, {c}) EXCEPT ![new] = 1]
  BY DEF resolve_cow_fault, Resolvable, IsCow, LastOwner
<1>3. old \in Frame
  <2>1. Parent[c].f = 0 => Parent[c] = NoEntry
    BY <1>1 DEF Good, Sane
  <2>. QED BY <1>1, <1>2, <2>1, EntryKinds
<1>4. \A e : [space EXCEPT ![cur][c] = e] = [space EXCEPT ![cur] = [Parent EXCEPT ![c] = e]]
  BY <1>1
<1>5. CASE /\ refs[old] = 1 /\ UNCHANGED refs
           /\ space' = [space EXCEPT ![cur][c] = ReadWrite(old)]
           /\ data' = [data EXCEPT ![old] = v]
  <2>. DEFINE s == [Parent EXCEPT ![c] = ReadWrite(old)]
  <2>1. Good(refs, [Sp EXCEPT ![cur][c] = ReadWrite(Sp[cur][c].f)], 0)
    BY <1>1, <1>3, <1>5, Keep
  <2>2. [Sp EXCEPT ![cur][c] = ReadWrite(Sp[cur][c].f)] = [Sp EXCEPT ![cur] = s]
    BY <1>1
  <2>3. s \in [Cells -> Entry]
    BY <1>1, <1>3, EntryKinds
  <2>4. \A q \in Spaces, d \in Cells : Sp[q][d].f = old => q = cur /\ d = c
    <3>1. Cardinality(Uses(Sp, old)) = 1
      BY <1>1, <1>3, <1>5, UsedCount DEF Good
    <3>2. IsFiniteSet(Uses(Sp, old)) /\ <<cur, c>> \in Uses(Sp, old)
      BY <1>1, UsesAre
    <3>3. PICK u : Uses(Sp, old) = {u}
      <4>. HIDE DEF old
      <4>. QED BY <3>1, <3>2, FS_Singleton
    <3>4. ASSUME NEW q \in Spaces, NEW d \in Cells, Sp[q][d].f = old
          PROVE  q = cur /\ d = c
      <4>1. <<q, d>> \in Uses(Sp, old)
        <5>. HIDE DEF old
        <5>. QED BY <3>4, UsesAre
      <4>2. <<q, d>> = <<cur, c>>
        BY <3>2, <3>3, <4>1
      <4>. QED BY <4>2
    <3>. QED BY <3>4
  <2>5. space' = [space EXCEPT ![cur] = s]
    BY <1>4, <1>5
  <2>6. Good(refs', [Sp EXCEPT ![cur] = s], 0)
    BY <1>5, <2>1, <2>2
  <2>. HIDE DEF old, s
  <2>7. Owns(c, v, old, s)
    BY <1>2, <1>3, <1>5, <2>4, <2>5, <2>6 DEF old, s, Owns
  <2>. QED BY <1>3, <2>3, <2>7
<1>6. CASE /\ refs[old] # 1
           /\ space' = [space EXCEPT ![cur][c] = ReadWrite(new)]
           /\ data' = [data EXCEPT ![new] = v]
           /\ refs' = [frame_release(Parent, {c}) EXCEPT ![new] = 1]
  <2>. DEFINE s == [Parent EXCEPT ![c] = ReadWrite(new)]
              R == Released(refs, Sp[cur], {c})
              T == [Sp EXCEPT ![cur] = Cleared(Sp[cur], {c})]
  <2>1. new \in 1 .. FRAMES /\ refs[new] = 0 /\ new \in Frame /\ new # KernelFrame
    BY <1>2, <1>6, AllocFinds, SlotKinds
  <2>2. \A q \in Spaces, d \in Cells : Sp[q][d].f # new
    BY <1>1, <2>1, Unused DEF Good
  <2>. HIDE DEF new
  <2>3. Good(R, T, 0)
    <3>1. {c} \subseteq Cells
      BY <1>1
    <3>. QED BY <1>1, <3>1, Drop
  <2>4. R[new] = 0
    <3>1. {d \in {c} : Sp[cur][d].f = new} = {}
      BY <1>1, <2>2
    <3>2. Cardinality({d \in {c} : Sp[cur][d].f = new}) = 0
      BY <3>1, FS_EmptySet
    <3>. QED BY <2>1, <3>2 DEF Released
  <2>5. /\ T[cur] = Cleared(Parent, {c}) /\ T[cur][c].f = 0
        /\ T \in [Spaces -> [Cells -> Entry]]
    BY <1>1, <2>3, EntryKinds DEF Cleared, Good
  <2>6. Good([R EXCEPT ![new] = 1], [T EXCEPT ![cur][c] = ReadWrite(new)], 0)
    <3>. HIDE DEF R, T
    <3>. QED BY <1>1, <2>1, <2>3, <2>4, <2>5, Alloc
  <2>7. [T EXCEPT ![cur][c] = ReadWrite(new)] = [Sp EXCEPT ![cur] = s]
    <3>1. [Cleared(Parent, {c}) EXCEPT ![c] = ReadWrite(new)] = s
      BY <1>1 DEF Cleared
    <3>. HIDE DEF s
    <3>. QED BY <1>1, <2>5, <3>1
  <2>8. refs' = [R EXCEPT ![new] = 1]
    BY <1>1, <1>6 DEF frame_release, Released
  <2>9. s \in [Cells -> Entry]
    BY <1>1, <2>1, EntryKinds
  <2>10. space' = [space EXCEPT ![cur] = s]
    BY <1>4, <1>6
  <2>11. Good(refs', [Sp EXCEPT ![cur] = s], 0)
    BY <2>6, <2>7, <2>8
  <2>12. \A q \in Spaces, d \in Cells : Sp[q][d].f = new => q = cur /\ d = c
    BY <2>2
  <2>13. s = [Parent EXCEPT ![c] = ReadWrite(new)] /\ Parent[c].f \in Frame
    BY <1>3
  <2>14. data' = [data EXCEPT ![new] = v]
    BY <1>6
  <2>. HIDE DEF old, s, R, T
  <2>15. Owns(c, v, new, s)
    BY <1>2, <2>10, <2>11, <2>12, <2>13, <2>14 DEF Owns
  <2>. QED BY <2>1, <2>9, <2>15
<1>. QED BY <1>2, <1>5, <1>6

LEMMA CowStep ==
    ASSUME MemInv, Running, NEW c \in Pages, NEW v \in Contents, resolve_cow_fault(c, v)
    PROVE  MemInv'
<1>0. PICK f \in Frame, s \in [Cells -> Entry] : Owns(c, v, f, s)
  BY CowIs
<1>1. /\ s = [Parent EXCEPT ![c] = ReadWrite(f)]
      /\ Parent[c].f \in Frame
      /\ space' = [space EXCEPT ![cur] = s]
      /\ data' = [data EXCEPT ![f] = v]
      /\ tlb' = [tlb EXCEPT ![c] = NoEntry]
      /\ UNCHANGED <<life, heap_end, cur, pc, nw, built>>
      /\ Good(refs', [Sp EXCEPT ![cur] = s], 0)
  BY <1>0 DEF Owns
<1>2. /\ Parent \in [Cells -> Entry] /\ Under(Parent) /\ data \in [Frame -> Contents]
      /\ \A d \in HeapPages : Parent[d].f # 0 => Start(d) < align_up(heap_end[cur])
  BY Before
<1>3. Parent[c].f # 0
  BY <1>1, SlotKinds
<1>4. \A d \in Cells : d # c /\ d # TableOf(c) => s[d] = Parent[d]
  BY <1>1, <1>2
<1>5. s[TableOf(c)].f # 0
  <2>1. TableOf(c) \in Cells /\ TableOf(c) # c
    BY CellKinds, TableKinds
  <2>2. s[TableOf(c)] = Parent[TableOf(c)]
    BY <1>1, <1>2, <2>1
  <2>. QED BY <1>2, <1>3, <2>2 DEF Under
<1>6. c \in HeapPages => Start(c) < align_up(heap_end[cur])
  BY <1>2, <1>3
<1>7. data' \in [Frame -> Contents]
  BY <1>1, <1>2
<1>. QED BY <1>1, <1>4, <1>5, <1>6, <1>7, RemapStep

(* The running program gets page c, which it did not have, in the frame fr  *)
(* that holds v, under the table t, new or old; its space becomes s.        *)
Gains(c, v, fr, t, s) ==
    /\ \A d \in Cells : s[d] = IF d = c THEN ReadWrite(fr)
                               ELSE IF d = TableOf(c) THEN ReadWrite(t) ELSE Parent[d]
    /\ space' = [space EXCEPT ![cur] = s]
    /\ \A f \in Frame : data'[f] = IF f = fr THEN v
                                   ELSE IF f = t /\ Parent[TableOf(c)].f = 0 THEN 0
                                   ELSE data[f]
    /\ v \in Contents => data' \in [Frame -> Contents]
    /\ tlb' = [tlb EXCEPT ![c] = NoEntry]
    /\ UNCHANGED <<life, heap_end, cur, pc, nw, built>>
    /\ Good(refs', [Sp EXCEPT ![cur] = s], 0)
    /\ \A q \in Spaces, d \in Pages : Sp[q][d].f # fr /\ Sp[q][d].f # t

(* demand_map_heap_page gives the program a free frame of its own.          *)
LEMMA DemandIs ==
    ASSUME MemInv, Running, NEW c \in Pages, NEW v, Parent[c].f = 0,
           demand_map_heap_page(c, v)
    PROVE  \E fr, t \in Frame, s \in [Cells -> Entry] : Gains(c, v, fr, t, s)
<1>. DEFINE fr == frame_alloc(refs)
            r == [refs EXCEPT ![fr] = 1]
            t == MapTable(Parent, c, r)
            s == WithPage(Parent, c, ReadWrite(fr), t)
<1>1. /\ cur \in Slot /\ cur \in Spaces /\ Parent \in [Cells -> Entry]
      /\ Parent = space[cur] /\ Parent = Sp[cur] /\ Good(refs, Sp, 0)
      /\ space \in [Slot -> [Cells -> Entry]] /\ Sp \in [Spaces -> [Cells -> Entry]]
      /\ c \in Cells /\ data \in [Frame -> Contents]
  BY Before, CellKinds
<1>2. /\ fr # 0 /\ t # 0
      /\ refs' = [r EXCEPT ![t] = 1]
      /\ data' = IF Parent[TableOf(c)].f = 0
                 THEN [data EXCEPT ![t] = 0, ![fr] = v]
                 ELSE [data EXCEPT ![fr] = v]
      /\ space' = [space EXCEPT ![cur] = WithPage(space[cur], c, ReadWrite(fr), t)]
      /\ tlb' = [tlb EXCEPT ![c] = NoEntry]
      /\ UNCHANGED <<life, heap_end, cur, pc, nw, built>>
  BY DEF demand_map_heap_page, Mappable
<1>3. fr \in 1 .. FRAMES /\ refs[fr] = 0 /\ fr \in Frame
  BY <1>2, AllocFinds, SlotKinds
<1>4. TakesPage(refs, Sp[cur], c, fr, ReadWrite(fr), t)
  BY <1>1, <1>2, <1>3 DEF TakesPage
<1>5. space' = [space EXCEPT ![cur] = s]
  BY <1>1, <1>2
<1>6. refs' = [refs EXCEPT ![fr] = 1, ![t] = 1]
  BY <1>2
<1>. HIDE DEF fr, r, t
<1>7. PageTaken(refs, Sp, 0, cur, c, fr, ReadWrite(fr), t)
  BY <1>1, <1>4, MapPage
<1>8. Good(refs', [Sp EXCEPT ![cur] = s], 0)
  BY <1>1, <1>6, <1>7 DEF PageTaken
<1>9. /\ \A d \in Cells : s[d] = IF d = c THEN ReadWrite(fr)
                                 ELSE IF d = TableOf(c) THEN ReadWrite(t) ELSE Parent[d]
      /\ t \in Frame /\ t # fr
      /\ \A q \in Spaces, d \in Pages : Sp[q][d].f # t
  BY <1>1, <1>7 DEF PageTaken
<1>10. \A q \in Spaces, d \in Pages : Sp[q][d].f # fr
  BY <1>1, <1>3, Unused, CellKinds DEF Good
<1>11. s \in [Cells -> Entry]
  <2>1. [Sp EXCEPT ![cur] = s] \in [Spaces -> [Cells -> Entry]]
    BY <1>8 DEF Good
  <2>2. [Sp EXCEPT ![cur] = s][cur] = s
    <3>. HIDE DEF s
    <3>. QED BY <1>1
  <2>. HIDE DEF s
  <2>. QED BY <1>1, <2>1, <2>2
<1>12. \A f \in Frame : data'[f] = IF f = fr THEN v
                                   ELSE IF f = t /\ Parent[TableOf(c)].f = 0 THEN 0
                                   ELSE data[f]
  BY <1>1, <1>2, <1>3, <1>9
<1>13. v \in Contents => data' \in [Frame -> Contents]
  <2>1. 0 \in Contents
    BY MemoryAssumption
  <2>. QED BY <1>1, <1>2, <2>1
<1>14. \A q \in Spaces, d \in Pages : Sp[q][d].f # fr /\ Sp[q][d].f # t
  BY <1>9, <1>10
<1>15. \A d \in Cells : s[d] = IF d = c THEN ReadWrite(fr)
                               ELSE IF d = TableOf(c) THEN ReadWrite(t) ELSE Parent[d]
  BY <1>9
<1>16. /\ tlb' = [tlb EXCEPT ![c] = NoEntry]
       /\ UNCHANGED <<life, heap_end, cur, pc, nw, built>>
  BY <1>2
<1>. HIDE DEF s
<1>17. Gains(c, v, fr, t, s)
  BY <1>5, <1>8, <1>12, <1>13, <1>14, <1>15, <1>16 DEF Gains
<1>. QED BY <1>3, <1>9, <1>11, <1>17

LEMMA DemandStep ==
    ASSUME MemInv, Running, NEW c \in HeapPages, NEW v \in Contents, Parent[c].f = 0,
           demand_map_heap_page(c, v), Start(c) < align_up(heap_end[cur])
    PROVE  MemInv'
<1>0. c \in Pages
  BY CellKinds
<1>1. PICK fr \in Frame, t \in Frame, s \in [Cells -> Entry] : Gains(c, v, fr, t, s)
  BY <1>0, DemandIs
<1>2. \A d \in Cells : d # c /\ d # TableOf(c) => s[d] = Parent[d]
  BY <1>1 DEF Gains
<1>3. s[TableOf(c)].f # 0
  <2>1. TableOf(c) \in Cells /\ TableOf(c) # c
    BY <1>0, CellKinds, TableKinds
  <2>2. s[TableOf(c)] = ReadWrite(t)
    BY <1>1, <2>1 DEF Gains
  <2>. QED BY <2>2, EntryKinds, SlotKinds
<1>. QED BY <1>0, <1>1, <1>2, <1>3, RemapStep DEF Gains

(* The running process leaves the CPU, for a while or for good.             *)
LEMMA LeaveStep ==
    ASSUME MemInv, Running, cur' \in Runnable \cup {0}, tlb' = NoTlb,
           life' = life \/ life' = [life EXCEPT ![cur] = "zombie"],
           UNCHANGED <<refs, data, space, heap_end, pc, nw, built>>
    PROVE  MemInv'
<1>1. pc = "user" /\ cur # 0 /\ MemTypes /\ cur \in Slot
  BY Before DEF Running, MemInv
<1>2. Runnable \subseteq Slot /\ \A p \in Runnable : life[p] = "live" /\ p # cur
  BY DEF Runnable
<1>3. life' \in [Slot -> {"dead", "live", "zombie"}]
  BY <1>1 DEF MemTypes
<1>4. NoTlb \in [Pages -> Entry] /\ \A c \in Pages : NoTlb[c].f = 0
  BY EntryKinds DEF NoTlb
<1>5. MemTypes'
  BY <1>1, <1>2, <1>3, <1>4 DEF MemTypes
<1>6. Good(refs', Sp', Sharer')
  <2>1. Sp' = Sp /\ Sharer' = Sharer
    BY <1>1, SpSteps DEF Sharer
  <2>. QED BY <2>1 DEF MemInv
<1>7. Inhabited'
  <2>1. \A p \in Slot : life'[p] = life[p] \/ (p = cur /\ life'[p] = "zombie")
    BY <1>1 DEF MemTypes
  <2>2. cur' # 0 => life'[cur'] = "live"
    BY <1>2, <2>1
  <2>3. life[cur] = "live"
    BY <1>1, Here
  <2>4. ASSUME NEW p \in Slot
        PROVE  IF life'[p] = "dead" THEN space'[p] = Empty ELSE space'[p][Dir].f # 0
    <3>1. IF life[p] = "dead" THEN space[p] = Empty ELSE space[p][Dir].f # 0
      BY DEF MemInv, Inhabited
    <3>. QED BY <2>1, <2>3, <3>1
  <2>. QED BY <1>1, <2>2, <2>4 DEF MemInv, Inhabited
<1>8. Tabled' /\ HeapBelowBreak'
  BY DEF MemInv, Tabled, Under, HeapBelowBreak
<1>9. Progress'
  BY <1>1 DEF Progress
<1>10. Coherent'
  BY <1>4 DEF Coherent
<1>. QED BY <1>5, <1>6, <1>7, <1>8, <1>9, <1>10 DEF MemInv

LEMMA TerminateStep == ASSUME MemInv, Running, Terminate PROVE MemInv'
BY LeaveStep DEF Terminate

(* process_destroy gives a zombie's space back; nobody uses its directory.  *)
LEMMA DestroyStep == ASSUME MemInv, NEW p \in Slot, Destroy(p) PROVE MemInv'
<1>1. /\ Running /\ life[p] = "zombie"
      /\ refs' = destroy_address_space(space[p], Parent[Dir].f)
      /\ space' = [space EXCEPT ![p] = Empty]
      /\ life' = [life EXCEPT ![p] = "dead"]
      /\ heap_end' = [heap_end EXCEPT ![p] = 0]
      /\ UNCHANGED <<data, cur, tlb, pc, nw, built>>
  BY DEF Destroy
<1>2. pc = "user" /\ cur # 0 /\ MemTypes
  BY <1>1 DEF Running, MemInv
<1>3. /\ cur \in Slot /\ cur \in Spaces /\ Parent = Sp[cur] /\ life[cur] = "live" /\ p # cur
      /\ nw = Sp[0] /\ Parent = space[cur] /\ p \in Spaces /\ space[p] = Sp[p] /\ p # 0
  BY <1>1, <1>2, Here, SlotKinds, SpIs
<1>4. /\ \A q \in Slot : space'[q] = IF q = p THEN Empty ELSE space[q]
      /\ \A q \in Slot : life'[q] = IF q = p THEN "dead" ELSE life[q]
      /\ \A q \in Slot : heap_end'[q] = IF q = p THEN 0 ELSE heap_end[q]
  BY <1>1, <1>2 DEF MemTypes
<1>5. Empty \in [Cells -> Entry] /\ \A c \in Cells : Empty[c] = NoEntry /\ Empty[c].f = 0
  BY EntryKinds DEF Empty
<1>6. MemTypes'
  <2>1. space' \in [Slot -> [Cells -> Entry]]
    BY <1>1, <1>2, <1>5 DEF MemTypes
  <2>2. life' \in [Slot -> {"dead", "live", "zombie"}]
    BY <1>1, <1>2 DEF MemTypes
  <2>3. 0 \in 0 .. PROCESS_HEAP_LIMIT
    BY MemoryAssumption DEF PROCESS_HEAP_LIMIT
  <2>4. heap_end' \in [Slot -> 0 .. PROCESS_HEAP_LIMIT]
    BY <1>1, <1>2, <2>3 DEF MemTypes
  <2>. QED BY <1>1, <1>2, <2>1, <2>2, <2>4 DEF MemTypes
<1>7. Good(refs', Sp', Sharer')
  <2>1. Sharer' = Sharer
    BY <1>1, <1>2 DEF Sharer
  <2>2. Sp[p][Dir].f # 0
    BY <1>1, <1>3 DEF MemInv, Inhabited
  <2>3. /\ refs' = Released(refs, Sp[p], Mapped(Sp[p]))
        /\ Good(Released(refs, Sp[p], Mapped(Sp[p])), [Sp EXCEPT ![p] = Empty], Sharer)
    BY <1>1, <1>3, <2>2, Dropped
  <2>4. Sp' = [Sp EXCEPT ![p] = Empty, ![0] = Sp[0]]
    BY <1>1, <1>2, <1>3, SpSteps DEF MemTypes
  <2>5. Sp \in [Spaces -> [Cells -> Entry]] /\ 0 \in Spaces
    BY SlotKinds DEF MemInv, Good
  <2>6. Sp' = [Sp EXCEPT ![p] = Empty]
    BY <1>3, <2>4, <2>5
  <2>. QED BY <2>1, <2>3, <2>6
<1>8. Inhabited'
  <2>1. ASSUME NEW q \in Slot
        PROVE  IF life'[q] = "dead" THEN space'[q] = Empty ELSE space'[q][Dir].f # 0
    <3>1. IF life[q] = "dead" THEN space[q] = Empty ELSE space[q][Dir].f # 0
      BY DEF MemInv, Inhabited
    <3>. QED BY <1>4, <3>1
  <2>2. life'[cur] = "live"
    BY <1>3, <1>4
  <2>. QED BY <1>1, <1>2, <2>1, <2>2 DEF MemInv, Inhabited
<1>9. Tabled'
  <2>1. \A c \in Pages : c \in Cells
    BY CellKinds
  <2>2. Under(nw) /\ \A q \in Slot : Under(space[q])
    BY DEF MemInv, Tabled
  <2>3. Under(Empty)
    BY <1>5, <2>1 DEF Under
  <2>4. \A q \in Slot : Under(space'[q])
    BY <1>4, <2>2, <2>3
  <2>. QED BY <1>1, <2>2, <2>4 DEF Tabled, Under
<1>10. Progress'
  BY <1>1, <1>2 DEF Progress
<1>11. Coherent'
  <2>1. Parent' = Parent
    BY <1>1, <1>3, <1>4 DEF Parent
  <2>. QED BY <1>1, <2>1 DEF MemInv, Coherent
<1>12. HeapBelowBreak'
  <2>1. ASSUME NEW q \in Slot, NEW c \in HeapPages, space'[q][c].f # 0
        PROVE  Start(c) < align_up(heap_end'[q])
    <3>1. c \in Cells
      BY CellKinds
    <3>2. q # p
      BY <1>4, <1>5, <2>1, <3>1
    <3>. QED BY <1>4, <2>1, <3>2 DEF MemInv, HeapBelowBreak
  <2>. QED BY <2>1 DEF HeapBelowBreak
<1>. QED BY <1>6, <1>7, <1>8, <1>9, <1>10, <1>11, <1>12 DEF MemInv

(* Every step of a running program.                                         *)
LEMMA UserStepStep == ASSUME MemInv, UserStep PROVE MemInv'
<1>1. ASSUME NEW c \in Pages, UserRead(c) PROVE MemInv'
  <2>1. Running /\ data' \in [Frame -> Contents]
    BY <1>1 DEF UserRead, Does, MemInv, MemTypes
  <2>. QED BY <1>1, <2>1, AccessStep DEF UserRead
<1>2. ASSUME NEW c \in Pages, WriteFault(c) PROVE MemInv'
  <2>1. Running /\ Parent[c].f # 0
    BY <1>2, Before DEF WriteFault
  <2>2. data[Parent[c].f] \in Contents
    <3>1. Parent[c].f \in Frame
      BY <2>1, Before, CellKinds, InUse
    <3>. QED BY <2>1, <3>1, Before
  <2>3. CASE resolve_cow_fault(c, data[Parent[c].f])
    BY <2>1, <2>2, <2>3, CowStep
  <2>4. CASE Terminate
    BY <2>1, <2>4, TerminateStep
  <2>. QED BY <1>2, <2>3, <2>4 DEF WriteFault
<1>3. ASSUME NEW c \in Pages, NEW v \in Contents, UserWrite(c, v) PROVE MemInv'
  <2>1. Running
    BY <1>3 DEF UserWrite, Does
  <2>2. data \in [Frame -> Contents]
    BY DEF MemInv, MemTypes
  <2>3. data' \in [Frame -> Contents]
    BY <1>3, <2>2 DEF UserWrite
  <2>. QED BY <1>3, <2>1, <2>3, AccessStep DEF UserWrite
<1>4. ASSUME NEW c \in Pages, NEW v \in Contents, CopyToUser(c, v) PROVE MemInv'
  <2>1. Running
    BY <1>4 DEF CopyToUser, Does
  <2>2. data \in [Frame -> Contents]
    BY DEF MemInv, MemTypes
  <2>3. CASE /\ data' = [data EXCEPT ![Parent[c].f] = v]
             /\ UNCHANGED <<refs, space, life, heap_end, cur, tlb, pc, nw, built>>
    <3>1. data' \in [Frame -> Contents]
      BY <2>2, <2>3
    <3>. QED BY <2>1, <2>3, <3>1, AccessStep
  <2>4. CASE resolve_cow_fault(c, v)
    BY <2>1, <2>4, CowStep
  <2>5. CASE /\ Parent[c].f = 0 /\ c \in HeapPages /\ Start(c) < heap_end[cur]
             /\ demand_map_heap_page(c, v)
    <3>1. heap_end[cur] \in 0 .. PROCESS_HEAP_LIMIT
      BY <2>1, Before
    <3>2. heap_end[cur] \in Nat
      BY <3>1
    <3>3. align_up(heap_end[cur]) \in Nat /\ heap_end[cur] <= align_up(heap_end[cur])
      BY <3>2, RoundUp
    <3>4. Start(c) \in Int
      BY <2>5, HeapStart
    <3>5. Start(c) < align_up(heap_end[cur])
      BY <2>5, <3>2, <3>3, <3>4
    <3>. QED BY <2>1, <2>5, <3>5, DemandStep
  <2>. QED BY <1>4, <2>3, <2>4, <2>5 DEF CopyToUser
<1>5. ASSUME NEW a \in Address, HeapFault(a) PROVE MemInv'
  <2>. DEFINE c == PageOf(a)
  <2>1. Running /\ Translation(c).f = 0
    BY <1>5 DEF HeapFault
  <2>2. c \in HeapPages /\ Start(c) <= a /\ Start(c) \in Int
    BY HeapAddress
  <2>3. c \in Pages
    BY <2>2, CellKinds
  <2>4. CASE a < heap_end[cur] /\ demand_map_heap_page(c, 0)
    <3>. HIDE DEF c
    <3>1. heap_end[cur] \in 0 .. PROCESS_HEAP_LIMIT
      BY <2>1, Before
    <3>2. heap_end[cur] \in Nat
      BY <3>1
    <3>3. align_up(heap_end[cur]) \in Nat /\ heap_end[cur] <= align_up(heap_end[cur])
      BY <3>2, RoundUp
    <3>4. a \in Int
      BY DEF Address
    <3>5. Start(c) < align_up(heap_end[cur])
      BY <2>2, <2>4, <3>2, <3>3, <3>4
    <3>6. Parent[c].f = 0
      BY <2>1, <2>3, Before
    <3>7. 0 \in Contents
      BY MemoryAssumption
    <3>. QED BY <2>1, <2>2, <2>4, <3>5, <3>6, <3>7, DemandStep
  <2>5. CASE Terminate
    BY <2>1, <2>5, TerminateStep
  <2>. QED BY <1>5, <2>4, <2>5 DEF HeapFault
<1>6. ASSUME NEW n \in 0 .. PROCESS_HEAP_LIMIT + 1, Brk(n) PROVE MemInv'
  BY <1>6, BrkStep
<1>7. ASSUME NEW p \in Slot, Switch(p) PROVE MemInv'
  BY <1>7, LeaveStep DEF Switch
<1>8. ASSUME NEW p \in Slot, Destroy(p) PROVE MemInv'
  BY <1>8, DestroyStep
<1>9. ASSUME Exit PROVE MemInv'
  BY <1>9, TerminateStep DEF Exit
<1>. QED BY <1>1, <1>2, <1>3, <1>4, <1>5, <1>6, <1>7, <1>8, <1>9 DEF UserStep

-----------------------------------------------------------------------------
(* The first program *)

(* No space at all: only the reserved frame has a reference.                *)
NoRefs == [f \in Frame |-> IF f = KernelFrame THEN 1 ELSE 0]

NoSpace == [o \in Spaces |-> Empty]

LEMMA NothingMapped == Good(NoRefs, NoSpace, 0)
<1>1. NoRefs \in [Frame -> 0 .. MAX_REFS]
  BY MemoryAssumption DEF NoRefs
<1>2. \A o \in Spaces, c \in Cells : NoSpace[o][c] = NoEntry
  BY DEF NoSpace, Empty
<1>3. NoSpace \in [Spaces -> [Cells -> Entry]]
  BY EntryKinds DEF NoSpace, Empty
<1>4. Sane(NoSpace) /\ SameCell(NoSpace) /\ Exclusive(NoSpace, 0)
  BY <1>2, EntryKinds DEF Sane, SameCell, Exclusive
<1>5. ASSUME NEW f \in Frame
      PROVE  NoRefs[f] = CountFor(f, Cardinality(Uses(NoSpace, f)))
  <2>1. f # 0
    BY SlotKinds
  <2>2. \A u \in Spaces \X Cells : u \notin Uses(NoSpace, f)
    BY <1>2, <2>1, EntryKinds DEF Uses
  <2>3. Uses(NoSpace, f) = {}
    BY <2>2, UsesAre
  <2>. QED BY <2>3, FS_EmptySet DEF NoRefs, CountFor
<1>. QED BY <1>1, <1>3, <1>4, <1>5 DEF Good, Counted

(* The reserved frame is mapped by its first user: it keeps its count.      *)
LEMMA MapCode ==
    ASSUME NEW o \in Spaces
    PROVE  Good(NoRefs, [NoSpace EXCEPT ![o][CodePage] = ReadOnly(KernelFrame)], 0)
<1>. DEFINE e == ReadOnly(KernelFrame)
            T == [NoSpace EXCEPT ![o][CodePage] = e]
<1>1. KernelFrame \in Frame /\ KernelFrame # 0 /\ CodePage \in Cells /\ CodePage \in Pages
  BY SlotKinds, CellKinds
<1>2. e \in Entry /\ e.f = KernelFrame /\ ~e.w
  BY <1>1, EntryKinds
<1>3. NoSpace \in [Spaces -> [Cells -> Entry]] /\ NoRefs \in [Frame -> 0 .. MAX_REFS]
  BY NothingMapped DEF Good
<1>4. T \in [Spaces -> [Cells -> Entry]]
  BY <1>1, <1>2, <1>3
<1>5. \A q \in Spaces, d \in Cells : T[q][d] = IF q = o /\ d = CodePage THEN e ELSE NoEntry
  BY <1>1, <1>3 DEF NoSpace, Empty
<1>. HIDE DEF T, e
<1>6. Sane(T) /\ SameCell(T) /\ Exclusive(T, 0)
  <2>1. Sane(T)
    BY <1>1, <1>2, <1>5, EntryKinds DEF Sane
  <2>2. SameCell(T)
    BY <1>2, <1>5, EntryKinds DEF SameCell
  <2>3. Exclusive(T, 0)
    BY <1>2, <1>5, EntryKinds DEF Exclusive
  <2>. QED BY <2>1, <2>2, <2>3
<1>7. ASSUME NEW f \in Frame
      PROVE  NoRefs[f] = CountFor(f, Cardinality(Uses(T, f)))
  <2>1. f # 0
    BY SlotKinds
  <2>2. CASE f = KernelFrame
    <3>1. \A q \in Spaces, d \in Cells : T[q][d].f = f <=> q = o /\ d = CodePage
      BY <1>2, <1>5, <2>1, <2>2, EntryKinds
    <3>2. Uses(T, f) = {<<o, CodePage>>}
      <4>1. {<<o, CodePage>>} \subseteq Spaces \X Cells
        BY <1>1
      <4>2. \A q \in Spaces, d \in Cells :
               <<q, d>> \in {<<o, CodePage>>} <=> q = o /\ d = CodePage
        OBVIOUS
      <4>. QED BY <3>1, <4>1, <4>2, UsesAre, SameUses
    <3>. QED BY <2>2, <3>2, FS_Singleton DEF NoRefs, CountFor
  <2>3. CASE f # KernelFrame
    <3>1. \A q \in Spaces, d \in Cells : T[q][d].f = f <=> NoSpace[q][d].f = f
      BY <1>2, <1>5, <2>1, <2>3, EntryKinds DEF NoSpace, Empty
    <3>2. Uses(T, f) = Uses(NoSpace, f)
      BY <3>1, SameFrames
    <3>. QED BY <3>2, NothingMapped DEF Good, Counted
  <2>. QED BY <2>2, <2>3
<1>. QED BY <1>3, <1>4, <1>6, <1>7 DEF Good, Counted, T, e

(* What is in the first program's space.                                    *)
FirstSpace == [Empty EXCEPT ![Dir] = ReadWrite(1), ![Table(0)] = ReadWrite(2),
                            ![StackPage] = ReadWrite(3), ![Table(3)] = ReadWrite(4),
                            ![CodePage] = ReadOnly(KernelFrame)]

LEMMA FirstIs ==
    /\ FirstSpace \in [Cells -> Entry]
    /\ \A c \in Cells :
          FirstSpace[c] = IF c = CodePage THEN ReadOnly(KernelFrame)
                          ELSE IF c = Table(3) THEN ReadWrite(4)
                          ELSE IF c = StackPage THEN ReadWrite(3)
                          ELSE IF c = Table(0) THEN ReadWrite(2)
                          ELSE IF c = Dir THEN ReadWrite(1)
                          ELSE NoEntry
<1>1. /\ Dir \in Cells /\ Table(0) \in Cells /\ Table(3) \in Cells
      /\ StackPage \in Cells /\ CodePage \in Cells
  BY CellKinds
<1>2. /\ ReadWrite(1) \in Entry /\ ReadWrite(2) \in Entry /\ ReadWrite(3) \in Entry
      /\ ReadWrite(4) \in Entry /\ ReadOnly(KernelFrame) \in Entry /\ NoEntry \in Entry
  <2>1. 1 \in Frame /\ 2 \in Frame /\ 3 \in Frame /\ 4 \in Frame /\ KernelFrame \in Frame
    BY MemoryAssumption DEF Frame, KernelFrame
  <2>. QED BY <2>1, EntryKinds
<1>3. Empty \in [Cells -> Entry]
  BY <1>2 DEF Empty
<1>4. FirstSpace \in [Cells -> Entry]
  BY <1>2, <1>3 DEF FirstSpace
<1>. QED BY <1>1, <1>3, <1>4 DEF FirstSpace, Empty

(* It is made of one mapping of the kernel's code and four allocations.     *)
LEMMA FirstGood == ASSUME Init PROVE Good(refs, Sp, 0)
<1>. DEFINE S0 == [NoSpace EXCEPT ![1][CodePage] = ReadOnly(KernelFrame)]
            S1 == [S0 EXCEPT ![1][Dir] = ReadWrite(1)]
            S2 == [S1 EXCEPT ![1][Table(0)] = ReadWrite(2)]
            S3 == [S2 EXCEPT ![1][StackPage] = ReadWrite(3)]
            S4 == [S3 EXCEPT ![1][Table(3)] = ReadWrite(4)]
            R1 == [NoRefs EXCEPT ![1] = 1]
            R2 == [R1 EXCEPT ![2] = 1]
            R3 == [R2 EXCEPT ![3] = 1]
            R4 == [R3 EXCEPT ![4] = 1]
<1>1. /\ 1 \in 1 .. FRAMES /\ 2 \in 1 .. FRAMES /\ 3 \in 1 .. FRAMES /\ 4 \in 1 .. FRAMES
      /\ 1 \in Spaces /\ 1 \in Slot
  BY MemoryAssumption, SlotKinds
<1>2. /\ Dir \in Cells /\ Table(0) \in Cells /\ Table(3) \in Cells
      /\ StackPage \in Cells /\ CodePage \in Cells
      /\ Dir \notin Pages /\ Table(0) \notin Pages /\ Table(3) \notin Pages
      /\ Dir # Table(0) /\ Dir # Table(3) /\ Dir # StackPage /\ Dir # CodePage
      /\ Table(0) # StackPage /\ Table(0) # CodePage /\ Table(3) # StackPage
      /\ Table(3) # CodePage /\ Table(0) # Table(3) /\ StackPage # CodePage
  BY CellKinds
<1>3. /\ 1 \in Frame /\ 2 \in Frame /\ 3 \in Frame /\ 4 \in Frame
      /\ \A f \in Frame : NoRefs[f] = IF f = KernelFrame THEN 1 ELSE 0
      /\ KernelFrame \notin 1 .. FRAMES
  BY <1>1, SlotKinds DEF NoRefs
<1>4. Good(NoRefs, S0, 0)
  BY <1>1, MapCode
<1>5. \A o \in Spaces, c \in Cells :
         S0[o][c] = IF o = 1 /\ c = CodePage THEN ReadOnly(KernelFrame) ELSE NoEntry
  BY <1>1, <1>2 DEF NoSpace, Empty
<1>6. \A o \in Spaces, c \in Cells : c # CodePage => S0[o][c].f = 0
  BY <1>5, EntryKinds
<1>7. S0 \in [Spaces -> [Cells -> Entry]] /\ NoRefs \in [Frame -> 0 .. MAX_REFS]
  BY <1>4 DEF Good
<1>. HIDE DEF S0
<1>8. Good(R1, S1, 0)
  <2>1. S0[1][Dir].f = 0 /\ NoRefs[1] = 0
    BY <1>1, <1>2, <1>3, <1>6
  <2>. QED BY <1>1, <1>2, <1>4, <2>1, Alloc
<1>9. /\ S1 \in [Spaces -> [Cells -> Entry]] /\ R1 \in [Frame -> 0 .. MAX_REFS]
      /\ \A o \in Spaces, c \in Cells :
            S1[o][c] = IF o = 1 /\ c = Dir THEN ReadWrite(1) ELSE S0[o][c]
      /\ \A f \in Frame : R1[f] = IF f = 1 THEN 1 ELSE NoRefs[f]
  BY <1>7, <1>8 DEF Good
<1>. HIDE DEF S1, R1
<1>10. Good(R2, S2, 0)
  <2>1. S1[1][Table(0)].f = 0 /\ R1[2] = 0
    BY <1>1, <1>2, <1>3, <1>6, <1>9
  <2>. QED BY <1>1, <1>2, <1>8, <2>1, Alloc
<1>11. /\ S2 \in [Spaces -> [Cells -> Entry]] /\ R2 \in [Frame -> 0 .. MAX_REFS]
       /\ \A o \in Spaces, c \in Cells :
             S2[o][c] = IF o = 1 /\ c = Table(0) THEN ReadWrite(2) ELSE S1[o][c]
       /\ \A f \in Frame : R2[f] = IF f = 2 THEN 1 ELSE R1[f]
  BY <1>9, <1>10 DEF Good
<1>. HIDE DEF S2, R2
<1>12. Good(R3, S3, 0)
  <2>1. S2[1][StackPage].f = 0 /\ R2[3] = 0
    BY <1>1, <1>2, <1>3, <1>6, <1>9, <1>11
  <2>. QED BY <1>1, <1>2, <1>10, <2>1, Alloc, CellKinds
<1>13. /\ S3 \in [Spaces -> [Cells -> Entry]] /\ R3 \in [Frame -> 0 .. MAX_REFS]
       /\ \A o \in Spaces, c \in Cells :
             S3[o][c] = IF o = 1 /\ c = StackPage THEN ReadWrite(3) ELSE S2[o][c]
       /\ \A f \in Frame : R3[f] = IF f = 3 THEN 1 ELSE R2[f]
  BY <1>11, <1>12 DEF Good
<1>. HIDE DEF S3, R3
<1>14. Good(R4, S4, 0)
  <2>1. S3[1][Table(3)].f = 0 /\ R3[4] = 0
    BY <1>1, <1>2, <1>3, <1>6, <1>9, <1>11, <1>13
  <2>. QED BY <1>1, <1>2, <1>12, <2>1, Alloc
<1>15. /\ S4 \in [Spaces -> [Cells -> Entry]] /\ R4 \in [Frame -> 0 .. MAX_REFS]
       /\ \A o \in Spaces, c \in Cells :
             S4[o][c] = IF o = 1 /\ c = Table(3) THEN ReadWrite(4) ELSE S3[o][c]
       /\ \A f \in Frame : R4[f] = IF f = 4 THEN 1 ELSE R3[f]
  BY <1>13, <1>14 DEF Good
<1>. HIDE DEF S4, R4
<1>16. refs = R4
  <2>1. refs = [f \in Frame |-> IF f \in 1 .. 4 \cup {KernelFrame} THEN 1 ELSE 0]
    BY DEF Init
  <2>2. ASSUME NEW f \in Frame PROVE refs[f] = R4[f]
    <3>1. R4[f] = IF f \in {1, 2, 3, 4, KernelFrame} THEN 1 ELSE 0
      BY <1>3, <1>9, <1>11, <1>13, <1>15
    <3>2. f \in 1 .. 4 \cup {KernelFrame} <=> f \in {1, 2, 3, 4, KernelFrame}
      <4>1. f \in Nat
        BY MemoryAssumption DEF Frame, KernelFrame
      <4>. QED BY <4>1
    <3>. QED BY <2>1, <3>1, <3>2
  <2>. QED BY <1>15, <2>1, <2>2
<1>17. Sp = S4
  <2>1. space[1] = FirstSpace /\ (\A p \in Slot : p # 1 => space[p] = Empty) /\ nw = Empty
    BY <1>1 DEF Init, FirstSpace
  <2>2. /\ \A o \in Spaces : Sp[o] = IF o = 1 THEN FirstSpace ELSE Empty
        /\ Sp = [o \in Spaces |-> Sp[o]]
    <3>1. \A o \in Spaces : Sp[o] = IF o = 0 THEN nw ELSE space[o]
      BY DEF Sp, SpaceOf
    <3>. QED BY <2>1, <3>1, SlotKinds DEF Sp
  <2>3. ASSUME NEW o \in Spaces, NEW c \in Cells PROVE Sp[o][c] = S4[o][c]
    <3>1. CASE o = 1
      <4>1. S4[o][c] = IF c = Table(3) THEN ReadWrite(4)
                       ELSE IF c = StackPage THEN ReadWrite(3)
                       ELSE IF c = Table(0) THEN ReadWrite(2)
                       ELSE IF c = Dir THEN ReadWrite(1)
                       ELSE IF c = CodePage THEN ReadOnly(KernelFrame)
                       ELSE NoEntry
        BY <1>5, <1>9, <1>11, <1>13, <1>15, <3>1
      <4>2. Sp[o][c] = FirstSpace[c]
        BY <2>2, <3>1
      <4>3. FirstSpace[c] = IF c = CodePage THEN ReadOnly(KernelFrame)
                            ELSE IF c = Table(3) THEN ReadWrite(4)
                            ELSE IF c = StackPage THEN ReadWrite(3)
                            ELSE IF c = Table(0) THEN ReadWrite(2)
                            ELSE IF c = Dir THEN ReadWrite(1)
                            ELSE NoEntry
        BY FirstIs
      <4>. QED BY <1>2, <4>1, <4>2, <4>3
    <3>2. CASE o # 1
      BY <1>5, <1>9, <1>11, <1>13, <1>15, <2>2, <3>2 DEF Empty
    <3>. QED BY <3>1, <3>2
  <2>4. ASSUME NEW o \in Spaces PROVE Sp[o] = S4[o]
    <3>1. Sp[o] = [c \in Cells |-> Sp[o][c]]
      <4>1. FirstSpace = [c \in Cells |-> FirstSpace[c]]
        BY FirstIs
      <4>. QED BY <2>2, <4>1 DEF Empty
    <3>2. S4[o] = [c \in Cells |-> S4[o][c]]
      BY <1>15
    <3>. QED BY <2>3, <3>1, <3>2
  <2>. QED BY <1>15, <2>2, <2>4
<1>. QED BY <1>14, <1>16, <1>17

(* The invariant holds when the first program starts.                       *)
LEMMA InitGood == ASSUME Init PROVE MemInv
<1>1. /\ data = [f \in Frame |-> 0]
      /\ space = [p \in Slot |-> IF p = 1 THEN FirstSpace ELSE Empty]
      /\ life = [p \in Slot |-> IF p = 1 THEN "live" ELSE "dead"]
      /\ heap_end = [p \in Slot |-> 0]
      /\ cur = 1 /\ tlb = NoTlb /\ pc = "user" /\ nw = Empty /\ built = 0
  BY DEF Init, FirstSpace
<1>2. Good(refs, Sp, Sharer)
  BY <1>1, FirstGood DEF Sharer
<1>3. Empty \in [Cells -> Entry] /\ \A c \in Cells : Empty[c] = NoEntry
  BY EntryKinds DEF Empty
<1>4. MemTypes
  <2>1. PROCESS_HEAP_LIMIT \in Nat
    BY MemoryAssumption DEF PROCESS_HEAP_LIMIT
  <2>2. 0 \in Contents /\ 0 \in 0 .. MaxBuilt /\ 0 \in 0 .. PROCESS_HEAP_LIMIT
    BY <2>1, MemoryAssumption
  <2>3. tlb \in [Pages -> Entry]
    BY <1>1, EntryKinds DEF NoTlb
  <2>4. space \in [Slot -> [Cells -> Entry]] /\ nw \in [Cells -> Entry]
    BY <1>1, <1>3, FirstIs
  <2>5. life \in [Slot -> {"dead", "live", "zombie"}] /\ cur \in Slot \cup {0}
    BY <1>1, SlotKinds
  <2>. QED BY <1>1, <2>2, <2>3, <2>4, <2>5 DEF MemTypes
<1>5. FirstSpace[Dir].f # 0 /\ Under(FirstSpace)
  <2>1. /\ 1 \in Frame /\ 2 \in Frame /\ 4 \in Frame
        /\ ReadWrite(1).f = 1 /\ ReadWrite(2).f = 2 /\ ReadWrite(4).f = 4
        /\ NoEntry.f = 0
    <3>1. 1 \in Frame /\ 2 \in Frame /\ 4 \in Frame
      BY MemoryAssumption DEF Frame, KernelFrame
    <3>. QED BY <3>1, EntryKinds
  <2>2. FirstSpace[Dir].f # 0
    BY <2>1, FirstIs, CellKinds
  <2>3. FirstSpace[Table(0)].f # 0 /\ FirstSpace[Table(3)].f # 0
    BY <2>1, FirstIs, CellKinds
  <2>4. \A c \in Pages : FirstSpace[c].f # 0 => c = CodePage \/ c = StackPage
    BY <2>1, FirstIs, CellKinds
  <2>. QED BY <2>2, <2>3, <2>4, TableKinds DEF Under
<1>6. Inhabited
  BY <1>1, <1>5, SlotKinds DEF Inhabited
<1>7. Tabled
  <2>1. Under(Empty)
    BY <1>3, EntryKinds, CellKinds DEF Under
  <2>. QED BY <1>1, <1>5, <2>1 DEF Tabled
<1>8. Progress
  BY <1>1 DEF Progress
<1>9. Coherent
  BY <1>1, EntryKinds DEF Coherent, NoTlb
<1>10. HeapBelowBreak
  <2>1. ASSUME NEW p \in Slot, NEW c \in HeapPages PROVE space[p][c].f = 0
    <3>1. c \in Cells /\ c # CodePage /\ c # StackPage /\ c # Dir /\ c # Table(0) /\ c # Table(3)
      BY CellKinds
    <3>2. FirstSpace[c] = NoEntry
      BY <3>1, FirstIs
    <3>. QED BY <1>1, <1>3, <3>1, <3>2, EntryKinds
  <2>. QED BY <2>1 DEF HeapBelowBreak
<1>. QED BY <1>2, <1>4, <1>6, <1>7, <1>8, <1>9, <1>10 DEF MemInv

(* Every step keeps it.                                                     *)
LEMMA NextStep == ASSUME MemInv, [Next]_vars PROVE MemInv'
<1>1. CASE ForkStep
  <2>1. ASSUME ForkFails PROVE MemInv'
    BY <2>1, GiveUpStep DEF ForkFails
  <2>. QED BY <1>1, <2>1, ForkBeginStep, CloneTableStep, CloneTablesDoneStep, RetainStep,
              CommitStep, ForkDoneStep DEF ForkStep
<1>2. CASE ExecStep
  <2>1. ASSUME ExecRejects PROVE MemInv'
    BY <2>1, GiveUpStep DEF ExecRejects
  <2>. QED BY <1>2, <2>1, ExecBeginStep, ExecMapStep, ExecCommitStep DEF ExecStep
<1>3. CASE Undo
  BY <1>3, UndoStep
<1>4. CASE UserStep
  BY <1>4, UserStepStep
<1>5. CASE UNCHANGED vars
  <2>1. Good(refs, Sp, Sharer)' /\ MemTypes'
    <3>1. Sp' = Sp
      BY <1>5, SpSteps DEF vars
    <3>. QED BY <1>5, <3>1 DEF MemInv, MemTypes, Sharer, vars
  <2>2. Inhabited' /\ Tabled' /\ Coherent' /\ HeapBelowBreak'
    BY <1>5 DEF MemInv, Inhabited, Tabled, Coherent, HeapBelowBreak, Parent, vars
  <2>3. Progress'
    BY <1>5 DEF MemInv, Progress, Dead, Shareable, Retainable, PagesOf, Parent, TablesToDo,
       PagesToDo, vars
  <2>. QED BY <2>1, <2>2, <2>3 DEF MemInv
<1>. QED BY <1>1, <1>2, <1>3, <1>4, <1>5 DEF Next, Halted

LEMMA MemInvariant == Spec => []MemInv
<1>1. Init => MemInv
  BY InitGood
<1>2. MemInv /\ [Next]_vars => MemInv'
  BY NextStep
<1>. QED BY <1>1, <1>2, PTL DEF Spec

-----------------------------------------------------------------------------
(* The theorems *)

(* Owners is Uses, of the spaces there are.                                 *)
LEMMA OwnersAre == ASSUME NEW f PROVE Owners(f) = Uses(Sp, f)
<1>1. \A o \in Spaces : Sp[o] = SpaceOf(o)
  BY DEF Sp
<1>. QED BY <1>1 DEF Owners, Uses, Spaces

(* Counts, tables and the break stay in their ranges: a reference count     *)
(* never passes frame_refcounts' limit, and no space is left under          *)
(* construction when the program runs again.                                *)
THEOREM MemoryTypes == Spec => []TypeOK
<1>1. ASSUME MemInv PROVE TypeOK
  <2>1. refs \in [Frame -> 0 .. MAX_REFS] /\ MemTypes /\ Inhabited
    BY <1>1 DEF MemInv, Good
  <2>2. Empty[Dir].f = 0
    BY CellKinds, EntryKinds DEF Empty
  <2>3. pc = "user" <=> nw = Empty
    BY <2>1, <2>2 DEF Inhabited
  <2>. QED BY <2>1, <2>3 DEF TypeOK, MemTypes
<1>. QED BY <1>1, MemInvariant, PTL

(* frame.c's reference counts are exact in every state, whatever step of    *)
(* fork, exec, brk, a fault or an exit ran out of frames.                   *)
THEOREM FramesCounted == Spec => []RefsExact
<1>1. ASSUME MemInv PROVE RefsExact
  <2>1. Counted(refs, Sp)
    BY <1>1 DEF MemInv, Good
  <2>2. ASSUME NEW f \in Frame
        PROVE  refs[f] = IF f = KernelFrame /\ Cardinality(Owners(f)) = 0
                         THEN 1 ELSE Cardinality(Owners(f))
    BY <2>1, OwnersAre DEF Counted, CountFor
  <2>. QED BY <2>2 DEF RefsExact
<1>. QED BY <1>1, MemInvariant, PTL

(* Copy-on-write leaves no frame writable in one space and mapped in        *)
(* another; tables and directories are never shared, in no step of fork.    *)
THEOREM WritersAlone == Spec => []NoWritableAlias
<1>1. ASSUME MemInv PROVE NoWritableAlias
  <2>1. Good(refs, Sp, Sharer) /\ (pc = "user" => Sharer = 0)
    BY <1>1 DEF MemInv, Sharer
  <2>2. ASSUME NEW p \in Slot, NEW c \in Cells, space[p][c].w, c \notin Pages \/ pc = "user"
        PROVE  Cardinality(Owners(space[p][c].f)) = 1
    <3>1. p \in Spaces /\ Sp[p] = space[p]
      BY SlotKinds, SpIs
    <3>2. Cardinality(Uses(Sp, Sp[p][c].f)) = 1
      BY <2>1, <2>2, <3>1, Alone
    <3>. QED BY <3>1, <3>2, OwnersAre
  <2>. QED BY <2>2 DEF NoWritableAlias
<1>. QED BY <1>1, MemInvariant, PTL

(* paging_clone_directory's second pass over the parent's pages never finds *)
(* a count at its limit: the first pass has looked at every one of them.    *)
THEOREM RetainNeverFails == Spec => []RetainSucceeds
<1>1. ASSUME MemInv PROVE RetainSucceeds
  BY <1>1 DEF MemInv, Progress, RetainSucceeds
<1>. QED BY <1>1, MemInvariant, PTL

(* sys_brk, the page fault and copy_to_user never leave a heap page mapped  *)
(* above the break.                                                         *)
THEOREM HeapTrimmed == Spec => []HeapBelowBreak
<1>1. ASSUME MemInv PROVE HeapBelowBreak
  BY <1>1 DEF MemInv
<1>. QED BY <1>1, MemInvariant, PTL

-----------------------------------------------------------------------------
(* Shared frames are invisible: the refinement of PrivateMemory *)

(* What a program reads, page by page.                                      *)
Reads(s, d, c) == IF s[c].f = 0 THEN NoPage ELSE d[s[c].f]

LEMMA ViewIs ==
    /\ View = [p \in Slot |-> [c \in Pages |-> Reads(space[p], data, c)]]
    /\ View' = [p \in Slot |-> [c \in Pages |-> Reads(space'[p], data', c)]]
BY DEF View, Reads

(* What the steps of PrivateMemory are.                                     *)
LEMMA PrivateSteps ==
    /\ View' = View /\ cur' = cur => [Private!Next]_<<View, cur>>
    /\ View' = View /\ cur' # cur => [Private!Next]_<<View, cur>>
    /\ \A c \in Pages, v \in Contents :
          cur \in Slot /\ cur' = cur /\ View' = [View EXCEPT ![cur][c] = v]
          => [Private!Next]_<<View, cur>>
    /\ \A C \in SUBSET Pages :
          cur \in Slot /\ cur' = cur
          /\ View' = [View EXCEPT ![cur] = [c \in Pages |-> IF c \in C THEN NoPage ELSE @[c]]]
          => [Private!Next]_<<View, cur>>
    /\ \A C \in SUBSET Pages :
          cur \in Slot /\ cur' = cur
          /\ View' = [View EXCEPT ![cur] = [c \in Pages |-> IF c \in C THEN 0 ELSE NoPage]]
          => [Private!Next]_<<View, cur>>
    /\ \A p \in Slot \ {cur} :
          cur \in Slot /\ cur' = cur /\ View[p] = [c \in Pages |-> NoPage]
          /\ View' = [View EXCEPT ![p] = View[cur]]
          => [Private!Next]_<<View, cur>>
    /\ \A p \in Slot \ {cur} :
          cur \in Slot /\ cur' = cur
          /\ View' = [View EXCEPT ![p] = [c \in Pages |-> NoPage]]
          => [Private!Next]_<<View, cur>>
BY DEF Private!Next, Private!Access, Private!Switch, Private!Store, Private!Unmap,
   Private!Exec, Private!Fork, Private!Free, Private!Image, Private!Nothing

(* The first program: its code and its stack, zeroed.                       *)
LEMMA PrivateInit == ASSUME Init PROVE Private!Init
<1>. DEFINE C == {CodePage, StackPage}
            V == [p \in Slot |->
                    IF p = 1 THEN [c \in Pages |-> IF c \in C THEN 0 ELSE NoPage]
                    ELSE [c \in Pages |-> NoPage]]
<1>1. /\ data = [f \in Frame |-> 0] /\ cur = 1
      /\ space = [p \in Slot |-> IF p = 1 THEN FirstSpace ELSE Empty]
  BY DEF Init, FirstSpace
<1>2. ASSUME NEW c \in Pages
      PROVE  Reads(FirstSpace, data, c) = IF c \in C THEN 0 ELSE NoPage
  <2>1. /\ c \in Cells /\ c # Dir /\ c # Table(0) /\ c # Table(3)
    BY CellKinds
  <2>2. 3 \in Frame /\ KernelFrame \in Frame /\ 0 \notin Frame
    BY MemoryAssumption, SlotKinds DEF Frame, KernelFrame
  <2>3. ReadWrite(3).f = 3 /\ ReadOnly(KernelFrame).f = KernelFrame /\ NoEntry.f = 0
    BY <2>2, EntryKinds
  <2>4. FirstSpace[c].f = IF c = CodePage THEN KernelFrame ELSE IF c = StackPage THEN 3 ELSE 0
    BY <2>1, <2>3, FirstIs
  <2>. QED BY <1>1, <2>2, <2>4 DEF Reads
<1>3. ASSUME NEW c \in Pages PROVE Reads(Empty, data, c) = NoPage
  BY CellKinds, EntryKinds DEF Reads, Empty
<1>4. View = V
  BY <1>1, <1>2, <1>3, ViewIs
<1>5. C \in SUBSET Pages
  BY CellKinds
<1>. QED BY <1>1, <1>4, <1>5 DEF Private!Init, Private!Image, Private!Nothing

(* What no page shows may change.                                           *)
LEMMA Unseen ==
    ASSUME \A p \in Slot, c \in Pages :
              /\ space'[p][c].f = space[p][c].f
              /\ space[p][c].f # 0 => data'[space[p][c].f] = data[space[p][c].f]
    PROVE  View' = View
<1>1. \A p \in Slot, c \in Pages : Reads(space'[p], data', c) = Reads(space[p], data, c)
  BY DEF Reads
<1>. QED BY <1>1, ViewIs

(* A free frame is behind no page.                                          *)
LEMMA FreeUnseen ==
    ASSUME MemInv, NEW fr \in Frame, refs[fr] = 0
    PROVE  \A p \in Slot, c \in Pages : space[p][c].f # fr
<1>1. Counted(refs, Sp)
  BY DEF MemInv, Good
<1>2. \A o \in Spaces, c \in Cells : Sp[o][c].f # fr
  BY <1>1, Unused
<1>. QED BY <1>2, SpIs, SlotKinds, CellKinds

(* Pages are behind frames.                                                 *)
LEMMA PageFrames ==
    ASSUME MemInv, NEW p \in Slot, NEW c \in Pages
    PROVE  /\ space[p] \in [Cells -> Entry] /\ c \in Cells /\ p \in Spaces
           /\ space[p][c].f \in Frame \cup {0} /\ space[p] = Sp[p]
           /\ data \in [Frame -> Contents]
<1>1. space[p] \in [Cells -> Entry] /\ c \in Cells /\ data \in [Frame -> Contents]
  BY CellKinds DEF MemInv, MemTypes
<1>. QED BY <1>1, EntryKinds, SpIs, SlotKinds

(* Building a space shows in no program: fork and exec write to frames that *)
(* were free and to tables.                                                 *)
LEMMA HiddenStep ==
    ASSUME MemInv, NEW F \in SUBSET Frame,
           UNCHANGED <<space, cur>>,
           \A f \in Frame : f \notin F => data'[f] = data[f],
           \A p \in Slot, c \in Pages : space[p][c].f \notin F
    PROVE  [Private!Next]_<<View, cur>>
<1>1. ASSUME NEW p \in Slot, NEW c \in Pages
      PROVE  /\ space'[p][c].f = space[p][c].f
             /\ space[p][c].f # 0 => data'[space[p][c].f] = data[space[p][c].f]
  BY PageFrames
<1>2. View' = View
  BY <1>1, Unseen
<1>. QED BY <1>2, PrivateSteps

LEMMA QuietStep ==
    ASSUME UNCHANGED <<space, data>> PROVE [Private!Next]_<<View, cur>>
<1>1. View' = View
  BY ViewIs
<1>. QED BY <1>1, PrivateSteps

(* fork shows nothing before it is done: Commit protects pages and moves    *)
(* none of them.                                                            *)
LEMMA ForkHidden ==
    ASSUME MemInv, ForkBegin \/ CloneTable \/ CloneTablesDone \/ Retain \/ Commit \/ ForkFails
    PROVE  [Private!Next]_<<View, cur>>
<1>1. ASSUME NEW fr, fr = paging_alloc_frame(refs), fr # 0,
             data' = [data EXCEPT ![fr] = 0], UNCHANGED <<space, cur>>
      PROVE  [Private!Next]_<<View, cur>>
  <2>1. fr \in Frame /\ refs[fr] = 0
    BY <1>1, AllocFinds, SlotKinds
  <2>2. \A p \in Slot, c \in Pages : space[p][c].f \notin {fr}
    BY <2>1, FreeUnseen
  <2>3. \A f \in Frame : f \notin {fr} => data'[f] = data[f]
    BY <1>1 DEF MemInv, MemTypes
  <2>. QED BY <1>1, <2>1, <2>2, <2>3, HiddenStep
<1>2. CASE ForkBegin
  BY <1>1, <1>2 DEF ForkBegin
<1>3. CASE CloneTable
  <2>1. /\ UNCHANGED <<space, cur>>
        /\ \/ paging_alloc_frame(refs) # 0 /\ data' = [data EXCEPT ![paging_alloc_frame(refs)] = 0]
           \/ UNCHANGED data
    BY <1>3 DEF CloneTable
  <2>. QED BY <1>1, <2>1, QuietStep
<1>4. CASE CloneTablesDone \/ Retain \/ ForkFails
  BY <1>4, QuietStep DEF CloneTablesDone, Retain, ForkFails
<1>5. CASE Commit
  <2>1. /\ data' = data /\ cur' = cur /\ pc = "retain"
        /\ space' = [space EXCEPT ![cur] = Protect(space[cur])]
    BY <1>5 DEF Commit, ParentAfterClone
  <2>2. space \in [Slot -> [Cells -> Entry]]
    BY DEF MemInv, MemTypes
  <2>3. ASSUME NEW p \in Slot, NEW c \in Pages PROVE space'[p][c].f = space[p][c].f
    <3>1. c \in Cells /\ space[p][c] \in Entry
      BY PageFrames
    <3>2. Protect(space[p])[c].f = space[p][c].f
      BY <3>1 DEF Protect, Entry
    <3>. QED BY <2>1, <2>2, <3>2
  <2>4. View' = View
    BY <2>1, <2>3, Unseen
  <2>. QED BY <2>1, <2>4, PrivateSteps
<1>. QED BY <1>2, <1>3, <1>4, <1>5

(* When it is done the child reads what its parent reads.                   *)
LEMMA ForkShown == ASSUME MemInv, ForkDone PROVE [Private!Next]_<<View, cur>>
<1>1. /\ pc = "inherit" /\ data' = data /\ cur' = cur
      /\ space' = [space EXCEPT ![Child] = nw]
  BY DEF ForkDone
<1>2. cur # 0 /\ Dead # {} /\ \A c \in Pages : nw[c] = Parent[c]
  BY <1>1 DEF MemInv, Inhabited, Progress
<1>3. cur \in Slot /\ life[cur] = "live" /\ Parent = space[cur]
  BY <1>2, Here
<1>4. Child \in Slot /\ life[Child] = "dead"
  <2>1. Dead \subseteq Nat
    BY MemoryAssumption DEF Dead, Slot
  <2>2. Child \in Dead
    BY <1>2, <2>1, LowestIn DEF Child
  <2>. QED BY <2>2 DEF Dead
<1>. HIDE DEF Child
<1>5. Child # cur
  BY <1>3, <1>4
<1>6. space[Child] = Empty /\ space \in [Slot -> [Cells -> Entry]]
  BY <1>4 DEF MemInv, Inhabited, MemTypes
<1>7. View[Child] = [c \in Pages |-> NoPage]
  <2>1. \A c \in Pages : Reads(Empty, data, c) = NoPage
    BY CellKinds, EntryKinds DEF Reads, Empty
  <2>. QED BY <1>4, <1>6, <2>1, ViewIs
<1>8. View' = [View EXCEPT ![Child] = View[cur]]
  <2>1. \A c \in Pages : Reads(nw, data, c) = Reads(space[cur], data, c)
    BY <1>2, <1>3 DEF Reads
  <2>2. \A p \in Slot : space'[p] = IF p = Child THEN nw ELSE space[p]
    BY <1>1, <1>6
  <2>3. View[cur] = [c \in Pages |-> Reads(nw, data, c)]
    BY <1>3, <2>1, ViewIs
  <2>. QED BY <1>1, <2>2, <2>3, ViewIs
<1>. QED BY <1>1, <1>3, <1>4, <1>5, <1>7, <1>8, PrivateSteps

(* exec shows nothing before the point of no return.                        *)
LEMMA ExecHidden ==
    ASSUME MemInv, ExecBegin \/ ExecMap \/ ExecRejects \/ Undo
    PROVE  [Private!Next]_<<View, cur>>
<1>1. CASE ExecRejects \/ Undo
  BY <1>1, QuietStep DEF ExecRejects, Undo
<1>2. CASE ExecBegin
  <2>. DEFINE d == paging_alloc_frame(refs)
              r == [refs EXCEPT ![d] = 1]
              t == paging_alloc_frame(r)
  <2>1. /\ d # 0 /\ UNCHANGED <<space, cur>>
        /\ \/ t # 0 /\ data' = [data EXCEPT ![d] = 0, ![t] = 0]
           \/ data' = [data EXCEPT ![d] = 0]
    BY <1>2 DEF ExecBegin
  <2>2. d \in Frame /\ refs[d] = 0
    BY <2>1, AllocFinds, SlotKinds
  <2>3. t # 0 => t \in Frame /\ r[t] = 0
    BY AllocFinds, SlotKinds
  <2>. HIDE DEF d, t
  <2>4. refs \in [Frame -> 0 .. MAX_REFS] /\ data \in [Frame -> Contents]
    BY DEF MemInv, Good, MemTypes
  <2>5. t # 0 => t \in Frame /\ refs[t] = 0
    BY <2>2, <2>3, <2>4
  <2>. DEFINE F == {f \in Frame : refs[f] = 0}
  <2>6. \A f \in Frame : f \notin F => data'[f] = data[f]
    BY <2>1, <2>2, <2>4, <2>5
  <2>7. \A p \in Slot, c \in Pages : space[p][c].f \notin F
    BY FreeUnseen
  <2>8. F \in SUBSET Frame
    OBVIOUS
  <2>. HIDE DEF F
  <2>. QED BY <2>1, <2>6, <2>7, <2>8, HiddenStep
<1>3. CASE ExecMap
  <2>. DEFINE c == First(ImageToDo)
              fr == frame_alloc(refs)
              r == [refs EXCEPT ![fr] = 1]
              t == MapTable(nw, c, r)
              e == IF c = StackPage THEN ReadWrite(fr) ELSE ReadOnly(fr)
  <2>1. /\ pc = "load" /\ ImageToDo # {} /\ UNCHANGED <<space, cur>>
        /\ \/ fr # 0 /\ t # 0 /\ data' = [data EXCEPT ![fr] = 0, ![t] = 0]
           \/ UNCHANGED data
    BY <1>3 DEF ExecMap
  <2>2. c \in Pages /\ nw[c].f = 0
    <3>1. ImageToDo \subseteq Pages /\ Pages \subseteq Cells
      BY CellKinds DEF ImageToDo
    <3>2. c \in ImageToDo
      BY <2>1, <3>1, FirstIn
    <3>. QED BY <3>1, <3>2 DEF ImageToDo
  <2>3. CASE UNCHANGED data
    BY <2>1, <2>3, QuietStep
  <2>4. CASE fr # 0 /\ t # 0 /\ data' = [data EXCEPT ![fr] = 0, ![t] = 0]
    <3>1. fr \in 1 .. FRAMES /\ refs[fr] = 0 /\ fr \in Frame
      BY <2>4, AllocFinds, SlotKinds
    <3>2. Sp[0] = nw /\ 0 \in Spaces /\ Good(refs, Sp, Sharer) /\ data \in [Frame -> Contents]
      BY SpIs, SlotKinds DEF MemInv, MemTypes
    <3>3. TakesPage(refs, Sp[0], c, fr, e, t)
      BY <2>2, <2>4, <3>1, <3>2 DEF TakesPage
    <3>. HIDE DEF c, fr, e, t
    <3>4. PageTaken(refs, Sp, Sharer, 0, c, fr, e, t)
      BY <2>2, <3>2, <3>3, MapPage
    <3>5. t \in Frame /\ \A q \in Spaces, d \in Pages : Sp[q][d].f # t
      BY <3>4 DEF PageTaken
    <3>6. \A p \in Slot, d \in Pages : space[p][d].f \notin {fr, t}
      BY <3>1, <3>5, FreeUnseen, SpIs, SlotKinds
    <3>7. \A f \in Frame : f \notin {fr, t} => data'[f] = data[f]
      BY <2>4, <3>2
    <3>. QED BY <2>1, <3>1, <3>5, <3>6, <3>7, HiddenStep
  <2>. QED BY <2>1, <2>3, <2>4
<1>. QED BY <1>1, <1>2, <1>3

(* There it shows the new image, zeroed, and nothing of the old one.        *)
LEMMA ExecShown == ASSUME MemInv, ExecCommit PROVE [Private!Next]_<<View, cur>>
<1>1. /\ pc = "load" /\ ImageToDo = {} /\ data' = data /\ cur' = cur
      /\ space' = [space EXCEPT ![cur] = nw]
  BY DEF ExecCommit
<1>2. /\ cur # 0 /\ space \in [Slot -> [Cells -> Entry]]
      /\ \A c \in Pages \ ImagePages : nw[c] = NoEntry
      /\ \A c \in Pages : nw[c].f # 0 => data[nw[c].f] = 0
  BY <1>1 DEF MemInv, Inhabited, Progress, MemTypes
<1>3. cur \in Slot
  BY <1>2, Here
<1>4. ASSUME NEW c \in Pages
      PROVE  Reads(nw, data, c) = IF c \in ImagePages THEN 0 ELSE NoPage
  <2>1. c \in ImagePages => nw[c].f # 0
    BY <1>1 DEF ImageToDo
  <2>. QED BY <1>2, <2>1, EntryKinds DEF Reads
<1>5. \A p \in Slot : space'[p] = IF p = cur THEN nw ELSE space[p]
  BY <1>1, <1>2
<1>6. View' = [View EXCEPT ![cur] = [c \in Pages |-> IF c \in ImagePages THEN 0 ELSE NoPage]]
  BY <1>1, <1>3, <1>4, <1>5, ViewIs
<1>7. ImagePages \in SUBSET Pages
  BY CellKinds
<1>. QED BY <1>1, <1>3, <1>6, <1>7, PrivateSteps

(* A store: page c of the running program is in frame f, which now holds v  *)
(* and which is behind no other page.                                       *)
LEMMA StoreShown ==
    ASSUME MemInv, cur \in Slot, UNCHANGED cur, NEW c \in Pages, NEW v \in Contents,
           NEW f \in Frame, space'[cur][c].f = f, data'[f] = v,
           \A p \in Slot, d \in Pages : ~(p = cur /\ d = c) =>
              /\ space'[p][d].f = space[p][d].f
              /\ space[p][d].f # 0 => data'[space[p][d].f] = data[space[p][d].f]
    PROVE  [Private!Next]_<<View, cur>>
<1>1. Reads(space'[cur], data', c) = v
  BY SlotKinds DEF Reads
<1>2. ASSUME NEW p \in Slot, NEW d \in Pages, ~(p = cur /\ d = c)
      PROVE  Reads(space'[p], data', d) = Reads(space[p], data, d)
  BY <1>2 DEF Reads
<1>3. View' = [View EXCEPT ![cur][c] = v]
  <2>. DEFINE V == [View EXCEPT ![cur][c] = v]
  <2>1. V = [p \in Slot |-> [d \in Pages |-> IF p = cur /\ d = c THEN v
                                             ELSE Reads(space[p], data, d)]]
    BY ViewIs
  <2>. HIDE DEF V
  <2>2. View' = V
    BY <1>1, <1>2, <2>1, ViewIs
  <2>. QED BY <2>2 DEF V
<1>. QED BY <1>3, PrivateSteps

(* A store through a writable entry: the frame is behind that page alone.   *)
LEMMA WriteShown ==
    ASSUME MemInv, Running, UNCHANGED <<space, cur>>, NEW c \in Pages, NEW v \in Contents,
           Parent[c].w, data' = [data EXCEPT ![Parent[c].f] = v]
    PROVE  [Private!Next]_<<View, cur>>
<1>1. /\ cur \in Slot /\ cur \in Spaces /\ Parent = Sp[cur] /\ Parent = space[cur]
      /\ Good(refs, Sp, 0) /\ data \in [Frame -> Contents] /\ c \in Cells
  BY Before, CellKinds
<1>. DEFINE f == Parent[c].f
<1>2. f \in Frame /\ \A q \in Spaces, d \in Cells : Sp[q][d].f = f => q = cur /\ d = c
  <2>1. Sp[cur][c] \in Entry /\ Sp[cur][c].w
    BY <1>1 DEF Good
  <2>2. f \in Frame /\ f # 0
    <3>1. Sp[cur][c].f = 0 => Sp[cur][c] = NoEntry
      BY <1>1 DEF Good, Sane
    <3>. QED BY <1>1, <2>1, <3>1, EntryKinds, SlotKinds
  <2>3. ASSUME NEW q \in Spaces, NEW d \in Cells, Sp[q][d].f = f PROVE q = cur /\ d = c
    <3>0. SameCell(Sp) /\ Exclusive(Sp, 0) /\ Sp[cur][c].f = f
      BY <1>1 DEF Good
    <3>1. d = c
      <4>. HIDE DEF f
      <4>. QED BY <1>1, <2>2, <2>3, <3>0 DEF SameCell
    <3>2. q = cur
      BY <1>1, <2>1, <2>3, <3>0, <3>1 DEF Exclusive
    <3>. QED BY <3>1, <3>2
  <2>. QED BY <2>2, <2>3
<1>3. ASSUME NEW p \in Slot, NEW d \in Pages, ~(p = cur /\ d = c)
      PROVE  /\ space'[p][d].f = space[p][d].f
             /\ space[p][d].f # 0 => data'[space[p][d].f] = data[space[p][d].f]
  <2>1. p \in Spaces /\ d \in Cells /\ space[p] = Sp[p] /\ space[p][d].f \in Frame \cup {0}
    BY PageFrames
  <2>2. space[p][d].f # f
    BY <1>2, <1>3, <2>1
  <2>. QED BY <1>1, <1>2, <2>1, <2>2
<1>4. space'[cur][c].f = f /\ data'[f] = v
  BY <1>1, <1>2
<1>. QED BY <1>1, <1>2, <1>3, <1>4, StoreShown

(* A copy-on-write fault shows in the program that wrote and in no other.   *)
LEMMA CowShown ==
    ASSUME MemInv, Running, NEW c \in Pages, NEW v \in Contents, resolve_cow_fault(c, v)
    PROVE  [Private!Next]_<<View, cur>>
<1>1. PICK f \in Frame, s \in [Cells -> Entry] : Owns(c, v, f, s)
  BY CowIs
<1>2. /\ cur \in Slot /\ Parent = space[cur] /\ space \in [Slot -> [Cells -> Entry]]
      /\ data \in [Frame -> Contents] /\ c \in Cells /\ Parent \in [Cells -> Entry]
  BY Before, CellKinds
<1>3. /\ s = [Parent EXCEPT ![c] = ReadWrite(f)] /\ UNCHANGED cur
      /\ space' = [space EXCEPT ![cur] = s] /\ data' = [data EXCEPT ![f] = v]
      /\ \A q \in Spaces, d \in Cells : Sp[q][d].f = f => q = cur /\ d = c
  BY <1>1 DEF Owns
<1>4. /\ \A p \in Slot : space'[p] = IF p = cur THEN s ELSE space[p]
      /\ \A d \in Cells : s[d] = IF d = c THEN ReadWrite(f) ELSE Parent[d]
      /\ \A g \in Frame : data'[g] = IF g = f THEN v ELSE data[g]
  BY <1>2, <1>3
<1>5. ASSUME NEW p \in Slot, NEW d \in Pages, ~(p = cur /\ d = c)
      PROVE  /\ space'[p][d].f = space[p][d].f
             /\ space[p][d].f # 0 => data'[space[p][d].f] = data[space[p][d].f]
  <2>1. p \in Spaces /\ d \in Cells /\ space[p] = Sp[p] /\ space[p][d].f \in Frame \cup {0}
    BY PageFrames
  <2>2. space[p][d].f # f
    BY <1>3, <1>5, <2>1
  <2>3. space'[p][d] = space[p][d]
    BY <1>2, <1>4, <1>5, <2>1
  <2>. QED BY <1>4, <2>1, <2>2, <2>3
<1>6. space'[cur][c].f = f /\ data'[f] = v
  BY <1>2, <1>4, EntryKinds
<1>. QED BY <1>2, <1>3, <1>5, <1>6, StoreShown

(* A heap page mapped on demand appears with what the kernel stores there.  *)
LEMMA DemandShown ==
    ASSUME MemInv, Running, NEW c \in Pages, NEW v \in Contents, Parent[c].f = 0,
           demand_map_heap_page(c, v)
    PROVE  [Private!Next]_<<View, cur>>
<1>1. PICK fr \in Frame, t \in Frame, s \in [Cells -> Entry] : Gains(c, v, fr, t, s)
  BY DemandIs
<1>2. /\ cur \in Slot /\ Parent = space[cur] /\ space \in [Slot -> [Cells -> Entry]]
      /\ c \in Cells
  BY Before, CellKinds
<1>3. /\ \A d \in Cells : s[d] = IF d = c THEN ReadWrite(fr)
                                 ELSE IF d = TableOf(c) THEN ReadWrite(t) ELSE Parent[d]
      /\ space' = [space EXCEPT ![cur] = s] /\ UNCHANGED cur
      /\ \A f \in Frame : f # t => data'[f] = IF f = fr THEN v ELSE data[f]
      /\ data'[fr] = v
      /\ \A q \in Spaces, d \in Pages : Sp[q][d].f # fr /\ Sp[q][d].f # t
  BY <1>1 DEF Gains
<1>4. \A p \in Slot : space'[p] = IF p = cur THEN s ELSE space[p]
  BY <1>2, <1>3
<1>5. ASSUME NEW p \in Slot, NEW d \in Pages, ~(p = cur /\ d = c)
      PROVE  /\ space'[p][d].f = space[p][d].f
             /\ space[p][d].f # 0 => data'[space[p][d].f] = data[space[p][d].f]
  <2>1. p \in Spaces /\ d \in Cells /\ space[p] = Sp[p] /\ space[p][d].f \in Frame \cup {0}
    BY PageFrames
  <2>2. space[p][d].f # fr /\ space[p][d].f # t /\ d # TableOf(c)
    BY <1>3, <2>1, CellKinds, TableKinds
  <2>3. space'[p][d] = space[p][d]
    BY <1>2, <1>3, <1>4, <1>5, <2>1, <2>2
  <2>. QED BY <1>3, <2>1, <2>2, <2>3
<1>6. space'[cur][c].f = fr
  BY <1>2, <1>3, <1>4, EntryKinds
<1>. QED BY <1>2, <1>3, <1>5, <1>6, StoreShown

(* The pages a smaller break gives up are gone.                             *)
LEMMA BrkShown ==
    ASSUME MemInv, NEW n, Brk(n) PROVE [Private!Next]_<<View, cur>>
<1>. DEFINE C == GivenUp(n)
            s == [c \in Cells |-> IF c \in C THEN NoEntry ELSE space[cur][c]]
<1>1. Running /\ data' = data /\ cur' = cur /\ space' = [space EXCEPT ![cur] = s]
  BY DEF Brk, Does
<1>2. cur \in Slot /\ space \in [Slot -> [Cells -> Entry]]
  BY <1>1, Before
<1>3. C \in SUBSET Pages /\ Pages \subseteq Cells
  BY CellKinds DEF GivenUp
<1>. HIDE DEF C
<1>4. ASSUME NEW c \in Pages
      PROVE  Reads(s, data, c) = IF c \in C THEN NoPage ELSE Reads(space[cur], data, c)
  BY <1>3, EntryKinds DEF Reads
<1>. HIDE DEF s
<1>5. \A p \in Slot : space'[p] = IF p = cur THEN s ELSE space[p]
  BY <1>1, <1>2
<1>6. View' = [View EXCEPT ![cur] = [c \in Pages |-> IF c \in C THEN NoPage ELSE @[c]]]
  BY <1>1, <1>2, <1>4, <1>5, ViewIs
<1>. QED BY <1>1, <1>2, <1>3, <1>6, PrivateSteps

(* A zombie's pages are gone when it is destroyed.                          *)
LEMMA DestroyShown ==
    ASSUME MemInv, NEW p \in Slot, Destroy(p) PROVE [Private!Next]_<<View, cur>>
<1>1. /\ Running /\ life[p] = "zombie" /\ data' = data /\ cur' = cur
      /\ space' = [space EXCEPT ![p] = Empty]
  BY DEF Destroy
<1>2. cur \in Slot /\ space \in [Slot -> [Cells -> Entry]]
  BY <1>1, Before
<1>3. p # cur
  BY <1>1 DEF MemInv, Inhabited, Running
<1>4. \A c \in Pages : Reads(Empty, data, c) = NoPage
  BY CellKinds, EntryKinds DEF Reads, Empty
<1>5. \A q \in Slot : space'[q] = IF q = p THEN Empty ELSE space[q]
  BY <1>1, <1>2
<1>6. View' = [View EXCEPT ![p] = [c \in Pages |-> NoPage]]
  BY <1>1, <1>4, <1>5, ViewIs
<1>. QED BY <1>1, <1>2, <1>3, <1>6, PrivateSteps

(* Every step is one of PrivateMemory, or shows nothing.                    *)
LEMMA PrivateNext == ASSUME MemInv, [Next]_vars PROVE [Private!Next]_<<View, cur>>
<1>1. CASE ForkStep
  BY <1>1, ForkHidden, ForkShown DEF ForkStep
<1>2. CASE ExecStep \/ Undo
  BY <1>2, ExecHidden, ExecShown DEF ExecStep
<1>3. CASE UserStep
  <2>0. ASSUME Terminate PROVE [Private!Next]_<<View, cur>>
    BY <2>0, QuietStep DEF Terminate
  <2>1. ASSUME NEW c \in Pages, UserRead(c) PROVE [Private!Next]_<<View, cur>>
    BY <2>1, QuietStep DEF UserRead
  <2>2. ASSUME NEW c \in Pages, WriteFault(c) PROVE [Private!Next]_<<View, cur>>
    <3>1. Running /\ Parent[c].f # 0
      BY <2>2, Before DEF WriteFault
    <3>2. data[Parent[c].f] \in Contents
      <4>1. Parent[c].f \in Frame
        BY <3>1, Before, CellKinds, InUse
      <4>. QED BY <3>1, <4>1, Before
    <3>3. CASE resolve_cow_fault(c, data[Parent[c].f])
      BY <3>1, <3>2, <3>3, CowShown
    <3>. QED BY <2>0, <2>2, <3>3 DEF WriteFault
  <2>3. ASSUME NEW c \in Pages, NEW v \in Contents, UserWrite(c, v)
        PROVE  [Private!Next]_<<View, cur>>
    <3>1. Running /\ Translation(c).w /\ data' = [data EXCEPT ![Translation(c).f] = v]
          /\ UNCHANGED <<space, cur>>
      BY <2>3 DEF UserWrite, Does
    <3>2. Translation(c) = Parent[c]
      BY <3>1, Before
    <3>. QED BY <3>1, <3>2, WriteShown
  <2>4. ASSUME NEW c \in Pages, NEW v \in Contents, CopyToUser(c, v)
        PROVE  [Private!Next]_<<View, cur>>
    <3>1. Running
      BY <2>4 DEF CopyToUser, Does
    <3>2. CASE /\ Parent[c].w /\ data' = [data EXCEPT ![Parent[c].f] = v]
               /\ UNCHANGED <<space, cur>>
      BY <3>1, <3>2, WriteShown
    <3>3. CASE resolve_cow_fault(c, v)
      BY <3>1, <3>3, CowShown
    <3>4. CASE Parent[c].f = 0 /\ demand_map_heap_page(c, v)
      BY <3>1, <3>4, DemandShown
    <3>. QED BY <2>4, <3>2, <3>3, <3>4 DEF CopyToUser
  <2>5. ASSUME NEW a \in Address, HeapFault(a) PROVE [Private!Next]_<<View, cur>>
    <3>1. Running /\ Translation(PageOf(a)).f = 0
      BY <2>5 DEF HeapFault
    <3>2. PageOf(a) \in Pages /\ 0 \in Contents
      BY HeapAddress, CellKinds, MemoryAssumption
    <3>3. Parent[PageOf(a)].f = 0
      BY <3>1, <3>2, Before
    <3>4. CASE demand_map_heap_page(PageOf(a), 0)
      BY <3>1, <3>2, <3>3, <3>4, DemandShown
    <3>. QED BY <2>0, <2>5, <3>4 DEF HeapFault
  <2>6. ASSUME NEW p \in Slot, Switch(p) PROVE [Private!Next]_<<View, cur>>
    BY <2>6, QuietStep DEF Switch
  <2>. QED BY <1>3, <2>0, <2>1, <2>2, <2>3, <2>4, <2>5, <2>6, BrkShown, DestroyShown
       DEF UserStep, Exit
<1>4. CASE UNCHANGED vars
  BY <1>4, QuietStep DEF vars
<1>. QED BY <1>1, <1>2, <1>3, <1>4 DEF Next, Halted

(* Copy-on-write, demand mapping, fork and exec keep PrivateMemory's        *)
(* promise: a program's pages change only by what it does while it runs,    *)
(* and a child starts with its parent's.                                    *)
THEOREM SharingInvisible == Spec => MemoryIsPrivate
<1>1. Init => Private!Init
  BY PrivateInit
<1>2. MemInv /\ [Next]_vars => [Private!Next]_<<View, cur>>
  BY PrivateNext
<1>. QED BY <1>1, <1>2, MemInvariant, PTL DEF Spec, MemoryIsPrivate, Private!Spec

=============================================================================
