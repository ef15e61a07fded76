------------------------- MODULE FileSystem_proofs -------------------------
(***************************************************************************)
(* SimpleFS and the VFS, for every size of disk, directory and tables: no  *)
(* two files share a sector and none is leaked, handles live as long as    *)
(* their descriptors, and reads return what was written.                   *)
(*                                                                         *)
(* What a write does to the bytes of a file is stated once, of a run of    *)
(* sectors (OverwriteIs, CopyIs), and what replacing one directory entry   *)
(* does to the disk once, of a directory given as a value (Replace).       *)
(***************************************************************************)
EXTENDS FileSystem, FiniteSetTheorems, NaturalsInduction, WellFoundedInduction, TLAPS

-----------------------------------------------------------------------------
(* Sectors and bytes *)

(* Byte a of the run that begins at sector s.                               *)
At(k, s, a) == k[s + (a \div SECTOR_SIZE)][a % SECTOR_SIZE]

Disk == [Sector -> [Byte -> Nat]]

(* A run is in the data area.                                               *)
OnDisk(s, n) == s \in Sector /\ n \in Nat /\ s + n <= TOTAL_SECTORS

(* A byte has its place: a sector of the run, and an index in it.           *)
LEMMA Position ==
    ASSUME NEW a \in Nat
    PROVE  /\ a \div SECTOR_SIZE \in Nat /\ a % SECTOR_SIZE \in Byte
           /\ (a \div SECTOR_SIZE) * SECTOR_SIZE + (a % SECTOR_SIZE) = a
           /\ \A n \in Nat : a < n * SECTOR_SIZE => a \div SECTOR_SIZE < n
<1>1. SECTOR_SIZE \in Nat /\ SECTOR_SIZE > 0
  BY FileAssumption
<1>. DEFINE q == a \div SECTOR_SIZE
            r == a % SECTOR_SIZE
<1>2. q \in Nat /\ r \in 0 .. SECTOR_SIZE - 1 /\ q * SECTOR_SIZE + r = a
  BY <1>1
<1>. HIDE DEF q, r
<1>3. ASSUME NEW n \in Nat, a < n * SECTOR_SIZE PROVE q < n
  <2>1. CASE n <= q
    <3>1. n * SECTOR_SIZE <= q * SECTOR_SIZE
      BY <1>1, <1>2, <2>1
    <3>2. n * SECTOR_SIZE \in Int /\ q * SECTOR_SIZE \in Int
      BY <1>1, <1>2
    <3>. QED BY <1>2, <1>3, <3>1, <3>2
  <2>. QED BY <1>2, <2>1
<1>. QED BY <1>2, <1>3 DEF q, r, Byte

(* The least number of sectors for n bytes.                                 *)
LEMMA SectorsFor ==
    ASSUME NEW n \in Nat
    PROVE  /\ sectors_for_bytes(n) \in Nat
           /\ n <= sectors_for_bytes(n) * SECTOR_SIZE
           /\ n > 0 => sectors_for_bytes(n) > 0
           /\ \A m \in Nat : n <= m * SECTOR_SIZE => sectors_for_bytes(n) <= m
<1>1. SECTOR_SIZE \in Nat /\ SECTOR_SIZE > 0
  BY FileAssumption
<1>. DEFINE k == (n + SECTOR_SIZE - 1) \div SECTOR_SIZE
            r == (n + SECTOR_SIZE - 1) % SECTOR_SIZE
<1>2. k \in Nat /\ r \in 0 .. SECTOR_SIZE - 1 /\ k * SECTOR_SIZE + r = n + SECTOR_SIZE - 1
  BY <1>1
<1>. HIDE DEF k, r
<1>3. k * SECTOR_SIZE \in Nat
  BY <1>1, <1>2
<1>4. n <= k * SECTOR_SIZE
  BY <1>1, <1>2, <1>3
<1>5. n > 0 => k > 0
  BY <1>1, <1>2
<1>6. ASSUME NEW m \in Nat, n <= m * SECTOR_SIZE PROVE k <= m
  <2>1. CASE m + 1 <= k
    <3>1. (m + 1) * SECTOR_SIZE <= k * SECTOR_SIZE
      BY <1>1, <1>2, <2>1
    <3>2. (m + 1) * SECTOR_SIZE = m * SECTOR_SIZE + SECTOR_SIZE /\ m * SECTOR_SIZE \in Nat
      BY <1>1
    <3>. QED BY <1>1, <1>2, <1>3, <1>6, <3>1, <3>2
  <2>. QED BY <1>2, <2>1
<1>. QED BY <1>2, <1>4, <1>5, <1>6 DEF k, sectors_for_bytes

(* Sizes in bytes grow with the number of sectors.                          *)
LEMMA Bytes ==
    ASSUME NEW m \in Nat, NEW n \in Nat, m <= n
    PROVE  /\ m * SECTOR_SIZE \in Nat /\ n * SECTOR_SIZE \in Nat
           /\ m * SECTOR_SIZE <= n * SECTOR_SIZE
           /\ 0 * SECTOR_SIZE = 0
BY FileAssumption

(* The sectors of a run.                                                    *)
LEMMA RunIs ==
    ASSUME NEW s, NEW n, OnDisk(s, n)
    PROVE  /\ s \in Nat /\ s > 0 /\ Run(s, n) \subseteq Sector
           /\ \A x \in Sector : x \in Nat
           /\ \A x \in Sector : x \in Run(s, n) <=> s <= x /\ x < s + n
           /\ \A a \in Nat : a < n * SECTOR_SIZE =>
                 /\ s + (a \div SECTOR_SIZE) \in Run(s, n)
                 /\ s + (a \div SECTOR_SIZE) \in Sector
<1>1. Sector \subseteq Nat /\ s \in Nat /\ s > 0 /\ n \in Nat
  BY FileAssumption DEF OnDisk, Sector
<1>2. Run(s, n) \subseteq Sector /\ \A x \in Sector : x \in Run(s, n) <=> s <= x /\ x < s + n
  BY <1>1, FileAssumption DEF OnDisk, Sector, Run
<1>3. ASSUME NEW a \in Nat, a < n * SECTOR_SIZE
      PROVE  s + (a \div SECTOR_SIZE) \in Run(s, n)
  <2>1. a \div SECTOR_SIZE \in Nat /\ a \div SECTOR_SIZE < n
    BY <1>1, <1>3, Position
  <2>. QED BY <1>1, <2>1 DEF Run
<1>. QED BY <1>1, <1>2, <1>3

(* Which byte of the run at b is in place y of sector x.                    *)
Spot(x, b, y) == (x - b) * SECTOR_SIZE + y

LEMMA OverwriteAt ==
    ASSUME NEW k, NEW b, NEW o, NEW s, NEW x \in Sector, NEW y \in Byte
    PROVE  Overwrite(k, b, o, s)[x][y] =
              IF x >= b /\ Spot(x, b, y) \in o .. o + Len(s) - 1
              THEN s[Spot(x, b, y) - o + 1] ELSE k[x][y]
BY DEF Overwrite, Spot

(* The loop of simplefs_write puts the buffer where it belongs and leaves   *)
(* every other byte of the file, and every other sector, alone.             *)
Overwritten(D, k, b, n, o, s) ==
    /\ D \in Disk
    /\ \A x \in Sector : x \notin Run(b, n) => D[x] = k[x]
    /\ \A a \in Nat : a < n * SECTOR_SIZE =>
          At(D, b, a) = IF o <= a /\ a < o + Len(s) THEN s[a - o + 1] ELSE At(k, b, a)

LEMMA OverwriteIs ==
    ASSUME NEW k \in Disk, NEW b, NEW n, OnDisk(b, n), NEW o \in Nat, NEW s \in Seq(Nat),
           o + Len(s) <= n * SECTOR_SIZE
    PROVE  Overwritten(Overwrite(k, b, o, s), k, b, n, o, s)
<1>. DEFINE D == Overwrite(k, b, o, s)
<1>1. /\ Len(s) \in Nat /\ \A j \in 1 .. Len(s) : s[j] \in Nat
      /\ SECTOR_SIZE \in Nat /\ SECTOR_SIZE > 0 /\ n \in Nat
  BY FileAssumption DEF OnDisk
<1>2. /\ \A x \in Sector : x \in Nat
      /\ b \in Nat /\ \A x \in Sector : x \in Run(b, n) <=> b <= x /\ x < b + n
  BY RunIs
<1>3. \A x \in Sector, y \in Byte :
         D[x][y] = IF x >= b /\ Spot(x, b, y) \in o .. o + Len(s) - 1
                   THEN s[Spot(x, b, y) - o + 1] ELSE k[x][y]
  BY OverwriteAt
<1>4. D \in Disk
  <2>1. ASSUME NEW x \in Sector, NEW y \in Byte PROVE D[x][y] \in Nat
    <3>1. k[x][y] \in Nat
      BY DEF Disk
    <3>2. Spot(x, b, y) \in o .. o + Len(s) - 1 => Spot(x, b, y) - o + 1 \in 1 .. Len(s)
      BY <1>1
    <3>. HIDE DEF D
    <3>. QED BY <1>1, <1>3, <3>1, <3>2
  <2>2. D = [x \in Sector |-> [y \in Byte |-> D[x][y]]]
    BY DEF Overwrite
  <2>. HIDE DEF D
  <2>. QED BY <2>1, <2>2 DEF Disk
<1>. HIDE DEF D
<1>5. ASSUME NEW x \in Sector, x \notin Run(b, n) PROVE D[x] = k[x]
  <2>1. b \in Nat /\ (x < b \/ x >= b + n)
    BY <1>1, <1>2, <1>5
  <2>2. ASSUME NEW y \in Byte PROVE D[x][y] = k[x][y]
    <3>1. CASE x < b
      BY <1>2, <1>3, <2>1, <3>1
    <3>2. CASE x >= b + n
      <4>1. x - b \in Nat /\ n <= x - b /\ y \in Nat
        BY <1>1, <1>2, <2>1, <3>2 DEF Byte
      <4>2. n * SECTOR_SIZE <= (x - b) * SECTOR_SIZE /\ (x - b) * SECTOR_SIZE \in Nat
            /\ n * SECTOR_SIZE \in Nat
        BY <1>1, <4>1, Bytes
      <4>3. Spot(x, b, y) \notin o .. o + Len(s) - 1
        BY <1>1, <4>1, <4>2 DEF Spot
      <4>. QED BY <1>3, <4>3
    <3>. QED BY <2>1, <3>1, <3>2
  <2>3. D[x] \in [Byte -> Nat] /\ k[x] \in [Byte -> Nat]
    BY <1>4 DEF Disk
  <2>. QED BY <2>2, <2>3
<1>6. ASSUME NEW a \in Nat, a < n * SECTOR_SIZE
      PROVE  At(D, b, a) = IF o <= a /\ a < o + Len(s) THEN s[a - o + 1] ELSE At(k, b, a)
  <2>. DEFINE q == a \div SECTOR_SIZE
              r == a % SECTOR_SIZE
  <2>1. q \in Nat /\ r \in Byte /\ q * SECTOR_SIZE + r = a
    BY Position
  <2>2. b + q \in Sector /\ b \in Nat
    BY <1>6, RunIs
  <2>3. At(D, b, a) = D[b + q][r] /\ At(k, b, a) = k[b + q][r]
    BY DEF At
  <2>. HIDE DEF q, r
  <2>4. b + q >= b /\ (b + q) - b = q
    BY <2>1, <2>2
  <2>5. D[b + q][r] = IF a \in o .. o + Len(s) - 1 THEN s[a - o + 1] ELSE k[b + q][r]
    <3>1. Spot(b + q, b, r) = a
      BY <2>1, <2>4 DEF Spot
    <3>. QED BY <1>3, <2>1, <2>2, <2>4, <3>1
  <2>6. a \in o .. o + Len(s) - 1 <=> o <= a /\ a < o + Len(s)
    BY <1>1
  <2>. QED BY <2>3, <2>5, <2>6
<1>. QED BY <1>4, <1>5, <1>6 DEF Overwritten, D

(* The directory as a value: runs are in the data area, no two files share  *)
(* a sector, the map u has exactly the sectors of files, all below nf, a    *)
(* name is used once, and past a file's end its sectors hold zeros.         *)
Zeroed(k, e) ==
    /\ e.size <= e.alloc * SECTOR_SIZE
    /\ \A a \in Nat : e.size <= a /\ a < e.alloc * SECTOR_SIZE => At(k, e.start, a) = 0

Placed(e) == e.alloc # 0 => e.name # NoName /\ OnDisk(e.start, e.alloc)

Sound(d, k, u, nf) ==
    /\ \A i \in Index : Placed(d[i]) /\ Zeroed(k, d[i])
    /\ \A i, j \in Index : i # j => RunOf(d[i]) \cap RunOf(d[j]) = {}
    /\ \A x : x \in u <=> \E i \in Index : x \in RunOf(d[i])
    /\ \A x \in u : x < nf
    /\ \A i, j \in Index : d[i].name = d[j].name /\ d[i].name # NoName => i = j

FileEntry == [name : Names \cup {NoName}, start : Sector \cup {0}, size : Nat,
              alloc : 0 .. TOTAL_SECTORS - DATA_START]

(* simplefs_zero_run and simplefs_copy_file_data: the new run holds the     *)
(* file's bytes and then zeros, whatever was there before.                  *)
Copied(D, e, b, n) ==
    /\ D \in Disk
    /\ \A x \in Sector : x \notin Run(b, n) => D[x] = disk[x]
    /\ \A a \in Nat : a < n * SECTOR_SIZE =>
          At(D, b, a) = IF a < e.size THEN At(disk, e.start, a) ELSE 0

LEMMA CopyAt ==
    ASSUME NEW e, NEW b, NEW n, NEW x \in Sector
    PROVE  ZeroAndCopy(e, b, n)[x] =
              IF x \in Run(b, sectors_for_bytes(e.size)) /\ e.alloc > 0
                  THEN disk[e.start + (x - b)]
              ELSE IF x \in Run(b, n) THEN Zeros
              ELSE disk[x]
BY DEF ZeroAndCopy

LEMMA CopyIs ==
    ASSUME disk \in Disk, NEW e \in FileEntry, Placed(e), Zeroed(disk, e),
           NEW b, NEW n, OnDisk(b, n), e.size <= n * SECTOR_SIZE
    PROVE  Copied(ZeroAndCopy(e, b, n), e, b, n)
<1>. DEFINE D == ZeroAndCopy(e, b, n)
            m == sectors_for_bytes(e.size)
<1>1. e.size \in Nat /\ e.alloc \in Nat /\ n \in Nat
  BY FileAssumption DEF FileEntry, OnDisk
<1>2. m \in Nat /\ m <= n /\ m <= e.alloc /\ e.size <= m * SECTOR_SIZE
  BY <1>1, SectorsFor DEF Zeroed
<1>3. /\ \A x \in Sector : x \in Nat
      /\ b \in Nat /\ \A x \in Sector : x \in Run(b, n) <=> b <= x /\ x < b + n
  BY RunIs
<1>4. OnDisk(b, m)
  BY <1>1, <1>2, <1>3, FileAssumption DEF OnDisk, Sector
<1>5. \A x \in Sector : x \in Run(b, m) <=> b <= x /\ x < b + m
  <2>. HIDE DEF m
  <2>. QED BY <1>4, RunIs
<1>6. \A x \in Sector : D[x] = IF x \in Run(b, m) /\ e.alloc > 0 THEN disk[e.start + (x - b)]
                               ELSE IF x \in Run(b, n) THEN Zeros ELSE disk[x]
  BY CopyAt
<1>. HIDE DEF m
<1>7. ASSUME NEW x \in Sector, x \in Run(b, m), e.alloc > 0
      PROVE  e.start + (x - b) \in Sector
  <2>1. OnDisk(e.start, e.alloc)
    BY <1>1, <1>7 DEF Placed
  <2>2. b <= x /\ x < b + m /\ x \in Nat /\ b \in Nat
    BY <1>3, <1>5, <1>7
  <2>. QED BY <1>1, <1>2, <2>1, <2>2, FileAssumption DEF OnDisk, Sector
<1>8. Zeros \in [Byte -> Nat] /\ \A y \in Byte : Zeros[y] = 0
  BY DEF Zeros
<1>9. D \in Disk
  <2>1. ASSUME NEW x \in Sector PROVE D[x] \in [Byte -> Nat]
    BY <1>6, <1>7, <1>8 DEF Disk
  <2>2. D = [x \in Sector |-> D[x]]
    BY DEF ZeroAndCopy
  <2>. HIDE DEF D
  <2>. QED BY <2>1, <2>2 DEF Disk
<1>. HIDE DEF D
<1>10. ASSUME NEW x \in Sector, x \notin Run(b, n) PROVE D[x] = disk[x]
  <2>1. x \notin Run(b, m)
    BY <1>1, <1>2, <1>3, <1>5, <1>10
  <2>. QED BY <1>6, <1>10, <2>1
<1>11. ASSUME NEW a \in Nat, a < n * SECTOR_SIZE
       PROVE  At(D, b, a) = IF a < e.size THEN At(disk, e.start, a) ELSE 0
  <2>. DEFINE q == a \div SECTOR_SIZE
              r == a % SECTOR_SIZE
  <2>1. q \in Nat /\ r \in Byte /\ q < n
    BY <1>1, <1>11, Position
  <2>2. b + q \in Sector /\ b + q \in Run(b, n)
    BY <1>11, RunIs
  <2>3. At(D, b, a) = D[b + q][r] /\ At(disk, e.start, a) = disk[e.start + q][r]
    BY DEF At
  <2>4. a < m * SECTOR_SIZE => q < m
    BY <1>2, Position
  <2>5. q < m => a < e.alloc * SECTOR_SIZE
    <3>1. CASE q < m
      <4>1. (q + 1) * SECTOR_SIZE <= e.alloc * SECTOR_SIZE
        BY <1>1, <1>2, <2>1, <3>1, Bytes
      <4>2. a < (q + 1) * SECTOR_SIZE
        <5>1. q * SECTOR_SIZE + r = a /\ r \in 0 .. SECTOR_SIZE - 1
          BY Position DEF Byte
        <5>2. (q + 1) * SECTOR_SIZE = q * SECTOR_SIZE + SECTOR_SIZE /\ q * SECTOR_SIZE \in Nat
          <6>. HIDE DEF q
          <6>. QED BY <2>1, FileAssumption
        <5>. HIDE DEF q, r
        <5>. QED BY <5>1, <5>2, FileAssumption
      <4>3. (q + 1) * SECTOR_SIZE \in Int /\ e.alloc * SECTOR_SIZE \in Int
        <5>. HIDE DEF q
        <5>. QED BY <1>1, <2>1, FileAssumption
      <4>. HIDE DEF q
      <4>. QED BY <4>1, <4>2, <4>3
    <3>. QED BY <3>1
  <2>. HIDE DEF q, r
  <2>6. CASE q < m
    <3>1. b + q \in Run(b, m) /\ (b + q) - b = q
      BY <1>2, <1>3, <1>5, <2>1, <2>2, <2>6
    <3>2. e.alloc > 0
      BY <1>1, <1>2, <2>1, <2>6
    <3>3. D[b + q] = disk[e.start + q]
      BY <1>6, <2>2, <3>1, <3>2
    <3>4. a >= e.size => At(disk, e.start, a) = 0
      BY <1>1, <2>5, <2>6 DEF Zeroed
    <3>. QED BY <1>1, <2>3, <3>3, <3>4
  <2>7. CASE ~(q < m)
    <3>1. b + q \notin Run(b, m)
      BY <1>2, <1>3, <1>5, <2>1, <2>2, <2>7
    <3>2. D[b + q] = Zeros
      BY <1>6, <2>2, <3>1
    <3>3. ~(a < m * SECTOR_SIZE) /\ m * SECTOR_SIZE \in Nat
      BY <1>2, <2>4, <2>7, Bytes
    <3>4. ~(a < e.size)
      BY <1>1, <1>2, <3>3
    <3>. QED BY <1>8, <2>1, <2>3, <3>2, <3>4
  <2>. QED BY <2>6, <2>7
<1>. QED BY <1>9, <1>10, <1>11 DEF Copied, D

-----------------------------------------------------------------------------
(* One directory entry is replaced *)

(* A run whose sectors are untouched has the same bytes.                    *)
LEMMA SameBytes ==
    ASSUME NEW k, NEW K, NEW s, NEW n, OnDisk(s, n), \A x \in Run(s, n) : K[x] = k[x],
           NEW a \in Nat, a < n * SECTOR_SIZE
    PROVE  At(K, s, a) = At(k, s, a)
<1>1. s + (a \div SECTOR_SIZE) \in Run(s, n)
  BY RunIs
<1>. QED BY <1>1 DEF At

(* Entry i becomes e, on a run of its own.                                  *)
Replaces(d, k, u, nf, i, e, K, U, NF) ==
    /\ Placed(e) /\ Zeroed(K, e)
    /\ e.name = d[i].name \/ (d[i].name = NoName /\ \A j \in Index : d[j].name # e.name)
    /\ \A j \in Index : j # i => /\ RunOf(e) \cap RunOf(d[j]) = {}
                                 /\ \A x \in RunOf(d[j]) : K[x] = k[x]
    /\ U = (u \ RunOf(d[i])) \cup RunOf(e)
    /\ \A x \in u \cup RunOf(e) : x < nf \/ x \in RunOf(e) => x < NF

LEMMA Replace ==
    ASSUME NEW d \in [Index -> FileEntry], NEW k, NEW u, NEW nf, Sound(d, k, u, nf),
           NEW i \in Index, NEW e \in FileEntry, NEW K, NEW U, NEW NF,
           Replaces(d, k, u, nf, i, e, K, U, NF)
    PROVE  Sound([d EXCEPT ![i] = e], K, U, NF)
<1>. DEFINE D == [d EXCEPT ![i] = e]
<1>1. \A j \in Index : D[j] = IF j = i THEN e ELSE d[j]
  OBVIOUS
<1>. HIDE DEF D
<1>2. ASSUME NEW j \in Index PROVE Placed(D[j]) /\ Zeroed(K, D[j])
  <2>1. CASE j = i
    BY <1>1, <2>1 DEF Replaces
  <2>2. CASE j # i
    <3>1. Placed(d[j]) /\ Zeroed(k, d[j]) /\ d[j].alloc \in Nat
      BY FileAssumption DEF Sound, FileEntry
    <3>2. \A x \in Run(d[j].start, d[j].alloc) : K[x] = k[x]
      BY <2>2 DEF Replaces, RunOf
    <3>3. ASSUME NEW a \in Nat, d[j].size <= a, a < d[j].alloc * SECTOR_SIZE
          PROVE  At(K, d[j].start, a) = 0
      <4>1. d[j].alloc # 0
        <5>1. 0 * SECTOR_SIZE = 0
          BY FileAssumption
        <5>. QED BY <3>3, <5>1
      <4>2. OnDisk(d[j].start, d[j].alloc)
        BY <3>1, <4>1 DEF Placed
      <4>. QED BY <3>1, <3>2, <3>3, <4>2, SameBytes DEF Zeroed
    <3>. QED BY <1>1, <2>2, <3>1, <3>3 DEF Zeroed
  <2>. QED BY <2>1, <2>2
<1>3. ASSUME NEW j \in Index, NEW l \in Index, j # l PROVE RunOf(D[j]) \cap RunOf(D[l]) = {}
  BY <1>1, <1>3 DEF Replaces, Sound
<1>4. \A x : x \in U <=> \E j \in Index : x \in RunOf(D[j])
  <2>1. ASSUME NEW x, x \in U PROVE \E j \in Index : x \in RunOf(D[j])
    <3>1. CASE x \in RunOf(e)
      BY <1>1, <3>1
    <3>2. CASE x \in u /\ x \notin RunOf(d[i])
      <4>1. PICK j \in Index : x \in RunOf(d[j])
        BY <3>2 DEF Sound
      <4>. QED BY <1>1, <3>2, <4>1
    <3>. QED BY <2>1, <3>1, <3>2 DEF Replaces
  <2>2. ASSUME NEW x, NEW j \in Index, x \in RunOf(D[j]) PROVE x \in U
    <3>1. CASE j = i
      BY <1>1, <2>2, <3>1 DEF Replaces
    <3>2. CASE j # i
      <4>1. x \in RunOf(d[j])
        BY <1>1, <2>2, <3>2
      <4>2. x \in u
        BY <4>1 DEF Sound
      <4>3. x \notin RunOf(d[i])
        BY <3>2, <4>1 DEF Sound
      <4>. QED BY <4>2, <4>3 DEF Replaces
    <3>. QED BY <3>1, <3>2
  <2>. QED BY <2>1, <2>2
<1>5. \A x \in U : x < NF
  BY DEF Replaces, Sound
<1>6. ASSUME NEW j \in Index, NEW l \in Index, D[j].name = D[l].name, D[j].name # NoName
      PROVE  j = l
  BY <1>1, <1>6 DEF Replaces, Sound
<1>. QED BY <1>2, <1>3, <1>4, <1>5, <1>6 DEF Sound, D

(* A non-empty set of naturals has a least element, which Lowest finds.     *)
LEMMA LowestIn ==
    ASSUME NEW S, S \subseteq Nat
    PROVE  /\ S = {} => Lowest(S) = 0
           /\ S # {} => Lowest(S) \in S
<1>1. CASE S = {}
  BY <1>1 DEF Lowest
<1>2. CASE S # {}
  <2>. DEFINE R == {ss \in Nat \X Nat : ss[1] < ss[2]}
  <2>1. IsWellFoundedOn(R, Nat)
    BY NatLessThanWellFounded, Zenon DEF OpToRel
  <2>2. PICK x \in S : \A y \in S : ~ (<<y, x>> \in R)
    <3>. HIDE DEF R
    <3>. QED BY <1>2, <2>1, WFMin
  <2>3. \A y \in S : ~ (y < x)
    BY <2>2
  <2>4. \A y \in S : x <= y
    BY <2>3
  <2>. QED BY <1>2, <2>4 DEF Lowest
<1>. QED BY <1>1, <1>2

(* simplefs_allocate_sectors finds sectors no file has.                     *)
LEMMA Allocated ==
    ASSUME NEW n \in Nat, allocate_sectors(n) # 0
    PROVE  /\ OnDisk(allocate_sectors(n), n)
           /\ Run(allocate_sectors(n), n) \cap used = {}
<1>. DEFINE S == {s \in Sector : Fits(s, n)}
<1>1. S \subseteq Nat
  BY FileAssumption DEF Sector
<1>2. Lowest(S) # 0
  BY DEF allocate_sectors
<1>3. Lowest(S) \in S
  <2>. HIDE DEF S
  <2>. QED BY <1>1, <1>2, LowestIn
<1>4. allocate_sectors(n) \in Sector /\ Fits(allocate_sectors(n), n)
  BY <1>3 DEF allocate_sectors
<1>. QED BY <1>4 DEF OnDisk, Fits

(* Sectors of files are marked used, sectors given back are those of a run. *)
LEMMA FilesUsed ==
    ASSUME Sound(dir, disk, used, next_free), dir \in [Index -> FileEntry], NEW i \in Index
    PROVE  /\ RunOf(dir[i]) \subseteq used
           /\ dir[i].alloc = 0 => RunOf(dir[i]) = {}
           /\ \A u : mark_run_free(u, dir[i].start, dir[i].alloc) = u \ RunOf(dir[i])
<1>1. RunOf(dir[i]) \subseteq used
  BY DEF Sound
<1>2. dir[i].alloc \in Nat /\ dir[i].start \in Nat
  BY FileAssumption DEF FileEntry, Sector
<1>3. dir[i].alloc = 0 => RunOf(dir[i]) = {}
  BY <1>2 DEF RunOf, Run
<1>4. dir[i].alloc # 0 => InRange(dir[i].start, dir[i].alloc)
  <2>1. dir[i].alloc # 0 => OnDisk(dir[i].start, dir[i].alloc)
    BY DEF Sound, Placed
  <2>. QED BY <1>2, <2>1, FileAssumption DEF OnDisk, InRange, Sector
<1>5. ASSUME NEW u PROVE mark_run_free(u, dir[i].start, dir[i].alloc) = u \ RunOf(dir[i])
  <2>1. CASE dir[i].alloc = 0
    BY <1>3, <2>1 DEF mark_run_free
  <2>2. CASE dir[i].alloc # 0
    BY <1>4, <2>2 DEF mark_run_free, RunOf
  <2>. QED BY <2>1, <2>2
<1>. QED BY <1>1, <1>3, <1>5

-----------------------------------------------------------------------------
(* simplefs_write *)

DiskTypes ==
    /\ dir \in [Index -> FileEntry]
    /\ disk \in Disk
    /\ used \subseteq Sector
    /\ next_free \in DATA_START .. TOTAL_SECTORS

GoodDisk == DiskTypes /\ Sound(dir, disk, used, next_free)

(* What a write of s at o leaves of byte a of a file with entry e.          *)
NewByte(e, o, s, a) ==
    IF o <= a /\ a < o + Len(s) THEN s[a - o + 1]
    ELSE IF a < e.size THEN At(disk, e.start, a) ELSE 0

(* File i has the bytes written and its old ones, wherever it is now, and   *)
(* no sector of another file has changed.                                   *)
Wrote(i, o, s) ==
    /\ \E E \in FileEntry :
          /\ dir' = [dir EXCEPT ![i] = E]
          /\ E.name = dir[i].name
          /\ E.size = GrownSize(dir[i], o, s)
          /\ \A a \in Nat : a < E.size => At(disk', E.start, a) = NewByte(dir[i], o, s, a)
    /\ \A j \in Index : j # i => \A x \in RunOf(dir[j]) : disk'[x] = disk[x]
    /\ GoodDisk'

LEMMA GrownIs ==
    ASSUME NEW e \in FileEntry, NEW o \in Nat, NEW s \in Seq(Nat), Len(s) > 0
    PROVE  LET size == GrownSize(e, o, s)
           IN  /\ size \in Nat /\ size > 0 /\ e.size <= size /\ o + Len(s) <= size
               /\ e.size \in Nat /\ e.alloc \in Nat /\ Len(s) \in Nat
BY FileAssumption DEF GrownSize, Larger, FileEntry

LEMMA WriteInPlaceIs ==
    ASSUME GoodDisk, NEW i \in Index, dir[i].name # NoName,
           NEW o \in Nat, NEW s \in Seq(Nat), Len(s) > 0, WriteInPlace(i, o, s)
    PROVE  Wrote(i, o, s)
<1>. DEFINE e == dir[i]
            size == GrownSize(e, o, s)
            count == sectors_for_bytes(size)
            E == [e EXCEPT !.size = size]
<1>1. e \in FileEntry /\ disk \in Disk /\ dir \in [Index -> FileEntry]
  BY DEF GoodDisk, DiskTypes
<1>2. /\ size \in Nat /\ size > 0 /\ e.size <= size /\ o + Len(s) <= size
      /\ e.size \in Nat /\ e.alloc \in Nat /\ Len(s) \in Nat
  BY <1>1, GrownIs
<1>3. /\ count <= e.alloc
      /\ disk' = Overwrite(disk, e.start, o, s)
      /\ dir' = [dir EXCEPT ![i].size = size]
      /\ UNCHANGED <<used, next_free>>
  BY DEF WriteInPlace
<1>4. dir' = [dir EXCEPT ![i] = E]
  BY <1>1, <1>3
<1>5. /\ E \in FileEntry /\ E.name = e.name /\ E.size = size
      /\ E.start = e.start /\ E.alloc = e.alloc
  <2>. HIDE DEF e, size
  <2>. QED BY <1>1, <1>2 DEF FileEntry
<1>. HIDE DEF E, size
<1>6. count \in Nat /\ count > 0 /\ size <= count * SECTOR_SIZE
  BY <1>2, SectorsFor
<1>. HIDE DEF count
<1>7. count * SECTOR_SIZE <= e.alloc * SECTOR_SIZE /\ count * SECTOR_SIZE \in Nat
      /\ e.alloc * SECTOR_SIZE \in Nat
  BY <1>2, <1>3, <1>6, Bytes
<1>8. size <= e.alloc * SECTOR_SIZE /\ o + Len(s) <= e.alloc * SECTOR_SIZE
  BY <1>2, <1>6, <1>7
<1>9. Placed(e) /\ Zeroed(disk, e) /\ OnDisk(e.start, e.alloc)
  BY <1>2, <1>3, <1>6 DEF GoodDisk, Sound, Placed
<1>10. Overwritten(disk', disk, e.start, e.alloc, o, s)
  BY <1>1, <1>3, <1>8, <1>9, OverwriteIs
<1>11. ASSUME NEW a \in Nat, a < e.alloc * SECTOR_SIZE
       PROVE  At(disk', E.start, a) = NewByte(e, o, s, a)
  <2>1. a >= e.size => At(disk, e.start, a) = 0
    BY <1>9, <1>11 DEF Zeroed
  <2>. QED BY <1>2, <1>5, <1>10, <1>11, <2>1 DEF Overwritten, NewByte
<1>12. Placed(E) /\ Zeroed(disk', E)
  <2>1. ASSUME NEW a \in Nat, E.size <= a, a < E.alloc * SECTOR_SIZE
        PROVE  At(disk', E.start, a) = 0
    <3>1. a >= o + Len(s) /\ a >= e.size
      BY <1>2, <1>5, <2>1
    <3>. QED BY <1>2, <1>5, <1>11, <2>1, <3>1 DEF NewByte
  <2>. QED BY <1>5, <1>8, <1>9, <2>1 DEF Placed, Zeroed
<1>13. RunOf(E) = RunOf(e)
  BY <1>5 DEF RunOf
<1>14. ASSUME NEW j \in Index, j # i
       PROVE  /\ RunOf(e) \cap RunOf(dir[j]) = {}
              /\ \A x \in RunOf(dir[j]) : disk'[x] = disk[x]
  <2>1. RunOf(e) \cap RunOf(dir[j]) = {} /\ RunOf(dir[j]) \subseteq Sector
    BY <1>1, <1>14, FilesUsed DEF GoodDisk, DiskTypes, Sound
  <2>. QED BY <1>10, <2>1 DEF Overwritten, RunOf
<1>15. RunOf(e) \subseteq used
  BY FilesUsed DEF GoodDisk, DiskTypes
<1>16. Replaces(dir, disk, used, next_free, i, E, disk', used', next_free')
  <2>1. used' = (used \ RunOf(dir[i])) \cup RunOf(E)
    BY <1>3, <1>13, <1>15
  <2>2. \A x \in used \cup RunOf(E) : x < next_free'
    BY <1>3, <1>13, <1>15 DEF GoodDisk, Sound
  <2>. QED BY <1>5, <1>12, <1>13, <1>14, <2>1, <2>2 DEF Replaces
<1>17. Sound(dir', disk', used', next_free')
  BY <1>1, <1>4, <1>5, <1>16, Replace DEF GoodDisk
<1>18. DiskTypes'
  BY <1>1, <1>3, <1>4, <1>5, <1>10 DEF GoodDisk, DiskTypes, Overwritten
<1>19. \A a \in Nat : a < E.size => At(disk', E.start, a) = NewByte(e, o, s, a)
  BY <1>2, <1>5, <1>7, <1>8, <1>11
<1>. QED BY <1>4, <1>5, <1>14, <1>17, <1>18, <1>19 DEF Wrote, GoodDisk, size

LEMMA WriteMovedIs ==
    ASSUME GoodDisk, NEW i \in Index, dir[i].name # NoName,
           NEW o \in Nat, NEW s \in Seq(Nat), Len(s) > 0, WriteMoved(i, o, s)
    PROVE  Wrote(i, o, s)
<1>. DEFINE e == dir[i]
            size == GrownSize(e, o, s)
            count == sectors_for_bytes(size)
            start == allocate_sectors(count)
            K == ZeroAndCopy(e, start, count)
            E == [e EXCEPT !.start = start, !.size = size, !.alloc = count]
<1>1. e \in FileEntry /\ disk \in Disk /\ dir \in [Index -> FileEntry]
  BY DEF GoodDisk, DiskTypes
<1>2. /\ size \in Nat /\ size > 0 /\ e.size <= size /\ o + Len(s) <= size
      /\ e.size \in Nat /\ e.alloc \in Nat /\ Len(s) \in Nat
  BY <1>1, GrownIs
<1>3. /\ count > e.alloc /\ start # 0
      /\ next_free' = Larger(next_free, start + count)
      /\ disk' = Overwrite(K, start, o, s)
      /\ dir' = [dir EXCEPT ![i] = E]
      /\ used' = mark_run_free(used \cup Run(start, count), e.start, e.alloc)
  BY DEF WriteMoved
<1>6. count \in Nat /\ count > 0 /\ size <= count * SECTOR_SIZE
  <2>. HIDE DEF size
  <2>. QED BY <1>2, SectorsFor
<1>7. count * SECTOR_SIZE \in Nat
  <2>. HIDE DEF count
  <2>. QED BY <1>6, Bytes
<1>8. OnDisk(start, count) /\ Run(start, count) \cap used = {}
  <2>. HIDE DEF count
  <2>. QED BY <1>3, <1>6, Allocated
<1>9. Placed(e) /\ Zeroed(disk, e)
  BY DEF GoodDisk, Sound
<1>. HIDE DEF size, count, start
<1>10. e.size <= count * SECTOR_SIZE /\ o + Len(s) <= count * SECTOR_SIZE
  BY <1>2, <1>6, <1>7
<1>11. Copied(K, e, start, count)
  <2>. HIDE DEF e
  <2>. QED BY <1>1, <1>8, <1>9, <1>10, CopyIs
<1>12. Overwritten(disk', K, start, count, o, s)
  <2>1. K \in Disk
    BY <1>11 DEF Copied
  <2>. HIDE DEF K
  <2>. QED BY <1>3, <1>8, <1>10, <2>1, OverwriteIs
<1>5. /\ E \in FileEntry /\ E.name = e.name /\ E.size = size
      /\ E.start = start /\ E.alloc = count
  <2>1. count \in 0 .. TOTAL_SECTORS - DATA_START /\ start \in Sector
    BY <1>6, <1>8, FileAssumption DEF OnDisk, Sector
  <2>. HIDE DEF e
  <2>. QED BY <1>1, <1>2, <2>1 DEF FileEntry
<1>. HIDE DEF E, K
<1>13. ASSUME NEW a \in Nat, a < count * SECTOR_SIZE
       PROVE  At(disk', start, a) = NewByte(e, o, s, a)
  BY <1>11, <1>12, <1>13 DEF Overwritten, Copied, NewByte
<1>14. Placed(E) /\ Zeroed(disk', E)
  <2>1. ASSUME NEW a \in Nat, E.size <= a, a < E.alloc * SECTOR_SIZE
        PROVE  At(disk', E.start, a) = 0
    <3>1. a >= o + Len(s) /\ a >= e.size
      BY <1>2, <1>5, <2>1
    <3>. QED BY <1>2, <1>5, <1>13, <2>1, <3>1 DEF NewByte
  <2>. QED BY <1>5, <1>6, <1>8, <2>1 DEF Placed, Zeroed
<1>15. RunOf(E) = Run(start, count)
  BY <1>5 DEF RunOf
<1>16. ASSUME NEW j \in Index, j # i
       PROVE  /\ RunOf(E) \cap RunOf(dir[j]) = {}
              /\ \A x \in RunOf(dir[j]) : disk'[x] = disk[x]
  <2>1. RunOf(dir[j]) \subseteq used /\ used \subseteq Sector
    BY <1>1, FilesUsed DEF GoodDisk, DiskTypes
  <2>2. RunOf(E) \cap RunOf(dir[j]) = {}
    BY <1>8, <1>15, <2>1
  <2>. QED BY <1>11, <1>12, <1>15, <2>1, <2>2 DEF Overwritten, Copied
<1>17. /\ RunOf(e) \subseteq used
       /\ used' = (used \cup RunOf(E)) \ RunOf(e)
  BY <1>3, <1>15, FilesUsed DEF GoodDisk, DiskTypes
<1>18. /\ next_free \in Nat /\ next_free <= TOTAL_SECTORS /\ next_free >= DATA_START
       /\ start \in Nat /\ start + count <= TOTAL_SECTORS
  BY <1>8, FileAssumption DEF GoodDisk, DiskTypes, OnDisk, Sector
<1>19. /\ next_free' \in DATA_START .. TOTAL_SECTORS
       /\ next_free <= next_free' /\ start + count <= next_free'
  BY <1>3, <1>6, <1>18, FileAssumption DEF Larger
<1>20. ASSUME NEW x \in used \cup RunOf(E) PROVE x < next_free'
  <2>1. CASE x \in used
    <3>1. x \in Nat /\ x < next_free
      BY <2>1, FileAssumption DEF GoodDisk, DiskTypes, Sound, Sector
    <3>. QED BY <1>18, <1>19, <3>1
  <2>2. CASE x \in Run(start, count)
    BY <1>6, <1>18, <1>19, <2>2 DEF Run
  <2>. QED BY <1>15, <2>1, <2>2
<1>21. Replaces(dir, disk, used, next_free, i, E, disk', used', next_free')
  <2>1. used' = (used \ RunOf(dir[i])) \cup RunOf(E)
    BY <1>8, <1>15, <1>17
  <2>. QED BY <1>5, <1>14, <1>16, <1>20, <2>1 DEF Replaces
<1>22. Sound(dir', disk', used', next_free')
  BY <1>1, <1>3, <1>5, <1>21, Replace DEF GoodDisk
<1>23. DiskTypes'
  <2>1. RunOf(E) \subseteq Sector
    BY <1>8, <1>15, RunIs
  <2>. QED BY <1>1, <1>3, <1>5, <1>12, <1>17, <1>19, <2>1 DEF GoodDisk, DiskTypes, Overwritten
<1>24. \A a \in Nat : a < E.size => At(disk', E.start, a) = NewByte(e, o, s, a)
  BY <1>2, <1>5, <1>6, <1>7, <1>13
<1>. QED BY <1>3, <1>5, <1>16, <1>22, <1>23, <1>24 DEF Wrote, GoodDisk, size

-----------------------------------------------------------------------------
(* simplefs_open, and what Sound says of the disk *)

(* simplefs_find_entry finds the only entry of a name; 0 is no entry.       *)
LEMMA FindIs ==
    ASSUME GoodDisk, NEW n
    PROVE  /\ find_entry(n) # 0 => find_entry(n) \in Index /\ dir[find_entry(n)].name = n
           /\ find_entry(n) = 0 => \A i \in Index : dir[i].name # n
           /\ n # NoName => \A i \in Index : dir[i].name = n => find_entry(n) = i
           /\ 0 \notin Index
<1>. DEFINE S == {i \in Index : dir[i].name = n}
<1>1. S \subseteq Nat /\ 0 \notin S /\ 0 \notin Index
  BY FileAssumption DEF Index
<1>2. /\ S = {} => find_entry(n) = 0
      /\ S # {} => find_entry(n) \in S
  <2>1. find_entry(n) = Lowest(S)
    BY DEF find_entry
  <2>. HIDE DEF S
  <2>. QED BY <1>1, <2>1, LowestIn
<1>3. \A i, j \in Index : dir[i].name = dir[j].name /\ dir[i].name # NoName => i = j
  BY DEF GoodDisk, Sound
<1>. QED BY <1>1, <1>2, <1>3

LEMMA FindFreeIs ==
    ASSUME find_free_entry # 0
    PROVE  find_free_entry \in Index /\ dir[find_free_entry].name = NoName
<1>. DEFINE S == {i \in Index : dir[i].name = NoName}
<1>1. S \subseteq Nat
  BY FileAssumption DEF Index
<1>2. Lowest(S) \in S
  <2>1. Lowest(S) # 0
    BY DEF find_free_entry
  <2>. HIDE DEF S
  <2>. QED BY <1>1, <2>1, LowestIn
<1>. QED BY <1>2 DEF find_free_entry

(* An entry without sectors takes the place of one: the sectors it had are  *)
(* free, and no byte of another file changes.                               *)
Blank(n) == [NoEntry EXCEPT !.name = n]

LEMMA Emptying ==
    ASSUME GoodDisk, NEW i \in Index, NEW n \in Names \cup {NoName},
           n = dir[i].name \/ (dir[i].name = NoName /\ \A j \in Index : dir[j].name # n),
           dir' = [dir EXCEPT ![i] = Blank(n)], used' = used \ RunOf(dir[i]),
           UNCHANGED <<disk, next_free>>
    PROVE  GoodDisk'
<1>1. Blank(n) \in FileEntry /\ Blank(n).name = n /\ Blank(n).size = 0 /\ Blank(n).alloc = 0
      /\ Blank(n).start = 0
  BY FileAssumption DEF Blank, NoEntry, FileEntry
<1>2. RunOf(Blank(n)) = {}
  BY <1>1 DEF RunOf, Run
<1>3. Placed(Blank(n)) /\ Zeroed(disk, Blank(n))
  <2>1. 0 * SECTOR_SIZE = 0
    BY FileAssumption
  <2>. QED BY <1>1, <2>1 DEF Placed, Zeroed
<1>4. Replaces(dir, disk, used, next_free, i, Blank(n), disk', used', next_free')
  <2>1. \A x \in used : x < next_free
    BY DEF GoodDisk, Sound
  <2>. QED BY <1>1, <1>2, <1>3, <2>1 DEF Replaces
<1>5. Sound(dir', disk', used', next_free')
  BY <1>1, <1>4, Replace DEF GoodDisk, DiskTypes
<1>. QED BY <1>1, <1>5 DEF GoodDisk, DiskTypes

(* simplefs_open makes or leaves an empty file, or finds one as it is.      *)
Opened(n) ==
    \/ /\ \E i \in Index :
             /\ dir' = [dir EXCEPT ![i] = Blank(n)]
             /\ n = dir[i].name \/ (dir[i].name = NoName /\ \A j \in Index : dir[j].name # n)
       /\ disk' = disk
    \/ /\ \E i \in Index : dir[i].name = n
       /\ UNCHANGED fsVars

LEMMA OpenIs ==
    ASSUME GoodDisk, NEW n \in Names, NEW creat, NEW trunc, simplefs_open(n, creat, trunc)
    PROVE  Opened(n) /\ GoodDisk'
<1>. DEFINE i == find_entry(n)
            j == find_free_entry
<1>1. CASE i = 0 /\ j # 0 /\ Create(j, n)
  <2>1. j \in Index /\ dir[j].name = NoName /\ \A l \in Index : dir[l].name # n
    BY <1>1, FindIs, FindFreeIs
  <2>2. RunOf(dir[j]) = {}
    <3>1. dir[j].alloc = 0
      BY <2>1 DEF GoodDisk, Sound, Placed
    <3>. QED BY <2>1, <3>1, FilesUsed DEF GoodDisk, DiskTypes
  <2>3. dir' = [dir EXCEPT ![j] = Blank(n)] /\ used' = used \ RunOf(dir[j])
        /\ UNCHANGED <<disk, next_free>>
    BY <1>1, <2>2 DEF Create, Blank
  <2>. HIDE DEF j
  <2>. QED BY <2>1, <2>3, Emptying DEF Opened
<1>2. CASE i # 0 /\ Truncate(i)
  <2>1. i \in Index /\ dir[i].name = n
    BY <1>2, FindIs
  <2>2. mark_run_free(used, dir[i].start, dir[i].alloc) = used \ RunOf(dir[i])
    <3>. HIDE DEF i
    <3>. QED BY <2>1, FilesUsed DEF GoodDisk, DiskTypes
  <2>3. dir' = [dir EXCEPT ![i] = Blank(n)] /\ used' = used \ RunOf(dir[i])
        /\ UNCHANGED <<disk, next_free>>
    BY <1>2, <2>1, <2>2 DEF Truncate, Blank
  <2>. HIDE DEF i
  <2>. QED BY <2>1, <2>3, Emptying DEF Opened
<1>3. CASE i # 0 /\ UNCHANGED fsVars
  <2>1. i \in Index /\ dir[i].name = n
    BY <1>3, FindIs
  <2>2. GoodDisk'
    BY <1>3 DEF fsVars, GoodDisk, DiskTypes
  <2>. QED BY <1>3, <2>1, <2>2 DEF Opened
<1>. QED BY <1>1, <1>2, <1>3 DEF simplefs_open

(* The empty disk.                                                          *)
LEMMA FormattedGood == Init => GoodDisk
<1>. SUFFICES ASSUME Init PROVE GoodDisk
  OBVIOUS
<1>1. /\ dir = [i \in Index |-> NoEntry] /\ disk = [s \in Sector |-> Zeros]
      /\ used = {} /\ next_free = DATA_START
  BY DEF Init
<1>2. /\ NoEntry \in FileEntry /\ NoEntry.name = NoName /\ NoEntry.alloc = 0
      /\ NoEntry.size = 0 /\ NoEntry.start = 0
  BY FileAssumption DEF NoEntry, FileEntry
<1>3. Zeros \in [Byte -> Nat]
  BY DEF Zeros
<1>4. DiskTypes
  BY <1>1, <1>2, <1>3, FileAssumption DEF DiskTypes, Disk
<1>5. RunOf(NoEntry) = {}
  BY <1>2 DEF RunOf, Run
<1>6. Placed(NoEntry) /\ Zeroed(disk, NoEntry)
  <2>1. 0 * SECTOR_SIZE = 0
    BY FileAssumption
  <2>. QED BY <1>2, <2>1 DEF Placed, Zeroed
<1>7. Sound(dir, disk, used, next_free)
  BY <1>1, <1>2, <1>5, <1>6 DEF Sound
<1>. QED BY <1>4, <1>7 DEF GoodDisk

(* What the disk's invariant says of it is what DiskSound asks.             *)
LEMMA GoodIsSound == GoodDisk => DiskSound
<1>. SUFFICES ASSUME GoodDisk PROVE DiskSound
  OBVIOUS
<1>1. ASSUME NEW i \in Index PROVE
         /\ dir[i].alloc \in Nat /\ dir[i].start \in Nat /\ dir[i].size \in Nat
         /\ Placed(dir[i]) /\ Zeroed(disk, dir[i])
         /\ dir[i].alloc = 0 => RunOf(dir[i]) = {}
  BY FilesUsed, FileAssumption DEF GoodDisk, DiskTypes, Sound, FileEntry, Sector
<1>2. HasRun(dir) = {i \in Index : dir[i].alloc # 0}
  BY <1>1 DEF HasRun, Placed
<1>3. \A i \in HasRun(dir) : InRange(dir[i].start, dir[i].alloc)
  BY <1>1, <1>2, FileAssumption DEF Placed, OnDisk, InRange, Sector
<1>4. RebuildSucceeds(dir)
  BY <1>2, <1>3 DEF RebuildSucceeds, GoodDisk, Sound
<1>5. RebuiltMap(dir) = used
  <2>1. ASSUME NEW x PROVE x \in RebuiltMap(dir) <=> \E i \in Index : x \in RunOf(dir[i])
    BY <1>1, <1>2 DEF RebuiltMap
  <2>2. \A x : x \in used <=> \E i \in Index : x \in RunOf(dir[i])
    BY DEF GoodDisk, Sound
  <2>. QED BY <2>1, <2>2
<1>6. \A s \in used : s < next_free
  BY DEF GoodDisk, Sound
<1>7. ASSUME NEW i \in HasRun(dir)
      PROVE  /\ dir[i].size <= dir[i].alloc * SECTOR_SIZE
             /\ \A a \in dir[i].size .. dir[i].alloc * SECTOR_SIZE - 1 :
                   ByteAt(dir[i].start, a) = 0
  <2>1. i \in Index /\ dir[i].alloc * SECTOR_SIZE \in Nat
    BY <1>1, <1>2, Bytes
  <2>2. ASSUME NEW a \in dir[i].size .. dir[i].alloc * SECTOR_SIZE - 1
        PROVE  a \in Nat /\ dir[i].size <= a /\ a < dir[i].alloc * SECTOR_SIZE
    BY <1>1, <2>1
  <2>. QED BY <1>1, <2>1, <2>2 DEF Zeroed, At, ByteAt
<1>8. NoStaleBytes
  BY <1>7 DEF NoStaleBytes, GoodDisk, Sound
<1>. QED BY <1>4, <1>5, <1>6, <1>8 DEF DiskSound, MountAgrees

-----------------------------------------------------------------------------
(* Handles and descriptors *)

Descriptor == [h : Handle \cup {0}, cloexec : BOOLEAN]

OpenEntry == [ref : Nat, name : Names \cup {NoName}, off : Nat, r : BOOLEAN, w : BOOLEAN]

TableTypes ==
    /\ open \in [Handle -> OpenEntry]
    /\ fds \in [Proc -> [Fd -> Descriptor]]
    /\ live \subseteq Proc
    /\ got \in Seq(Nat)
    /\ \A p \in Proc \ live : \A f \in Fd : fds[p][f] = NoFd

(* A handle nobody has is clear, one somebody has names a file of the       *)
(* directory: files are truncated but never removed.                        *)
HandlesNamed ==
    \A h \in Handle :
        IF open[h].ref = 0 THEN open[h] = Unused
        ELSE open[h].name \in Names /\ \E i \in Index : dir[i].name = open[h].name

FsInv == GoodDisk /\ TableTypes /\ HandlesExact /\ HandlesNamed

(* The descriptors of a table t that refer to handle h.                     *)
Refs(t, h) == {pf \in Proc \X Fd : t[pf[1]][pf[2]].h = h}

LEMMA RefsFinite ==
    /\ IsFiniteSet(Fd) /\ IsFiniteSet(Proc \X Fd)
    /\ \A t, h : IsFiniteSet(Refs(t, h)) /\ Cardinality(Refs(t, h)) \in Nat
    /\ \A A : A \subseteq Fd => IsFiniteSet(A) /\ Cardinality(A) \in Nat
<1>1. IsFiniteSet(Fd) /\ IsFiniteSet(Proc)
  BY FileAssumption, FS_Interval DEF Fd, Proc
<1>2. IsFiniteSet(Proc \X Fd)
  BY <1>1, FS_Product
<1>3. ASSUME NEW t, NEW h PROVE IsFiniteSet(Refs(t, h)) /\ Cardinality(Refs(t, h)) \in Nat
  <2>1. Refs(t, h) \in SUBSET (Proc \X Fd)
    BY DEF Refs
  <2>2. IsFiniteSet(Refs(t, h))
    BY <1>2, <2>1, FS_Subset
  <2>. QED BY <2>2, FS_CardinalityType
<1>4. ASSUME NEW A, A \subseteq Fd PROVE IsFiniteSet(A) /\ Cardinality(A) \in Nat
  <2>1. IsFiniteSet(A)
    BY <1>1, <1>4, FS_Subset
  <2>. QED BY <2>1, FS_CardinalityType
<1>. QED BY <1>1, <1>2, <1>3, <1>4

(* The descriptors of one process.                                          *)
LEMMA OnesCount ==
    ASSUME NEW p, NEW A, A \subseteq Fd
    PROVE  IsFiniteSet({p} \X A) /\ Cardinality({p} \X A) = Cardinality(A)
<1>1. IsFiniteSet(A) /\ Cardinality(A) \in Nat
  BY RefsFinite
<1>2. IsFiniteSet({p}) /\ Cardinality({p}) = 1
  BY FS_Singleton
<1>3. IsFiniteSet({p} \X A) /\ Cardinality({p} \X A) = 1 * Cardinality(A)
  BY <1>1, <1>2, FS_Product
<1>. QED BY <1>1, <1>3

(* A are the descriptors in F through which p refers to h.                  *)
Through(t, p, F, h, A) == A \subseteq F /\ \A f \in F : f \in A <=> t[p][f].h = h

(* Table T is t with the descriptors F of p closed.                         *)
ShutIn(t, T, p, F) ==
    \A q \in Proc, f \in Fd : T[q][f] = IF q = p /\ f \in F THEN NoFd ELSE t[q][f]

(* Table T is t with the descriptors of p given to c, which has none.       *)
GivenIn(t, T, p, c) ==
    /\ \A f \in Fd : t[c][f] = NoFd
    /\ \A q \in Proc, f \in Fd : T[q][f] = IF q = c THEN t[p][f] ELSE t[q][f]

(* Some descriptors are closed.                                             *)
LEMMA ClosedCount ==
    ASSUME NEW t, NEW T, NEW p \in Proc, NEW F, F \subseteq Fd, ShutIn(t, T, p, F),
           NEW h \in Handle, NEW A, Through(t, p, F, h, A)
    PROVE  /\ Cardinality(A) \in Nat
           /\ Cardinality(A) <= Cardinality(Refs(t, h))
           /\ Cardinality(Refs(T, h)) = Cardinality(Refs(t, h)) - Cardinality(A)
<1>1. h # 0 /\ NoFd.h = 0
  BY FileAssumption DEF Handle, NoFd
<1>2. \A q \in Proc, f \in Fd : T[q][f] = IF q = p /\ f \in F THEN NoFd ELSE t[q][f]
  BY DEF ShutIn
<1>3. A \subseteq Fd /\ \A f \in Fd : f \in A <=> f \in F /\ t[p][f].h = h
  BY DEF Through
<1>4. Refs(T, h) = Refs(t, h) \ ({p} \X A)
  <2>1. ASSUME NEW q \in Proc, NEW f \in Fd
        PROVE  <<q, f>> \in Refs(T, h) <=> <<q, f>> \in Refs(t, h) \ ({p} \X A)
    BY <1>1, <1>2, <1>3 DEF Refs
  <2>2. Refs(T, h) \subseteq Proc \X Fd /\ Refs(t, h) \subseteq Proc \X Fd
    BY DEF Refs
  <2>3. \A z \in Proc \X Fd : z = <<z[1], z[2]>> /\ z[1] \in Proc /\ z[2] \in Fd
    OBVIOUS
  <2>4. ASSUME NEW z PROVE z \in Refs(T, h) <=> z \in Refs(t, h) \ ({p} \X A)
    <3>1. CASE z \in Proc \X Fd
      BY <2>1, <2>3, <3>1
    <3>2. CASE z \notin Proc \X Fd
      BY <2>2, <3>2
    <3>. QED BY <3>1, <3>2
  <2>. QED BY <2>4
<1>5. Refs(t, h) \cap ({p} \X A) = {p} \X A
  <2>1. {p} \X A \subseteq Refs(t, h)
    BY <1>3 DEF Refs
  <2>. QED BY <2>1
<1>6. /\ IsFiniteSet(Refs(t, h)) /\ Cardinality(Refs(t, h)) \in Nat
      /\ Cardinality(Refs(T, h)) \in Nat /\ Cardinality(A) \in Nat
  BY <1>3, RefsFinite
<1>7. Cardinality(Refs(T, h)) = Cardinality(Refs(t, h)) - Cardinality({p} \X A)
  <2>. DEFINE B == {p} \X A
  <2>1. Refs(T, h) = Refs(t, h) \ B /\ Refs(t, h) \cap B = B
    BY <1>4, <1>5
  <2>. HIDE DEF B
  <2>2. Cardinality(Refs(t, h) \ B) = Cardinality(Refs(t, h)) - Cardinality(Refs(t, h) \cap B)
    BY <1>6, FS_Difference
  <2>. QED BY <2>1, <2>2 DEF B
<1>8. Cardinality({p} \X A) = Cardinality(A)
  BY <1>3, OnesCount
<1>9. Cardinality(A) <= Cardinality(Refs(t, h))
  BY <1>6, <1>7, <1>8
<1>. QED BY <1>6, <1>7, <1>8, <1>9

(* The descriptors of a process are inherited by one that has none.         *)
LEMMA InheritedCount ==
    ASSUME NEW t, NEW T, NEW p \in Proc, NEW c \in Proc, GivenIn(t, T, p, c),
           NEW h \in Handle, NEW A, Through(t, p, Fd, h, A)
    PROVE  /\ Cardinality(A) \in Nat
           /\ Cardinality(Refs(T, h)) = Cardinality(Refs(t, h)) + Cardinality(A)
<1>1. h # 0 /\ NoFd.h = 0
  BY FileAssumption DEF Handle, NoFd
<1>2. \A q \in Proc, f \in Fd : T[q][f] = IF q = c THEN t[p][f] ELSE t[q][f]
  BY DEF GivenIn
<1>3. A \subseteq Fd /\ \A f \in Fd : f \in A <=> t[p][f].h = h
  BY DEF Through
<1>4. Refs(T, h) = Refs(t, h) \cup ({c} \X A)
  <2>1. ASSUME NEW q \in Proc, NEW f \in Fd
        PROVE  <<q, f>> \in Refs(T, h) <=> <<q, f>> \in Refs(t, h) \cup ({c} \X A)
    BY <1>1, <1>2, <1>3 DEF Refs, GivenIn
  <2>2. Refs(T, h) \subseteq Proc \X Fd /\ Refs(t, h) \cup ({c} \X A) \subseteq Proc \X Fd
    BY <1>3 DEF Refs
  <2>3. \A z \in Proc \X Fd : z = <<z[1], z[2]>> /\ z[1] \in Proc /\ z[2] \in Fd
    OBVIOUS
  <2>4. ASSUME NEW z PROVE z \in Refs(T, h) <=> z \in Refs(t, h) \cup ({c} \X A)
    <3>1. CASE z \in Proc \X Fd
      BY <2>1, <2>3, <3>1
    <3>2. CASE z \notin Proc \X Fd
      BY <2>2, <3>2
    <3>. QED BY <3>1, <3>2
  <2>. QED BY <2>4
<1>5. Refs(t, h) \cap ({c} \X A) = {}
  BY <1>1, <1>3 DEF Refs, GivenIn
<1>6. /\ IsFiniteSet(Refs(t, h)) /\ Cardinality(Refs(t, h)) \in Nat
      /\ Cardinality(Refs(T, h)) \in Nat /\ Cardinality(A) \in Nat
  BY <1>3, RefsFinite
<1>7. IsFiniteSet({c} \X A) /\ Cardinality({c} \X A) = Cardinality(A)
  BY <1>3, OnesCount
<1>8. Cardinality(Refs(T, h)) = Cardinality(Refs(t, h)) + Cardinality({c} \X A) - Cardinality({})
  <2>. DEFINE B == {c} \X A
  <2>1. IsFiniteSet(B) /\ Refs(T, h) = Refs(t, h) \cup B /\ Refs(t, h) \cap B = {}
    BY <1>4, <1>5, <1>7
  <2>. HIDE DEF B
  <2>2. Cardinality(Refs(T, h)) = Cardinality(Refs(t, h)) + Cardinality(B) - Cardinality({})
    BY <1>6, <2>1, FS_Union
  <2>. QED BY <2>2 DEF B
<1>9. Cardinality({}) = 0
  BY FS_EmptySet
<1>. QED BY <1>6, <1>7, <1>8, <1>9

(* A free descriptor comes to refer to handle g.                            *)
LEMMA OpenedCount ==
    ASSUME NEW t \in [Proc -> [Fd -> Descriptor]], NEW p \in Proc, NEW f \in Fd,
           t[p][f] = NoFd, NEW g \in Handle, NEW h \in Handle, NEW T,
           \A q \in Proc, e \in Fd : T[q][e].h = IF q = p /\ e = f THEN g ELSE t[q][e].h
    PROVE  Cardinality(Refs(T, h)) = Cardinality(Refs(t, h)) + (IF h = g THEN 1 ELSE 0)
<1>1. h # 0 /\ NoFd.h = 0
  BY FileAssumption DEF Handle, NoFd
<1>2. \A q \in Proc, e \in Fd : T[q][e].h = IF q = p /\ e = f THEN g ELSE t[q][e].h
  OBVIOUS
<1>3. Refs(T, h) = IF h = g THEN Refs(t, h) \cup {<<p, f>>} ELSE Refs(t, h)
  <2>1. ASSUME NEW q \in Proc, NEW e \in Fd
        PROVE  <<q, e>> \in Refs(T, h) <=> <<q, e>> \in Refs(t, h) \/ (h = g /\ q = p /\ e = f)
    BY <1>1, <1>2 DEF Refs
  <2>2. Refs(T, h) \subseteq Proc \X Fd /\ Refs(t, h) \cup {<<p, f>>} \subseteq Proc \X Fd
    BY DEF Refs
  <2>3. \A z \in Proc \X Fd : z = <<z[1], z[2]>> /\ z[1] \in Proc /\ z[2] \in Fd
    OBVIOUS
  <2>4. ASSUME NEW z
        PROVE  z \in Refs(T, h) <=> z \in Refs(t, h) \/ (h = g /\ z = <<p, f>>)
    <3>1. CASE z \in Proc \X Fd
      BY <2>1, <2>3, <3>1
    <3>2. CASE z \notin Proc \X Fd
      BY <2>2, <3>2
    <3>. QED BY <3>1, <3>2
  <2>. QED BY <2>4
<1>4. IsFiniteSet(Refs(t, h)) /\ Cardinality(Refs(t, h)) \in Nat
  BY RefsFinite
<1>5. <<p, f>> \notin Refs(t, h)
  BY <1>1 DEF Refs
<1>6. Cardinality(Refs(t, h) \cup {<<p, f>>}) = Cardinality(Refs(t, h)) + 1
  BY <1>4, <1>5, FS_AddElement
<1>. QED BY <1>3, <1>4, <1>6

(* A handle some descriptor refers to is open.                              *)
LEMMA HandleOpen ==
    ASSUME TableTypes, HandlesExact, NEW p \in Proc, NEW f \in Fd, fds[p][f].h # 0
    PROVE  /\ fds[p][f].h \in Handle
           /\ open[fds[p][f].h].ref \in Nat /\ open[fds[p][f].h].ref # 0
<1>. DEFINE h == fds[p][f].h
<1>1. h \in Handle
  BY DEF TableTypes, Descriptor
<1>2. <<p, f>> \in Refs(fds, h)
  BY DEF Refs
<1>3. Cardinality(Refs(fds, h)) # 0 /\ Cardinality(Refs(fds, h)) \in Nat
  <2>1. IsFiniteSet(Refs(fds, h)) /\ Cardinality(Refs(fds, h)) \in Nat
    BY RefsFinite
  <2>. QED BY <1>2, <2>1, FS_EmptySet
<1>4. Descriptors(h) = Refs(fds, h)
  BY DEF Descriptors, Refs
<1>. QED BY <1>1, <1>3, <1>4 DEF HandlesExact

-----------------------------------------------------------------------------
(* Every call keeps the invariant *)

(* No file disappears.                                                      *)
FilesStay == \A n \in Names : (\E i \in Index : dir[i].name = n)
                                 => \E i \in Index : dir'[i].name = n

LEMMA WriteStays ==
    ASSUME GoodDisk, NEW i \in Index, NEW o, NEW s, Wrote(i, o, s)
    PROVE  FilesStay
<1>1. PICK E \in FileEntry : dir' = [dir EXCEPT ![i] = E] /\ E.name = dir[i].name
  BY DEF Wrote
<1>2. dir \in [Index -> FileEntry]
  BY DEF GoodDisk, DiskTypes
<1>3. \A j \in Index : dir'[j].name = dir[j].name
  BY <1>1, <1>2
<1>. QED BY <1>3 DEF FilesStay

LEMMA OpenStays ==
    ASSUME GoodDisk, NEW n \in Names, Opened(n)
    PROVE  FilesStay /\ \E i \in Index : dir'[i].name = n
<1>1. dir \in [Index -> FileEntry] /\ NoName \notin Names
  BY FileAssumption DEF GoodDisk, DiskTypes
<1>2. ASSUME NEW i \in Index, dir' = [dir EXCEPT ![i] = Blank(n)],
             n = dir[i].name \/ (dir[i].name = NoName /\ \A j \in Index : dir[j].name # n)
      PROVE  FilesStay /\ \E j \in Index : dir'[j].name = n
  <2>1. Blank(n).name = n
    BY DEF Blank, NoEntry
  <2>2. \A j \in Index : dir'[j] = IF j = i THEN Blank(n) ELSE dir[j]
    BY <1>1, <1>2
  <2>3. \A j \in Index : dir[j].name # NoName => dir'[j].name = dir[j].name
    BY <1>2, <2>1, <2>2
  <2>. QED BY <1>1, <2>1, <2>2, <2>3 DEF FilesStay
<1>3. CASE (\E i \in Index : dir[i].name = n) /\ UNCHANGED fsVars
  BY <1>3 DEF fsVars, FilesStay
<1>. QED BY <1>2, <1>3 DEF Opened

(* The disk is as it was.                                                   *)
LEMMA DiskSame ==
    ASSUME GoodDisk, UNCHANGED fsVars
    PROVE  GoodDisk' /\ FilesStay
BY DEF fsVars, GoodDisk, DiskTypes, FilesStay

LEMMA FreeHandle ==
    ASSUME vfs_alloc_fd # 0
    PROVE  vfs_alloc_fd \in Handle /\ open[vfs_alloc_fd].ref = 0
<1>. DEFINE S == {h \in Handle : open[h].ref = 0}
<1>1. S \subseteq Nat
  BY FileAssumption DEF Handle
<1>2. Lowest(S) \in S
  <2>1. Lowest(S) # 0
    BY DEF vfs_alloc_fd
  <2>. HIDE DEF S
  <2>. QED BY <1>1, <2>1, LowestIn
<1>. QED BY <1>2 DEF vfs_alloc_fd

LEMMA FreeDescriptor ==
    ASSUME NEW p, FreeFd(p) # 0
    PROVE  FreeFd(p) \in Fd /\ fds[p][FreeFd(p)] = NoFd
<1>. DEFINE S == {f \in Fd : fds[p][f] = NoFd}
<1>1. S \subseteq Nat
  BY FileAssumption DEF Fd
<1>2. Lowest(S) \in S
  <2>1. Lowest(S) # 0
    BY DEF FreeFd
  <2>. HIDE DEF S
  <2>. QED BY <1>1, <2>1, LowestIn
<1>. QED BY <1>2 DEF FreeFd

LEMMA NoDescriptor ==
    NoFd \in Descriptor /\ NoFd.h = 0 /\ Unused \in OpenEntry /\ Unused.ref = 0
    /\ 0 \notin Handle
BY FileAssumption DEF NoFd, Descriptor, Unused, OpenEntry, Handle

LEMMA OpenKeeps ==
    ASSUME FsInv, NEW p \in live, NEW n \in Names, NEW mode, NEW creat, NEW trunc,
           NEW cloexec \in BOOLEAN, Open(p, n, mode, creat, trunc, cloexec)
    PROVE  FsInv'
<1>. DEFINE h == vfs_alloc_fd
            f == FreeFd(p)
            e == [ref |-> 1, name |-> n, off |-> 0, r |-> mode # "w", w |-> mode # "r"]
<1>1. GoodDisk' /\ FilesStay /\ \E i \in Index : dir'[i].name = n
  BY OpenIs, OpenStays DEF FsInv, Open
<1>2. h \in Handle /\ open[h].ref = 0
  BY FreeHandle DEF Open
<1>3. got' = <<>> /\ live' = live
  BY DEF Open
<1>4. p \in Proc /\ open \in [Handle -> OpenEntry] /\ fds \in [Proc -> [Fd -> Descriptor]]
  BY DEF FsInv, TableTypes
<1>5. \A g \in Handle : open[g].ref # 0 =>
         open[g].name \in Names /\ \E i \in Index : dir'[i].name = open[g].name
  BY <1>1 DEF FsInv, HandlesNamed, FilesStay
<1>6. CASE /\ f # 0 /\ open' = [open EXCEPT ![h] = e]
           /\ fds' = [fds EXCEPT ![p][f] = [h |-> h, cloexec |-> cloexec]]
  <2>1. f \in Fd /\ fds[p][f] = NoFd
    BY <1>6, FreeDescriptor
  <2>2. e \in OpenEntry /\ e.ref = 1 /\ e.name = n
    BY DEF OpenEntry
  <2>. HIDE DEF h, f, e
  <2>3. \A g \in Handle : open'[g] = IF g = h THEN e ELSE open[g]
    BY <1>2, <1>4, <1>6
  <2>4. TableTypes'
    <3>1. open' \in [Handle -> OpenEntry]
      BY <1>4, <1>6, <2>2
    <3>2. [h |-> h, cloexec |-> cloexec] \in Descriptor
      BY <1>2 DEF Descriptor
    <3>3. fds' \in [Proc -> [Fd -> Descriptor]]
      BY <1>4, <1>6, <3>2
    <3>4. \A q \in Proc \ live : \A d \in Fd : fds'[q][d] = NoFd
      BY <1>4, <1>6 DEF FsInv, TableTypes
    <3>. QED BY <1>3, <3>1, <3>3, <3>4 DEF FsInv, TableTypes
  <2>5. HandlesExact'
    <3>1. ASSUME NEW g \in Handle PROVE open'[g].ref = Cardinality(Refs(fds', g))
      <4>1. Cardinality(Refs(fds', g)) = Cardinality(Refs(fds, g)) + (IF g = h THEN 1 ELSE 0)
        <5>1. \A q \in Proc, d \in Fd : fds'[q][d].h = IF q = p /\ d = f THEN h ELSE fds[q][d].h
          BY <1>4, <1>6, <2>1
        <5>. QED BY <1>2, <1>4, <2>1, <5>1, OpenedCount
      <4>2. open[g].ref = Cardinality(Refs(fds, g)) /\ open[g].ref \in Nat
        BY <1>4 DEF FsInv, HandlesExact, Descriptors, Refs, OpenEntry
      <4>. QED BY <1>2, <2>2, <2>3, <4>1, <4>2
    <3>. QED BY <3>1 DEF HandlesExact, Descriptors, Refs
  <2>6. HandlesNamed'
    <3>1. ASSUME NEW g \in Handle
          PROVE  IF open'[g].ref = 0 THEN open'[g] = Unused
                 ELSE open'[g].name \in Names /\ \E i \in Index : dir'[i].name = open'[g].name
      <4>1. open[g].ref = 0 => open[g] = Unused
        BY DEF FsInv, HandlesNamed
      <4>. QED BY <1>1, <1>5, <2>2, <2>3, <4>1
    <3>. QED BY <3>1 DEF HandlesNamed
  <2>. QED BY <1>1, <2>4, <2>5, <2>6 DEF FsInv
<1>7. CASE UNCHANGED <<open, fds>>
  <2>1. TableTypes' /\ HandlesExact'
    BY <1>3, <1>7 DEF FsInv, TableTypes, HandlesExact, Descriptors
  <2>2. HandlesNamed'
    BY <1>5, <1>7 DEF FsInv, HandlesNamed
  <2>. QED BY <1>1, <2>1, <2>2 DEF FsInv
<1>. QED BY <1>6, <1>7 DEF Open

(* The offset moves, and nothing else of a handle.                          *)
LEMMA AdvanceKeeps ==
    ASSUME FsInv, GoodDisk', FilesStay, NEW h \in Handle, NEW n \in Nat, Advance(h, n),
           UNCHANGED <<fds, live>>, got' \in Seq(Nat), open[h].ref # 0
    PROVE  FsInv'
<1>1. open \in [Handle -> OpenEntry] /\ open' = [open EXCEPT ![h].off = @ + n]
  BY DEF FsInv, TableTypes, Advance
<1>2. \A g \in Handle : /\ open'[g].ref = open[g].ref /\ open'[g].name = open[g].name
                        /\ g # h => open'[g] = open[g]
  BY <1>1 DEF OpenEntry
<1>3. open' \in [Handle -> OpenEntry]
  <2>. DEFINE e == open[h]
  <2>1. e \in OpenEntry
    BY <1>1
  <2>2. [e EXCEPT !.off = @ + n] \in OpenEntry
    <3>. HIDE DEF e
    <3>. QED BY <2>1 DEF OpenEntry
  <2>. QED BY <1>1, <2>2
<1>4. TableTypes' /\ HandlesExact'
  BY <1>2, <1>3 DEF FsInv, TableTypes, HandlesExact, Descriptors
<1>5. HandlesNamed'
  BY <1>2 DEF FsInv, HandlesNamed, FilesStay
<1>. QED BY <1>4, <1>5 DEF FsInv

(* The bytes of a file are bytes of its own sectors.                        *)
LEMMA FileByte ==
    ASSUME GoodDisk, NEW i \in Index, NEW a \in Nat, a < dir[i].size
    PROVE  /\ At(disk, dir[i].start, a) \in Nat
           /\ dir[i].alloc # 0 /\ OnDisk(dir[i].start, dir[i].alloc)
           /\ a < dir[i].alloc * SECTOR_SIZE
<1>1. /\ dir[i].alloc \in Nat /\ dir[i].size \in Nat /\ disk \in Disk
      /\ Placed(dir[i]) /\ Zeroed(disk, dir[i])
  BY FileAssumption DEF GoodDisk, DiskTypes, Sound, FileEntry
<1>2. a < dir[i].alloc * SECTOR_SIZE
  <2>1. dir[i].alloc * SECTOR_SIZE \in Nat
    BY <1>1, Bytes
  <2>. QED BY <1>1, <2>1 DEF Zeroed
<1>3. dir[i].alloc # 0
  <2>1. 0 * SECTOR_SIZE = 0
    BY FileAssumption
  <2>. QED BY <1>2, <2>1
<1>4. OnDisk(dir[i].start, dir[i].alloc)
  BY <1>1, <1>3 DEF Placed
<1>5. dir[i].start + (a \div SECTOR_SIZE) \in Sector /\ a % SECTOR_SIZE \in Byte
  BY <1>2, <1>4, RunIs, Position
<1>6. At(disk, dir[i].start, a) \in Nat
  BY <1>1, <1>5 DEF At, Disk
<1>. QED BY <1>2, <1>3, <1>4, <1>6

(* simplefs_read returns bytes.                                             *)
LEMMA ReadBytes ==
    ASSUME GoodDisk, NEW n, find_entry(n) # 0, NEW o \in Nat, NEW count \in Nat
    PROVE  simplefs_read(n, o, count) \in Seq(Nat)
<1>. DEFINE i == find_entry(n)
            l == Smaller(count, dir[i].size - o)
<1>1. i \in Index
  BY FindIs
<1>. HIDE DEF i
<1>2. dir[i].size \in Nat
  BY <1>1 DEF GoodDisk, DiskTypes, FileEntry
<1>3. CASE o >= dir[i].size
  BY <1>3 DEF simplefs_read, i
<1>4. CASE ~(o >= dir[i].size)
  <2>1. l \in Nat /\ l <= dir[i].size - o
    BY <1>2, <1>4 DEF Smaller
  <2>. HIDE DEF l
  <2>2. ASSUME NEW k \in 1 .. l PROVE ByteAt(dir[i].start, o + k - 1) \in Nat
    <3>1. o + k - 1 \in Nat /\ o + k - 1 < dir[i].size
      BY <1>2, <2>1
    <3>. QED BY <1>1, <3>1, FileByte DEF ByteAt, At
  <2>3. [k \in 1 .. l |-> ByteAt(dir[i].start, o + k - 1)] \in Seq(Nat)
    BY <2>1, <2>2
  <2>4. simplefs_read(n, o, count) = [k \in 1 .. l |-> ByteAt(dir[i].start, o + k - 1)]
    BY <1>4 DEF simplefs_read, i, l
  <2>. QED BY <2>3, <2>4
<1>. QED BY <1>3, <1>4

(* A handle a descriptor refers to names a file.                            *)
LEMMA HandleFile ==
    ASSUME FsInv, NEW p \in live, NEW f \in Fd, fds[p][f].h # 0
    PROVE  LET h == fds[p][f].h
           IN  /\ p \in Proc /\ h \in Handle /\ open[h].ref # 0
               /\ open[h].name \in Names /\ open[h].name # NoName /\ open[h].off \in Nat
               /\ find_entry(open[h].name) # 0
               /\ find_entry(open[h].name) \in Index
               /\ dir[find_entry(open[h].name)].name = open[h].name
<1>. DEFINE h == fds[p][f].h
<1>1. p \in Proc
  BY DEF FsInv, TableTypes
<1>2. h \in Handle /\ open[h].ref # 0
  BY <1>1, HandleOpen DEF FsInv
<1>. HIDE DEF h
<1>3. open[h].name \in Names /\ open[h].name # NoName
      /\ \E i \in Index : dir[i].name = open[h].name
  BY <1>2, FileAssumption DEF FsInv, HandlesNamed
<1>4. open[h].off \in Nat
  BY <1>2 DEF FsInv, TableTypes, OpenEntry
<1>5. /\ find_entry(open[h].name) \in Index /\ find_entry(open[h].name) # 0
      /\ dir[find_entry(open[h].name)].name = open[h].name
  BY <1>3, FindIs DEF FsInv
<1>. QED BY <1>1, <1>2, <1>3, <1>4, <1>5 DEF h

LEMMA ReadKeeps ==
    ASSUME FsInv, NEW p \in live, NEW f \in Fd, NEW n \in Counts, Read(p, f, n)
    PROVE  FsInv'
<1>. DEFINE h == fds[p][f].h
<1>1. /\ h # 0 /\ got' = simplefs_read(open[h].name, open[h].off, n)
      /\ Advance(h, Len(got')) /\ UNCHANGED <<fsVars, fds, live>>
  BY DEF Read
<1>2. h \in Handle /\ open[h].ref # 0 /\ open[h].off \in Nat /\ find_entry(open[h].name) # 0
  BY <1>1, HandleFile
<1>. HIDE DEF h
<1>3. n \in Nat
  BY FileAssumption
<1>4. got' \in Seq(Nat) /\ Len(got') \in Nat
  <2>. DEFINE name == open[h].name
              off == open[h].off
  <2>1. find_entry(name) # 0 /\ off \in Nat /\ GoodDisk /\ got' = simplefs_read(name, off, n)
    BY <1>1, <1>2 DEF FsInv
  <2>. HIDE DEF name, off
  <2>2. simplefs_read(name, off, n) \in Seq(Nat)
    BY <1>3, <2>1, ReadBytes
  <2>. QED BY <2>1, <2>2
<1>5. GoodDisk' /\ FilesStay
  BY <1>1, DiskSame DEF FsInv
<1>. QED BY <1>1, <1>2, <1>4, <1>5, AdvanceKeeps

(* simplefs_write writes.                                                   *)
LEMMA WriteIs ==
    ASSUME GoodDisk, NEW n, n # NoName, NEW o \in Nat, NEW s \in Buffers,
           simplefs_write(n, o, s)
    PROVE  find_entry(n) \in Index /\ Wrote(find_entry(n), o, s)
<1>. DEFINE i == find_entry(n)
<1>1. i \in Index /\ dir[i].name # NoName
  BY FindIs DEF simplefs_write
<1>2. s \in Seq(Nat) /\ Len(s) > 0
  BY FileAssumption
<1>3. WriteInPlace(i, o, s) \/ WriteMoved(i, o, s)
  BY DEF simplefs_write
<1>. HIDE DEF i
<1>4. Wrote(i, o, s)
  BY <1>1, <1>2, <1>3, WriteInPlaceIs, WriteMovedIs
<1>. QED BY <1>1, <1>4 DEF i

LEMMA WriteKeeps ==
    ASSUME FsInv, NEW p \in live, NEW f \in Fd, NEW s \in Buffers, Write(p, f, s)
    PROVE  FsInv'
<1>. DEFINE h == fds[p][f].h
<1>1. /\ h # 0 /\ simplefs_write(open[h].name, open[h].off, s)
      /\ Advance(h, Len(s)) /\ got' = <<>> /\ UNCHANGED <<fds, live>>
  BY DEF Write
<1>2. h \in Handle /\ open[h].ref # 0 /\ open[h].off \in Nat /\ open[h].name # NoName
  BY <1>1, HandleFile
<1>. HIDE DEF h
<1>3. Len(s) \in Nat
  BY FileAssumption
<1>4. /\ find_entry(open[h].name) \in Index
      /\ Wrote(find_entry(open[h].name), open[h].off, s)
  BY <1>1, <1>2, WriteIs DEF FsInv
<1>5. GoodDisk' /\ FilesStay
  <2>. DEFINE i == find_entry(open[h].name)
              o == open[h].off
  <2>1. i \in Index /\ Wrote(i, o, s) /\ GoodDisk
    BY <1>4 DEF FsInv
  <2>. HIDE DEF i, o
  <2>2. FilesStay
    BY <2>1, WriteStays
  <2>. QED BY <2>1, <2>2 DEF Wrote
<1>6. got' \in Seq(Nat)
  BY <1>1
<1>. QED BY <1>1, <1>2, <1>3, <1>5, <1>6, AdvanceKeeps

(* Descriptors are closed.                                                  *)
LEMMA CloseKeeps ==
    ASSUME FsInv, NEW p \in live, NEW F, F \subseteq Fd, CloseFds(p, F), UNCHANGED fsVars,
           live' = live \/ (live' = live \ {p} /\ F = {f \in Fd : fds[p][f] # NoFd})
    PROVE  FsInv'
<1>. DEFINE Shut(h) == Cardinality({f \in F : fds[p][f].h = h})
<1>1. /\ open' = [h \in Handle |-> vfs_close(Shut(h), open[h])]
      /\ fds' = [fds EXCEPT ![p] = [f \in Fd |-> IF f \in F THEN NoFd ELSE @[f]]]
      /\ got' = <<>>
  BY DEF CloseFds
<1>2. p \in Proc /\ open \in [Handle -> OpenEntry] /\ fds \in [Proc -> [Fd -> Descriptor]]
      /\ live \subseteq Proc
  BY DEF FsInv, TableTypes
<1>3. ASSUME NEW h \in Handle
      PROVE  /\ Shut(h) \in Nat /\ Shut(h) <= open[h].ref
             /\ Cardinality(Refs(fds', h)) = open[h].ref - Shut(h)
             /\ open[h].ref \in Nat
  <2>1. open[h].ref = Cardinality(Refs(fds, h)) /\ open[h].ref \in Nat
    BY <1>2 DEF FsInv, HandlesExact, Descriptors, Refs, OpenEntry
  <2>2. ShutIn(fds, fds', p, F)
    BY <1>1, <1>2 DEF ShutIn
  <2>3. /\ Shut(h) \in Nat /\ Shut(h) <= Cardinality(Refs(fds, h))
        /\ Cardinality(Refs(fds', h)) = Cardinality(Refs(fds, h)) - Shut(h)
    <3>. DEFINE A == {f \in F : fds[p][f].h = h}
    <3>1. Through(fds, p, F, h, A) /\ Shut(h) = Cardinality(A)
      BY DEF Through
    <3>. HIDE DEF A, Shut
    <3>. QED BY <1>2, <2>2, <3>1, ClosedCount
  <2>. QED BY <2>1, <2>3
<1>. HIDE DEF Shut
<1>4. ASSUME NEW h \in Handle
      PROVE  /\ open'[h] \in OpenEntry
             /\ open'[h].ref = open[h].ref - Shut(h)
             /\ open'[h].ref = 0 => open'[h] = Unused
             /\ open'[h].ref # 0 => open'[h].name = open[h].name /\ open[h].ref # 0
  <2>1. open'[h] = vfs_close(Shut(h), open[h])
    BY <1>1
  <2>2. CASE Shut(h) >= open[h].ref
    BY <1>3, <2>1, <2>2, NoDescriptor DEF vfs_close
  <2>3. CASE ~(Shut(h) >= open[h].ref)
    <3>. DEFINE e == open[h]
    <3>1. e \in OpenEntry /\ open'[h] = [e EXCEPT !.ref = @ - Shut(h)] /\ e.ref - Shut(h) \in Nat
          /\ e.ref - Shut(h) # 0 /\ e.ref # 0
      BY <1>2, <1>3, <2>1, <2>3 DEF vfs_close
    <3>. HIDE DEF e
    <3>2. /\ open'[h] \in OpenEntry /\ open'[h].ref = e.ref - Shut(h) /\ open'[h].ref # 0
          /\ open'[h].name = e.name
      BY <3>1 DEF OpenEntry
    <3>. QED BY <3>1, <3>2 DEF e
  <2>. QED BY <2>2, <2>3
<1>5. GoodDisk' /\ FilesStay
  BY DiskSame DEF FsInv
<1>6. TableTypes'
  <2>1. open' \in [Handle -> OpenEntry]
    BY <1>1, <1>4
  <2>2. fds' \in [Proc -> [Fd -> Descriptor]]
    BY <1>1, <1>2, NoDescriptor
  <2>3. \A q \in Proc, f \in Fd : fds'[q][f] = IF q = p /\ f \in F THEN NoFd ELSE fds[q][f]
    BY <1>1, <1>2
  <2>4. \A q \in Proc \ live' : \A f \in Fd : fds'[q][f] = NoFd
    BY <1>2, <2>3 DEF FsInv, TableTypes
  <2>. QED BY <1>1, <1>2, <2>1, <2>2, <2>4 DEF TableTypes
<1>7. HandlesExact'
  BY <1>3, <1>4 DEF HandlesExact, Descriptors, Refs
<1>8. HandlesNamed'
  BY <1>4, <1>5 DEF FsInv, HandlesNamed, FilesStay
<1>. QED BY <1>5, <1>6, <1>7, <1>8 DEF FsInv

LEMMA ForkKeeps ==
    ASSUME FsInv, NEW p \in live, NEW child \in Proc, Fork(p, child)
    PROVE  FsInv'
<1>. DEFINE Has(h) == Cardinality({f \in Fd : fds[p][f].h = h})
<1>1. /\ open' = [h \in Handle |-> [open[h] EXCEPT !.ref = @ + Has(h)]]
      /\ fds' = [fds EXCEPT ![child] = fds[p]] /\ child \notin live
      /\ live' = live \cup {child} /\ got' = <<>> /\ UNCHANGED fsVars
  BY DEF Fork, Inherit
<1>2. p \in Proc /\ open \in [Handle -> OpenEntry] /\ fds \in [Proc -> [Fd -> Descriptor]]
      /\ live \subseteq Proc /\ \A f \in Fd : fds[child][f] = NoFd
  BY <1>1 DEF FsInv, TableTypes
<1>3. ASSUME NEW h \in Handle
      PROVE  /\ Has(h) \in Nat
             /\ Cardinality(Refs(fds', h)) = open[h].ref + Has(h)
             /\ open[h].ref \in Nat
             /\ Has(h) <= open[h].ref
  <2>1. open[h].ref = Cardinality(Refs(fds, h)) /\ open[h].ref \in Nat
    BY <1>2 DEF FsInv, HandlesExact, Descriptors, Refs, OpenEntry
  <2>2. Has(h) \in Nat /\ Cardinality(Refs(fds', h)) = open[h].ref + Has(h)
    <3>1. GivenIn(fds, fds', p, child)
      BY <1>1, <1>2 DEF GivenIn
    <3>2. Has(h) \in Nat /\ Cardinality(Refs(fds', h)) = Cardinality(Refs(fds, h)) + Has(h)
      <4>. DEFINE A == {f \in Fd : fds[p][f].h = h}
      <4>1. Through(fds, p, Fd, h, A) /\ Has(h) = Cardinality(A)
        BY DEF Through
      <4>. HIDE DEF A, Has
      <4>. QED BY <1>2, <3>1, <4>1, InheritedCount
    <3>. QED BY <2>1, <3>2
  <2>3. Has(h) <= Cardinality(Refs(fds, h))
    <3>. DEFINE T == [fds EXCEPT ![p] = [f \in Fd |-> NoFd]]
    <3>1. ShutIn(fds, T, p, Fd)
      BY <1>2 DEF ShutIn
    <3>. HIDE DEF T
    <3>. DEFINE A == {f \in Fd : fds[p][f].h = h}
    <3>2. Through(fds, p, Fd, h, A) /\ Has(h) = Cardinality(A)
      BY DEF Through
    <3>. HIDE DEF A, Has
    <3>. QED BY <1>2, <3>1, <3>2, ClosedCount
  <2>. QED BY <2>1, <2>2, <2>3
<1>. HIDE DEF Has
<1>4. ASSUME NEW h \in Handle
      PROVE  /\ open'[h] \in OpenEntry
             /\ open'[h].ref = open[h].ref + Has(h)
             /\ open'[h].name = open[h].name
             /\ open[h].ref = 0 => open'[h] = open[h]
             /\ open'[h].ref = 0 <=> open[h].ref = 0
  <2>. DEFINE e == open[h]
  <2>1. e \in OpenEntry /\ open'[h] = [e EXCEPT !.ref = @ + Has(h)] /\ e.ref \in Nat
        /\ Has(h) \in Nat /\ Has(h) <= e.ref
    BY <1>1, <1>2, <1>3
  <2>. HIDE DEF e
  <2>2. open'[h] \in OpenEntry /\ open'[h].ref = e.ref + Has(h) /\ open'[h].name = e.name
    BY <2>1 DEF OpenEntry
  <2>3. e.ref = 0 => open'[h] = e
    <3>1. e.ref = 0 => Has(h) = 0
      BY <2>1
    <3>. QED BY <2>1, <3>1 DEF OpenEntry
  <2>. QED BY <2>1, <2>2, <2>3 DEF e
<1>5. GoodDisk' /\ FilesStay
  BY <1>1, DiskSame DEF FsInv
<1>6. TableTypes'
  <2>1. open' \in [Handle -> OpenEntry]
    BY <1>1, <1>4
  <2>2. fds' \in [Proc -> [Fd -> Descriptor]]
    BY <1>1, <1>2
  <2>3. \A q \in Proc \ live' : \A f \in Fd : fds'[q][f] = NoFd
    BY <1>1, <1>2 DEF FsInv, TableTypes
  <2>4. live' \subseteq Proc /\ got' \in Seq(Nat)
    BY <1>1, <1>2
  <2>. QED BY <2>1, <2>2, <2>3, <2>4 DEF TableTypes
<1>7. HandlesExact'
  BY <1>3, <1>4 DEF HandlesExact, Descriptors, Refs
<1>8. HandlesNamed'
  BY <1>4, <1>5 DEF FsInv, HandlesNamed, FilesStay
<1>. QED BY <1>5, <1>6, <1>7, <1>8 DEF FsInv

-----------------------------------------------------------------------------
(* The invariant *)

LEMMA FsInit == Init => FsInv
<1>. SUFFICES ASSUME Init PROVE FsInv
  OBVIOUS
<1>1. /\ open = [h \in Handle |-> Unused] /\ fds = [p \in Proc |-> [f \in Fd |-> NoFd]]
      /\ live = {1} /\ got = <<>>
  BY DEF Init
<1>2. TableTypes
  <2>1. 1 \in Proc
    BY FileAssumption DEF Proc
  <2>. QED BY <1>1, <2>1, NoDescriptor DEF TableTypes
<1>3. HandlesExact
  <2>1. ASSUME NEW h \in Handle PROVE Descriptors(h) = {}
    BY <1>1, NoDescriptor DEF Descriptors
  <2>2. Cardinality({}) = 0
    BY FS_EmptySet
  <2>. QED BY <1>1, <2>1, <2>2, NoDescriptor DEF HandlesExact
<1>4. HandlesNamed
  BY <1>1, NoDescriptor DEF HandlesNamed
<1>. QED BY <1>2, <1>3, <1>4, FormattedGood DEF FsInv

LEMMA FsNext == ASSUME FsInv, [Next]_vars PROVE FsInv'
<1>1. ASSUME NEW p \in live, NEW f \in Fd, Close(p, f) PROVE FsInv'
  <2>1. {f} \subseteq Fd /\ CloseFds(p, {f}) /\ UNCHANGED <<fsVars, live>>
    BY <1>1 DEF Close
  <2>. QED BY <2>1, CloseKeeps
<1>2. ASSUME NEW p \in live, Exec(p) PROVE FsInv'
  <2>1. CloseOnExec(p) \subseteq Fd /\ CloseFds(p, CloseOnExec(p)) /\ UNCHANGED <<fsVars, live>>
    BY <1>2 DEF Exec, CloseOnExec
  <2>. QED BY <2>1, CloseKeeps
<1>3. ASSUME NEW p \in live, Exit(p) PROVE FsInv'
  <2>. DEFINE F == {f \in Fd : fds[p][f] # NoFd}
  <2>1. F \subseteq Fd /\ CloseFds(p, F) /\ live' = live \ {p} /\ UNCHANGED fsVars
    BY <1>3 DEF Exit
  <2>. QED BY <2>1, CloseKeeps
<1>4. ASSUME NEW p \in live, Call(p) PROVE FsInv'
  BY <1>1, <1>2, <1>3, <1>4, OpenKeeps, ReadKeeps, WriteKeeps, ForkKeeps DEF Call
<1>5. CASE UNCHANGED vars
  <2>1. GoodDisk'
    BY <1>5, DiskSame DEF FsInv, vars
  <2>2. TableTypes' /\ HandlesExact' /\ HandlesNamed'
    BY <1>5 DEF vars, fsVars, tabVars, FsInv, TableTypes, HandlesExact, Descriptors, HandlesNamed
  <2>. QED BY <2>1, <2>2 DEF FsInv
<1>. QED BY <1>4, <1>5 DEF Next, Idle

LEMMA FsInvariant == Spec => []FsInv
<1>. QED BY FsInit, FsNext, PTL DEF Spec

(* The directory, the allocation map, the open files and the descriptors    *)
(* stay in range for every size of disk and tables, and an exited process   *)
(* has no descriptor left.                                                  *)
THEOREM FileTypes == Spec => []TypeOK
<1>1. FsInv => TypeOK
  BY DEF FsInv, GoodDisk, DiskTypes, TableTypes, TypeOK, FileEntry, Disk, Descriptor, OpenEntry
<1>. QED BY <1>1, FsInvariant, PTL

(* After any calls the disk can be mounted, no two files share a sector, no *)
(* sector is leaked, and a file's sectors hold zeros past its end.          *)
THEOREM DiskStaysSound == Spec => []DiskSound
<1>1. FsInv => DiskSound
  BY GoodIsSound DEF FsInv
<1>. QED BY <1>1, FsInvariant, PTL

(* The reference count of a handle is the number of descriptors on it,      *)
(* through open, close, fork, exec and exit.                                *)
THEOREM HandlesCounted == Spec => []HandlesExact
<1>1. FsInv => HandlesExact
  BY DEF FsInv
<1>. QED BY <1>1, FsInvariant, PTL

-----------------------------------------------------------------------------
(* Files: reads return what was written *)

(* find_entry and Content, of a directory and a disk given as values.       *)
FindIn(d, n) == Lowest({i \in Index : d[i].name = n})

ContentIn(d, k, n) ==
    LET i == FindIn(d, n)
    IN  IF i = 0 THEN NoFile ELSE [a \in 1 .. d[i].size |-> At(k, d[i].start, a - 1)]

OneName(d) == \A i, j \in Index : d[i].name = d[j].name /\ d[i].name # NoName => i = j

LEMMA ContentOf ==
    ASSUME NEW d, OneName(d), NEW k, NEW n, n # NoName, NEW i \in Index, d[i].name = n
    PROVE  ContentIn(d, k, n) = [a \in 1 .. d[i].size |-> At(k, d[i].start, a - 1)]
<1>. DEFINE S == {j \in Index : d[j].name = n}
<1>1. S \subseteq Nat /\ 0 \notin Index /\ S # {} /\ \A j \in S : j = i
  BY FileAssumption DEF Index, OneName
<1>2. FindIn(d, n) = i /\ i # 0
  <2>1. FindIn(d, n) = Lowest(S)
    BY DEF FindIn
  <2>. HIDE DEF S
  <2>. QED BY <1>1, <2>1, LowestIn
<1>. QED BY <1>2 DEF ContentIn

LEMMA ContentNone ==
    ASSUME NEW d, NEW k, NEW n, \A i \in Index : d[i].name # n
    PROVE  ContentIn(d, k, n) = NoFile
<1>1. {i \in Index : d[i].name = n} = {}
  OBVIOUS
<1>2. FindIn(d, n) = 0
  BY <1>1 DEF FindIn, Lowest
<1>. QED BY <1>2 DEF ContentIn

(* The mapping, in this state and the next.                                 *)
Contents == [n \in Names |-> Content(n)]
OpenFiles == [h \in Handle |-> OpenFile(h)]
NotOpen == [name |-> NoName, off |-> 0, r |-> FALSE, w |-> FALSE]

LEMMA ContentsAre ==
    /\ \A n : Content(n) = ContentIn(dir, disk, n)
    /\ Contents = [n \in Names |-> ContentIn(dir, disk, n)]
    /\ Contents' = [n \in Names |-> ContentIn(dir', disk', n)]
BY DEF Contents, Content, ContentIn, find_entry, FindIn, ByteAt, At

LEMMA GoodNames == GoodDisk => OneName(dir)
BY DEF GoodDisk, Sound, OneName

LEMMA GoodNamesNext == GoodDisk' => OneName(dir')
BY DEF GoodDisk, Sound, OneName

(* A file is a sequence of bytes.                                           *)
LEMMA ContentBytes ==
    ASSUME GoodDisk, NEW n, n # NoName, NEW i \in Index, dir[i].name = n
    PROVE  /\ ContentIn(dir, disk, n) \in Seq(Nat)
           /\ dir[i].size \in Nat
           /\ Len(ContentIn(dir, disk, n)) = dir[i].size
           /\ \A a \in 1 .. dir[i].size :
                 ContentIn(dir, disk, n)[a] = At(disk, dir[i].start, a - 1)
           /\ ContentIn(dir, disk, n) # NoFile
<1>. DEFINE l == dir[i].size
            c == [a \in 1 .. l |-> At(disk, dir[i].start, a - 1)]
<1>1. ContentIn(dir, disk, n) = c
  BY ContentOf, GoodNames
<1>2. l \in Nat
  BY DEF GoodDisk, DiskTypes, FileEntry
<1>3. ASSUME NEW a \in 1 .. l PROVE At(disk, dir[i].start, a - 1) \in Nat
  <2>1. a - 1 \in Nat /\ a - 1 < l
    BY <1>2
  <2>. QED BY <2>1, FileByte
<1>. HIDE DEF l
<1>4. c \in Seq(Nat) /\ Len(c) = l
  BY <1>2, <1>3
<1>5. c # NoFile
  <2>1. NoFile[1] = -1 /\ Len(NoFile) = 1
    BY DEF NoFile
  <2>2. CASE c = NoFile
    <3>1. l = 1 /\ c[1] \in Nat
      BY <1>3, <1>4, <2>1, <2>2
    <3>. QED BY <2>1, <2>2, <3>1
  <2>. QED BY <2>2
<1>6. \A a \in 1 .. l : c[a] = At(disk, dir[i].start, a - 1)
  OBVIOUS
<1>. QED BY <1>1, <1>2, <1>4, <1>5, <1>6 DEF l

(* A file none of whose sectors, and whose entry, did not change.           *)
LEMMA ContentSame ==
    ASSUME GoodDisk, GoodDisk', NEW n \in Names,
           \A j \in Index : dir[j].name = n =>
               dir'[j] = dir[j] /\ \A x \in RunOf(dir[j]) : disk'[x] = disk[x],
           \A j \in Index : dir'[j].name = n => dir[j].name = n
    PROVE  ContentIn(dir', disk', n) = ContentIn(dir, disk, n)
<1>1. n # NoName
  BY FileAssumption
<1>2. ASSUME NEW i \in Index, dir[i].name = n
      PROVE  ContentIn(dir', disk', n) = ContentIn(dir, disk, n)
  <2>1. ContentIn(dir, disk, n) = [a \in 1 .. dir[i].size |-> At(disk, dir[i].start, a - 1)]
    BY <1>1, <1>2, ContentOf, GoodNames
  <2>2. dir'[i] = dir[i]
    BY <1>2
  <2>3. ContentIn(dir', disk', n) = [a \in 1 .. dir[i].size |-> At(disk', dir[i].start, a - 1)]
    BY <1>1, <1>2, <2>2, ContentOf, GoodNamesNext
  <2>4. ASSUME NEW a \in 1 .. dir[i].size
        PROVE  At(disk', dir[i].start, a - 1) = At(disk, dir[i].start, a - 1)
    <3>1. dir[i].size \in Nat
      BY DEF GoodDisk, DiskTypes, FileEntry
    <3>2. a - 1 \in Nat /\ a - 1 < dir[i].size
      BY <3>1
    <3>3. OnDisk(dir[i].start, dir[i].alloc) /\ a - 1 < dir[i].alloc * SECTOR_SIZE
      BY <3>2, FileByte
    <3>4. \A x \in Run(dir[i].start, dir[i].alloc) : disk'[x] = disk[x]
      BY <1>2 DEF RunOf
    <3>. QED BY <3>2, <3>3, <3>4, SameBytes
  <2>. QED BY <2>1, <2>3, <2>4
<1>3. CASE \A i \in Index : dir[i].name # n
  <2>1. \A i \in Index : dir'[i].name # n
    BY <1>3
  <2>. QED BY <1>3, <2>1, ContentNone
<1>. QED BY <1>2, <1>3

(* simplefs_open, as Files sees it.                                         *)
LEMMA OpenContent ==
    ASSUME GoodDisk, GoodDisk', NEW n \in Names, Opened(n)
    PROVE  \/ Contents' = [Contents EXCEPT ![n] = <<>>]
           \/ Contents[n] # NoFile /\ Contents' = Contents
<1>1. n # NoName /\ NoName \notin Names /\ dir \in [Index -> FileEntry]
  BY FileAssumption DEF GoodDisk, DiskTypes
<1>2. ASSUME NEW i \in Index, dir' = [dir EXCEPT ![i] = Blank(n)], disk' = disk,
             n = dir[i].name \/ (dir[i].name = NoName /\ \A j \in Index : dir[j].name # n)
      PROVE  Contents' = [Contents EXCEPT ![n] = <<>>]
  <2>1. Blank(n).name = n /\ Blank(n).size = 0
    BY DEF Blank, NoEntry
  <2>2. \A j \in Index : dir'[j] = IF j = i THEN Blank(n) ELSE dir[j]
    BY <1>1, <1>2
  <2>3. ContentIn(dir', disk', n) = <<>>
    <3>1. dir'[i].name = n /\ dir'[i].size = 0
      BY <2>1, <2>2
    <3>2. ContentIn(dir', disk', n) = [a \in 1 .. dir'[i].size |-> At(disk', dir'[i].start, a - 1)]
      BY <1>1, <3>1, ContentOf, GoodNamesNext
    <3>3. 1 .. 0 = {}
      OBVIOUS
    <3>. QED BY <3>1, <3>2, <3>3
  <2>4. ASSUME NEW m \in Names, m # n
        PROVE  ContentIn(dir', disk', m) = ContentIn(dir, disk, m)
    <3>1. \A j \in Index : dir[j].name = m => dir'[j] = dir[j]
      BY <1>1, <1>2, <2>2, <2>4
    <3>2. \A j \in Index : dir'[j].name = m => dir[j].name = m
      BY <2>1, <2>2, <2>4
    <3>. QED BY <1>2, <3>1, <3>2, ContentSame
  <2>. QED BY <2>3, <2>4, ContentsAre
<1>3. ASSUME NEW i \in Index, dir[i].name = n, UNCHANGED fsVars
      PROVE  Contents[n] # NoFile /\ Contents' = Contents
  <2>1. ContentIn(dir, disk, n) # NoFile
    BY <1>1, <1>3, ContentBytes
  <2>. QED BY <1>3, <2>1, ContentsAre DEF fsVars
<1>. QED BY <1>2, <1>3 DEF Opened

(* A write splices the buffer into the file it is for, wherever the file    *)
(* is moved, and changes no other.                                          *)
LEMMA WriteContent ==
    ASSUME GoodDisk, GoodDisk', NEW n \in Names, NEW i \in Index, dir[i].name = n,
           NEW o \in Nat, NEW s \in Seq(Nat), Len(s) > 0, Wrote(i, o, s)
    PROVE  Contents' = [Contents EXCEPT ![n] = Abstract!Splice(@, o, s)]
<1>1. n # NoName /\ dir \in [Index -> FileEntry]
  BY FileAssumption DEF GoodDisk, DiskTypes
<1>2. PICK E \in FileEntry :
         /\ dir' = [dir EXCEPT ![i] = E]
         /\ E.name = dir[i].name
         /\ E.size = GrownSize(dir[i], o, s)
         /\ \A a \in Nat : a < E.size => At(disk', E.start, a) = NewByte(dir[i], o, s, a)
  BY DEF Wrote
<1>3. \A j \in Index : dir'[j] = IF j = i THEN E ELSE dir[j]
  BY <1>1, <1>2
<1>. DEFINE c == ContentIn(dir, disk, n)
            l == dir[i].size
            L == E.size
<1>4. /\ l \in Nat /\ Len(c) = l
      /\ \A a \in 1 .. l : c[a] = At(disk, dir[i].start, a - 1)
  BY <1>1, ContentBytes
<1>5. L = Larger(o + Len(s), l) /\ L \in Nat /\ Len(s) \in Nat
  BY <1>2, <1>4 DEF GrownSize, FileEntry
<1>6. ContentIn(dir', disk', n) = [a \in 1 .. L |-> At(disk', E.start, a - 1)]
  <2>1. dir'[i] = E /\ E.name = n
    BY <1>2, <1>3
  <2>. QED BY <1>1, <2>1, ContentOf, GoodNamesNext
<1>. HIDE DEF c
<1>7. Abstract!Splice(c, o, s) =
         [a \in 1 .. L |-> IF a \in o + 1 .. o + Len(s) THEN s[a - o]
                           ELSE IF a <= l THEN c[a] ELSE 0]
  <2>1. Abstract!Larger(Len(c), o + Len(s)) = L
    <3>1. l \in Nat /\ Len(c) = l /\ Len(s) \in Nat /\ L = Larger(o + Len(s), l)
      BY <1>4, <1>5
    <3>. HIDE DEF l, L
    <3>. QED BY <3>1 DEF Larger, Abstract!Larger
  <2>. QED BY <1>4, <2>1 DEF Abstract!Splice
<1>8. ASSUME NEW a \in 1 .. L
      PROVE  At(disk', E.start, a - 1) =
                IF a \in o + 1 .. o + Len(s) THEN s[a - o] ELSE IF a <= l THEN c[a] ELSE 0
  <2>1. a - 1 \in Nat /\ a - 1 < E.size /\ a \in Nat
    BY <1>5
  <2>2. At(disk', E.start, a - 1) = NewByte(dir[i], o, s, a - 1)
    BY <1>2, <2>1
  <2>. HIDE DEF l
  <2>3. /\ a \in o + 1 .. o + Len(s) <=> o <= a - 1 /\ a - 1 < o + Len(s)
        /\ (a - 1) - o + 1 = a - o
        /\ a - 1 < l <=> a <= l
        /\ a <= l => a \in 1 .. l
    BY <1>4, <1>5, <2>1
  <2>4. NewByte(dir[i], o, s, a - 1) =
           IF o <= a - 1 /\ a - 1 < o + Len(s) THEN s[(a - 1) - o + 1]
           ELSE IF a - 1 < l THEN At(disk, dir[i].start, a - 1) ELSE 0
    BY DEF NewByte, l
  <2>. QED BY <1>4, <2>2, <2>3, <2>4
<1>9. ContentIn(dir', disk', n) = Abstract!Splice(c, o, s)
  BY <1>6, <1>7, <1>8
<1>10. ASSUME NEW m \in Names, m # n
       PROVE  ContentIn(dir', disk', m) = ContentIn(dir, disk, m)
  <2>1. \A j \in Index : dir[j].name = m =>
           dir'[j] = dir[j] /\ \A x \in RunOf(dir[j]) : disk'[x] = disk[x]
    BY <1>3, <1>10 DEF Wrote
  <2>2. \A j \in Index : dir'[j].name = m => dir[j].name = m
    BY <1>2, <1>3, <1>10
  <2>. QED BY <2>1, <2>2, ContentSame
<1>. QED BY <1>9, <1>10, ContentsAre DEF c

(* A read returns the file's bytes from the offset on.                      *)
LEMMA ReadContent ==
    ASSUME GoodDisk, NEW n \in Names, NEW i \in Index, dir[i].name = n,
           NEW o \in Nat, NEW count \in Nat
    PROVE  simplefs_read(n, o, count) = Abstract!Slice(Contents[n], o, count)
<1>1. n # NoName
  BY FileAssumption
<1>. DEFINE c == ContentIn(dir, disk, n)
            l == dir[i].size
            m == Abstract!Smaller(o + count, l)
<1>2. /\ l \in Nat /\ Len(c) = l /\ c \in Seq(Nat)
      /\ \A a \in 1 .. l : c[a] = At(disk, dir[i].start, a - 1)
  BY <1>1, ContentBytes
<1>3. find_entry(n) = i
  BY <1>1, FindIs
<1>4. Abstract!Slice(Contents[n], o, count) = SubSeq(c, o + 1, m)
  BY <1>2, ContentsAre DEF Abstract!Slice
<1>5. simplefs_read(n, o, count) =
         IF o >= l THEN <<>>
         ELSE [k \in 1 .. Smaller(count, l - o) |-> ByteAt(dir[i].start, o + k - 1)]
  BY <1>3 DEF simplefs_read
<1>6. m \in Nat /\ m <= l /\ (o >= l => m <= o) /\ (~(o >= l) => m = o + Smaller(count, l - o))
  BY <1>2 DEF Abstract!Smaller, Smaller
<1>. HIDE DEF c, l, m
<1>7. CASE o >= l
  <2>1. SubSeq(c, o + 1, m) = <<>>
    BY <1>2, <1>6, <1>7
  <2>. QED BY <1>4, <1>5, <1>7, <2>1
<1>8. CASE ~(o >= l)
  <2>. DEFINE r == Smaller(count, l - o)
  <2>1. r \in Nat /\ m = o + r /\ o + r <= l
    BY <1>2, <1>6, <1>8 DEF Smaller
  <2>2. SubSeq(c, o + 1, m) = [k \in 1 .. r |-> c[o + k]]
    <3>. HIDE DEF r
    <3>1. m - (o + 1) + 1 = r
      BY <2>1
    <3>2. \A k \in 1 .. r : k + (o + 1) - 1 = o + k
      BY <2>1
    <3>. QED BY <1>2, <2>1, <3>1, <3>2
  <2>3. ASSUME NEW k \in 1 .. r PROVE c[o + k] = ByteAt(dir[i].start, o + k - 1)
    <3>. HIDE DEF r
    <3>1. o + k \in 1 .. l
      BY <1>2, <2>1
    <3>. QED BY <1>2, <3>1 DEF At, ByteAt
  <2>. QED BY <1>4, <1>5, <1>8, <2>2, <2>3
<1>. QED BY <1>7, <1>8

(* The steps of Files.                                                      *)
FilesVars == <<Contents, OpenFiles, got>>

LEMMA FilesSteps ==
    /\ \A h \in Handle, n \in Names :
          /\ OpenFiles[h] = NotOpen /\ got' = <<>>
          /\ \/ Contents' = [Contents EXCEPT ![n] = <<>>]
             \/ Contents[n] # NoFile /\ Contents' = Contents
          /\ \/ \E r, w \in BOOLEAN :
                   OpenFiles' = [OpenFiles EXCEPT ![h] = [name |-> n, off |-> 0, r |-> r, w |-> w]]
             \/ OpenFiles' = OpenFiles
          => Abstract!Next
    /\ \A h \in Handle, n \in Counts :
          /\ OpenFiles[h] # NotOpen /\ OpenFiles[h].r
          /\ got' = Abstract!Slice(Contents[OpenFiles[h].name], OpenFiles[h].off, n)
          /\ OpenFiles' = [OpenFiles EXCEPT ![h].off = @ + Len(got')]
          /\ Contents' = Contents
          => Abstract!Next
    /\ \A h \in Handle, s \in Buffers :
          /\ OpenFiles[h] # NotOpen /\ OpenFiles[h].w
          /\ Contents' = [Contents EXCEPT ![OpenFiles[h].name] =
                             Abstract!Splice(@, OpenFiles[h].off, s)]
          /\ OpenFiles' = [OpenFiles EXCEPT ![h].off = @ + Len(s)]
          /\ got' = <<>>
          => Abstract!Next
    /\ \A H \in SUBSET Handle :
          /\ OpenFiles' = [h \in Handle |-> IF h \in H THEN NotOpen ELSE OpenFiles[h]]
          /\ got' = <<>> /\ Contents' = Contents
          => Abstract!Next
<1>1. ASSUME NEW h \in Handle, NEW n \in Names,
             OpenFiles[h] = NotOpen, got' = <<>>,
             \/ Contents' = [Contents EXCEPT ![n] = <<>>]
             \/ Contents[n] # NoFile /\ Contents' = Contents,
             \/ \E r, w \in BOOLEAN :
                   OpenFiles' = [OpenFiles EXCEPT ![h] = [name |-> n, off |-> 0, r |-> r, w |-> w]]
             \/ OpenFiles' = OpenFiles
      PROVE  Abstract!Next
  <2>1. Abstract!Open(h, n)
    BY <1>1, Zenon DEF Abstract!Open, Abstract!Emptied, Abstract!Found, Contents, OpenFiles, NotOpen
  <2>. QED BY <2>1, Zenon DEF Abstract!Next
<1>2. ASSUME NEW h \in Handle, NEW n \in Counts,
             OpenFiles[h] # NotOpen, OpenFiles[h].r,
             got' = Abstract!Slice(Contents[OpenFiles[h].name], OpenFiles[h].off, n),
             OpenFiles' = [OpenFiles EXCEPT ![h].off = @ + Len(got')], Contents' = Contents
      PROVE  Abstract!Next
  <2>1. Abstract!Read(h, n)
    BY <1>2, Zenon DEF Abstract!Read, Contents, OpenFiles, NotOpen
  <2>. QED BY <2>1, Zenon DEF Abstract!Next
<1>3. ASSUME NEW h \in Handle, NEW s \in Buffers,
             OpenFiles[h] # NotOpen, OpenFiles[h].w, got' = <<>>,
             Contents' = [Contents EXCEPT ![OpenFiles[h].name] =
                             Abstract!Splice(@, OpenFiles[h].off, s)],
             OpenFiles' = [OpenFiles EXCEPT ![h].off = @ + Len(s)]
      PROVE  Abstract!Next
  <2>1. Abstract!Write(h, s)
    BY <1>3, Zenon DEF Abstract!Write, Contents, OpenFiles, NotOpen
  <2>. QED BY <2>1, Zenon DEF Abstract!Next
<1>4. ASSUME NEW H \in SUBSET Handle,
             OpenFiles' = [h \in Handle |-> IF h \in H THEN NotOpen ELSE OpenFiles[h]],
             got' = <<>>, Contents' = Contents
      PROVE  Abstract!Next
  <2>1. Abstract!Close(H)
    BY <1>4, Zenon DEF Abstract!Close, Contents, OpenFiles, NotOpen
  <2>. QED BY <2>1, Zenon DEF Abstract!Next
<1>. QED BY <1>1, <1>2, <1>3, <1>4

(* What a handle shows.                                                     *)
Shows(e) == [name |-> e.name, off |-> e.off, r |-> e.r, w |-> e.w]

LEMMA OpenFilesAre ==
    /\ OpenFiles = [h \in Handle |-> Shows(open[h])]
    /\ OpenFiles' = [h \in Handle |-> Shows(open'[h])]
    /\ Shows(Unused) = NotOpen
BY DEF OpenFiles, OpenFile, Shows, Unused, NotOpen

LEMMA OpenShown ==
    ASSUME FsInv, FsInv', NEW p \in live, NEW n \in Names, NEW mode, NEW creat, NEW trunc,
           NEW cloexec \in BOOLEAN, Open(p, n, mode, creat, trunc, cloexec)
    PROVE  Abstract!Next
<1>. DEFINE h == vfs_alloc_fd
            e == [ref |-> 1, name |-> n, off |-> 0, r |-> mode # "w", w |-> mode # "r"]
<1>1. \/ Contents' = [Contents EXCEPT ![n] = <<>>]
      \/ Contents[n] # NoFile /\ Contents' = Contents
  BY OpenIs, OpenContent DEF FsInv, Open
<1>2. h \in Handle /\ open[h] = Unused
  BY FreeHandle DEF Open, FsInv, HandlesNamed
<1>3. OpenFiles[h] = NotOpen /\ got' = <<>>
  BY <1>2, OpenFilesAre DEF Open
<1>4. (open' = [open EXCEPT ![h] = e]) \/ open' = open
  BY DEF Open
<1>. HIDE DEF h
<1>5. \/ \E r, w \in BOOLEAN :
            OpenFiles' = [OpenFiles EXCEPT ![h] = [name |-> n, off |-> 0, r |-> r, w |-> w]]
      \/ OpenFiles' = OpenFiles
  <2>1. CASE open' = [open EXCEPT ![h] = e]
    <3>1. Shows(e) = [name |-> n, off |-> 0, r |-> mode # "w", w |-> mode # "r"]
      BY DEF Shows
    <3>. HIDE DEF e
    <3>2. open \in [Handle -> OpenEntry]
      BY DEF FsInv, TableTypes
    <3>3. OpenFiles' = [OpenFiles EXCEPT ![h] = Shows(e)]
      BY <1>2, <2>1, <3>2, OpenFilesAre
    <3>. QED BY <3>1, <3>3
  <2>2. CASE open' = open
    BY <2>2, OpenFilesAre
  <2>. QED BY <1>4, <2>1, <2>2
<1>. QED BY <1>1, <1>2, <1>3, <1>5, FilesSteps

(* The offset of a handle moves.                                            *)
LEMMA AdvanceShown ==
    ASSUME FsInv, NEW h \in Handle, NEW n \in Nat, Advance(h, n)
    PROVE  OpenFiles' = [OpenFiles EXCEPT ![h].off = @ + n]
<1>1. open \in [Handle -> OpenEntry] /\ open' = [open EXCEPT ![h].off = @ + n]
  BY DEF FsInv, TableTypes, Advance
<1>. DEFINE e == open[h]
            E == [e EXCEPT !.off = @ + n]
<1>2. e \in OpenEntry /\ \A g \in Handle : open'[g] = IF g = h THEN E ELSE open[g]
  BY <1>1
<1>3. Shows(E) = [Shows(e) EXCEPT !.off = @ + n]
  <2>. HIDE DEF e
  <2>. QED BY <1>2 DEF Shows, OpenEntry
<1>. HIDE DEF e, E
<1>4. OpenFiles' = [g \in Handle |-> IF g = h THEN Shows(E) ELSE Shows(open[g])]
  BY <1>2, OpenFilesAre
<1>5. OpenFiles = [g \in Handle |-> Shows(open[g])] /\ OpenFiles[h] = Shows(e)
  BY OpenFilesAre DEF e
<1>. QED BY <1>3, <1>4, <1>5

LEMMA HandleShown ==
    ASSUME FsInv, NEW p \in live, NEW f \in Fd, fds[p][f].h # 0
    PROVE  LET h == fds[p][f].h
           IN  /\ OpenFiles[h] # NotOpen /\ OpenFiles[h].name = open[h].name
               /\ OpenFiles[h].off = open[h].off
               /\ OpenFiles[h].r = open[h].r /\ OpenFiles[h].w = open[h].w
<1>. DEFINE h == fds[p][f].h
<1>1. h \in Handle /\ open[h].name # NoName
  BY HandleFile
<1>. HIDE DEF h
<1>2. OpenFiles[h] = Shows(open[h])
  BY <1>1, OpenFilesAre
<1>3. /\ Shows(open[h]).name = open[h].name /\ Shows(open[h]).off = open[h].off
      /\ Shows(open[h]).r = open[h].r /\ Shows(open[h]).w = open[h].w
  BY DEF Shows
<1>4. NotOpen.name = NoName
  BY DEF NotOpen
<1>. QED BY <1>1, <1>2, <1>3, <1>4 DEF h

LEMMA ReadShown ==
    ASSUME FsInv, NEW p \in live, NEW f \in Fd, NEW n \in Counts, Read(p, f, n)
    PROVE  Abstract!Next
<1>. DEFINE h == fds[p][f].h
            name == open[h].name
            off == open[h].off
            i == find_entry(name)
<1>1. /\ h # 0 /\ open[h].r /\ got' = simplefs_read(name, off, n)
      /\ Advance(h, Len(got')) /\ UNCHANGED fsVars
  BY DEF Read
<1>2. /\ h \in Handle /\ off \in Nat /\ name \in Names /\ i \in Index /\ dir[i].name = name
      /\ i # 0
  BY <1>1, HandleFile
<1>3. OpenFiles[h] # NotOpen /\ OpenFiles[h].name = name /\ OpenFiles[h].off = off
      /\ OpenFiles[h].r
  BY <1>1, HandleShown
<1>4. Contents' = Contents
  BY <1>1, ContentsAre DEF fsVars
<1>. HIDE DEF h, name, off, i
<1>5. n \in Nat
  BY FileAssumption
<1>6. got' = Abstract!Slice(Contents[name], off, n)
  BY <1>1, <1>2, <1>5, ReadContent DEF FsInv
<1>7. got' \in Seq(Nat) /\ Len(got') \in Nat
  BY <1>1, <1>2, <1>5, ReadBytes DEF FsInv, i
<1>8. OpenFiles' = [OpenFiles EXCEPT ![h].off = @ + Len(got')]
  BY <1>1, <1>2, <1>7, AdvanceShown
<1>. QED BY <1>2, <1>3, <1>4, <1>6, <1>8, FilesSteps

LEMMA WriteShown ==
    ASSUME FsInv, FsInv', NEW p \in live, NEW f \in Fd, NEW s \in Buffers, Write(p, f, s)
    PROVE  Abstract!Next
<1>. DEFINE h == fds[p][f].h
            name == open[h].name
            off == open[h].off
            i == find_entry(name)
<1>1. /\ h # 0 /\ open[h].w /\ simplefs_write(name, off, s)
      /\ Advance(h, Len(s)) /\ got' = <<>>
  BY DEF Write
<1>2. /\ h \in Handle /\ off \in Nat /\ name \in Names /\ name # NoName
      /\ i \in Index /\ dir[i].name = name
  BY <1>1, HandleFile
<1>3. OpenFiles[h] # NotOpen /\ OpenFiles[h].name = name /\ OpenFiles[h].off = off
      /\ OpenFiles[h].w
  BY <1>1, HandleShown
<1>. HIDE DEF h, name, off
<1>4. Wrote(i, off, s)
  BY <1>1, <1>2, WriteIs DEF FsInv
<1>5. s \in Seq(Nat) /\ Len(s) \in Nat /\ Len(s) > 0
  BY FileAssumption
<1>. HIDE DEF i
<1>6. Contents' = [Contents EXCEPT ![name] = Abstract!Splice(@, off, s)]
  BY <1>2, <1>4, <1>5, WriteContent DEF FsInv
<1>7. OpenFiles' = [OpenFiles EXCEPT ![h].off = @ + Len(s)]
  BY <1>1, <1>2, <1>5, AdvanceShown
<1>. QED BY <1>1, <1>2, <1>3, <1>6, <1>7, FilesSteps

LEMMA CloseShown ==
    ASSUME FsInv, NEW p \in live, NEW F, F \subseteq Fd, CloseFds(p, F), UNCHANGED fsVars
    PROVE  Abstract!Next
<1>. DEFINE Shut(h) == Cardinality({f \in F : fds[p][f].h = h})
            H == {h \in Handle : Shut(h) >= open[h].ref}
<1>1. open' = [h \in Handle |-> vfs_close(Shut(h), open[h])] /\ got' = <<>>
  BY DEF CloseFds
<1>2. open \in [Handle -> OpenEntry]
  BY DEF FsInv, TableTypes
<1>3. Contents' = Contents
  BY ContentsAre DEF fsVars
<1>4. H \in SUBSET Handle /\ \A h \in Handle : h \in H <=> Shut(h) >= open[h].ref
  OBVIOUS
<1>. HIDE DEF Shut, H
<1>5. ASSUME NEW h \in Handle
      PROVE  Shows(open'[h]) = IF h \in H THEN NotOpen ELSE OpenFiles[h]
  <2>1. open'[h] = vfs_close(Shut(h), open[h]) /\ OpenFiles[h] = Shows(open[h])
    BY <1>1, OpenFilesAre
  <2>2. CASE h \in H
    BY <1>4, <2>1, <2>2, OpenFilesAre DEF vfs_close
  <2>3. CASE h \notin H
    <3>. DEFINE e == open[h]
    <3>1. e \in OpenEntry /\ open'[h] = [e EXCEPT !.ref = @ - Shut(h)]
      BY <1>2, <1>4, <2>1, <2>3 DEF vfs_close
    <3>2. Shows(open'[h]) = Shows(e)
      <4>. HIDE DEF e
      <4>. QED BY <3>1 DEF Shows, OpenEntry
    <3>. QED BY <2>1, <2>3, <3>2
  <2>. QED BY <2>2, <2>3
<1>6. OpenFiles' = [h \in Handle |-> IF h \in H THEN NotOpen ELSE OpenFiles[h]]
  BY <1>5, OpenFilesAre
<1>. QED BY <1>1, <1>3, <1>4, <1>6, FilesSteps

LEMMA ForkShown ==
    ASSUME FsInv, NEW p \in live, NEW child \in Proc, Fork(p, child)
    PROVE  Abstract!Next
<1>. DEFINE Has(h) == Cardinality({f \in Fd : fds[p][f].h = h})
<1>1. /\ open' = [h \in Handle |-> [open[h] EXCEPT !.ref = @ + Has(h)]]
      /\ got' = <<>> /\ UNCHANGED fsVars
  BY DEF Fork, Inherit
<1>2. open \in [Handle -> OpenEntry]
  BY DEF FsInv, TableTypes
<1>3. Contents' = Contents
  BY <1>1, ContentsAre DEF fsVars
<1>. HIDE DEF Has
<1>4. ASSUME NEW h \in Handle PROVE Shows(open'[h]) = OpenFiles[h]
  <2>. DEFINE e == open[h]
  <2>1. e \in OpenEntry /\ open'[h] = [e EXCEPT !.ref = @ + Has(h)] /\ OpenFiles[h] = Shows(e)
    BY <1>1, <1>2, OpenFilesAre
  <2>. HIDE DEF e
  <2>. QED BY <2>1 DEF Shows, OpenEntry
<1>5. OpenFiles' = [h \in Handle |-> IF h \in {} THEN NotOpen ELSE OpenFiles[h]]
  BY <1>4, OpenFilesAre
<1>6. {} \in SUBSET Handle
  OBVIOUS
<1>. QED BY <1>1, <1>3, <1>5, <1>6, FilesSteps

(* Every call is a step of Files.                                           *)
LEMMA FilesNext == ASSUME FsInv, FsInv', [Next]_vars PROVE Abstract!Next \/ UNCHANGED FilesVars
<1>1. ASSUME NEW p \in live, NEW f \in Fd, Close(p, f) PROVE Abstract!Next
  <2>1. {f} \subseteq Fd /\ CloseFds(p, {f}) /\ UNCHANGED fsVars
    BY <1>1 DEF Close
  <2>. QED BY <2>1, CloseShown
<1>2. ASSUME NEW p \in live, Exec(p) PROVE Abstract!Next
  <2>1. CloseOnExec(p) \subseteq Fd /\ CloseFds(p, CloseOnExec(p)) /\ UNCHANGED fsVars
    BY <1>2 DEF Exec, CloseOnExec
  <2>. QED BY <2>1, CloseShown
<1>3. ASSUME NEW p \in live, Exit(p) PROVE Abstract!Next
  <2>. DEFINE F == {f \in Fd : fds[p][f] # NoFd}
  <2>1. F \subseteq Fd /\ CloseFds(p, F) /\ UNCHANGED fsVars
    BY <1>3 DEF Exit
  <2>. QED BY <2>1, CloseShown
<1>4. ASSUME NEW p \in live, Call(p) PROVE Abstract!Next
  BY <1>1, <1>2, <1>3, <1>4, OpenShown, ReadShown, WriteShown, ForkShown DEF Call
<1>5. CASE UNCHANGED vars
  <2>1. Contents' = Contents /\ got' = got
    BY <1>5, ContentsAre DEF vars, fsVars
  <2>2. OpenFiles' = OpenFiles
    BY <1>5, OpenFilesAre DEF vars, tabVars
  <2>. QED BY <2>1, <2>2 DEF FilesVars
<1>. QED BY <1>4, <1>5 DEF Next, Idle

LEMMA FilesInit == Init => Abstract!Init
<1>. SUFFICES ASSUME Init PROVE Abstract!Init
  OBVIOUS
<1>1. open = [h \in Handle |-> Unused] /\ got = <<>> /\ dir = [i \in Index |-> NoEntry]
  BY DEF Init
<1>2. OpenFiles = [h \in Handle |-> NotOpen]
  BY <1>1, OpenFilesAre
<1>3. Contents = [n \in Names |-> NoFile]
  <2>1. ASSUME NEW n \in Names PROVE ContentIn(dir, disk, n) = NoFile
    <3>1. \A i \in Index : dir[i].name # n
      BY <1>1, FileAssumption DEF NoEntry
    <3>. QED BY <3>1, ContentNone
  <2>. QED BY <2>1, ContentsAre
<1>. QED BY <1>1, <1>2, <1>3, Zenon DEF Abstract!Init, Contents, OpenFiles, NotOpen

(* SimpleFS and the VFS keep the promise of Files for any number of files,  *)
(* sectors and processes: a read returns the bytes last written, wherever   *)
(* growing has moved the file, and no write changes another file.           *)
THEOREM FilesFaithful == Spec => FilesKept
<1>1. Init => Abstract!Init
  BY FilesInit
<1>2. FsInv /\ FsInv' /\ [Next]_vars
         => [Abstract!Next]_<<[n \in Names |-> Content(n)], [h \in Handle |-> OpenFile(h)], got>>
  BY FilesNext DEF FilesVars, Contents, OpenFiles
<1>. QED BY <1>1, <1>2, FsInvariant, PTL DEF Spec, FilesKept, Abstract!Spec

=============================================================================
