-------------------------------- MODULE Heap --------------------------------
(***************************************************************************)
(* The kernel heap (kernel/allocator.c): a doubly linked list of block     *)
(* headers that lie in the heap itself, first fit, splitting and merging   *)
(* with both neighbours.  Callers free what they were given, once; SYS_EXEC *)
(* is the one that allocates while the system runs.                        *)
(***************************************************************************)
EXTENDS Integers, FiniteSets, FiniteSetsExt

CONSTANTS HEAP_SIZE, ALIGNMENT, MIN_SPLIT,
          HEADER,     \* sizeof(struct heap_block)
          UINT32,     \* 2^32
          Sizes       \* what is asked for

HEAP_START == 1
HEAP_END   == HEAP_START + HEAP_SIZE
NULL       == 0
Address    == HEAP_START .. HEAP_END - 1   \* where a header may be

VARIABLES hdr,        \* the header at each address that is a block's
          heap_used,
          held        \* the blocks callers hold, with the sizes they asked for

vars == <<hdr, heap_used, held>>

NoHeader == [size |-> 0, free |-> FALSE, next |-> NULL, prev |-> NULL]

allocator_init ==
    /\ hdr = [a \in Address |->
                IF a = HEAP_START
                THEN [size |-> HEAP_SIZE - HEADER, free |-> TRUE,
                      next |-> NULL, prev |-> NULL]
                ELSE NoHeader]
    /\ heap_used = 0
    /\ held = [a \in {} |-> 0]

(* In words that wrap; no caller asks for a size that near to 2^32.         *)
align_up(n) == (((n + ALIGNMENT - 1) % UINT32) \div ALIGNMENT) * ALIGNMENT

(***************************************************************************)
(* The blocks on the list: what kmalloc's walk from heap_head visits, in   *)
(* this order.                                                             *)
(***************************************************************************)
Steps == 0 .. HEAP_SIZE \div HEADER

Visited[n \in Steps] ==
    IF n = 0 THEN HEAP_START
    ELSE IF Visited[n - 1] = NULL THEN NULL ELSE hdr[Visited[n - 1]].next

Chain == {Visited[n] : n \in Steps} \ {NULL}

Fitting(needed) ==
    {n \in Steps : /\ Visited[n] # NULL
                   /\ hdr[Visited[n]].free
                   /\ hdr[Visited[n]].size >= needed}

FirstFit(needed) ==
    IF Fitting(needed) = {} THEN NULL ELSE Visited[Min(Fitting(needed))]

(***************************************************************************)
(* split_block: the rest becomes a free block of its own unless it is too  *)
(* small to be worth it.                                                   *)
(***************************************************************************)
SplitUnlinked(b, needed) ==
    LET rest == hdr[b].size - needed
        new  == b + HEADER + needed
    IN  IF rest <= HEADER + MIN_SPLIT THEN hdr
        ELSE [hdr EXCEPT ![new] = [size |-> rest - HEADER, free |-> TRUE,
                                   next |-> hdr[b].next, prev |-> b],
                         ![b].size = needed,
                         ![b].next = new]

split_block(b, needed) ==
    LET rest == hdr[b].size - needed
        new  == b + HEADER + needed
        nx   == hdr[b].next
        h    == [hdr EXCEPT ![new] = [size |-> rest - HEADER, free |-> TRUE,
                                      next |-> nx, prev |-> b],
                            ![b].size = needed,
                            ![b].next = new]
    IN  IF rest <= HEADER + MIN_SPLIT THEN hdr
        ELSE IF nx = NULL THEN h ELSE [h EXCEPT ![nx].prev = new]

kmalloc(size) ==
    LET needed == align_up(size)
        b == FirstFit(needed)
    IN  /\ b # NULL
        /\ hdr' = [split_block(b, needed) EXCEPT ![b].free = FALSE]
        /\ heap_used' = heap_used + hdr'[b].size
        /\ held' = [a \in DOMAIN held \cup {b} |-> IF a = b THEN size ELSE held[a]]

(***************************************************************************)
(* The two halves of coalesce on headers h: with the block behind, then    *)
(* with the block in front.  The header that leaves the list is bytes of   *)
(* the merged block from then on, for its next owner to overwrite.         *)
(***************************************************************************)
Relink(h, a, b) == IF a = NULL THEN h ELSE [h EXCEPT ![a].prev = b]

MergeNext(h, b) ==
    LET nx == h[b].next
    IN  IF nx = NULL THEN h
        ELSE IF ~h[nx].free THEN h
        ELSE Relink([h EXCEPT ![b].size = @ + HEADER + h[nx].size,
                              ![b].next = h[nx].next,
                              ![nx] = NoHeader],
                    h[nx].next, b)

MergePrev(h, b) ==
    LET pv == h[b].prev
    IN  IF pv = NULL THEN h
        ELSE IF ~h[pv].free THEN h
        ELSE Relink([h EXCEPT ![pv].size = @ + HEADER + h[b].size,
                              ![pv].next = h[b].next,
                              ![b] = NoHeader],
                    h[b].next, pv)

coalesce(h, b) == MergePrev(MergeNext(h, b), b)

kfree(b) ==
    /\ b \in DOMAIN held
    /\ ~hdr[b].free
    /\ heap_used' = IF heap_used >= hdr[b].size THEN heap_used - hdr[b].size ELSE 0
    /\ hdr' = coalesce([hdr EXCEPT ![b].free = TRUE], b)
    /\ held' = [a \in DOMAIN held \ {b} |-> held[a]]

Next == (\E n \in Sizes : kmalloc(n)) \/ (\E b \in DOMAIN held : kfree(b))

Spec == allocator_init /\ [][Next]_vars

-----------------------------------------------------------------------------
(* Properties *)

(* The headers, the count of used bytes and the callers' blocks stay in     *)
(* the heap.                                                                *)
TypeOK ==
    /\ hdr \in [Address -> [size : 0 .. HEAP_SIZE, free : BOOLEAN,
                            next : Address \cup {NULL}, prev : Address \cup {NULL}]]
    /\ heap_used \in 0 .. HEAP_SIZE
    /\ DOMAIN held \subseteq Address
    /\ \A b \in DOMAIN held : held[b] \in Sizes

(* The list tiles the heap: each block ends where the next one begins, the  *)
(* last one at the end of the heap, and the links back match the links      *)
(* forward, through any sequence of splits and merges.  Two blocks of       *)
(* different callers therefore never overlap.  Free neighbours are always   *)
(* merged, so a heap with nothing in use is one block again and exec cannot *)
(* wear it out.                                                             *)
FreeMerged ==
    \A b \in Chain : hdr[b].free /\ hdr[b].next # NULL => ~hdr[hdr[b].next].free

HeapTiled ==
    /\ hdr[HEAP_START].prev = NULL
    /\ \A b \in Chain :
          LET nx == hdr[b].next
              end == b + HEADER + hdr[b].size
          IN  IF nx = NULL THEN end = HEAP_END ELSE nx = end /\ hdr[nx].prev = b
    /\ FreeMerged

(* The blocks in use are those callers hold, each as long as was asked for, *)
(* and heap_used is the sum of their sizes: the branch of kfree for a       *)
(* count that is too small is never taken.                                  *)
HeldBlocks ==
    /\ {b \in Chain : ~hdr[b].free} = DOMAIN held
    /\ \A b \in DOMAIN held : hdr[b].size >= held[b]
    /\ heap_used = MapThenSumSet(LAMBDA b : hdr[b].size, DOMAIN held)

=============================================================================
