------------------------------ MODULE ExecStack ------------------------------
(***************************************************************************)
(* The arguments of exec (kernel/syscall.c): exec_copy_vector copies argv  *)
(* and envp out of the caller's memory into one buffer, and                *)
(* exec_build_user_stack lays them out in the new program's stack page:    *)
(* the strings from the top down, below them an aligned table of argc, the *)
(* pointers of argv, 0, the pointers of envp, 0.                           *)
(*                                                                         *)
(* A string is its length with the NUL; its characters are a number that   *)
(* no other string has.  A word in the stack is its value followed by      *)
(* WORD_SIZE - 1 bytes that are no characters.                             *)
(***************************************************************************)
EXTENDS Integers, Sequences

CONSTANTS EXEC_MAX_ARGS, EXEC_MAX_ENVS,
          EXEC_MAX_STRING_BYTES, EXEC_MAX_VECTOR_BYTES,
          USER_STACK_TOP,
          StackSizes,      \* USER_STACK_SIZE, and a smaller one
          WORD_SIZE, STACK_ALIGN,
          Lengths          \* of the strings programs pass, with the NUL

WordTail == -1

Vectors == {"argv", "envp"}
Limit == [v \in Vectors |-> IF v = "argv" THEN EXEC_MAX_ARGS ELSE EXEC_MAX_ENVS]

(***************************************************************************)
(* The i-th string of a vector, when it has n characters and a NUL.        *)
(***************************************************************************)
Letter(v, i) == USER_STACK_TOP + i + IF v = "argv" THEN 0 ELSE EXEC_MAX_ARGS + 1

Text(v, i, n) == [k \in 1 .. n |-> IF k = n THEN 0 ELSE Letter(v, i)]

VARIABLES
    stack_size,
    phase,     \* "argv", "envp": copying; "push envp", "push argv", "table"; the result
    passed,    \* the lengths of the strings the program passed, those read so far
    offsets,   \* argv_offsets and env_offsets
    data,      \* vectors->data up to bytes_used
    ptr,       \* argv_user and env_user
    sp,
    left,      \* how many strings of this vector are still to be pushed
    stack      \* the stack page

vars == <<stack_size, phase, passed, offsets, data, ptr, sp, left, stack>>

stack_page == USER_STACK_TOP - stack_size
Stack == stack_page .. USER_STACK_TOP - 1

Init ==
    /\ stack_size \in StackSizes
    /\ phase = "argv"
    /\ passed = [v \in Vectors |-> <<>>]
    /\ offsets = [v \in Vectors |-> <<>>]
    /\ data = <<>>
    /\ ptr = [v \in Vectors |-> [i \in 1 .. Limit[v] |-> 0]]
    /\ sp = USER_STACK_TOP
    /\ left = 0
    /\ stack = [a \in Stack |-> 0]

-----------------------------------------------------------------------------
(* exec_copy_vector *)

Fail(error) ==
    /\ phase' = error
    /\ UNCHANGED <<stack_size, passed, offsets, data, ptr, sp, left, stack>>

CopyFitsAlone(n) == n <= EXEC_MAX_STRING_BYTES

CopyFits(n) ==
    /\ n <= EXEC_MAX_STRING_BYTES
    /\ Len(data) + n <= EXEC_MAX_VECTOR_BYTES

(***************************************************************************)
(* The loop meets another string, of n bytes.                              *)
(***************************************************************************)
CopyString(v, n) ==
    LET i == Len(passed[v]) + 1
    IN  /\ phase = v
        /\ i <= Limit[v]
        /\ CopyFits(n)
        /\ passed' = [passed EXCEPT ![v] = Append(@, n)]
        /\ offsets' = [offsets EXCEPT ![v] = Append(@, Len(data))]
        /\ data' = data \o Text(v, i, n)
        /\ UNCHANGED <<stack_size, phase, ptr, sp, left, stack>>

TooBig(v, n) ==
    /\ phase = v
    /\ Len(passed[v]) = Limit[v] \/ ~CopyFits(n)
    /\ Fail("E2BIG")

(***************************************************************************)
(* The vector or a string of it cannot be read.                            *)
(***************************************************************************)
Unreadable(v) == phase = v /\ Fail("EFAULT")

(***************************************************************************)
(* The null pointer ends a vector; a null vector is an empty one.          *)
(***************************************************************************)
EndOfVector(v) ==
    /\ phase = v
    /\ phase' = IF v = "argv" THEN "envp" ELSE "push envp"
    /\ left' = IF v = "argv" THEN 0 ELSE Len(passed["envp"])
    /\ UNCHANGED <<stack_size, passed, offsets, data, ptr, sp, stack>>

-----------------------------------------------------------------------------
(* exec_build_user_stack *)

strlen(s, from) ==
    LET ends == {k \in from + 1 .. Len(s) : s[k] = 0}
    IN  (CHOOSE k \in ends : \A e \in ends : k <= e) - from - 1

Pushing(v) == IF v = "argv" THEN "push argv" ELSE "push envp"

RoomUnchecked(n) == TRUE

Room(n) == n <= sp - stack_page

(***************************************************************************)
(* Both loops: the last string that is left goes below the others.         *)
(***************************************************************************)
PushString(v) ==
    LET from == offsets[v][left]
        n    == strlen(data, from) + 1
    IN  /\ phase = Pushing(v)
        /\ left > 0
        /\ Room(n)
        /\ sp' = sp - n
        /\ stack' = [a \in Stack |-> IF a - sp' \in 0 .. n - 1
                                     THEN data[from + 1 + a - sp'] ELSE stack[a]]
        /\ ptr' = [ptr EXCEPT ![v][left] = sp']
        /\ left' = left - 1
        /\ UNCHANGED <<stack_size, phase, passed, offsets, data>>

NoRoomForString(v) ==
    /\ phase = Pushing(v)
    /\ left > 0
    /\ ~Room(strlen(data, offsets[v][left]) + 1)
    /\ Fail("E2BIG late")

Pushed(v) ==
    /\ phase = Pushing(v)
    /\ left = 0
    /\ phase' = IF v = "argv" THEN "table" ELSE "push argv"
    /\ left' = IF v = "argv" THEN 0 ELSE Len(passed["argv"])
    /\ UNCHANGED <<stack_size, passed, offsets, data, ptr, sp, stack>>

(***************************************************************************)
(* The table, whose words are argc, the pointers and the two nulls.        *)
(***************************************************************************)
Table ==
    <<Len(passed["argv"])>>
        \o SubSeq(ptr["argv"], 1, Len(passed["argv"])) \o <<0>>
        \o SubSeq(ptr["envp"], 1, Len(passed["envp"])) \o <<0>>

table_bytes == Len(Table) * WORD_SIZE

AlignDown(a) == (a \div STACK_ALIGN) * STACK_ALIGN

PutTable ==
    LET at == AlignDown(sp - table_bytes)
    IN  /\ phase = "table"
        /\ Room(table_bytes)
        /\ at >= stack_page
        /\ stack' = [a \in Stack |->
              IF a - at \notin 0 .. table_bytes - 1 THEN stack[a]
              ELSE IF (a - at) % WORD_SIZE = 0 THEN Table[(a - at) \div WORD_SIZE + 1]
              ELSE WordTail]
        /\ sp' = at
        /\ phase' = "built"
        /\ UNCHANGED <<stack_size, passed, offsets, data, ptr, left>>

NoRoomForTable == phase = "table" /\ ~Room(table_bytes) /\ Fail("E2BIG late")

Done == phase \in {"built", "E2BIG", "E2BIG late", "EFAULT"} /\ UNCHANGED vars

Next ==
    \/ \E v \in Vectors :
          \/ \E n \in Lengths : CopyString(v, n) \/ TooBig(v, n)
          \/ Unreadable(v)
          \/ EndOfVector(v)
          \/ PushString(v)
          \/ NoRoomForString(v)
          \/ Pushed(v)
    \/ PutTable
    \/ NoRoomForTable
    \/ Done

Spec == Init /\ [][Next]_vars

-----------------------------------------------------------------------------
(* Properties *)

(* The pointer the kernel writes through stays in the new stack page, and   *)
(* what is copied stays in the buffer.                                      *)
TypeOK ==
    /\ stack_size \in StackSizes
    /\ phase \in Vectors \cup {"push envp", "push argv", "table", "built",
                               "E2BIG", "E2BIG late", "EFAULT"}
    /\ \A v \in Vectors : /\ passed[v] \in Seq(Lengths)
                          /\ Len(passed[v]) <= Limit[v]
                          /\ Len(offsets[v]) = Len(passed[v])
                          /\ ptr[v] \in [1 .. Limit[v] -> Stack \cup {0}]
    /\ Len(data) <= EXEC_MAX_VECTOR_BYTES
    /\ sp \in Stack \cup {USER_STACK_TOP}
    /\ left \in 0 .. EXEC_MAX_ARGS + EXEC_MAX_ENVS
    /\ DOMAIN stack = Stack

(* The new program finds its arguments: from the aligned stack pointer on   *)
(* argc, the pointers of argv and of envp, each vector ended by 0, and      *)
(* behind every pointer the very string the caller passed, NUL included;    *)
(* the table has overwritten none of them.                                  *)
WordAt(k) == stack[sp + k * WORD_SIZE]

StringsAt(v, first) ==
    \A i \in 1 .. Len(passed[v]) :
        \A k \in 1 .. passed[v][i] :
            stack[WordAt(first + i - 1) + k - 1] = Text(v, i, passed[v][i])[k]

ArgsDelivered ==
    phase = "built" =>
        LET argc == Len(passed["argv"])
            envc == Len(passed["envp"])
        IN  /\ sp % STACK_ALIGN = 0
            /\ sp + table_bytes <= USER_STACK_TOP
            /\ WordAt(0) = argc
            /\ StringsAt("argv", 1)
            /\ WordAt(argc + 1) = 0
            /\ StringsAt("envp", argc + 2)
            /\ WordAt(argc + envc + 2) = 0

(* When the stack holds more than the buffer, the longest table and the     *)
(* padding, as the code's limits make it, arguments that were copied always *)
(* fit: exec never refuses them after it has loaded the new image.          *)
LimitsFit ==
    EXEC_MAX_VECTOR_BYTES + (EXEC_MAX_ARGS + EXEC_MAX_ENVS + 3) * WORD_SIZE
        + STACK_ALIGN - 1 <= stack_size

NeverTooBigLate == LimitsFit => phase # "E2BIG late"

=============================================================================
