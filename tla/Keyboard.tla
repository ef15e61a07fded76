------------------------------ MODULE Keyboard ------------------------------
(***************************************************************************)
(* The keyboard (kernel/keyboard.c): a ring filled by the IRQ 1 handler    *)
(* and emptied without a lock by keyboard_getchar, whose caller is the     *)
(* shell (kernel/shell.c), with interrupts on, or SYS_GETCHAR, whose gate  *)
(* has switched them off.  The handler runs to its end; the reader can be  *)
(* interrupted between any two accesses to the ring.                       *)
(***************************************************************************)
EXTENDS Integers, Sequences

CONSTANTS KEYBOARD_BUFFER_SIZE,
          MaxKeys,         \* how many keys are struck
          Readers          \* who calls keyboard_getchar

(***************************************************************************)
(* Two characters, to tell an order from another; the ring starts zeroed.  *)
(***************************************************************************)
Char == {"a", "b"}
NUL == "nul"
NoKey == "none"

Slot == 0 .. KEYBOARD_BUFFER_SIZE - 1

VARIABLES key_buffer, buffer_head, buffer_tail,
          reader,    \* the caller of keyboard_getchar
          pc,        \* where the reader is
          c,         \* the character it has taken from the ring
          typed,     \* history: the keys the ring accepted and their order
          taken,     \* history: those the reader has been given
          struck,    \* how many keys were struck
          irq        \* the key whose interrupt has not been taken yet

ring == <<key_buffer, buffer_head, buffer_tail>>
vars == <<ring, reader, pc, c, typed, taken, struck, irq>>

(***************************************************************************)
(* keyboard_init.                                                          *)
(***************************************************************************)
Init ==
    /\ key_buffer = [i \in Slot |-> NUL]
    /\ buffer_head = 0
    /\ buffer_tail = 0
    /\ reader \in Readers
    /\ pc = IF reader = "shell" THEN "check" ELSE "user"
    /\ c = NUL
    /\ typed = <<>>
    /\ taken = <<>>
    /\ struck = 0
    /\ irq = NoKey

Succ(i) == (i + 1) % KEYBOARD_BUFFER_SIZE

(***************************************************************************)
(* buffer_put: the key is lost when the ring is full.  One slot is never   *)
(* used, which is how a full ring differs from an empty one.               *)
(***************************************************************************)
HasRoomAlways(tail) == TRUE

HasRoom(tail) == Succ(buffer_head) # tail

buffer_put(k) ==
    \/ /\ HasRoom(buffer_tail)
       /\ key_buffer' = [key_buffer EXCEPT ![buffer_head] = k]
       /\ buffer_head' = Succ(buffer_head)
       /\ typed' = Append(typed, k)
    \/ ~HasRoom(buffer_tail) /\ UNCHANGED <<key_buffer, buffer_head, typed>>

(***************************************************************************)
(* Interrupts end the reader's hlt, whichever they are; one that comes     *)
(* between the test of the loop and hlt is not remembered.                 *)
(***************************************************************************)
Awake == pc' = IF pc = "hlt" THEN "check" ELSE pc

(***************************************************************************)
(* A key is struck: the keyboard holds it and IRQ 1 stays latched until    *)
(* interrupts are on.                                                      *)
(***************************************************************************)
Strike(k) ==
    /\ struck < MaxKeys
    /\ struck' = struck + 1
    /\ irq = NoKey
    /\ irq' = k
    /\ UNCHANGED <<ring, reader, pc, c, typed, taken>>

(***************************************************************************)
(* IRQ 1, keyboard_handler, for a key that has a character; releases and   *)
(* keys without one do what a tick does.                                   *)
(***************************************************************************)
InterruptsOn == reader = "shell" \/ pc = "user"

keyboard_handler ==
    /\ InterruptsOn
    /\ irq # NoKey
    /\ buffer_put(irq)
    /\ irq' = NoKey
    /\ Awake
    /\ UNCHANGED <<buffer_tail, reader, c, taken, struck>>

TickMasked == FALSE

Tick ==
    /\ InterruptsOn
    /\ Awake
    /\ UNCHANGED <<ring, reader, c, typed, taken, struck, irq>>

(***************************************************************************)
(* A user program makes the call, with interrupts off from here on.        *)
(***************************************************************************)
Call ==
    /\ pc = "user"
    /\ pc' = "check"
    /\ UNCHANGED <<ring, reader, c, typed, taken, struck, irq>>

(***************************************************************************)
(* keyboard_getchar: the test of the loop, the read of the ring, and the   *)
(* move of the tail are separate accesses.                                 *)
(***************************************************************************)
Check ==
    /\ pc = "check"
    /\ pc' = IF buffer_head = buffer_tail THEN "halt" ELSE "take"
    /\ UNCHANGED <<ring, reader, c, typed, taken, struck, irq>>

Halt ==
    /\ pc = "halt"
    /\ pc' = "hlt"
    /\ UNCHANGED <<ring, reader, c, typed, taken, struck, irq>>

Take ==
    /\ pc = "take"
    /\ c' = key_buffer[buffer_tail]
    /\ pc' = "advance"
    /\ UNCHANGED <<ring, reader, typed, taken, struck, irq>>

Advance ==
    /\ pc = "advance"
    /\ buffer_tail' = Succ(buffer_tail)
    /\ taken' = Append(taken, c)
    /\ pc' = IF reader = "shell" THEN "line" ELSE "user"
    /\ UNCHANGED <<key_buffer, buffer_head, reader, c, typed, struck, irq>>

(***************************************************************************)
(* The shell deals with the character (see Console) and asks for the next. *)
(***************************************************************************)
Line ==
    /\ pc = "line"
    /\ pc' = "check"
    /\ UNCHANGED <<ring, reader, c, typed, taken, struck, irq>>

Reader == Check \/ Halt \/ Take \/ Advance \/ Line

Interrupt == keyboard_handler \/ Tick

Next == (\E k \in Char : Strike(k)) \/ Interrupt \/ Call \/ Reader

(***************************************************************************)
(* The reader runs whenever it is not halted, the timer, which the PIC     *)
(* never masks, keeps ticking, and a latched interrupt is taken while they *)
(* are on.                                                                 *)
(***************************************************************************)
Spec == Init /\ [][Next]_vars
             /\ WF_vars(Reader) /\ WF_vars(Tick) /\ WF_vars(keyboard_handler)

-----------------------------------------------------------------------------
(* Properties *)

(* The ring's indices stay in the ring.                                     *)
TypeOK ==
    /\ key_buffer \in [Slot -> Char \cup {NUL}]
    /\ buffer_head \in Slot
    /\ buffer_tail \in Slot
    /\ reader \in Readers
    /\ pc \in {"user", "check", "halt", "hlt", "take", "advance", "line"}
    /\ c \in Char \cup {NUL}
    /\ typed \in Seq(Char)
    /\ taken \in Seq(Char)
    /\ struck \in 0 .. MaxKeys
    /\ irq \in Char \cup {NoKey}

(* The reader is given the keys the ring accepted, in the order they were   *)
(* struck, none twice, none overwritten while it is being read: what it was *)
(* given and what the ring holds are together what was accepted.            *)
Held == (buffer_head - buffer_tail) % KEYBOARD_BUFFER_SIZE

Buffered == [i \in 1 .. Held |-> key_buffer[(buffer_tail + i - 1) % KEYBOARD_BUFFER_SIZE]]

KeysInOrder ==
    /\ taken \o Buffered = typed
    /\ pc = "advance" => Held > 0 /\ c = key_buffer[buffer_tail]

(* A key the ring accepted is read by the shell, although an interrupt      *)
(* between its test of the ring and its hlt goes unnoticed: the next tick   *)
(* wakes it.                                                                *)
KeyRead ==
    \A n \in 1 .. MaxKeys :
        reader = "shell" /\ Len(typed) >= n ~> Len(taken) >= n

=============================================================================
