------------------------------- MODULE Console -------------------------------
(***************************************************************************)
(* The screen (kernel/vga.c) and the shell that writes it (kernel/shell.c).*)
(* The shell keeps the line being typed in cmd_buffer and echoes each key; *)
(* it never redraws, so the screen and the buffer agree only if every wrap,*)
(* scroll and erasure moves both alike.                                    *)
(*                                                                         *)
(* One key is handled to its end before the next.  Commands are short here *)
(* and their outputs are one character a line: what matters is that each   *)
(* ends its output with a newline.                                         *)
(***************************************************************************)
EXTENDS Integers, Sequences, SequencesExt

CONSTANTS VGA_WIDTH, VGA_HEIGHT, CMD_BUFFER_SIZE,
          Letters,     \* the printable keys
          MaxStrokes   \* bound: how many keys are typed

VARIABLES screen,      \* the cells of VGA_BUFFER, vga_row and vga_col
          cmd,         \* cmd_buffer up to cmd_pos
          strokes,
          up           \* FALSE once the machine has been reset

vars == <<screen, cmd, strokes, up>>

Blank     == " "
NewLine   == "newline"
Backspace == "backspace"
Prompt    == <<">", Blank>>
Report    == <<"o", NewLine>>

Cell == 0 .. VGA_WIDTH * VGA_HEIGHT - 1

-----------------------------------------------------------------------------
(* vga.c *)

vga_clear == [cells |-> [i \in Cell |-> Blank], row |-> 0, col |-> 0]

vga_scroll(s) ==
    [cells |-> [i \in Cell |-> IF i + VGA_WIDTH \in Cell THEN s.cells[i + VGA_WIDTH]
                               ELSE Blank],
     row   |-> VGA_HEIGHT - 1,
     col   |-> 0]

(***************************************************************************)
(* The cursor at the start of the next row.                                *)
(***************************************************************************)
NextRow(s) ==
    IF s.row + 1 >= VGA_HEIGHT THEN vga_scroll(s)
    ELSE [s EXCEPT !.row = @ + 1, !.col = 0]

BackInRow(s) == IF s.col > 0 THEN [s EXCEPT !.col = @ - 1] ELSE s

Back(s) ==
    IF s.col > 0 THEN [s EXCEPT !.col = @ - 1]
    ELSE IF s.row > 0 THEN [s EXCEPT !.row = @ - 1, !.col = VGA_WIDTH - 1]
    ELSE s

Put(s, c) ==
    LET t == [s EXCEPT !.cells[s.row * VGA_WIDTH + s.col] = c, !.col = @ + 1]
    IN  IF t.col >= VGA_WIDTH THEN NextRow(t) ELSE t

vga_putc(s, c) ==
    CASE c = NewLine   -> NextRow(s)
      [] c = Backspace -> Back(s)
      [] OTHER         -> Put(s, c)

vga_puts(s, str) == FoldLeft(vga_putc, s, str)

-----------------------------------------------------------------------------
(* shell.c *)

(***************************************************************************)
(* vga_init, shell_init and the first prompt.                              *)
(***************************************************************************)
Init ==
    /\ screen = vga_puts(vga_clear, Prompt)
    /\ cmd = <<>>
    /\ strokes = 0
    /\ up = TRUE

(***************************************************************************)
(* "c" stands for clear, "r" for reboot, "i" for help, uptime, mem and     *)
(* version, and an "e" in front for "echo ".                               *)
(***************************************************************************)
shell_execute(s, line) ==
    CASE line = <<>>      -> s
      [] line = <<"c">>   -> vga_clear
      [] line \in {<<"i">>, <<"r">>} -> vga_puts(s, Report)
      [] line # <<>> /\ line[1] = "e" -> vga_puts(s, Append(Tail(line), NewLine))
      [] OTHER -> vga_puts(s, <<"u">> \o line \o <<NewLine, "t", NewLine>>)

(***************************************************************************)
(* One turn of shell_run.                                                  *)
(***************************************************************************)
Enter ==
    /\ screen' = LET done == shell_execute(vga_putc(screen, NewLine), cmd)
                 IN  IF cmd = <<"r">> THEN done ELSE vga_puts(done, Prompt)
    /\ up' = (cmd # <<"r">>)
    /\ cmd' = <<>>

Erase ==
    /\ \/ /\ cmd # <<>>
          /\ cmd' = Front(cmd)
          /\ screen' = vga_puts(screen, <<Backspace, Blank, Backspace>>)
       \/ cmd = <<>> /\ UNCHANGED <<cmd, screen>>
    /\ UNCHANGED up

LineHasRoom == Len(cmd) < CMD_BUFFER_SIZE - 1

Type(c) ==
    /\ \/ /\ LineHasRoom
          /\ cmd' = Append(cmd, c)
          /\ screen' = vga_putc(screen, c)
       \/ ~LineHasRoom /\ UNCHANGED <<cmd, screen>>
    /\ UNCHANGED up

Next ==
    /\ up
    /\ strokes < MaxStrokes
    /\ strokes' = strokes + 1
    /\ Enter \/ Erase \/ \E c \in Letters : Type(c)

Spec == Init /\ [][Next]_vars

-----------------------------------------------------------------------------
(* Properties *)

(***************************************************************************)
(* The line and the NUL after it stay in cmd_buffer, the cursor on screen. *)
(***************************************************************************)
TypeOK ==
    /\ cmd \in Seq(Letters) /\ Len(cmd) < CMD_BUFFER_SIZE
    /\ DOMAIN screen.cells = Cell
    /\ screen.row \in 0 .. VGA_HEIGHT - 1
    /\ screen.col \in 0 .. VGA_WIDTH - 1
    /\ strokes \in 0 .. MaxStrokes
    /\ up \in BOOLEAN

(***************************************************************************)
(* What the user sees is what shell_execute will get: the screen ends in   *)
(* the prompt and the line in cmd_buffer, the cursor stands behind them,   *)
(* and what was erased is gone, also across row ends and scrolls.          *)
(***************************************************************************)
Cursor == screen.row * VGA_WIDTH + screen.col

ScreenShowsLine ==
    LET shown == Prompt \o cmd
    IN  up => /\ Cursor >= Len(shown)
              /\ \A i \in 1 .. Len(shown) :
                    screen.cells[Cursor - Len(shown) + i - 1] = shown[i]
              /\ \A i \in Cell : i >= Cursor => screen.cells[i] = Blank

=============================================================================
