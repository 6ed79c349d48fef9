------------------------------ MODULE Console ------------------------------
(***************************************************************************)
(* The two readers of a bounded line: read_console_line of main/cirvane.c  *)
(* (the password and the network number of wifi connect) and the shell of  *)
(* kernel/obs.c.  Both take one key at a time and go on counting, or       *)
(* remember, when there is no more room.                                   *)
(***************************************************************************)
EXTENDS Integers, Sequences, SequencesExt

-----------------------------------------------------------------------------
(* read_console_line.  A key is "enter", "rubout", "cancel" (^C, ^D),      *)
(* "control" (every other control character) or a printable character.     *)

EmptyLine == [entered |-> 0, out |-> <<>>, result |-> "open"]

\* One turn of the loop.  Past the capacity a key is counted, not kept.
KeyIn(line, key, capacity) ==
  IF line.result # "open" THEN line
  ELSE CASE key = "enter"  ->
              [line EXCEPT !.result = IF line.entered >= capacity THEN "long" ELSE "ok"]
         [] key = "cancel" -> [line EXCEPT !.result = "cancelled"]
         [] key = "rubout" /\ line.entered > 0 ->
              [line EXCEPT !.entered = @ - 1,
                           !.out = IF Len(@) > line.entered - 1
                                   THEN SubSeq(@, 1, line.entered - 1) ELSE @]
         [] key = "control" \/ (key = "rubout" /\ line.entered = 0) -> line
         [] OTHER ->
              [line EXCEPT !.entered = @ + 1,
                           !.out = IF line.entered + 1 < capacity THEN Append(@, key) ELSE @]

ReadConsoleLine(keys, capacity) ==
  FoldLeft(LAMBDA line, key : KeyIn(line, key, capacity), EmptyLine, keys)

-----------------------------------------------------------------------------
(* cirvane_shell_push and cirvane_shell_run.                               *)

EmptyShell == [buf |-> <<>>, overflow |-> FALSE, ready |-> FALSE]

\* size is CIRVANE_SHELL_CMD_MAX, the terminator included.
ShellPush(sh, byte, size) ==
  IF byte = "enter" THEN [sh EXCEPT !.ready = TRUE]
  ELSE IF sh.overflow \/ Len(sh.buf) >= size - 1 THEN [sh EXCEPT !.overflow = TRUE]
  ELSE [sh EXCEPT !.buf = Append(@, byte)]

\* What is answered: a command's output, nothing, or "refuse".
ShellRun(sh, commands) ==
  IF sh.overflow THEN "refuse"
  ELSE IF sh.buf = <<>> THEN "nothing"
  ELSE IF sh.buf \in commands THEN sh.buf ELSE "refuse"

=============================================================================
