----------------------------- MODULE MCFirmware -----------------------------
(* Firmware with its two services, for TLC, and the pure operators of       *)
(* OtaPolicy and Console checked against what they are meant to compute.    *)
EXTENDS Firmware, Console

CONSTANTS blank, led, scan

\* Service 0 is the LED's, service 1 the Wi-Fi scanner's.
Subscriptions ==
  [m \in Message |-> CASE m = scan -> {1} [] m = led -> {0} [] m = blank -> {}]

\* What a slot holds is read only while somebody has it.
WithoutStalePool ==
  <<session, free, lost, mailbox, hand, shell, stats,
    [i \in Slot \ (free \cup lost) |-> pool[i]], wifiVars, nvsVars, otaVars, httpVars>>

Texts(chars, max) == UNION {[1 .. n -> chars] : n \in 0 .. max}

\* cirvane_ota_release_version_valid accepts v, three numerals without leading
\* zeros and the dots between them, and nothing else.
Numerals == {<<"0">>} \cup {t \in Texts(Digit, 3) \ {<<>>} : t[1] # "0"}
Versions ==
  {<<"v">> \o a \o <<".">> \o b \o <<".">> \o c : a, b, c \in Numerals}
ASSUME \A text \in Texts({"v", ".", "0", "1", "x"}, 6) \cup Versions :
         ReleaseVersionValid(text) <=> text \in Versions

\* cirvane_ota_manifest_parse accepts the ten lines in their order and nothing
\* with a line damaged, left out, repeated or added.
Good == [i \in 1 .. Len(Fields) |-> [field |-> Fields[i].field, good |-> TRUE]]
Damaged ==
  UNION {{[Good EXCEPT ![i].good = FALSE], SubSeq(Good, 1, i - 1), RemoveAt(Good, i),
          InsertAt(Good, i, Good[i]), [Good EXCEPT ![i] = Good[(i % 10) + 1]]} : i \in 1 .. 10}
ASSUME ManifestParse(Good) = "OK" /\ \A lines \in Damaged : ManifestParse(lines) # "OK"

\* cirvane_ota_chunk_fits compares without the overflow of received + size.
ASSUME \A received, size, limit \in 0 .. 7 :
         ChunkFits(received, size, limit) <=> size > 0 /\ received + size <= limit

\* read_console_line returns what is left after the rubouts if that is shorter
\* than the capacity, and refuses it otherwise, wherever the line was too long.
Keys == {"a", "b", "rubout", "control"}
Edited(keys) ==
  FoldLeft(LAMBDA text, key : CASE key = "rubout"  -> IF text = <<>> THEN text ELSE Front(text)
                                [] key = "control" -> text
                                [] OTHER           -> Append(text, key), <<>>, keys)
ASSUME \A keys \in Texts(Keys, 6) :
         LET line == ReadConsoleLine(Append(keys, "enter"), 3) IN
           IF Len(Edited(keys)) < 3 THEN line.result = "ok" /\ line.out = Edited(keys)
           ELSE line.result = "long"

\* The shell runs a command only if it is the whole of what was typed.
ASSUME \A typed \in Texts({"a", "b"}, 5) :
         LET sh == FoldLeft(LAMBDA s, b : ShellPush(s, b, 4), EmptyShell, Append(typed, "enter")) IN
           /\ sh.ready
           /\ ShellRun(sh, {<<"a", "b">>}) =
                CASE typed = <<>> -> "nothing" [] typed = <<"a", "b">> -> typed [] OTHER -> "refuse"

=============================================================================
