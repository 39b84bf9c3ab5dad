------------------------------- MODULE MCDaemon -------------------------------
(* A small instance of Daemon for TLC.                                      *)
EXTENDS Daemon

File(valid, device, palm, rest) ==
  [valid |-> valid, device |-> device, palm |-> palm, rest |-> rest]

\* Two that can follow each other, one for another device, one with an error.
FourFiles ==
  {File(TRUE, "auto", FALSE, "a"), File(TRUE, "auto", FALSE, "b"),
   File(TRUE, "path", FALSE, "a"), File(FALSE, "auto", FALSE, "a")}

=============================================================================
