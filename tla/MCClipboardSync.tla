-------------------------- MODULE MCClipboardSync --------------------------
(* ClipboardSync with three presses: one that gives up, one that suffers    *)
(* from it and one that waits for the mutex meanwhile.                      *)
EXTENDS ClipboardSync

MCPresses == 1 .. 3
=============================================================================
