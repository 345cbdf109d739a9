------------------------------ MODULE MCSharing ------------------------------
(* Sharing with two Linux devices that have a key in common, and a hook with *)
(* the keys of the hotkey.                                                  *)
EXTENDS Sharing

MCKeysOf ==
  [d \in Devices |-> IF d = "hook" THEN {"ControlLeft", "AltLeft"} ELSE {"ControlLeft"}]

MCModifierKeys == <<"ControlLeft", "AltLeft">>
=============================================================================
