--------------------------- MODULE MCKeyboardHook ---------------------------
(***************************************************************************)
(* A keyboard with both Ctrl keys, one Alt key, V and one key that has no  *)
(* name.  Nothing is bounded: the states of a keyboard are finite.         *)
(***************************************************************************)
EXTENDS KeyboardHook

MCCtrls == {"ControlLeft", "ControlRight"}

MCAlts == {"AltLeft"}

MCUnknowns == {"vk255"}

=============================================================================
