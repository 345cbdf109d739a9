------------------------------- MODULE MCTray -------------------------------
(* Tray with two calls: one that starts a process, and one that starts      *)
(* another, restarts or stops it, at once or at any time after.             *)
EXTENDS Tray

MCCalls == 1 .. 2
=============================================================================
