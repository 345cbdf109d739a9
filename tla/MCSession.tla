----------------------------- MODULE MCSession -----------------------------
(* Session with two attempts to connect: the second comes while the first  *)
(* is being served, while it is being closed, or when it is gone.  The     *)
(* steps of a controller in edge mode without the UDP channel are among    *)
(* those of one with it.                                                   *)
EXTENDS Session

MCConns == 1 .. 2
MCModes == {"legacy", "performance"}
=============================================================================
