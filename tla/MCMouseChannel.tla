--------------------------- MODULE MCMouseChannel ---------------------------
(* MouseChannel with two sessions of two moves each: the least for two      *)
(* datagrams to be reordered, and for those of one session to arrive in the *)
(* next.                                                                    *)
EXTENDS MouseChannel
=============================================================================
