----------------------------- MODULE MCNetServer -----------------------------
EXTENDS NetServer

CONSTANTS c1, c2, c3

(* One client asks and listens, one asks and does not listen, one only     *)
(* comes and goes.                                                         *)
MCCommands == (c1 :> 1) @@ (c2 :> 1) @@ (c3 :> 0)
==============================================================================
