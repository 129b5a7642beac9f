--------------------------- MODULE MCSerialService ---------------------------
(* Instances of SerialService for TLC.                                     *)
EXTENDS SerialService, TLC

CONSTANTS off, redirect, server, client, client2

MCModeOf == [c \in Configs |->
               CASE c = off -> "off" [] c = redirect -> "redirect"
                 [] c = server -> "server" [] OTHER -> "client"]

MCSymmetry == Permutations(Runs)
=============================================================================
