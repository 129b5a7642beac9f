---------------------------- MODULE MCSerialDeploy ----------------------------
(* Instances of SerialDeploy for TLC.                                      *)
EXTENDS SerialDeploy, TLC

CONSTANTS off, server, client

MCModeOf == [c \in Configs |->
               CASE c = off -> "off" [] c = server -> "server" [] OTHER -> "client"]

MCSymmetry == Permutations(Runs)
=============================================================================
