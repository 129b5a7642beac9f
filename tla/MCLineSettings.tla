---------------------------- MODULE MCLineSettings ----------------------------
(* Instances of LineSettings for TLC.                                      *)
EXTENDS LineSettings

(* 5 and 8 bits differ in both bits of the field.                          *)
MCData == {0, 3}
MCStop == 0 .. 1
MCParity == 0 .. 2
=============================================================================
