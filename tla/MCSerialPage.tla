---------------------------- MODULE MCSerialPage ----------------------------
(* Instances of SerialPage for TLC.                                        *)
EXTENDS SerialPage

(* Port 3, as factory_default has it: disabled, with RS-422.               *)
MCFactory == [mode |-> "off", val |-> [f \in Fields |-> IF f = "ifc" THEN 1 ELSE 0]]
=============================================================================
