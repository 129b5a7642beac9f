---------------------------- MODULE MCConfigStore ----------------------------
(* Instances of ConfigStore for TLC.                                       *)
EXTENDS ConfigStore, TLC

CONSTANTS v1, v2

(* Two items of each file two programs fight over.                         *)
MCItems == {"mac", "user", "line", "mode", "snmp"}
MCFileOf == [mac |-> "SYSTEM", user |-> "SYSTEM", line |-> "SIO", mode |-> "SIO",
             snmp |-> "SNMP"]
MCKept == {"mac"}
MCMac == {"mac"}
MCLines == {"line"}
MCEdits == { [user |-> v1], [mode |-> v1], [snmp |-> v1] }

(* Every file, a form that changes two fields at once, and two values.     *)
MCWideItems == {"mac", "ddns", "line", "mode", "snmp", "gpio", "dio", "wifi"}
MCWideFileOf == [mac |-> "SYSTEM", ddns |-> "SYSTEM", line |-> "SIO", mode |-> "SIO",
                 snmp |-> "SNMP", gpio |-> "GPIO", dio |-> "DIO", wifi |-> "WIFI"]
MCWideKept == {"mac", "ddns"}
MCWideEdits == { [mac |-> v1], [ddns |-> v2], [line |-> v1, mode |-> v2],
                 [mode |-> v1], [snmp |-> v1], [gpio |-> v1], [dio |-> v2],
                 [wifi |-> v2] }

(* Nothing tells the two operators apart.                                  *)
MCSymmetry == Permutations(Users)
=============================================================================
