------------------------------ MODULE ConfigAbs ------------------------------
(***************************************************************************)
(* What the two copies of the device configuration promise to one          *)
(* operator: a running configuration (/etc/eddy_*.cfg) that is edited file *)
(* by file, and a saved one (/etc/.eddy_*.cfg) that it is committed to,    *)
(* reset in, and restored from.  Every step touches one configuration      *)
(* file, because that is the unit the programs read and write.             *)
(***************************************************************************)
CONSTANTS
  Items,     \* the configuration items told apart
  FileOf,    \* the configuration file each item is stored in
  Kept,      \* the items "def factory" carries over from the running copy
  Edits,     \* the changes a form or a command line may ask for
  Default, Zero, Absent

VARIABLES running, saved

InFile(f) == {i \in Items : FileOf[i] = f}

(* Replace the items of file f in one copy by the items of an image.       *)
Overlay(copy, f, image) ==
  [i \in Items |-> IF FileOf[i] = f THEN image[i] ELSE copy[i]]

(* What restoring factory settings leaves in an item whose running value   *)
(* is v: the MAC address, the DDNS and the PortView addresses survive.     *)
FactorySetting(i, v) ==
  IF i \in Kept /\ v \notin {Zero, Absent} THEN v ELSE Default

Restored(v) == IF v = Absent THEN Zero ELSE v

Init ==
  /\ running = [i \in Items |-> Absent]
  /\ saved = [i \in Items |-> Absent]

Edit(f) ==
  /\ \E e \in Edits :
       running' = Overlay(running, f,
                    [i \in Items |-> IF i \in DOMAIN e THEN e[i] ELSE running[i]])
  /\ UNCHANGED saved

Commit(f) ==
  /\ saved' = Overlay(saved, f, running)
  /\ UNCHANGED running

Reset(f) ==
  /\ saved' = Overlay(saved, f, [i \in Items |-> FactorySetting(i, running[i])])
  /\ UNCHANGED running

Restore(f) ==
  /\ running' = Overlay(running, f, [i \in Items |-> Restored(saved[i])])
  /\ UNCHANGED saved

Next == \E f \in {FileOf[i] : i \in Items} :
          Edit(f) \/ Commit(f) \/ Reset(f) \/ Restore(f)

Spec == Init /\ [][Next]_<<running, saved>>
=============================================================================
