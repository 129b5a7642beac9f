----------------------------- MODULE SerialDeploy -----------------------------
(***************************************************************************)
(* How a change of a serial port's configuration gets from the operator to *)
(* the services and survives a reboot.  It composes SerialService with the *)
(* saved copy of the port's entry and the programs that move it:           *)
(*   - the serial page: setagent.cgi writes the entry and, if the form     *)
(*     differs from what it had read, runs "serial N";                     *)
(*   - "def port", which writes the entry and runs nothing; "def save" and *)
(*     "def factory";                                                      *)
(*   - the reboot and factory pages: setagent.cgi runs def, answers with a *)
(*     page that asks for setagent.cgi?type=0 ten seconds later, and that  *)
(*     request runs "serial N" for every port and then reboots;            *)
(*   - the reset button and a loss of power, which reboot without it.      *)
(* At boot pinetd copies the saved entry over the one in use; nothing runs *)
(* "serial N" then: systemd starts the services the last run has enabled.  *)
(***************************************************************************)
EXTENDS SerialService

CONSTANTS
  Default,   \* the factory configuration of a port
  MaxTasks   \* bound: requests and commands

ASSUME DefaultAssumption == Default \in Configs /\ ModeOf[Default] = "off"

VARIABLES
  flash,     \* the port's entry of /etc/.eddy_sio.cfg
  task,      \* what the request of each operator is at; an operator's slot
             \* among Runs is the run of serial the request makes
  page,      \* the reboot or factory button the request comes from
  form,      \* the configuration the serial page was sent
  seen,      \* the entry setagent.cgi read before it wrote that form
  begun,     \* counter of requests and commands
  disturbed, \* history: another operator wrote a copy since the request began
  boot       \* history: the button that led to the last reboot, when nothing
             \* came between and serial ran alone

deploy == <<flash, task, page, form, seen, begun, disturbed, boot>>
allVars == <<vars, deploy>>

Buttons == {"save", "only", "factory"}
-----------------------------------------------------------------------------
Put(c) == IF c = etc THEN UNCHANGED vars ELSE Edit(c) /\ UNCHANGED spent

(* A request of operator u begins, and is from now on at t.                *)
Begin(u, t) ==
  /\ task[u] = "idle"
  /\ begun < MaxTasks
  /\ begun' = begun + 1
  /\ task' = [task EXCEPT ![u] = t]
  /\ boot' = "none"

(* It writes a copy itself: the requests of the others are disturbed.      *)
Writes(u) == disturbed' = [v \in Runs |-> v # u]
Reads(u) == disturbed' = [disturbed EXCEPT ![u] = FALSE]

(* The serial page, one call after the other.                              *)
SetSerial(u, c) ==
  /\ Begin(u, "write")
  /\ form' = [form EXCEPT ![u] = c]
  /\ seen' = [seen EXCEPT ![u] = etc]
  /\ Reads(u)
  /\ UNCHANGED <<vars, flash, page>>

(* Slip: the entry is not written.                                         *)
SetSerialForgets(u) ==
  /\ task[u] = "write"
  /\ task' = [task EXCEPT ![u] = IF form[u] = seen[u] THEN "idle" ELSE "apply"]
  /\ UNCHANGED <<vars, flash, page, form, seen, begun, disturbed, boot>>

SetSerialWrites(u) ==
  /\ task[u] = "write"
  /\ Put(form[u])
  /\ disturbed' = [v \in Runs |-> IF v = u THEN disturbed[u] ELSE TRUE]
  /\ task' = [task EXCEPT ![u] = IF form[u] = seen[u] THEN "idle" ELSE "apply"]
  /\ UNCHANGED <<flash, page, form, seen, begun, boot>>

SetSerialApplies(u) ==
  /\ task[u] = "apply"
  /\ Launch(u) /\ UNCHANGED spent
  /\ task' = [task EXCEPT ![u] = "applying"]
  /\ UNCHANGED <<flash, page, form, seen, begun, disturbed, boot>>

SetSerialReturns(u) ==
  /\ task[u] = "applying" /\ pc[u] = 0
  /\ task' = [task EXCEPT ![u] = "idle"]
  /\ UNCHANGED <<vars, flash, page, form, seen, begun, disturbed, boot>>

(* The def command.                                                        *)
DefPort(u, c) ==
  /\ Begin(u, "idle")
  /\ Put(c)
  /\ Writes(u)
  /\ UNCHANGED <<flash, page, form, seen>>

DefSave(u) ==
  /\ Begin(u, "idle")
  /\ flash' = etc
  /\ Writes(u)
  /\ UNCHANGED <<vars, page, form, seen>>

DefFactory(u) ==
  /\ Begin(u, "idle")
  /\ flash' = Default
  /\ Put(Default)
  /\ Writes(u)
  /\ UNCHANGED <<page, form, seen>>

(* "Save & Reboot", "Reboot Only", "Restore Factory Defaults".             *)
SetReboot(u, b) ==
  /\ Begin(u, "page")
  /\ page' = [page EXCEPT ![u] = b]
  /\ flash' = CASE b = "save" -> etc [] b = "factory" -> Default [] OTHER -> flash
  /\ IF b = "factory" THEN Put(Default) ELSE UNCHANGED vars
  /\ IF b = "only" THEN Reads(u) ELSE Writes(u)
  /\ UNCHANGED <<form, seen>>

(* Slip: the device reboots at once.                                       *)
OnlyRebootAtOnce(u) ==
  /\ task[u] = "page"
  /\ task' = [task EXCEPT ![u] = "leaving"]
  /\ UNCHANGED <<vars, flash, page, form, seen, begun, disturbed, boot>>

(* The page that answers it asks for type=0 after ten seconds ...          *)
OnlyReboot(u) ==
  /\ task[u] = "page"
  /\ Launch(u) /\ UNCHANGED spent
  /\ task' = [task EXCEPT ![u] = "leaving"]
  /\ UNCHANGED <<flash, page, form, seen, begun, disturbed, boot>>

Boots(b) ==
  /\ Reboot(flash)
  /\ boot' = b
  /\ task' = [u \in Runs |-> "idle"]
  /\ UNCHANGED <<flash, page, form, seen, begun, disturbed>>

(* ... which reboots when serial has returned.                             *)
Leave(u) ==
  /\ task[u] = "leaving" /\ pc[u] = 0
  /\ Boots(IF disturbed[u] \/ settled = None THEN "none" ELSE page[u])
  /\ UNCHANGED spent

(* /sbin/reboot, the reset button, a loss of power.                        *)
Cut == Boots("none") /\ Spend("restarts", MaxRestarts)
-----------------------------------------------------------------------------
DeployInit ==
  /\ Init
  /\ etc = Default
  /\ flash = Default
  /\ task = [u \in Runs |-> "idle"]
  /\ page = [u \in Runs |-> "only"]
  /\ form = [u \in Runs |-> Default]
  /\ seen = [u \in Runs |-> Default]
  /\ begun = 0
  /\ disturbed = [u \in Runs |-> FALSE]
  /\ boot = "none"

DeployStep(u) ==
  \/ \E c \in Configs : SetSerial(u, c) \/ DefPort(u, c)
  \/ SetSerialWrites(u) \/ SetSerialApplies(u) \/ SetSerialReturns(u)
  \/ DefSave(u) \/ DefFactory(u)
  \/ \E b \in Buttons : SetReboot(u, b)
  \/ OnlyReboot(u) \/ Leave(u)

DeployNext ==
  \/ \E u \in Runs : DeployStep(u)
  \/ \E r \in Runs : Step(r) /\ UNCHANGED deploy
  \/ \E s \in Services : Respawn(s) /\ UNCHANGED deploy
  \/ Cut

DeploySpec == DeployInit /\ [][DeployNext]_allVars
-----------------------------------------------------------------------------
(* When the serial page answers, the port is served as the form asked,     *)
(* unless another operator's request came between the write of the entry   *)
(* and the run of serial that reads it back.                               *)
AppliedIsRequested ==
  \A u \in Runs :
    (task[u] = "applying" /\ pc[u] = 0 /\ ~disturbed[u] /\ settled # None)
      => etc = form[u] /\ Serves(form[u])

(* "Your configuration changes will be in effect after the device reboots  *)
(* automatically", "Factory default settings will be restored after the    *)
(* device reboots": after "Save & Reboot" and "Restore Factory Defaults"   *)
(* the saved configuration is the one in use and the one that is served -  *)
(* although nothing applies it at boot.                                    *)
SavedIsInEffect ==
  boot \in {"save", "factory"} => etc = flash /\ Serves(flash)
=============================================================================
