------------------------------ MODULE Supervisor ------------------------------
(***************************************************************************)
(* pinetd after it has copied the configuration: it launches the programs  *)
(* the configuration asks for, installs sig_chld, and then goes round its  *)
(* main loop for ever: the web server check, the reset button, what the    *)
(* SNMP agent has put in the shared memory.                                *)
(*                                                                         *)
(* sig_chld runs between any two steps of the main loop and stops it, with *)
(* a sleep of a second before each launch.  A signal that comes meanwhile  *)
(* is kept pending, one bit however many children have ended.  A pid of 0  *)
(* - never launched, or vfork failed - makes waitpid take any child.       *)
(***************************************************************************)
EXTENDS Integers

CONSTANTS
  Enabled,    \* the features of the configuration
  Installed,  \* the programs that exist: execl of another one ends the child
  WebEvery,   \* rounds of the loop between two looks at the web server (300)
  MaxDeaths   \* bound: programs that end by themselves

Children == {"ddns", "portview", "port", "wifi", "detect"}
Features == {"web", "reset", "snmp", "ddns", "portview", "port", "wifi"}

ASSUME FeaturesAssumption == Enabled \subseteq Features /\ Installed \subseteq Children
ASSUME NumbersAssumption == WebEvery \in Nat \ {0} /\ MaxDeaths \in Nat

VARIABLES
  pc,          \* where main is
  handler,     \* where sig_chld is: "none", "detect", "portview", or about
               \* to launch one of them
  pending,     \* SIGCHLD is pending
  alive, dead, \* instances of each child that run, and that nobody has reaped
  DETECT_PID, PORTVIEW_PID,
  PROC_cnt,
  webserver,   \* thttpd runs
  pressed,     \* the reset button is down
  wanted,      \* what a manager has set through SNMP: "line", "reboot"
  rebooting,   \* /sbin/reboot has been run
  deaths

children == <<alive, dead, DETECT_PID, PORTVIEW_PID>>
world == <<pressed, wanted, rebooting, deaths>>
vars == <<pc, handler, pending, children, PROC_cnt, webserver, world>>

Any == "any"       \* pid 0
(* The programs launched before sig_chld is installed, and what main does   *)
(* after each.                                                             *)
AfterLaunch == [ddns |-> "portview", portview |-> "port", port |-> "arm"]

(* The signal is ignored until main installs sig_chld.                     *)
Armed == pc \notin DOMAIN AfterLaunch \cup {"arm"}
Signal == pending' = Armed
-----------------------------------------------------------------------------
(* Slip: the child does not become the program, and ends.                  *)
Task_LaunchNoExec(k) ==
  dead' = [dead EXCEPT ![k] = @ + 1] /\ UNCHANGED alive /\ Signal

(* vfork and execl; the child that finds no program ends at once.  vfork   *)
(* may fail: Task_Launch returns 0.                                        *)
Task_Launch(k) ==
  IF k \in Installed
  THEN alive' = [alive EXCEPT ![k] = @ + 1] /\ UNCHANGED <<dead, pending>>
  ELSE dead' = [dead EXCEPT ![k] = @ + 1] /\ UNCHANGED alive /\ Signal

NoLaunch == UNCHANGED <<alive, dead, pending>>

PidOf(k, p) == IF k = "portview" THEN PORTVIEW_PID' = p ELSE UNCHANGED PORTVIEW_PID

BootLaunch(k) ==
  /\ pc = k
  /\ \/ k \in Enabled /\ Task_Launch(k) /\ PidOf(k, k)
     \/ k \in Enabled /\ NoLaunch /\ PidOf(k, Any)
     \/ k \notin Enabled /\ NoLaunch /\ UNCHANGED PORTVIEW_PID
  /\ pc' = AfterLaunch[k]
  /\ UNCHANGED <<handler, DETECT_PID, PROC_cnt, webserver, world>>

Arm ==
  /\ pc = "arm"
  /\ pc' = "start"
  /\ UNCHANGED <<handler, pending, children, PROC_cnt, webserver, world>>

(* Main goes on only between two runs of sig_chld.                         *)
MainRuns == handler = "none" /\ ~pending

(* system(): the shell it waits for leaves a SIGCHLD pending.              *)
Start ==
  /\ MainRuns
  /\ pc = "start"
  /\ webserver' = ("web" \in Enabled)
  /\ pending' = ("web" \in Enabled)
  /\ pc' = "wifi"
  /\ UNCHANGED <<handler, children, PROC_cnt, world>>

Wifi ==
  /\ MainRuns
  /\ pc = "wifi"
  /\ IF "wifi" \in Enabled THEN Task_Launch("wifi") ELSE NoLaunch
  /\ pc' = "web"
  /\ UNCHANGED <<handler, DETECT_PID, PORTVIEW_PID, PROC_cnt, webserver, world>>
-----------------------------------------------------------------------------
(* The main loop.                                                          *)

WebWait ==
  /\ MainRuns
  /\ pc = "web"
  /\ PROC_cnt < WebEvery
  /\ PROC_cnt' = PROC_cnt + 1
  /\ pc' = "button"
  /\ UNCHANGED <<handler, pending, children, webserver, world>>

(* Slip: check_proc looks for a name every shell has in its command line.  *)
WebCheckMisled ==
  /\ MainRuns
  /\ pc = "web"
  /\ PROC_cnt = WebEvery
  /\ PROC_cnt' = 0
  /\ pc' = "button"
  /\ UNCHANGED <<handler, pending, children, webserver, world>>

WebCheck ==
  /\ MainRuns
  /\ pc = "web"
  /\ PROC_cnt = WebEvery
  /\ PROC_cnt' = 0
  /\ webserver' = ("web" \in Enabled)
  /\ pending' = (webserver' # webserver)
  /\ pc' = "button"
  /\ UNCHANGED <<handler, children, world>>

(* The button is down: main watches it from now on and does nothing else   *)
(* until it reboots.                                                       *)
Button ==
  /\ MainRuns
  /\ pc = "button"
  /\ pc' = IF "reset" \in Enabled /\ pressed THEN "watch"
           ELSE IF "snmp" \in Enabled THEN "snmp" ELSE "web"
  /\ UNCHANGED <<handler, pending, children, PROC_cnt, webserver, world>>

Watch ==
  /\ MainRuns
  /\ pc = "watch"
  /\ ~rebooting
  /\ rebooting' = TRUE
  /\ pending' = TRUE
  /\ UNCHANGED <<pc, handler, children, PROC_cnt, webserver, pressed, wanted, deaths>>

(* Slip: the counter that is to let a round in so many through lets none.  *)
SnmpSyncSkipped ==
  /\ MainRuns
  /\ pc = "snmp"
  /\ pc' = "web"
  /\ UNCHANGED <<handler, pending, children, PROC_cnt, webserver, world>>

SnmpSync ==
  /\ MainRuns
  /\ pc = "snmp"
  /\ pc' = "web"
  /\ rebooting' = (rebooting \/ "reboot" \in wanted)
  /\ pending' = ("reboot" \in wanted)
  /\ wanted' = wanted \ {"line"}
  /\ UNCHANGED <<handler, children, PROC_cnt, webserver, pressed, deaths>>
-----------------------------------------------------------------------------
(* sig_chld.  Number_Of_Ports is never assigned: the loop over PORT_PID    *)
(* goes over no port, and begins with DETECT_PID.                          *)

Deliver ==
  /\ pending /\ handler = "none"
  /\ pending' = FALSE
  /\ handler' = "detect"
  /\ UNCHANGED <<pc, children, PROC_cnt, webserver, world>>

(* Slip: waitpid(pid, &stat, WNOHANG) >= 0                                 *)
ReapableRunning(pid) == {k \in Children : alive[k] + dead[k] > 0 /\ pid \in {k, Any}}

(* waitpid(pid, &stat, WNOHANG) > 0                                        *)
Reapable(pid) == {k \in Children : dead[k] > 0 /\ pid \in {k, Any}}

After(s) == IF s = "detect" /\ "portview" \in Enabled THEN "portview" ELSE "none"

Reap(s, pid) ==
  /\ handler = s
  /\ \/ /\ Reapable(pid) = {}
        /\ handler' = After(s)
        /\ UNCHANGED dead
     \/ \E k \in Reapable(pid) :
          /\ dead' = [dead EXCEPT ![k] = @ - 1]
          /\ handler' = IF s = "detect" THEN "launch detect" ELSE "launch portview"
  /\ UNCHANGED <<pc, pending, alive, DETECT_PID, PORTVIEW_PID, PROC_cnt, webserver, world>>

(* Slip: the portview agent is launched whenever a child has ended.        *)
ReapPortviewUnchecked ==
  /\ handler = "portview"
  /\ handler' = "launch portview"
  /\ UNCHANGED <<pc, pending, children, PROC_cnt, webserver, world>>

ReapDetect == Reap("detect", DETECT_PID)
ReapPortview == Reap("portview", PORTVIEW_PID)

RelaunchDetect ==
  /\ handler = "launch detect"
  /\ \/ Task_Launch("detect") /\ DETECT_PID' = "detect"
     \/ NoLaunch /\ DETECT_PID' = Any
  /\ handler' = After("detect")
  /\ UNCHANGED <<pc, PORTVIEW_PID, PROC_cnt, webserver, world>>

RelaunchPortview ==
  /\ handler = "launch portview"
  /\ \/ Task_Launch("portview") /\ PORTVIEW_PID' = "portview"
     \/ NoLaunch /\ PORTVIEW_PID' = Any
  /\ handler' = "none"
  /\ UNCHANGED <<pc, DETECT_PID, PROC_cnt, webserver, world>>
-----------------------------------------------------------------------------
(* What happens around pinetd.                                             *)

Die(k) ==
  /\ deaths < MaxDeaths
  /\ alive[k] > 0
  /\ alive' = [alive EXCEPT ![k] = @ - 1]
  /\ dead' = [dead EXCEPT ![k] = @ + 1]
  /\ deaths' = deaths + 1
  /\ pending' = (pending \/ Armed)
  /\ UNCHANGED <<pc, handler, DETECT_PID, PORTVIEW_PID, PROC_cnt, webserver,
                 pressed, wanted, rebooting>>

(* thttpd is a daemon, not a child of pinetd.                              *)
WebServerDies ==
  /\ deaths < MaxDeaths
  /\ webserver
  /\ webserver' = FALSE
  /\ deaths' = deaths + 1
  /\ UNCHANGED <<pc, handler, pending, children, PROC_cnt, pressed, wanted, rebooting>>

Press ==
  /\ pressed' = ~pressed
  /\ UNCHANGED <<pc, handler, pending, children, PROC_cnt, webserver, wanted,
                 rebooting, deaths>>

SnmpSet(w) ==
  /\ "snmp" \in Enabled /\ Armed
  /\ wanted' = wanted \cup {w}
  /\ UNCHANGED <<pc, handler, pending, children, PROC_cnt, webserver, pressed,
                 rebooting, deaths>>

Clear ==
  /\ pc' = "ddns"
  /\ handler' = "none"
  /\ pending' = FALSE
  /\ alive' = [k \in Children |-> 0]
  /\ dead' = [k \in Children |-> 0]
  /\ DETECT_PID' = Any
  /\ PORTVIEW_PID' = Any
  /\ PROC_cnt' = 0
  /\ webserver' = FALSE
  /\ wanted' = {}
  /\ rebooting' = FALSE

Reboot == rebooting /\ Clear /\ UNCHANGED <<pressed, deaths>>
-----------------------------------------------------------------------------
Init ==
  /\ pc = "ddns"
  /\ handler = "none"
  /\ pending = FALSE
  /\ alive = [k \in Children |-> 0]
  /\ dead = [k \in Children |-> 0]
  /\ DETECT_PID = Any
  /\ PORTVIEW_PID = Any
  /\ PROC_cnt = 0
  /\ webserver = FALSE
  /\ pressed \in BOOLEAN
  /\ wanted = {}
  /\ rebooting = FALSE
  /\ deaths = 0

Boot == (\E k \in DOMAIN AfterLaunch : BootLaunch(k)) \/ Arm \/ Start \/ Wifi
Loop == WebWait \/ WebCheck \/ Button \/ Watch \/ SnmpSync
SigChld == Deliver \/ ReapDetect \/ RelaunchDetect \/ ReapPortview \/ RelaunchPortview

Next ==
  \/ Boot \/ Loop \/ SigChld \/ Reboot
  \/ \E k \in Children : Die(k)
  \/ WebServerDies \/ Press
  \/ \E w \in {"line", "reboot"} : SnmpSet(w)

(* The kernel runs pinetd, and a reboot that was asked for takes place.    *)
Spec == Init /\ [][Next]_vars /\ WF_vars(Boot \/ Loop \/ SigChld) /\ WF_vars(Reboot)
-----------------------------------------------------------------------------
TypeOK ==
  /\ pc \in {"ddns", "portview", "port", "arm", "start", "wifi", "web", "button", "watch", "snmp"}
  /\ handler \in {"none", "detect", "launch detect", "portview", "launch portview"}
  /\ pending \in BOOLEAN
  /\ alive \in [Children -> Nat] /\ dead \in [Children -> Nat]
  /\ DETECT_PID \in {Any, "detect"} /\ PORTVIEW_PID \in {Any, "portview"}
  /\ PROC_cnt \in 0 .. WebEvery
  /\ webserver \in BOOLEAN /\ pressed \in BOOLEAN /\ rebooting \in BOOLEAN
  /\ wanted \subseteq {"line", "reboot"}
  /\ deaths \in 0 .. MaxDeaths

(* However the signals merge and whichever child a waitpid for pid 0 takes, *)
(* no program is launched while an instance of it runs: two detectors or   *)
(* two portview agents would answer the same requests.                     *)
NeverTwice == \A k \in Children : alive[k] <= 1

(* The web server that has ended is started again, line settings made      *)
(* through SNMP are taken over, and a reset button that stays down is seen, *)
(* whatever ends and is launched meanwhile - or the device reboots.        *)
WebServerKept == ~webserver ~> webserver
SnmpSetsLand == "line" \in wanted ~> "line" \notin wanted
ButtonSeen == <>[]pressed => []<>(pc = "watch")
=============================================================================
