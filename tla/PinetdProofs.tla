---------------------------- MODULE PinetdProofs ----------------------------
(* What pinetd does once it has started, proved with TLAPS: it never runs  *)
(* a program twice (Supervisor), for any configuration, any programs that  *)
(* exist and any number of deaths; and what a press of the button leads to *)
(* (ResetButton), for any length of the clock, any delays of pinetd and of *)
(* the shutdown and any settings of the clock.                             *)
EXTENDS Supervisor, ResetButton, TLAPS

Count(k) == alive[k] + dead[k]

(* The children main has not launched yet.                                 *)
Unborn(k) ==
  \/ k = "ddns" /\ pc = "ddns"
  \/ k = "portview" /\ pc \in {"ddns", "portview"}
  \/ k = "port" /\ pc \in {"ddns", "portview", "port"}
  \/ k = "wifi" /\ pc \in {"ddns", "portview", "port", "arm", "start", "wifi"}

(* Nothing of a child is left, running or not reaped, when main launches   *)
(* it, when its pid is 0, or when sig_chld is about to launch it.          *)
Gone(k) ==
  \/ Unborn(k)
  \/ k = "detect" /\ (DETECT_PID = Any \/ handler = "launch detect")
  \/ k = "portview" /\ (PORTVIEW_PID = Any \/ handler = "launch portview")

OneEach == \A k \in Children : Count(k) <= 1 /\ (Gone(k) => Count(k) = 0)

(* Before sig_chld is installed it neither runs nor is due.                *)
Unarmed == ~Armed => handler = "none" /\ ~pending

Inv == TypeOK /\ OneEach /\ Unarmed
-----------------------------------------------------------------------------
(* The counts of a child are numbers.                                      *)
LEMMA Counts ==
  ASSUME TypeOK, NEW k \in Children
  PROVE  alive[k] \in Nat /\ dead[k] \in Nat /\ Count(k) \in Nat
  <1>1. alive[k] \in Nat /\ dead[k] \in Nat
    BY DEF TypeOK
  <1> QED
    BY <1>1 DEF Count

(* A launch adds one instance, or none.                                    *)
LEMMA LaunchCounts ==
  ASSUME TypeOK, NEW k \in Children, Task_Launch(k) \/ NoLaunch
  PROVE  /\ alive' \in [Children -> Nat] /\ dead' \in [Children -> Nat]
         /\ pending' \in BOOLEAN
         /\ Count(k)' <= Count(k) + 1
         /\ \A j \in Children : j # k => Count(j)' = Count(j)
         /\ ~Armed /\ ~pending => ~pending'
  <1>1. /\ alive \in [Children -> Nat] /\ dead \in [Children -> Nat]
        /\ pending \in BOOLEAN /\ Armed \in BOOLEAN
    BY DEF TypeOK, Armed
  <1>2. CASE NoLaunch
    BY <1>1, <1>2, Counts DEF NoLaunch, Count
  <1>3. CASE Task_Launch(k) /\ k \in Installed
    <2>1. alive' = [alive EXCEPT ![k] = @ + 1] /\ dead' = dead
      BY <1>3 DEF Task_Launch
    <2>2. pending' = pending
      BY <1>3 DEF Task_Launch
    <2>3. /\ alive' \in [Children -> Nat] /\ dead' \in [Children -> Nat]
          /\ Count(k)' <= Count(k) + 1
          /\ \A j \in Children : j # k => Count(j)' = Count(j)
      BY <1>1, <2>1, Counts DEF Count
    <2> QED
      BY <1>1, <2>2, <2>3
  <1>4. CASE Task_Launch(k) /\ k \notin Installed
    BY <1>1, <1>4, Counts DEF Task_Launch, Count, Signal
  <1> QED
    BY <1>2, <1>3, <1>4

(* No child has been launched, and none is going to be twice.              *)
LEMMA InitInv == Init => Inv
  <1> SUFFICES ASSUME Init PROVE Inv
    OBVIOUS
  <1>1. TypeOK
    <2>1. alive \in [Children -> Nat] /\ dead \in [Children -> Nat]
      BY DEF Init
    <2>2. 0 \in 0 .. WebEvery /\ 0 \in 0 .. MaxDeaths
      BY NumbersAssumption
    <2> QED
      BY <2>1, <2>2 DEF Init, TypeOK, Any
  <1>2. \A k \in Children : alive[k] = 0 /\ dead[k] = 0
    BY DEF Init
  <1>4. OneEach
    BY <1>2 DEF OneEach, Count
  <1>3. Unarmed
    BY DEF Init, Unarmed
  <1> QED
    BY <1>1, <1>3, <1>4 DEF Inv

(* A launch by main, of a child it has not launched before.                *)
LEMMA BootLaunchInv ==
  ASSUME Inv, NEW k \in DOMAIN AfterLaunch, BootLaunch(k)
  PROVE  Inv'
  <1>1. k \in {"ddns", "portview", "port"} /\ pc = k
    BY DEF AfterLaunch, BootLaunch
  <1>2. k \in Children
    BY <1>1 DEF Children
  <1>3. Task_Launch(k) \/ NoLaunch
    BY DEF BootLaunch
  <1>4. /\ alive' \in [Children -> Nat] /\ dead' \in [Children -> Nat]
        /\ pending' \in BOOLEAN /\ Count(k)' <= Count(k) + 1
        /\ \A j \in Children : j # k => Count(j)' = Count(j)
        /\ ~Armed /\ ~pending => ~pending'
    BY <1>2, <1>3, LaunchCounts DEF Inv
  <1>5. /\ k = "ddns" => pc' = "portview"
        /\ k = "portview" => pc' = "port"
        /\ k = "port" => pc' = "arm"
    BY <1>1 DEF AfterLaunch, BootLaunch
  <1>6. PORTVIEW_PID' \in {Any, "portview"}
    BY <1>1 DEF BootLaunch, PidOf, Inv, TypeOK
  <1>7. TypeOK'
    BY <1>1, <1>4, <1>5, <1>6 DEF BootLaunch, Inv, TypeOK, world
  <1>8. Count(k) = 0
    BY <1>1, <1>2 DEF Inv, OneEach, Gone, Unborn
  <1>9. ~Armed /\ handler = "none" /\ ~pending
    BY <1>1 DEF Armed, AfterLaunch, Inv, Unarmed
  <1>10. OneEach'
    <2> SUFFICES ASSUME NEW j \in Children
                 PROVE  Count(j)' <= 1 /\ (Gone(j)' => Count(j)' = 0)
      BY DEF OneEach
    <2>1. CASE j = k
      <3>1. Count(k)' <= 1
        BY <1>2, <1>4, <1>8
      <3>2. Gone(k)' => Count(k)' = 0
        <4>1. CASE k # "portview"
          BY <1>1, <1>5, <4>1 DEF Gone, Unborn
        <4>2. CASE k = "portview"
          <5>1. ~Unborn(k)' /\ handler' = "none"
            BY <1>1, <1>5, <1>9, <4>2 DEF Unborn, BootLaunch
          <5>2. PORTVIEW_PID' = Any => NoLaunch
            BY <4>2, <1>1, <1>8 DEF BootLaunch, PidOf, Any
          <5>3. NoLaunch => Count(k)' = Count(k)
            BY DEF NoLaunch, Count
          <5> QED
            BY <1>8, <4>2, <5>1, <5>2, <5>3 DEF Gone
        <4> QED
          BY <4>1, <4>2
      <3> QED
        BY <2>1, <3>1, <3>2
    <2>2. CASE j # k
      <3>1. Gone(j)' => Gone(j)
        BY <1>1, <1>5, <1>9, <2>2 DEF Gone, Unborn, BootLaunch, PidOf
      <3> QED
        BY <1>4, <2>2, <3>1 DEF Inv, OneEach
    <2> QED
      BY <2>1, <2>2
  <1>11. Unarmed'
    BY <1>4, <1>6, <1>9 DEF Unarmed, BootLaunch
  <1> QED
    BY <1>7, <1>10, <1>11 DEF Inv

(* A step of main that launches no child.                                  *)
LEMMA StillInv ==
  ASSUME Inv, TypeOK', UNCHANGED <<alive, dead, DETECT_PID, PORTVIEW_PID>>,
         handler' = handler \/ handler' \in {"none", "detect", "portview"},
         Armed' \/ UNCHANGED <<pc, handler, pending>>,
         \A k \in Children : Unborn(k)' => Unborn(k)
  PROVE  Inv'
  <1>1. \A k \in Children : Count(k)' = Count(k) /\ (Gone(k)' => Gone(k))
    BY DEF Count, Gone
  <1>2. OneEach'
    BY <1>1 DEF Inv, OneEach
  <1>3. Unarmed'
    BY DEF Inv, Unarmed, Armed
  <1> QED
    BY <1>2, <1>3 DEF Inv

(* Main after the first launches.                                          *)
LEMMA MainInv ==
  ASSUME Inv, Arm \/ Start \/ WebWait \/ WebCheck \/ Button \/ Watch \/ SnmpSync
  PROVE  Inv'
  <1>1. TypeOK'
    <2>1. CASE Arm \/ Button
      BY <2>1 DEF Inv, TypeOK, Arm, Button, children, world
    <2>2. CASE WebWait
      <3>1. PROC_cnt' \in 0 .. WebEvery
        <4>1. PROC_cnt \in 0 .. WebEvery
          BY DEF Inv, TypeOK
        <4>2. PROC_cnt < WebEvery /\ PROC_cnt' = PROC_cnt + 1
          BY <2>2 DEF WebWait
        <4> QED
          BY <4>1, <4>2, NumbersAssumption
      <3> QED
        BY <2>2, <3>1 DEF Inv, TypeOK, WebWait, children, world
    <2>3. CASE Start \/ WebCheck
      <3>1. webserver' \in BOOLEAN
        <4>1. webserver' = ("web" \in Enabled)
          BY <2>3 DEF Start, WebCheck
        <4> QED
          BY <4>1
      <3>3. pending' \in BOOLEAN
        <4>1. CASE Start
          <5>1. pending' = ("web" \in Enabled)
            BY <4>1 DEF Start
          <5> QED
            BY <5>1
        <4>2. CASE WebCheck
          <5>1. pending' = (webserver' # webserver)
            BY <4>2 DEF WebCheck
          <5> QED
            BY <5>1
        <4> QED
          BY <2>3, <4>1, <4>2
      <3>2. PROC_cnt' \in 0 .. WebEvery
        <4>1. PROC_cnt \in 0 .. WebEvery
          BY DEF Inv, TypeOK
        <4>2. PROC_cnt' = PROC_cnt \/ PROC_cnt' = 0
          BY <2>3 DEF Start, WebCheck
        <4> QED
          BY <4>1, <4>2, NumbersAssumption
      <3> QED
        BY <2>3, <3>1, <3>2, <3>3 DEF Inv, TypeOK, Start, WebCheck, children, world
    <2>4. CASE Watch
      BY <2>4 DEF Inv, TypeOK, Watch, children
    <2>5. CASE SnmpSync
      <3>1. rebooting' \in BOOLEAN /\ pending' \in BOOLEAN
        <4>1. pending' = ("reboot" \in wanted)
              /\ rebooting' = (rebooting \/ "reboot" \in wanted)
          BY <2>5 DEF SnmpSync
        <4> QED
          BY <4>1
      <3> QED
        BY <2>5, <3>1 DEF Inv, TypeOK, SnmpSync, children
    <2> QED
      BY <2>1, <2>2, <2>3, <2>4, <2>5
  <1>2. UNCHANGED <<alive, dead, DETECT_PID, PORTVIEW_PID, handler>>
    BY DEF Arm, Start, WebWait, WebCheck, Button, Watch, SnmpSync, children, world
  <1>3. pc \in {"arm", "start", "web", "button", "watch", "snmp"}
        /\ pc' \in {"start", "wifi", "web", "button", "watch", "snmp"}
    BY DEF Arm, Start, WebWait, WebCheck, Button, Watch, SnmpSync
  <1>4. Armed'
    BY <1>3 DEF Armed, AfterLaunch
  <1>5. pc' \in {"start", "wifi"} => pc \in {"arm", "start"}
    BY DEF Arm, Start, WebWait, WebCheck, Button, Watch, SnmpSync
  <1>6. \A k \in Children : Unborn(k)' => Unborn(k)
    BY <1>3, <1>5 DEF Unborn
  <1> QED
    BY <1>1, <1>2, <1>4, <1>6, StillInv

(* The last launch by main.                                                *)
LEMMA WifiInv ==
  ASSUME Inv, Wifi
  PROVE  Inv'
  <1>1. "wifi" \in Children /\ (Task_Launch("wifi") \/ NoLaunch)
    BY DEF Wifi, Children
  <1>2. /\ alive' \in [Children -> Nat] /\ dead' \in [Children -> Nat]
        /\ pending' \in BOOLEAN /\ Count("wifi")' <= Count("wifi") + 1
        /\ \A j \in Children : j # "wifi" => Count(j)' = Count(j)
    BY <1>1, LaunchCounts DEF Inv
  <1>3. TypeOK'
    BY <1>2 DEF Wifi, Inv, TypeOK, world
  <1>4. pc = "wifi" /\ pc' = "web" /\ UNCHANGED <<handler, DETECT_PID, PORTVIEW_PID>>
    BY DEF Wifi
  <1>5. Count("wifi") = 0
    BY <1>1, <1>4 DEF Inv, OneEach, Gone, Unborn
  <1>6. \A k \in Children : Gone(k)' => Gone(k) /\ k # "wifi"
    BY <1>4 DEF Gone, Unborn
  <1>7. OneEach'
    BY <1>2, <1>5, <1>6 DEF Inv, OneEach
  <1>8. Unarmed'
    BY <1>4 DEF Unarmed, Armed, AfterLaunch
  <1> QED
    BY <1>3, <1>7, <1>8 DEF Inv

(* A SIGCHLD is delivered, after sig_chld was installed.                   *)
LEMMA DeliverInv ==
  ASSUME Inv, Deliver
  PROVE  Inv'
  <1>1. TypeOK'
    BY DEF Deliver, Inv, TypeOK, children, world
  <1>2. Armed
    BY DEF Deliver, Inv, Unarmed
  <1>3. Armed'
    BY <1>2 DEF Deliver, Armed
  <1>4. \A k \in Children : Unborn(k)' => Unborn(k)
    BY DEF Deliver, Unborn
  <1> QED
    BY <1>1, <1>3, <1>4, StillInv DEF Deliver, children

(* waitpid takes a child that has ended: the one waited for, or any if the *)
(* pid is 0, and then nothing is left of the one waited for already.       *)
LEMMA ReapInv ==
  ASSUME Inv, ReapDetect \/ ReapPortview
  PROVE  Inv'
  <1>1. handler \in {"detect", "portview"}
    BY DEF ReapDetect, ReapPortview, Reap
  <1>2. Armed /\ pc' = pc
    BY <1>1 DEF Inv, Unarmed, ReapDetect, ReapPortview, Reap
  <1>3. Armed' /\ \A k \in Children : Unborn(k)' <=> Unborn(k)
    BY <1>2 DEF Armed, Unborn
  <1>4. ASSUME UNCHANGED <<alive, dead>>, handler' \in {"none", "portview"},
               UNCHANGED <<pc, pending, DETECT_PID, PORTVIEW_PID, PROC_cnt, webserver, world>>
        PROVE  Inv'
    <2>1. TypeOK'
      BY <1>4 DEF Inv, TypeOK, world
    <2> QED
      BY <1>3, <1>4, <2>1, StillInv
  <1>5. ASSUME NEW w \in {"detect", "portview"}, NEW pid, NEW k \in Reapable(pid),
               pid \in {Any, w}, pid = Any => Count(w) = 0,
               dead' = [dead EXCEPT ![k] = @ - 1],
               w = "detect" => handler' = "launch detect",
               w = "portview" => handler' = "launch portview",
               UNCHANGED <<pc, pending, alive, DETECT_PID, PORTVIEW_PID, PROC_cnt, webserver, world>>
        PROVE  Inv'
    <2>1. k \in Children /\ w \in Children /\ dead[k] > 0 /\ (pid = k \/ pid = Any)
      BY <1>5 DEF Reapable, Children
    <2>2. alive[k] \in Nat /\ dead[k] \in Nat /\ alive[k] + dead[k] <= 1
      BY <2>1, Counts DEF Inv, OneEach, Count
    <2>3. dead' \in [Children -> Nat] /\ Count(k)' = 0
          /\ \A j \in Children : j # k => Count(j)' = Count(j)
      <3>1. dead' \in [Children -> Nat] /\ dead'[k] = 0 /\ alive'[k] = 0
        <4>1. dead[k] = 1 /\ alive[k] = 0
          BY <2>1, <2>2
        <4>2. dead \in [Children -> Nat] /\ dead'[k] = dead[k] - 1 /\ alive' = alive
          BY <1>5, <2>1 DEF Inv, TypeOK
        <4>3. dead[k] - 1 = 0
          BY <4>1
        <4>4. dead' = [dead EXCEPT ![k] = 0]
          BY <1>5, <4>3
        <4> QED
          BY <2>1, <4>1, <4>2, <4>4
      <3>2. \A j \in Children : j # k => dead'[j] = dead[j] /\ alive'[j] = alive[j]
        BY <1>5 DEF Inv, TypeOK
      <3> QED
        BY <3>1, <3>2 DEF Count
    <2>4. TypeOK'
      BY <1>5, <2>3 DEF Inv, TypeOK, world
    <2>5. Count(w)' = 0
      <3>1. CASE pid = Any
        BY <1>5, <2>1, <2>3, <3>1
      <3>2. CASE pid # Any
        BY <1>5, <2>1, <2>3, <3>2
      <3> QED
        BY <3>1, <3>2
    <2>6. \A j \in Children : Gone(j)' => Gone(j) \/ j = w
      <3>1. UNCHANGED <<DETECT_PID, PORTVIEW_PID>>
        BY <1>5
      <3>2. CASE w = "detect"
        BY <1>3, <1>5, <3>1, <3>2 DEF Gone
      <3>3. CASE w = "portview"
        BY <1>3, <1>5, <3>1, <3>3 DEF Gone
      <3> QED
        BY <3>2, <3>3
    <2>7. OneEach'
      BY <2>1, <2>3, <2>5, <2>6 DEF Inv, OneEach
    <2> QED
      BY <1>3, <2>4, <2>7 DEF Inv, Unarmed
  <1>6. CASE ReapDetect
    <2>1. DETECT_PID \in {Any, "detect"} /\ (DETECT_PID = Any => Count("detect") = 0)
      BY DEF Inv, TypeOK, OneEach, Gone, Children
    <2>2. CASE Reapable(DETECT_PID) = {} /\ handler' = After("detect") /\ UNCHANGED dead
      BY <1>4, <1>6, <2>2 DEF ReapDetect, Reap, After
    <2>3. ASSUME NEW k \in Reapable(DETECT_PID), dead' = [dead EXCEPT ![k] = @ - 1],
                 handler' = "launch detect"
          PROVE  Inv'
      BY <1>5, <1>6, <2>1, <2>3 DEF ReapDetect, Reap
    <2> QED
      BY <1>6, <2>2, <2>3 DEF ReapDetect, Reap
  <1>7. CASE ReapPortview
    <2>1. PORTVIEW_PID \in {Any, "portview"} /\ (PORTVIEW_PID = Any => Count("portview") = 0)
      BY DEF Inv, TypeOK, OneEach, Gone, Children
    <2>2. CASE Reapable(PORTVIEW_PID) = {} /\ handler' = After("portview") /\ UNCHANGED dead
      BY <1>4, <1>7, <2>2 DEF ReapPortview, Reap, After
    <2>3. ASSUME NEW k \in Reapable(PORTVIEW_PID), dead' = [dead EXCEPT ![k] = @ - 1],
                 handler' = "launch portview"
          PROVE  Inv'
      BY <1>5, <1>7, <2>1, <2>3 DEF ReapPortview, Reap
    <2> QED
      BY <1>7, <2>2, <2>3 DEF ReapPortview, Reap
  <1> QED
    BY <1>6, <1>7

(* sig_chld launches a child of which nothing is left.                     *)
LEMMA RelaunchInv ==
  ASSUME Inv, RelaunchDetect \/ RelaunchPortview
  PROVE  Inv'
  <1>1. handler \in {"launch detect", "launch portview"}
        /\ handler' \in {"none", "detect", "portview"}
    BY DEF RelaunchDetect, RelaunchPortview, After
  <1>2. Armed /\ pc' = pc
    BY <1>1 DEF Inv, Unarmed, RelaunchDetect, RelaunchPortview
  <1>3. Armed' /\ \A k \in Children : Unborn(k)' <=> Unborn(k)
    BY <1>2 DEF Armed, Unborn
  <1>4. ASSUME NEW w \in Children, Task_Launch(w) \/ NoLaunch,
               Count(w) = 0, Gone(w)' => NoLaunch,
               \A j \in Children : j # w => (Gone(j)' => Gone(j))
        PROVE  OneEach' /\ alive' \in [Children -> Nat] /\ dead' \in [Children -> Nat]
               /\ pending' \in BOOLEAN
    <2>1. /\ alive' \in [Children -> Nat] /\ dead' \in [Children -> Nat]
          /\ pending' \in BOOLEAN /\ Count(w)' <= Count(w) + 1
          /\ \A j \in Children : j # w => Count(j)' = Count(j)
      BY <1>4, LaunchCounts DEF Inv
    <2>2. NoLaunch => Count(w)' = Count(w)
      BY DEF NoLaunch, Count
    <2>3. Count(w)' <= 1 /\ (Gone(w)' => Count(w)' = 0)
      BY <1>4, <2>1, <2>2
    <2> QED
      BY <1>4, <2>1, <2>3 DEF Inv, OneEach
  <1>5. CASE RelaunchDetect
    <2>1. handler = "launch detect" /\ PORTVIEW_PID' = PORTVIEW_PID
          /\ UNCHANGED <<pc, PROC_cnt, webserver, world>>
      BY <1>5 DEF RelaunchDetect
    <2>2. "detect" \in Children /\ Count("detect") = 0
      BY <2>1 DEF Inv, OneEach, Gone, Children
    <2>3. /\ Task_Launch("detect") \/ NoLaunch
          /\ DETECT_PID' \in {Any, "detect"}
          /\ DETECT_PID' = Any => NoLaunch
      BY <1>5 DEF RelaunchDetect, Any
    <2>4. Gone("detect")' => NoLaunch
      BY <1>1, <2>3 DEF Gone, Unborn
    <2>5. \A j \in Children : j # "detect" => (Gone(j)' => Gone(j))
      BY <1>1, <1>3, <2>1 DEF Gone
    <2>6. OneEach' /\ alive' \in [Children -> Nat] /\ dead' \in [Children -> Nat]
          /\ pending' \in BOOLEAN
      BY <1>4, <2>2, <2>3, <2>4, <2>5
    <2>7. TypeOK'
      BY <1>1, <2>1, <2>3, <2>6 DEF Inv, TypeOK, world
    <2> QED
      BY <1>3, <2>6, <2>7 DEF Inv, Unarmed
  <1>6. CASE RelaunchPortview
    <2>1. handler = "launch portview" /\ DETECT_PID' = DETECT_PID
          /\ UNCHANGED <<pc, PROC_cnt, webserver, world>>
      BY <1>6 DEF RelaunchPortview
    <2>2. "portview" \in Children /\ Count("portview") = 0
      BY <2>1 DEF Inv, OneEach, Gone, Children
    <2>3. /\ Task_Launch("portview") \/ NoLaunch
          /\ PORTVIEW_PID' \in {Any, "portview"}
          /\ PORTVIEW_PID' = Any => NoLaunch
      BY <1>6 DEF RelaunchPortview, Any
    <2>4. Gone("portview")' => NoLaunch
      <3>1. ~Unborn("portview")'
        BY <1>3 DEF Unborn, Armed, AfterLaunch
      <3> QED
        BY <1>1, <2>3, <3>1 DEF Gone
    <2>5. \A j \in Children : j # "portview" => (Gone(j)' => Gone(j))
      BY <1>1, <1>3, <2>1 DEF Gone
    <2>6. OneEach' /\ alive' \in [Children -> Nat] /\ dead' \in [Children -> Nat]
          /\ pending' \in BOOLEAN
      BY <1>4, <2>2, <2>3, <2>4, <2>5
    <2>7. TypeOK'
      BY <1>1, <2>1, <2>3, <2>6 DEF Inv, TypeOK, world
    <2> QED
      BY <1>3, <2>6, <2>7 DEF Inv, Unarmed
  <1> QED
    BY <1>5, <1>6

(* A child that ends is no longer running, and not reaped yet.             *)
LEMMA DieInv ==
  ASSUME Inv, NEW k \in Children, Die(k)
  PROVE  Inv'
  <1>1. alive[k] \in Nat /\ dead[k] \in Nat /\ alive[k] > 0
    BY Counts DEF Inv, Die
  <1>2. alive[k] = 1 /\ dead[k] = 0
    BY <1>1 DEF Inv, OneEach, Count
  <1>3. alive[k] - 1 = 0 /\ dead[k] + 1 = 1
    BY <1>2
  <1>4. alive' = [alive EXCEPT ![k] = 0] /\ dead' = [dead EXCEPT ![k] = 1]
    BY <1>3 DEF Die
  <1>5. alive' \in [Children -> Nat] /\ dead' \in [Children -> Nat]
    BY <1>4 DEF Inv, TypeOK
  <1>6. \A j \in Children : Count(j)' = Count(j)
    <2>1. alive'[k] = 0 /\ dead'[k] = 1
      BY <1>4 DEF Inv, TypeOK
    <2>2. \A j \in Children : j # k => alive'[j] = alive[j] /\ dead'[j] = dead[j]
      BY <1>4 DEF Inv, TypeOK
    <2> QED
      BY <1>2, <2>1, <2>2 DEF Count
  <1>7. UNCHANGED <<pc, handler, DETECT_PID, PORTVIEW_PID, PROC_cnt, webserver,
                    pressed, wanted, rebooting>>
    BY DEF Die
  <1>8. \A j \in Children : Gone(j)' <=> Gone(j)
    BY <1>7 DEF Gone, Unborn
  <1>9. pending' \in BOOLEAN /\ (~Armed => pending' = pending)
    <2>1. pending' = (pending \/ Armed) /\ pending \in BOOLEAN
      BY DEF Die, Inv, TypeOK
    <2> QED
      BY <2>1
  <1>10. deaths' \in 0 .. MaxDeaths
    <2>1. deaths \in 0 .. MaxDeaths /\ deaths < MaxDeaths /\ deaths' = deaths + 1
      BY DEF Inv, TypeOK, Die
    <2> QED
      BY <2>1, NumbersAssumption
  <1>11. TypeOK'
    BY <1>5, <1>7, <1>9, <1>10 DEF Inv, TypeOK
  <1>12. OneEach'
    BY <1>6, <1>8 DEF Inv, OneEach
  <1>13. Unarmed'
    BY <1>7, <1>9 DEF Inv, Unarmed, Armed
  <1> QED
    BY <1>11, <1>12, <1>13 DEF Inv

(* The web server, the button and the SNMP agent are no children.          *)
LEMMA OutsideInv ==
  ASSUME Inv, WebServerDies \/ Press \/ (\E w \in {"line", "reboot"} : SnmpSet(w))
  PROVE  Inv'
  <1>1. UNCHANGED <<pc, handler, pending, alive, dead, DETECT_PID, PORTVIEW_PID, PROC_cnt>>
    BY DEF WebServerDies, Press, SnmpSet, children
  <1>2. TypeOK'
    <2>1. CASE WebServerDies
      <3>1. deaths' \in 0 .. MaxDeaths
        <4>1. deaths \in 0 .. MaxDeaths /\ deaths < MaxDeaths /\ deaths' = deaths + 1
          BY <2>1 DEF Inv, TypeOK, WebServerDies
        <4> QED
          BY <4>1, NumbersAssumption
      <3> QED
        BY <1>1, <2>1, <3>1 DEF Inv, TypeOK, WebServerDies
    <2>2. CASE Press
      BY <1>1, <2>2 DEF Inv, TypeOK, Press
    <2>3. CASE \E w \in {"line", "reboot"} : SnmpSet(w)
      <3>1. PICK w \in {"line", "reboot"} : SnmpSet(w)
        BY <2>3
      <3>2. wanted' \subseteq {"line", "reboot"}
            /\ UNCHANGED <<webserver, pressed, rebooting, deaths>>
        BY <3>1 DEF SnmpSet, Inv, TypeOK
      <3> QED
        BY <1>1, <3>2 DEF Inv, TypeOK
    <2> QED
      BY <2>1, <2>2, <2>3
  <1>3. OneEach' /\ Unarmed'
    BY <1>1 DEF Inv, OneEach, Gone, Unborn, Count, Unarmed, Armed
  <1> QED
    BY <1>2, <1>3 DEF Inv

(* A reboot ends them all.                                                 *)
LEMMA RebootInv ==
  ASSUME Inv, Reboot
  PROVE  Inv'
  <1>1. alive' \in [Children -> Nat] /\ dead' \in [Children -> Nat]
        /\ \A k \in Children : alive'[k] = 0 /\ dead'[k] = 0
    BY DEF Reboot, Clear
  <1>2. TypeOK'
    <2>1. 0 \in 0 .. WebEvery
      BY NumbersAssumption
    <2>2. UNCHANGED <<pressed, deaths>>
      BY DEF Reboot
    <2> QED
      BY <1>1, <2>1, <2>2 DEF Reboot, Clear, Inv, TypeOK, Any
  <1>3. OneEach'
    BY <1>1 DEF OneEach, Count
  <1>4. Unarmed'
    BY DEF Unarmed, Reboot, Clear
  <1> QED
    BY <1>2, <1>3, <1>4 DEF Inv

(* Every step keeps the invariant.                                         *)
LEMMA NextInv ==
  ASSUME Inv, [Next]_vars
  PROVE  Inv'
  <1>1. CASE Boot
    BY <1>1, BootLaunchInv, MainInv, WifiInv DEF Boot
  <1>2. CASE Loop
    BY <1>2, MainInv DEF Loop
  <1>3. CASE SigChld
    BY <1>3, DeliverInv, ReapInv, RelaunchInv DEF SigChld
  <1>4. CASE UNCHANGED vars
    <2>1. TypeOK'
      BY <1>4 DEF vars, children, world, Inv, TypeOK
    <2>2. OneEach'
      BY <1>4 DEF vars, children, Inv, OneEach, Gone, Unborn, Count
    <2>3. Unarmed'
      BY <1>4 DEF vars, Inv, Unarmed, Armed
    <2> QED
      BY <2>1, <2>2, <2>3 DEF Inv
  <1> QED
    BY <1>1, <1>2, <1>3, <1>4, DieInv, OutsideInv, RebootInv DEF Next

(* Whatever is enabled and installed, however many programs end and        *)
(* however their signals merge, with launches that fail and waitpid for    *)
(* pid 0: sig_chld and main never launch a program that still runs.        *)
THEOREM NeverTwiceHolds == Spec => []NeverTwice
  <1>1. Inv => NeverTwice
    <2> SUFFICES ASSUME Inv, NEW k \in Children PROVE alive[k] <= 1
      BY DEF NeverTwice
    <2>1. alive[k] \in Nat /\ dead[k] \in Nat /\ alive[k] + dead[k] <= 1
      BY Counts DEF Inv, OneEach, Count
    <2> QED
      BY <2>1
  <1>2. Inv /\ [Next]_vars => Inv'
    BY NextInv
  <1> QED
    BY <1>1, <1>2, InitInv, PTL DEF Spec

(* pinetd's pids, its counter and its places keep to their values: no pid  *)
(* but 0 and the one of the child it was launched as is ever waited for.   *)
THEOREM TypeCorrect == Spec => []TypeOK
  <1>1. Inv => TypeOK
    BY DEF Inv
  <1>2. Inv /\ [Next]_vars => Inv'
    BY NextInv
  <1> QED
    BY <1>1, <1>2, InitInv, PTL DEF Spec
-----------------------------------------------------------------------------
(* The button.                                                             *)
Types ==
  /\ at \in {"loop", "watch", "factory", "reboot", "again", "off"}
  /\ held \in BOOLEAN /\ noted \in BOOLEAN /\ factory \in BOOLEAN
  /\ broken \in BOOLEAN /\ misread \in BOOLEAN
  /\ length \in Nat /\ length <= Longest
  /\ late \in Nat /\ late <= Lag + 1
  /\ tick \in Nat /\ tick < Modulus
  /\ timer \in Nat /\ timer < Modulus
  /\ sleep \in Nat /\ steps \in Nat /\ cuts \in Nat
  /\ asked \in Int /\ asked >= Never
  /\ decided \in Int

(* Before the first decision.                                              *)
Undecided == decided = Never

(* A press is not older than pinetd's last look at the button that was up. *)
PressIsNew ==
  at \in {"loop", "off"} => Undecided /\ length <= Lag + 1 /\ (held => length <= late)

Watching == at = "watch" /\ Undecided /\ steps = 0

(* Nobody presses again before pinetd has seen the button up.              *)
OnePress == Watching /\ ~held => ~noted \/ misread

(* The time the deadline has been set for, as the clock tells it, has been *)
(* spent pressing, but for what has passed since pinetd last looked.       *)
Unseen == IF held THEN 0 ELSE late

NotLonger ==
  Watching /\ timer >= Hold /\ ~misread =>
    length >= Hold - Lag \/ tick - timer + Hold <= length + Unseen

(* The press has lasted no longer than that time, and what pinetd was late *)
(* to see it begin; or the deadline has passed since pinetd last looked;   *)
(* or the deadline has wrapped and the clock has not yet.                  *)
Bounded(p, since) == p <= since + Lag + 1
BeforeDeadline == tick <= timer /\ Bounded(length, tick - timer + Hold)
AfterDeadline == tick > timer /\ late >= tick - timer
BeforeWrap ==
  /\ timer < Hold /\ tick >= timer + Modulus - Hold
  /\ Bounded(length, tick - (timer + Modulus - Hold))

NotShorter ==
  Watching /\ ~Near(timer) => BeforeDeadline \/ AfterDeadline \/ BeforeWrap

(* Inside reset_or_factory, and when it has returned.                      *)
Inside ==
  /\ at \in {"factory", "reboot", "again"} => ~Undecided
  /\ at = "factory" => factory
  /\ at = "reboot" => asked >= 0 /\ (cuts = 0 => asked + sleep >= ShortWait)
  /\ at = "again" => asked >= 0 /\ (cuts = 0 => asked + sleep >= Patience)
  /\ at = "watch" /\ ~Undecided /\ cuts = 0 => asked >= Patience
  /\ Undecided => ~factory

PressInv == /\ Types /\ PressIsNew /\ OnePress /\ NotLonger /\ NotShorter /\ Inside
       /\ FactoryNeedsHold /\ WarmMeansShort
-----------------------------------------------------------------------------
(* The constants are numbers.                                              *)
LEMMA Numbers ==
  /\ Modulus \in Nat /\ Modulus > 3 /\ Lag \in Nat /\ Hold = 3
  /\ Longest \in Nat /\ Longest = Lag + 5
  BY TicksAssumption, DelaysAssumption DEF Hold, Longest

(* The clock below the number it wraps at.                                 *)
LEMMA WrapsShort ==
  ASSUME NEW t \in Nat, t < Modulus
  PROVE  Wraps(t) = t
  BY TicksAssumption DEF Wraps

(* The clock that has wrapped once.                                        *)
LEMMA WrapsLong ==
  ASSUME NEW t \in Nat, t >= Modulus, t < Modulus + Modulus
  PROVE  Wraps(t) = t - Modulus
  BY TicksAssumption DEF Wraps

(* The clock of the next second.                                           *)
LEMMA NextTick ==
  ASSUME NEW t \in Nat, t < Modulus
  PROVE  Wraps(t + 1) = IF t + 1 < Modulus THEN t + 1 ELSE 0
  <1>1. CASE t + 1 < Modulus
    BY <1>1, WrapsShort
  <1>2. CASE t + 1 >= Modulus
    <2>1. t + 1 = Modulus /\ Modulus < Modulus + Modulus
      BY <1>2, TicksAssumption DEF Hold
    <2>2. Wraps(t + 1) = t + 1 - Modulus
      BY <2>1, WrapsLong, TicksAssumption
    <2> QED
      BY <2>1, <2>2, TicksAssumption
  <1> QED
    BY <1>1, <1>2, TicksAssumption

(* The deadline.                                                           *)
LEMMA Deadline ==
  ASSUME NEW t \in Nat, t < Modulus
  PROVE  Wraps(t + 3) = IF t + 3 < Modulus THEN t + 3 ELSE t + 3 - Modulus
  <1>1. PICK u \in Nat : u = t + 3 /\ u < Modulus + Modulus
    BY Numbers
  <1>2. Wraps(u) = IF u < Modulus THEN u ELSE u - Modulus
    BY <1>1, WrapsShort, WrapsLong, Numbers
  <1> QED
    BY <1>1, <1>2, Numbers

(* Everything is quiet at first.                                           *)
LEMMA PressInvInit == ButtonInit => PressInv
  <1> SUFFICES ASSUME ButtonInit PROVE PressInv
    OBVIOUS
  <1>1. Types
    <2>1. 0 < Modulus /\ 0 <= Longest /\ 0 <= Lag + 1
      BY Numbers
    <2>2. Never \in Int /\ Never >= Never
      BY DEF Never
    <2> QED
      BY <2>1, <2>2 DEF ButtonInit, Types
  <1> QED
    <2>1. 0 <= Lag + 1
      BY Numbers
    <2> QED
      BY <1>1, <2>1 DEF ButtonInit, PressInv, PressIsNew, Undecided, Watching, OnePress,
         NotLonger, NotShorter, Inside, FactoryNeedsHold, WarmMeansShort, Never

(* The button is pressed or comes up.                                      *)
LEMMA ButtonInv ==
  ASSUME PressInv, Push \/ Release
  PROVE  PressInv'
  <1>1. UNCHANGED <<at, broken, late, tick, timer, sleep, asked, cuts, decided, factory,
                    misread, steps>>
    BY DEF Push, Release, bounded
  <1>2. Types'
    <2>1. length' \in Nat /\ length' <= Longest /\ held' \in BOOLEAN /\ noted' \in BOOLEAN
      <3>1. CASE Push
        BY <3>1, Numbers DEF Push, PressInv, Types
      <3>2. CASE Release
        BY <3>2 DEF Release, PressInv, Types
      <3> QED
        BY <3>1, <3>2
    <2> QED
      BY <1>1, <2>1 DEF PressInv, Types
  <1>3. Inside' /\ FactoryNeedsHold' /\ WarmMeansShort'
    BY <1>1 DEF PressInv, Inside, Undecided, FactoryNeedsHold, WarmMeansShort, Near
  <1>4. CASE Push
    <2>1. ~held /\ held' /\ noted' = noted /\ (Undecided => length' = 0)
      BY <1>4 DEF Push, Undecided
    <2>2. PressIsNew'
      <3>1. 0 <= late /\ 0 <= Lag + 1
        BY Numbers DEF PressInv, Types
      <3> QED
        BY <1>1, <2>1, <3>1 DEF PressInv, PressIsNew, Undecided
    <2>3. (Watching' <=> Watching) /\ (Watching => misread)
      BY <1>1, <1>4 DEF Push, PressInv, OnePress, Looking, Watching, Undecided
    <2>4. OnePress' /\ NotLonger'
      BY <1>1, <2>1, <2>3 DEF OnePress, NotLonger
    <2>5. NotShorter'
      <3> SUFFICES ASSUME Watching, ~Near(timer)
                   PROVE  (BeforeDeadline \/ AfterDeadline \/ BeforeWrap)'
        BY <1>1, <2>3 DEF NotShorter, Near
      <3>1. length' = 0 /\ length >= 0
        BY <2>1 DEF Watching, PressInv, Types
      <3>2. BeforeDeadline \/ AfterDeadline \/ BeforeWrap
        BY DEF PressInv, NotShorter
      <3>3. CASE BeforeDeadline
        BY <1>1, <3>1, <3>3, Numbers DEF BeforeDeadline, Bounded, PressInv, Types
      <3>4. CASE AfterDeadline
        BY <1>1, <3>4 DEF AfterDeadline
      <3>5. CASE BeforeWrap
        BY <1>1, <3>1, <3>5, Numbers DEF BeforeWrap, Bounded, PressInv, Types
      <3> QED
        BY <3>2, <3>3, <3>4, <3>5
    <2> QED
      BY <1>2, <1>3, <2>2, <2>4, <2>5 DEF PressInv
  <1>5. CASE Release
    <2>1. length' = length /\ ~held' /\ ~noted' /\ held
      BY <1>5 DEF Release
    <2>2. Watching' <=> Watching
      BY <1>1 DEF Watching, Undecided
    <2>3. PressIsNew' /\ OnePress'
      BY <1>1, <2>1 DEF PressInv, PressIsNew, OnePress, Undecided
    <2>4. NotLonger'
      <3>1. Unseen' = late /\ Unseen = 0 /\ late \in Nat
        BY <1>1, <2>1 DEF Unseen, PressInv, Types
      <3>2. SUFFICES ASSUME Watching, timer >= Hold, ~misread, ~(length >= Hold - Lag)
                     PROVE  tick - timer + Hold <= length + late
        BY <1>1, <2>1, <2>2, <3>1 DEF NotLonger
      <3>3. tick - timer + Hold <= length + 0
        BY <3>1, <3>2 DEF PressInv, NotLonger
      <3> QED
        BY <3>1, <3>3, Numbers DEF PressInv, Types
    <2>5. NotShorter'
      BY <1>1, <2>1, <2>2 DEF PressInv, NotShorter, Near, BeforeDeadline, AfterDeadline,
         BeforeWrap, Bounded
    <2> QED
      BY <1>2, <1>3, <2>3, <2>4, <2>5 DEF PressInv
  <1> QED
    BY <1>4, <1>5

(* The button's device fails or is mended.                                 *)
LEMMA DeviceInv ==
  ASSUME PressInv, Break \/ Mend
  PROVE  PressInv'
  <1>1. /\ UNCHANGED <<at, held, length, noted, late, tick, timer, sleep, asked, cuts, decided,
                       factory, misread, steps>>
        /\ broken' \in BOOLEAN
    BY DEF Break, Mend, button, bounded
  <1>2. Types' /\ PressIsNew' /\ OnePress' /\ Inside'
    BY <1>1 DEF PressInv, Types, PressIsNew, OnePress, Inside, Watching, Undecided
  <1>3. NotLonger' /\ NotShorter'
    BY <1>1 DEF PressInv, NotLonger, NotShorter, Watching, Undecided, Unseen, Near,
       BeforeDeadline, AfterDeadline, BeforeWrap, Bounded
  <1>4. FactoryNeedsHold' /\ WarmMeansShort'
    BY <1>1 DEF PressInv, FactoryNeedsHold, WarmMeansShort, Near
  <1> QED
    BY <1>2, <1>3, <1>4 DEF PressInv

(* SIGCHLD ends a sleep: from then on nothing is claimed of def factory.   *)
LEMMA CutShortInv ==
  ASSUME PressInv, CutShort
  PROVE  PressInv'
  <1>1. /\ UNCHANGED <<at, held, length, noted, broken, late, tick, timer, asked, decided,
                       factory, misread, steps>>
        /\ at \in {"factory", "reboot", "again"} /\ cuts' = cuts + 1 /\ sleep' \in 0 .. Lag
    BY DEF CutShort, button, bounded
  <1>2. cuts' \in Nat /\ cuts' # 0 /\ sleep' \in Nat
    BY <1>1, Numbers DEF PressInv, Types
  <1>3. Types'
    BY <1>1, <1>2 DEF PressInv, Types
  <1>4. ~Watching' /\ PressIsNew' /\ Inside'
    BY <1>1, <1>2 DEF PressInv, Inside, Watching, PressIsNew, Undecided
  <1>5. FactoryNeedsHold' /\ WarmMeansShort'
    BY <1>1, <1>2 DEF PressInv, FactoryNeedsHold, WarmMeansShort, Near
  <1> QED
    BY <1>3, <1>4, <1>5 DEF PressInv, OnePress, NotLonger, NotShorter

(* A second goes by.                                                       *)
LEMMA SecondInv ==
  ASSUME PressInv, Second
  PROVE  PressInv'
  <1>1. /\ UNCHANGED <<at, held, noted, broken, timer, cuts, decided, factory, misread, steps>>
        /\ at # "off"
        /\ Looking => late <= Lag /\ late' = late + 1 /\ sleep' = 0
        /\ ~Looking => sleep > 0 /\ late' = 0 /\ sleep' = sleep - 1
        /\ asked' = IF asked = Never THEN Never ELSE asked + 1
        /\ length' = IF held /\ decided = Never /\ length < Longest THEN length + 1
                     ELSE length
    BY DEF Second, bounded
  <1>2. tick' = IF tick + 1 < Modulus THEN tick + 1 ELSE 0
    BY NextTick DEF Second, PressInv, Types
  <1>3. Longest \in Nat /\ Longest >= Hold - Lag
    BY DelaysAssumption DEF Longest, Hold
  <1>4. Types'
    <2>1. length' \in Nat /\ length' <= Longest
      BY <1>1, <1>3 DEF PressInv, Types
    <2>2. late' \in Nat /\ late' <= Lag + 1 /\ sleep' \in Nat
      BY <1>1, DelaysAssumption DEF PressInv, Types
    <2>3. tick' \in Nat /\ tick' < Modulus
      BY <1>2, TicksAssumption DEF PressInv, Types, Hold
    <2>4. asked' \in Int /\ asked' >= Never
      BY <1>1 DEF PressInv, Types, Never
    <2> QED
      BY <1>1, <2>1, <2>2, <2>3, <2>4 DEF PressInv, Types
  <1>5. PressIsNew'
    <2> SUFFICES ASSUME at = "loop"
                 PROVE  Undecided' /\ length' <= Lag + 1 /\ (held' => length' <= late')
      BY <1>1 DEF PressIsNew
    <2>1. late <= Lag /\ late' = late + 1 /\ Undecided' /\ length <= Lag + 1
      BY <1>1 DEF Looking, PressInv, PressIsNew, Undecided
    <2>2. held => length <= late /\ length' <= late + 1
      BY <1>1, <2>1 DEF PressInv, PressIsNew, Types
    <2>3. length' <= Lag + 1
      <3>1. CASE held
        BY <1>4, <2>1, <2>2, <3>1, Numbers DEF PressInv, Types
      <3>2. CASE ~held
        BY <1>1, <2>1, <3>2
      <3> QED
        BY <3>1, <3>2
    <2> QED
      BY <1>1, <2>1, <2>2, <2>3
  <1>6. OnePress'
    BY <1>1 DEF PressInv, OnePress, Watching, Undecided
  <1>7. asked' >= asked
    BY <1>1 DEF PressInv, Types
  <1>8. Inside'
    <2>1. CASE at \in {"reboot", "again"}
      <3>1. asked >= 0 /\ ~Looking /\ asked # Never
        BY <2>1 DEF PressInv, Inside, Looking, Never
      <3>2. asked' = asked + 1 /\ sleep' = sleep - 1
        BY <1>1, <3>1
      <3>3. asked' >= 0 /\ asked' + sleep' = asked + sleep
        BY <3>1, <3>2 DEF PressInv, Types
      <3> QED
        BY <1>1, <2>1, <3>3 DEF PressInv, Inside, Undecided
    <2>2. CASE at \notin {"reboot", "again"}
      <3>1. asked >= Patience => asked' >= Patience
        BY <1>4, <1>7 DEF PressInv, Types, Patience, ShortWait, LongWait
      <3> QED
        BY <1>1, <2>2, <3>1 DEF PressInv, Inside, Undecided
    <2> QED
      BY <2>1, <2>2
  <1>9. FactoryNeedsHold' /\ WarmMeansShort'
    BY <1>1, <1>4, <1>7 DEF PressInv, FactoryNeedsHold, WarmMeansShort, Near, Types, Patience,
       ShortWait, LongWait
  <1>10. Watching' => Watching /\ late <= Lag /\ late' = late + 1
    BY <1>1 DEF Watching, Undecided, Looking
  <1>11. NotLonger'
    <2> SUFFICES ASSUME Watching', timer >= Hold, ~misread, ~(length' >= Hold - Lag)
                 PROVE  tick' - timer + Hold <= length' + Unseen'
      BY <1>1 DEF NotLonger
    <2>1. length' < Longest
      BY <1>4, Numbers DEF Types
    <2>2. length' + Unseen' = length + Unseen + 1 /\ ~(length >= Hold - Lag)
          /\ Unseen \in Nat
      <3>1. length' = IF held THEN length + 1 ELSE length
        <4>1. decided = Never
          BY <1>10 DEF Watching, Undecided
        <4>2. length \in Nat /\ length <= Longest
          BY DEF PressInv, Types
        <4>3. held => length < Longest
          BY <1>1, <2>1, <4>1, <4>2, Numbers
        <4> QED
          BY <1>1, <4>1, <4>3
      <3>2. length \in Nat /\ late \in Nat /\ late' = late + 1 /\ held' = held
        BY <1>1, <1>10 DEF PressInv, Types
      <3>3. length' + Unseen' = length + Unseen + 1 /\ Unseen \in Nat
        BY <3>1, <3>2 DEF Unseen
      <3>4. ~(length >= Hold - Lag)
        BY <3>1, <3>2, Numbers
      <3> QED
        BY <3>3, <3>4
    <2>3. tick - timer + Hold <= length + Unseen
      BY <1>10, <2>2 DEF PressInv, NotLonger
    <2>4. CASE tick + 1 < Modulus
      BY <1>2, <2>2, <2>3, <2>4, Numbers DEF PressInv, Types
    <2>5. CASE tick + 1 >= Modulus
      <3>1. tick' = 0
        BY <1>2, <2>5, Numbers DEF PressInv, Types
      <3>2. length' + Unseen' >= 0
        BY <2>2 DEF PressInv, Types
      <3>3. length' + Unseen' \in Int
        BY <2>2 DEF PressInv, Types
      <3>4. 0 - timer + Hold <= 0
        BY Numbers DEF PressInv, Types
      <3> QED
        BY <3>1, <3>2, <3>3, <3>4, Numbers DEF PressInv, Types
    <2> QED
      BY <2>4, <2>5, Numbers DEF PressInv, Types
  <1>12. NotShorter'
    <2> SUFFICES ASSUME Watching', ~Near(timer)
                 PROVE  (BeforeDeadline \/ AfterDeadline \/ BeforeWrap)'
      BY <1>1 DEF NotShorter, Near
    <2>1. timer + Lag + 1 < Modulus
      BY TicksAssumption, DelaysAssumption DEF Near, PressInv, Types
    <2>2. length' <= length + 1
      BY <1>1, <1>3 DEF PressInv, Types
    <2>3. CASE BeforeDeadline
      <3>1. tick' = tick + 1
        BY <1>2, <2>1, <2>3, TicksAssumption, DelaysAssumption DEF BeforeDeadline, PressInv, Types
      <3>2. CASE tick < timer
        BY <1>1, <1>4, <2>2, <2>3, <3>1, <3>2, DelaysAssumption
           DEF BeforeDeadline, Bounded, PressInv, Types, Hold
      <3>3. CASE tick >= timer
        BY <1>1, <1>10, <2>3, <3>1, <3>3 DEF BeforeDeadline, AfterDeadline, PressInv, Types
      <3> QED
        BY <3>2, <3>3 DEF PressInv, Types
    <2>4. CASE AfterDeadline
      <3>1. tick + 1 < Modulus
        BY <1>10, <2>1, <2>4, TicksAssumption, DelaysAssumption DEF AfterDeadline, PressInv, Types
      <3> QED
        BY <1>1, <1>2, <1>10, <2>4, <3>1 DEF AfterDeadline, PressInv, Types
    <2>5. CASE BeforeWrap
      <3>1. CASE tick + 1 < Modulus
        BY <1>1, <1>2, <1>4, <2>2, <2>5, <3>1, TicksAssumption, DelaysAssumption
           DEF BeforeWrap, Bounded, PressInv, Types, Hold
      <3>2. CASE tick + 1 >= Modulus
        BY <1>1, <1>2, <1>4, <2>2, <2>5, <3>2, TicksAssumption, DelaysAssumption
           DEF BeforeWrap, BeforeDeadline, Bounded, PressInv, Types, Hold
      <3> QED
        BY <3>1, <3>2, TicksAssumption DEF PressInv, Types
    <2> QED
      BY <1>10, <2>3, <2>4, <2>5 DEF PressInv, NotShorter
  <1> QED
    BY <1>4, <1>5, <1>6, <1>8, <1>9, <1>11, <1>12 DEF PressInv

(* Somebody sets the clock: from then on nothing is claimed of the press.  *)
LEMMA ClockSetInv ==
  ASSUME PressInv, NEW t \in Ticks, ClockSet(t)
  PROVE  PressInv'
  <1>1. /\ UNCHANGED <<at, held, length, noted, broken, late, timer, sleep, asked, cuts,
                       decided, factory, misread>>
        /\ steps' = steps + 1 /\ at = "watch" /\ tick' = t
    BY DEF ClockSet, button
  <1>2. t \in Nat /\ t < Modulus
    BY TicksAssumption, Numbers
  <1>3. Types' /\ steps' # 0
    BY <1>1, <1>2 DEF PressInv, Types
  <1>4. ~Watching'
    BY <1>3 DEF Watching
  <1>5. PressIsNew' /\ Inside'
    BY <1>1 DEF PressInv, PressIsNew, Inside, Undecided
  <1>6. FactoryNeedsHold' /\ WarmMeansShort'
    BY <1>3 DEF FactoryNeedsHold, WarmMeansShort
  <1> QED
    BY <1>3, <1>4, <1>5, <1>6 DEF PressInv, OnePress, NotLonger, NotShorter

(* pinetd looks at a button that is up.                                    *)
LEMMA LookUpInv ==
  ASSUME PressInv, LookUp
  PROVE  PressInv'
  <1>1. /\ UNCHANGED <<at, held, length, broken, tick, timer, sleep, asked, cuts, decided,
                       factory, misread, steps>>
        /\ late' = 0 /\ noted' = TRUE /\ at = "loop" /\ ~held
    <2>1. misread' = (misread \/ FALSE) /\ noted' = (noted \/ TRUE)
      BY DEF LookUp, Look
    <2>2. misread' = misread /\ noted' = TRUE
      BY <2>1 DEF PressInv, Types
    <2> QED
      BY <2>2 DEF LookUp, Look, ReadsDown, bounded
  <1>2. Types'
    BY <1>1, Numbers DEF PressInv, Types
  <1>3. ~Watching'
    BY <1>1 DEF Watching
  <1>4. PressIsNew' /\ Inside' /\ FactoryNeedsHold' /\ WarmMeansShort'
    BY <1>1 DEF PressInv, PressIsNew, Inside, Undecided, FactoryNeedsHold, WarmMeansShort, Near
  <1> QED
    BY <1>2, <1>3, <1>4 DEF PressInv, OnePress, NotLonger, NotShorter

(* What the deadline is to the clock it was made from.                     *)
LEMMA DeadlineSet ==
  ASSUME NEW t \in Nat, NEW d, t < Modulus, d = Wraps(t + 3)
  PROVE  /\ d \in Nat /\ d < Modulus
         /\ d >= 3 => t - d + 3 = 0
         /\ \/ t <= d /\ t - d + 3 = 0
            \/ d < 3 /\ t >= d + Modulus - 3 /\ t - (d + Modulus - 3) = 0
  <1>1. CASE t + 3 < Modulus
    <2>1. d = t + 3
      BY <1>1, Deadline
    <2> QED
      BY <1>1, <2>1, Numbers
  <1>2. CASE ~(t + 3 < Modulus)
    <2>1. d = t + 3 - Modulus
      BY <1>2, Deadline
    <2> QED
      BY <1>2, <2>1, Numbers
  <1> QED
    BY <1>1, <1>2

(* pinetd sees the button down and sets its deadline.                      *)
LEMMA LookDownInv ==
  ASSUME PressInv, LookDown
  PROVE  PressInv'
  <1>1. /\ UNCHANGED <<held, length, broken, sleep, asked, cuts, decided, factory, steps>>
        /\ late' = 0 /\ at = "loop" /\ at' = "watch"
        /\ noted' \in BOOLEAN /\ misread' \in BOOLEAN /\ (~held => misread')
    <2>1. /\ misread' = (misread \/ (ReadsDown /\ ~held)) /\ ReadsDown
          /\ noted' = (noted \/ ~ReadsDown)
      BY DEF LookDown, Look
    <2> QED
      BY <2>1 DEF LookDown, Look, bounded
  <1>2. tick' \in Nat /\ tick' < Modulus
    <2>1. tick' \in Ticks
      BY DEF LookDown
    <2> QED
      BY <2>1, TicksAssumption
  <1>3. PICK t \in Nat : t = tick' /\ t < Modulus
    BY <1>2
  <1>4. timer' = Wraps(t + 3)
    BY <1>3, Numbers DEF LookDown
  <1>5. PICK d \in Nat :
          /\ d = timer' /\ d < Modulus
          /\ d >= 3 => t - d + 3 = 0
          /\ \/ t <= d /\ t - d + 3 = 0
             \/ d < 3 /\ t >= d + Modulus - 3 /\ t - (d + Modulus - 3) = 0
    BY <1>3, <1>4, DeadlineSet
  <1>6. Types'
    BY <1>1, <1>3, <1>5, Numbers DEF PressInv, Types
  <1>7. Undecided /\ Undecided' /\ ~factory'
    BY <1>1 DEF PressInv, PressIsNew, Inside, Undecided
  <1>8. PressIsNew' /\ OnePress' /\ Inside' /\ FactoryNeedsHold' /\ WarmMeansShort'
    BY <1>1, <1>7 DEF PressInv, PressIsNew, OnePress, Inside, Undecided, FactoryNeedsHold,
       WarmMeansShort
  <1>9. PICK p \in Nat : p = length' /\ p <= Lag + 1
    BY <1>1, Numbers DEF PressInv, PressIsNew, Types
  <1>10. NotLonger'
    <2>1. held => Unseen' = 0
      BY <1>1 DEF Unseen
    <2> SUFFICES ASSUME d >= 3, held PROVE tick' - timer' + 3 <= length' + Unseen'
      BY <1>1, <1>5, Numbers DEF NotLonger
    <2>2. t - d + 3 = 0
      BY <1>5
    <2>3. t - d + 3 <= p + 0
      BY <2>2
    <2> QED
      BY <1>3, <1>5, <1>9, <2>1, <2>3
  <1>11. NotShorter'
    <2>1. CASE t <= d /\ t - d + 3 = 0
      <3>1. p <= t - d + 3 + Lag + 1
        BY <1>9, <2>1, Numbers
      <3> QED
        BY <1>3, <1>5, <1>9, <2>1, <3>1, Numbers
        DEF NotShorter, BeforeDeadline, Bounded
    <2>2. CASE d < 3 /\ t >= d + Modulus - 3 /\ t - (d + Modulus - 3) = 0
      <3>1. p <= t - (d + Modulus - 3) + Lag + 1
        BY <1>9, <2>2, Numbers
      <3> QED
        BY <1>3, <1>5, <1>9, <2>2, <3>1, Numbers
        DEF NotShorter, BeforeWrap, Bounded
    <2> QED
      BY <1>5, <2>1, <2>2
  <1> QED
    BY <1>6, <1>8, <1>10, <1>11 DEF PressInv

(* pinetd looks at a button that is still down, before the deadline.       *)
LEMMA WatchInv ==
  ASSUME PressInv, KeepWatching
  PROVE  PressInv'
  <1>1. /\ UNCHANGED <<at, held, length, broken, tick, timer, sleep, asked, cuts, decided,
                       factory, steps>>
        /\ late' = 0 /\ at = "watch" /\ ~(timer < tick)
        /\ noted' \in BOOLEAN /\ misread' \in BOOLEAN
        /\ (~held => misread') /\ (misread => misread')
    <2>1. /\ misread' = (misread \/ (ReadsDown /\ ~held)) /\ ReadsDown
          /\ noted' = (noted \/ ~ReadsDown)
      BY DEF KeepWatching, Look
    <2> QED
      BY <2>1 DEF KeepWatching, Look, Expired, bounded
  <1>2. Types'
    BY <1>1, Numbers DEF PressInv, Types
  <1>3. PressIsNew' /\ OnePress' /\ Inside' /\ FactoryNeedsHold' /\ WarmMeansShort'
    BY <1>1 DEF PressInv, PressIsNew, OnePress, Inside, Undecided, FactoryNeedsHold,
       WarmMeansShort, Near
  <1>4. (Watching' <=> Watching) /\ (~misread' => Unseen' = Unseen)
    BY <1>1 DEF Watching, Undecided, Unseen
  <1>5. NotLonger'
    BY <1>1, <1>4 DEF PressInv, NotLonger
  <1>6. NotShorter'
    <2> SUFFICES ASSUME Watching, ~Near(timer) PROVE BeforeDeadline'
      BY <1>1, <1>4 DEF NotShorter, Near
    <2>1. ~AfterDeadline /\ ~BeforeWrap
      BY <1>1, Numbers DEF AfterDeadline, BeforeWrap, PressInv, Types
    <2> QED
      BY <1>1, <2>1 DEF PressInv, NotShorter, BeforeDeadline, Bounded
  <1> QED
    BY <1>2, <1>3, <1>5, <1>6 DEF PressInv

(* The deadline has passed: factory settings.                              *)
LEMMA FactoryInv ==
  ASSUME PressInv, Factory
  PROVE  PressInv'
  <1>1. /\ UNCHANGED <<held, length, noted, broken, tick, timer, cuts, misread, steps, asked>>
        /\ at = "watch" /\ at' = "factory" /\ sleep' = 1 /\ late' = 0 /\ factory' = TRUE
        /\ decided' = (IF decided = Never THEN length ELSE decided) /\ timer < tick
    BY DEF Factory, Decide, Expired, button, bounded, ShortWait
  <1>2. decided' \in Int /\ decided' # Never
    BY <1>1 DEF PressInv, Types, Never
  <1>3. Types'
    BY <1>1, <1>2, Numbers DEF PressInv, Types
  <1>4. ~Watching' /\ PressIsNew' /\ Inside' /\ WarmMeansShort'
    BY <1>1, <1>2 DEF Watching, PressIsNew, Inside, Undecided, WarmMeansShort
  <1>5. FactoryNeedsHold'
    <2> SUFFICES ASSUME timer >= Hold, steps = 0, ~misread, cuts = 0, asked < Patience
                 PROVE  decided' >= Hold - Lag
      BY <1>1 DEF FactoryNeedsHold
    <2>1. Watching
      <3>1. ~(asked >= Patience)
        BY DEF PressInv, Types, Patience, ShortWait, LongWait
      <3> QED
        BY <1>1, <3>1 DEF PressInv, Inside, Watching
    <2>2. decided' = length
      BY <1>1, <2>1 DEF Watching, Undecided
    <2>3. Unseen \in Nat /\ Unseen <= Lag + 1
      BY Numbers DEF Unseen, PressInv, Types
    <2>4. length >= Hold - Lag \/ tick - timer + Hold <= length + Unseen
      BY <2>1 DEF PressInv, NotLonger
    <2> QED
      BY <1>1, <2>2, <2>3, <2>4, Numbers DEF PressInv, Types
  <1> QED
    BY <1>3, <1>4, <1>5 DEF PressInv, OnePress, NotLonger, NotShorter

(* The button has come up before the deadline: a reboot.                   *)
LEMMA WarmInv ==
  ASSUME PressInv, Warm
  PROVE  PressInv'
  <1>1. /\ UNCHANGED <<held, length, noted, broken, tick, timer, cuts, misread, steps, factory>>
        /\ at = "watch" /\ at' = "reboot" /\ sleep' = ShortWait /\ late' = 0
        /\ decided' = (IF decided = Never THEN length ELSE decided) /\ ~(timer < tick)
        /\ asked' = IF asked = Never THEN 0 ELSE asked
    BY DEF Warm, Decide, Expired, AskReboot, button, bounded
  <1>2. decided' \in Int /\ decided' # Never /\ asked' \in Int /\ asked' >= 0 /\ asked' >= asked
    BY <1>1 DEF PressInv, Types, Never
  <1>3. Types'
    BY <1>1, <1>2, Numbers DEF PressInv, Types, ShortWait, Never
  <1>4. ~Watching' /\ PressIsNew' /\ Inside'
    <2>1. asked' + sleep' >= ShortWait
      BY <1>1, <1>2 DEF ShortWait
    <2> QED
      BY <1>1, <1>2, <2>1 DEF Watching, PressIsNew, Inside, Undecided
  <1>5. FactoryNeedsHold'
    <2>1. CASE decided = Never
      BY <1>1, <2>1 DEF PressInv, Inside, Undecided, FactoryNeedsHold
    <2>2. CASE decided # Never
      <3>1. asked' < Patience => asked < Patience
        BY <1>2 DEF PressInv, Types, Patience, ShortWait, LongWait
      <3> QED
        BY <1>1, <2>2, <3>1 DEF PressInv, FactoryNeedsHold
    <2> QED
      BY <2>1, <2>2
  <1>6. WarmMeansShort'
    <2>1. CASE decided # Never
      BY <1>1, <2>1 DEF PressInv, WarmMeansShort, Near
    <2>2. CASE decided = Never
      <3> SUFFICES ASSUME ~Near(timer), steps = 0
                   PROVE  length <= Hold + 1 + Lag
        BY <1>1, <2>2 DEF WarmMeansShort, Near
      <3>1. Watching
        BY <1>1, <2>2 DEF Watching, Undecided
      <3>2. ~AfterDeadline /\ ~BeforeWrap
        BY <1>1, Numbers DEF AfterDeadline, BeforeWrap, PressInv, Types
      <3>3. length <= tick - timer + Hold + Lag + 1
        BY <3>1, <3>2 DEF PressInv, NotShorter, BeforeDeadline, Bounded
      <3> QED
        BY <1>1, <3>3, Numbers DEF PressInv, Types
    <2> QED
      BY <2>1, <2>2
  <1> QED
    BY <1>3, <1>4, <1>5, <1>6 DEF PressInv, OnePress, NotLonger, NotShorter

(* After def factory and a second, the reboot.                             *)
LEMMA RebootFactoryInv ==
  ASSUME PressInv, RebootFactory
  PROVE  PressInv'
  <1>1. /\ UNCHANGED <<held, length, noted, broken, late, tick, timer, cuts, misread, steps,
                       factory>>
        /\ at = "factory" /\ at' = "reboot" /\ sleep' = ShortWait
        /\ decided' = (IF decided = Never THEN length ELSE decided)
        /\ asked' = IF asked = Never THEN 0 ELSE asked
    BY DEF RebootFactory, Decide, AskReboot, button, bounded
  <1>2. decided # Never /\ decided' = decided /\ factory
    BY <1>1 DEF PressInv, Inside, Undecided
  <1>3. asked' \in Int /\ asked' >= 0 /\ asked' >= asked
    BY <1>1 DEF PressInv, Types, Never
  <1>4. Types'
    BY <1>1, <1>2, <1>3 DEF PressInv, Types, ShortWait, Never
  <1>5. ~Watching' /\ PressIsNew' /\ Inside'
    <2>1. asked' + sleep' >= ShortWait
      BY <1>1, <1>3 DEF ShortWait
    <2> QED
      BY <1>1, <1>2, <1>3, <2>1 DEF Watching, PressIsNew, Inside, Undecided
  <1>6. FactoryNeedsHold' /\ WarmMeansShort'
    <2>1. asked' < Patience => asked < Patience
      BY <1>3 DEF PressInv, Types, Patience, ShortWait, LongWait
    <2> QED
      BY <1>1, <1>2, <2>1 DEF PressInv, FactoryNeedsHold, WarmMeansShort
  <1> QED
    BY <1>4, <1>5, <1>6 DEF PressInv, OnePress, NotLonger, NotShorter

(* The second /sbin/reboot.                                                *)
LEMMA RebootAgainInv ==
  ASSUME PressInv, RebootAgain
  PROVE  PressInv'
  <1>1. /\ UNCHANGED <<held, length, noted, broken, late, tick, timer, asked, cuts, decided,
                       factory, misread, steps>>
        /\ at = "reboot" /\ at' = "again" /\ sleep = 0 /\ sleep' = LongWait
    BY DEF RebootAgain, button, bounded
  <1>2. Types'
    BY <1>1, Numbers DEF PressInv, Types, LongWait
  <1>3. asked >= 0 /\ (cuts = 0 => asked + sleep' >= Patience)
    BY <1>1 DEF PressInv, Inside, Types, Patience, ShortWait, LongWait
  <1>4. ~Watching' /\ PressIsNew' /\ Inside' /\ FactoryNeedsHold' /\ WarmMeansShort'
    BY <1>1, <1>3 DEF PressInv, Inside, Watching, PressIsNew, Undecided, FactoryNeedsHold,
       WarmMeansShort, Near
  <1> QED
    BY <1>2, <1>4 DEF PressInv, OnePress, NotLonger, NotShorter

(* reset_or_factory returns, the device goes down, it comes up again.      *)
LEMMA RestInv ==
  ASSUME PressInv, Back \/ Down \/ Up
  PROVE  PressInv'
  <1>1. CASE Back
    <2>1. /\ UNCHANGED <<held, length, noted, broken, tick, timer, sleep, asked, cuts, decided,
                         factory, misread, steps>>
          /\ at = "again" /\ at' = "watch" /\ late' = 0 /\ sleep = 0
      BY <1>1 DEF Back, button, bounded
    <2>2. Types'
      BY <2>1, Numbers DEF PressInv, Types
    <2>3. cuts = 0 => asked >= Patience
      BY <2>1 DEF PressInv, Inside, Types, Patience, ShortWait, LongWait
    <2>4. ~Watching' /\ PressIsNew' /\ Inside' /\ FactoryNeedsHold' /\ WarmMeansShort'
      BY <2>1, <2>3 DEF PressInv, Inside, Watching, PressIsNew, Undecided, FactoryNeedsHold,
         WarmMeansShort, Near
    <2> QED
      BY <2>2, <2>4 DEF PressInv, OnePress, NotLonger, NotShorter
  <1>2. CASE Down
    <2>1. /\ at' = "off" /\ held' = FALSE /\ noted' = TRUE /\ length' = 0 /\ late' = 0
          /\ sleep' = 0 /\ tick' = 0 /\ timer' = 0 /\ asked' = Never /\ cuts' = 0
          /\ decided' = Never /\ factory' = FALSE /\ misread' = FALSE
          /\ broken' = broken /\ steps' = steps
      BY <1>2 DEF Down, Quiet, bounded
    <2>2. 0 < Modulus /\ 0 <= Longest /\ 0 <= Lag + 1 /\ Never \in Int /\ Never >= Never
      BY Numbers DEF Never
    <2>3. Types'
      BY <2>1, <2>2 DEF PressInv, Types
    <2>4. ~Watching' /\ PressIsNew' /\ Inside' /\ FactoryNeedsHold' /\ WarmMeansShort'
      BY <2>1, <2>2 DEF Inside, Watching, PressIsNew, Undecided, FactoryNeedsHold,
         WarmMeansShort
    <2> QED
      BY <2>3, <2>4 DEF PressInv, OnePress, NotLonger, NotShorter
  <1>3. CASE Up
    <2>1. /\ UNCHANGED <<held, length, noted, broken, late, tick, timer, sleep, asked, cuts,
                         decided, factory, misread, steps>>
          /\ at = "off" /\ at' = "loop"
      BY <1>3 DEF Up, button, bounded
    <2>2. Types'
      BY <2>1 DEF PressInv, Types
    <2>3. PressIsNew'
      BY <2>1 DEF PressInv, PressIsNew, Undecided
    <2>4. ~Watching' /\ Inside' /\ FactoryNeedsHold' /\ WarmMeansShort'
      BY <2>1 DEF PressInv, Inside, Watching, Undecided, FactoryNeedsHold, WarmMeansShort, Near
    <2> QED
      BY <2>2, <2>3, <2>4 DEF PressInv, OnePress, NotLonger, NotShorter
  <1> QED
    BY <1>1, <1>2, <1>3

(* Every step keeps the invariant.                                         *)
LEMMA PressInvNext ==
  ASSUME PressInv, [ButtonNext]_buttonVars
  PROVE  PressInv'
  <1>1. CASE Pinetd
    BY <1>1, LookUpInv, LookDownInv, WatchInv, FactoryInv, WarmInv, RebootFactoryInv,
       RebootAgainInv, RestInv DEF Pinetd
  <1>2. CASE UNCHANGED buttonVars
    <2>1. UNCHANGED <<at, held, length, noted, broken, late, tick, timer, sleep, asked, cuts,
                      decided, factory, misread, steps>>
      BY <1>2 DEF buttonVars, button, bounded
    <2>2. Types' /\ PressIsNew' /\ OnePress' /\ Inside'
      BY <2>1 DEF PressInv, Types, PressIsNew, OnePress, Inside, Watching, Undecided
    <2>3. NotLonger' /\ NotShorter'
      BY <2>1 DEF PressInv, NotLonger, NotShorter, Watching, Undecided, Unseen, Near,
         BeforeDeadline, AfterDeadline, BeforeWrap, Bounded
    <2>4. FactoryNeedsHold' /\ WarmMeansShort'
      BY <2>1 DEF PressInv, FactoryNeedsHold, WarmMeansShort, Near
    <2> QED
      BY <2>2, <2>3, <2>4 DEF PressInv
  <1> QED
    BY <1>1, <1>2, ButtonInv, DeviceInv, SecondInv, CutShortInv, ClockSetInv, RestInv
       DEF ButtonNext

(* PressInv is inductive.                                                  *)
LEMMA Inductive == ButtonSpec => []PressInv
  <1>1. PressInv /\ [ButtonNext]_buttonVars => PressInv'
    BY PressInvNext
  <1> QED
    BY <1>1, PressInvInit, PTL DEF ButtonSpec

(* However long the clock, however late pinetd and however slow the        *)
(* shutdown: def factory is run for a button that was held for three       *)
(* seconds, less what pinetd was late, and for no other, unless the        *)
(* deadline wrapped or the clock was set, a failing read of the button was *)
(* taken for a press, or the first reboot had not taken place when          *)
(* reset_or_factory returned: after eleven seconds, or when SIGCHLD had cut *)
(* one of its sleeps.                                                      *)
THEOREM FactoryNeedsHoldAlways == ButtonSpec => []FactoryNeedsHold
  <1>1. PressInv => FactoryNeedsHold
    BY DEF PressInv
  <1> QED
    BY <1>1, Inductive, PTL

(* A press that ends in a mere reboot was not longer than three seconds    *)
(* and the times pinetd was late to see it begin and end, even where the   *)
(* deadline wraps, unless that is in the last moments of the clock.        *)
THEOREM WarmMeansShortAlways == ButtonSpec => []WarmMeansShort
  <1>1. PressInv => WarmMeansShort
    BY DEF PressInv
  <1> QED
    BY <1>1, Inductive, PTL
=============================================================================
