-------------------------- MODULE SerialDeployProofs --------------------------
(* What serial makes of a port, and what an operator's request comes to,   *)
(* proved for any configurations and any number of operators.              *)
EXTENDS SerialDeploy, TLAPS

Ops == {"conf", "stop", "disable", "write", "enable", "start"}
Calling == [op : Ops, svc : Services]
Pollers == {"rxtx", "monitor"}

(* The calls among the first n - 1 of a mode's script.                      *)
Made(m, n) == {Script[m][j] : j \in 1 .. n - 1}
AllCalls(m) == Made(m, Len(Script[m]) + 1)

(* A service as a start for entry c leaves it.                              *)
Serving(s, c) ==
  IF ~Startable(UnitText(s, c)) THEN running[s] = Stopped
  ELSE /\ running[s].unit = UnitText(s, c)
       /\ s = "main" => running[s].reads = c
       /\ s = "sub" => running[s].reads = None
       /\ s \in Pollers /\ untouched => running[s].reads = c

(* What the calls made have achieved for service s, if entry c was read.    *)
Reached(c, made, s) ==
  /\ Call("stop", s) \in made /\ Call("start", s) \notin made => running[s] = Stopped
  /\ Call("disable", s) \in made /\ Call("enable", s) \notin made => s \notin enabled
  /\ Call("write", s) \in made => unit[s] = UnitText(s, c)
  /\ Call("enable", s) \in made =>
       /\ loaded[s] = UnitText(s, c)
       /\ Startable(UnitText(s, c)) => s \in enabled
  /\ Call("start", s) \in made => Serving(s, c)

Achieved(c, made) ==
  /\ Call("conf", "main") \in made => conf = c
  /\ untouched => etc = c
  /\ \A s \in Services : Reached(c, made, s)

InScript == \A r \in Runs : pc[r] > 0 => pc[r] \in 1 .. Len(ScriptOf(r)) + 1

(* A run that has been alone from its start is the only one ...             *)
OneRun == alone => \A q, r \in Runs : pc[q] > 0 /\ pc[r] > 0 => q = r

(* ... its calls have achieved what they are for, whatever the runs before  *)
(* it have left behind ...                                                  *)
RunAchieves ==
  \A r \in Runs, c \in Configs, n \in 1 .. 22 :
    alone /\ held[r] = c /\ pc[r] = n => Achieved(c, Made(ModeOf[c], n))

(* ... and what it has achieved lasts until another run starts.             *)
SettledHolds ==
  \A c \in Configs : settled = c => /\ \A r \in Runs : pc[r] = 0
                                    /\ Achieved(c, AllCalls(ModeOf[c]))

PortInv == TypeOK /\ InScript /\ OneRun /\ RunAchieves /\ SettledHolds

(* A step of the port: SerialService takes them as often as its bounds      *)
(* allow, SerialDeploy when an operator asks for one.                       *)
port == <<etc, files, systemd, held, pc, alone, settled, untouched>>
PortNext ==
  \/ \E c \in Configs : Edit(c) \/ Reboot(c)
  \/ \E r \in Runs : Launch(r) \/ Step(r)
  \/ \E s \in Services : Respawn(s)
-----------------------------------------------------------------------------
(* The requests.  What one has written stays until another operator writes, *)
(* and the run it makes reads just that.                                    *)
RequestHolds(u) ==
  ~disturbed[u] =>
    /\ task[u] \in {"apply", "applying"} => etc = form[u]
    /\ task[u] \in {"page", "leaving"} /\ page[u] # "only" => etc = flash
    /\ task[u] \in {"applying", "leaving"} => untouched

(* After a reboot through a button that saves, nothing is under way and the *)
(* port is settled with what was saved.                                     *)
BootHolds ==
  boot \in {"save", "factory"} =>
    /\ \A u \in Runs : task[u] = "idle" /\ pc[u] = 0
    /\ settled = flash /\ etc = flash

DeployTypes ==
  /\ flash \in Configs
  /\ task \in [Runs -> {"idle", "write", "apply", "applying", "page", "leaving"}]
  /\ page \in [Runs -> Buttons]
  /\ form \in [Runs -> Configs]
  /\ disturbed \in [Runs -> BOOLEAN]
  /\ boot \in Buttons \cup {"none"}

RequestsHold == \A u \in Runs : RequestHolds(u)

DeployInv == PortInv /\ DeployTypes /\ RequestsHold /\ BootHolds
-----------------------------------------------------------------------------
(* The scripts.  A call stands at a place that its service and its rank     *)
(* among the calls for that service determine.                              *)
Rank == [conf |-> 0, stop |-> 1, disable |-> 2, write |-> 3, enable |-> 4, start |-> 5]
Base ==
  [off      |-> [rxtx |-> 0, sub |-> 2, main |-> 4],
   redirect |-> [main |-> 0, rxtx |-> 5, monitor |-> 10],
   server   |-> [main |-> 1, rxtx |-> 6, monitor |-> 11],
   client   |-> [main |-> 1, sub |-> 6, rxtx |-> 11, monitor |-> 16]]
Place(m, c) == Base[m][c.svc] + Rank[c.op]
Before == [disable |-> "stop", write |-> "disable", enable |-> "write", start |-> "enable"]
Lengths == [off |-> 6, redirect |-> 15, server |-> 16, client |-> 21]

(* Every call is made at its place, right after the one its service needs.  *)
LEMMA ScriptTable ==
  ASSUME NEW m \in Modes
  PROVE  /\ Len(Script[m]) = Lengths[m] /\ Lengths[m] \in 1 .. 21
         /\ \A k \in 1 .. Lengths[m] : Script[m][k] \in Calling
         /\ \A k \in 1 .. Lengths[m] : /\ k = Place(m, Script[m][k])
                                      /\ Base[m][Script[m][k].svc] \in Nat
         /\ \A k \in 1 .. Lengths[m] : Script[m][k].op \in DOMAIN Before =>
              /\ k - 1 \in 1 .. Lengths[m]
              /\ Script[m][k - 1] = Call(Before[Script[m][k].op], Script[m][k].svc)
  <1>1. CASE m = "off"
    <2>1. Len(Script["off"]) = 6
      BY DEF Script, TurnOff, Call
    <2>2. \A k \in 1 .. 6 : Script["off"][k] \in Calling
      BY DEF Script, TurnOff, Call, Calling, Ops, Services
    <2>3. \A k \in 1 .. 6 : k = Place("off", Script["off"][k])
      BY DEF Script, TurnOff, Call, Place, Base, Rank
    <2>4. \A k \in 1 .. 6 : Base["off"][Script["off"][k].svc] \in Nat
      BY DEF Script, TurnOff, Call, Base
    <2>5. \A k \in 1 .. 6 : Script["off"][k].op \in DOMAIN Before =>
            /\ k - 1 \in 1 .. 6
            /\ Script["off"][k - 1] =
                 Call(Before[Script["off"][k].op], Script["off"][k].svc)
      BY SMTT(30) DEF Script, TurnOff, Call, Before
    <2>6. Lengths["off"] = 6 /\ 6 \in 1 .. 21
      BY DEF Lengths
    <2>7. QED
      BY <1>1, <2>1, <2>2, <2>3, <2>4, <2>5, <2>6
  <1>2. CASE m = "redirect"
    <2>1. Len(Script["redirect"]) = 15
      BY DEF Script, Apply, Call
    <2>2. \A k \in 1 .. 15 : Script["redirect"][k] \in Calling
      BY DEF Script, Apply, Call, Calling, Ops, Services
    <2>3. \A k \in 1 .. 15 : k = Place("redirect", Script["redirect"][k])
      BY DEF Script, Apply, Call, Place, Base, Rank
    <2>4. \A k \in 1 .. 15 : Base["redirect"][Script["redirect"][k].svc] \in Nat
      BY DEF Script, Apply, Call, Base
    <2>5. \A k \in 1 .. 15 : Script["redirect"][k].op \in DOMAIN Before =>
            /\ k - 1 \in 1 .. 15
            /\ Script["redirect"][k - 1] =
                 Call(Before[Script["redirect"][k].op], Script["redirect"][k].svc)
      BY SMTT(30) DEF Script, Apply, Call, Before
    <2>6. Lengths["redirect"] = 15 /\ 15 \in 1 .. 21
      BY DEF Lengths
    <2>7. QED
      BY <1>2, <2>1, <2>2, <2>3, <2>4, <2>5, <2>6
  <1>3. CASE m = "server"
    <2>1. Len(Script["server"]) = 16
      BY DEF Script, Apply, WriteConf, Call
    <2>2. \A k \in 1 .. 16 : Script["server"][k] \in Calling
      BY DEF Script, Apply, WriteConf, Call, Calling, Ops, Services
    <2>3. \A k \in 1 .. 16 : k = Place("server", Script["server"][k])
      BY DEF Script, Apply, WriteConf, Call, Place, Base, Rank
    <2>4. \A k \in 1 .. 16 : Base["server"][Script["server"][k].svc] \in Nat
      BY DEF Script, Apply, WriteConf, Call, Base
    <2>5. \A k \in 1 .. 16 : Script["server"][k].op \in DOMAIN Before =>
            /\ k - 1 \in 1 .. 16
            /\ Script["server"][k - 1] =
                 Call(Before[Script["server"][k].op], Script["server"][k].svc)
      BY SMTT(30) DEF Script, Apply, WriteConf, Call, Before
    <2>6. Lengths["server"] = 16 /\ 16 \in 1 .. 21
      BY DEF Lengths
    <2>7. QED
      BY <1>3, <2>1, <2>2, <2>3, <2>4, <2>5, <2>6
  <1>4. CASE m = "client"
    <2>1. Len(Script["client"]) = 21
      BY DEF Script, Apply, WriteConf, Call
    <2>2. \A k \in 1 .. 21 : Script["client"][k] \in Calling
      BY DEF Script, Apply, WriteConf, Call, Calling, Ops, Services
    <2>3. \A k \in 1 .. 21 : k = Place("client", Script["client"][k])
      BY DEF Script, Apply, WriteConf, Call, Place, Base, Rank
    <2>4. \A k \in 1 .. 21 : Base["client"][Script["client"][k].svc] \in Nat
      BY DEF Script, Apply, WriteConf, Call, Base
    <2>5. \A k \in 1 .. 21 : Script["client"][k].op \in DOMAIN Before =>
            /\ k - 1 \in 1 .. 21
            /\ Script["client"][k - 1] =
                 Call(Before[Script["client"][k].op], Script["client"][k].svc)
      BY SMTT(30) DEF Script, Apply, WriteConf, Call, Before
    <2>6. Lengths["client"] = 21 /\ 21 \in 1 .. 21
      BY DEF Lengths
    <2>7. QED
      BY <1>4, <2>1, <2>2, <2>3, <2>4, <2>5, <2>6
  <1>5. QED
    BY <1>1, <1>2, <1>3, <1>4 DEF Modes

(* Only disabling a port starts nothing.                                    *)
LEMMA FirstCalls ==
  /\ \A m \in {"server", "client"} : Script[m][1] = Call("conf", "main")
  /\ \A k \in 1 .. 16 : Script["server"][k] = Call("start", "main") => k = 6
  /\ \A k \in 1 .. 21 : Script["client"][k] = Call("start", "main") => k = 6
  /\ \A k \in 1 .. 6 : Script["off"][k].op \in {"stop", "disable"}
  <1>1. \A m \in {"server", "client"} : Script[m][1] = Call("conf", "main")
    BY DEF Script, Apply, WriteConf, Call
  <1>2. \A k \in 1 .. 16 : Script["server"][k] = Call("start", "main") => k = 6
    BY DEF Script, Apply, WriteConf, Call
  <1>3. \A k \in 1 .. 21 : Script["client"][k] = Call("start", "main") => k = 6
    BY DEF Script, Apply, WriteConf, Call
  <1>4. \A k \in 1 .. 6 : Script["off"][k].op \in {"stop", "disable"}
    BY DEF Script, TurnOff, Call
  <1>5. QED
    BY <1>1, <1>2, <1>3, <1>4

(* The next call joins those made.                                          *)
LEMMA MadeGrows ==
  ASSUME NEW m, NEW n \in Nat \ {0}
  PROVE  Made(m, n + 1) = Made(m, n) \cup {Script[m][n]}
  <1>1. 1 .. (n + 1) - 1 = (1 .. n - 1) \cup {n}
    OBVIOUS
  <1>2. QED
    BY <1>1 DEF Made

(* A unit file is written before it is enabled, and enabled before it is    *)
(* started.                                                                 *)
LEMMA MadeClosed ==
  ASSUME NEW m \in Modes, NEW n \in 1 .. Len(Script[m]) + 1, NEW s \in Services
  PROVE  /\ Call("enable", s) \in Made(m, n) => Call("write", s) \in Made(m, n)
         /\ Call("start", s) \in Made(m, n) => Call("enable", s) \in Made(m, n)
  <1>1. ASSUME NEW o \in DOMAIN Before, Call(o, s) \in Made(m, n)
        PROVE  Call(Before[o], s) \in Made(m, n)
    <2>1. PICK j \in 1 .. n - 1 : Script[m][j] = Call(o, s)
      BY <1>1 DEF Made
    <2>2. Len(Script[m]) = Lengths[m] /\ Lengths[m] \in 1 .. 21
      BY ScriptTable
    <2>3. j \in 1 .. Lengths[m]
      BY <2>2
    <2>4. Script[m][j].op = o /\ Script[m][j].svc = s
      BY <2>1 DEF Call
    <2>5. j - 1 \in 1 .. Lengths[m] /\ Script[m][j - 1] = Call(Before[o], s)
      BY <1>1, <2>3, <2>4, ScriptTable
    <2>6. j - 1 \in 1 .. n - 1
      BY <2>2, <2>5
    <2>7. QED
      BY <2>5, <2>6 DEF Made
  <1>2. "enable" \in DOMAIN Before /\ Before["enable"] = "write"
    BY DEF Before
  <1>3. "start" \in DOMAIN Before /\ Before["start"] = "enable"
    BY DEF Before
  <1>4. QED
    BY <1>1, <1>2, <1>3

(* What has been made for a service when its next call is made.             *)
LEMMA ScriptOrder ==
  ASSUME NEW m \in Modes, NEW k \in 1 .. Len(Script[m]), NEW o \in Ops, NEW s \in Services,
         Script[m][k] = Call(o, s)
  PROVE  /\ Call("start", s) \notin Made(m, k)
         /\ o # "start" => Call("enable", s) \notin Made(m, k)
         /\ o = "enable" => Call("write", s) \in Made(m, k)
         /\ o = "start" => Call("enable", s) \in Made(m, k) /\ Call("stop", s) \in Made(m, k)
         /\ o = "start" /\ s = "main" /\ m # "redirect" => Call("conf", "main") \in Made(m, k)
  <1>0. Len(Script[m]) = Lengths[m] /\ Lengths[m] \in 1 .. 21 /\ k \in 1 .. Lengths[m]
    BY ScriptTable
  <1>1. ASSUME NEW p \in Ops, Call(p, s) \in Made(m, k)
        PROVE  Rank[p] < Rank[o]
    <2>1. PICK j \in 1 .. k - 1 : Script[m][j] = Call(p, s)
      BY <1>1 DEF Made
    <2>2. j \in 1 .. Lengths[m]
      BY <1>0
    <2>3. j = Base[m][s] + Rank[p] /\ Base[m][s] \in Nat
      BY <2>1, <2>2, ScriptTable DEF Place, Call
    <2>4. k = Base[m][s] + Rank[o]
      BY <1>0, ScriptTable DEF Place, Call
    <2>5. Rank[o] \in 0 .. 5 /\ Rank[p] \in 0 .. 5
      BY DEF Rank, Ops
    <2>6. PICK b \in Nat, x \in 0 .. 5, y \in 0 .. 5 :
            b = Base[m][s] /\ x = Rank[p] /\ y = Rank[o]
      BY <2>3, <2>5
    <2>7. j = b + x /\ k = b + y /\ j < k => x < y
      OBVIOUS
    <2>8. QED
      BY <1>0, <2>1, <2>3, <2>4, <2>6, <2>7
  <1>2. Call("start", s) \notin Made(m, k)
    BY <1>1 DEF Rank, Ops
  <1>3. o # "start" => Call("enable", s) \notin Made(m, k)
    BY <1>1 DEF Rank, Ops
  <1>4. ASSUME NEW p \in DOMAIN Before, NEW j \in 1 .. k, Script[m][j] = Call(p, s)
        PROVE  j - 1 \in 1 .. k - 1 /\ Script[m][j - 1] = Call(Before[p], s)
    <2>1. j \in 1 .. Lengths[m]
      BY <1>0
    <2>2. Script[m][j].op = p /\ Script[m][j].svc = s
      BY <1>4 DEF Call
    <2>3. j - 1 \in 1 .. Lengths[m] /\ Script[m][j - 1] = Call(Before[p], s)
      BY <1>4, <2>1, <2>2, ScriptTable
    <2>4. QED
      BY <1>0, <2>3
  <1>5. o = "enable" => Call("write", s) \in Made(m, k)
    BY <1>4 DEF Before, Made
  <1>6. ASSUME o = "start"
        PROVE  Call("enable", s) \in Made(m, k) /\ Call("stop", s) \in Made(m, k)
    <2>1. k - 1 \in 1 .. k /\ k - 1 \in 1 .. k - 1 /\ Script[m][k - 1] = Call("enable", s)
      BY <1>0, <1>4, <1>6 DEF Before
    <2>2. k - 2 \in 1 .. k /\ Script[m][k - 2] = Call("write", s)
      BY <1>0, <1>4, <2>1 DEF Before
    <2>3. k - 3 \in 1 .. k /\ Script[m][k - 3] = Call("disable", s)
      BY <1>0, <1>4, <2>2 DEF Before
    <2>4. k - 4 \in 1 .. k - 1 /\ Script[m][k - 4] = Call("stop", s)
      BY <1>0, <1>4, <2>3 DEF Before
    <2>5. QED
      BY <2>1, <2>4 DEF Made
  <1>7. ASSUME o = "start", s = "main", m # "redirect"
        PROVE  Call("conf", "main") \in Made(m, k)
    <2>1. m # "off"
      <3>1. Script[m][k].op = "start"
        BY <1>7 DEF Call
      <3>2. Lengths["off"] = 6
        BY DEF Lengths
      <3>3. QED
        BY <1>0, <3>1, <3>2, FirstCalls
    <2>2. m \in {"server", "client"}
      BY <1>7, <2>1 DEF Modes
    <2>3. k = 6
      <3>1. Lengths["server"] = 16 /\ Lengths["client"] = 21
        BY DEF Lengths
      <3>2. QED
        BY <1>0, <1>7, <2>2, <3>1, FirstCalls
    <2>4. 1 \in 1 .. k - 1
      BY <2>3
    <2>5. QED
      BY <2>2, <2>4, FirstCalls DEF Made
  <1>8. QED
    BY <1>2, <1>3, <1>5, <1>6, <1>7

(* What a finished script has called.                                       *)
LEMMA ScriptEnd ==
  /\ \A m \in Modes : Len(Script[m]) \in 1 .. 21
  /\ \A m \in {"redirect", "server", "client"} :
       Call("start", "main") \in AllCalls(m)
  /\ \A m \in {"server", "client"} : Call("conf", "main") \in AllCalls(m)
  /\ Call("start", "sub") \in AllCalls("client")
  /\ \A m \in {"redirect", "server", "client"} : \A s \in Pollers : Call("start", s) \in AllCalls(m)
  /\ \A s \in {"main", "sub", "rxtx"} :
       Call("stop", s) \in AllCalls("off") /\ Call("start", s) \notin AllCalls("off")
  <1>1. \A m \in Modes : Len(Script[m]) = Lengths[m] /\ Lengths[m] \in 1 .. 21
    BY ScriptTable
  <1>2. \A m \in Modes : \A j \in 1 .. Lengths[m] : Script[m][j] \in AllCalls(m)
    BY <1>1 DEF AllCalls, Made
  <1>3. /\ Script["redirect"][5] = Call("start", "main")
        /\ Script["redirect"][10] = Call("start", "rxtx")
        /\ Script["redirect"][15] = Call("start", "monitor")
    BY DEF Script, Apply, Call
  <1>4. /\ Script["server"][6] = Call("start", "main")
        /\ Script["server"][11] = Call("start", "rxtx")
        /\ Script["server"][16] = Call("start", "monitor")
    BY DEF Script, Apply, WriteConf, Call
  <1>5. /\ Script["client"][6] = Call("start", "main")
        /\ Script["client"][11] = Call("start", "sub")
        /\ Script["client"][16] = Call("start", "rxtx")
        /\ Script["client"][21] = Call("start", "monitor")
    BY DEF Script, Apply, WriteConf, Call
  <1>6. /\ Script["off"][1] = Call("stop", "rxtx")
        /\ Script["off"][3] = Call("stop", "sub")
        /\ Script["off"][5] = Call("stop", "main")
    BY DEF Script, TurnOff, Call
  <1>7. /\ 5 \in 1 .. Lengths["redirect"] /\ 10 \in 1 .. Lengths["redirect"]
        /\ 15 \in 1 .. Lengths["redirect"] /\ 1 \in 1 .. Lengths["server"]
        /\ 6 \in 1 .. Lengths["server"] /\ 11 \in 1 .. Lengths["server"]
        /\ 16 \in 1 .. Lengths["server"]
        /\ 1 \in 1 .. Lengths["client"] /\ 6 \in 1 .. Lengths["client"]
        /\ 11 \in 1 .. Lengths["client"] /\ 16 \in 1 .. Lengths["client"]
        /\ 21 \in 1 .. Lengths["client"]
        /\ 1 \in 1 .. Lengths["off"] /\ 3 \in 1 .. Lengths["off"] /\ 5 \in 1 .. Lengths["off"]
    BY DEF Lengths
  <1>8. \A m \in {"server", "client"} : Call("conf", "main") \in AllCalls(m)
    BY <1>2, <1>7, FirstCalls DEF Modes
  <1>9. \A m \in {"redirect", "server", "client"} :
          /\ Call("start", "main") \in AllCalls(m)
          /\ \A s \in Pollers : Call("start", s) \in AllCalls(m)
    <2>1. \A s \in {"main", "rxtx", "monitor"} : Call("start", s) \in AllCalls("redirect")
      BY <1>2, <1>3, <1>7 DEF Modes
    <2>2. \A s \in {"main", "rxtx", "monitor"} : Call("start", s) \in AllCalls("server")
      BY <1>2, <1>4, <1>7 DEF Modes
    <2>3. \A s \in {"main", "rxtx", "monitor"} : Call("start", s) \in AllCalls("client")
      BY <1>2, <1>5, <1>7 DEF Modes
    <2>4. QED
      BY <2>1, <2>2, <2>3 DEF Pollers
  <1>10. Call("start", "sub") \in AllCalls("client")
    BY <1>2, <1>5, <1>7 DEF Modes
  <1>11. \A s \in {"main", "sub", "rxtx"} : Call("stop", s) \in AllCalls("off")
    BY <1>2, <1>6, <1>7 DEF Modes
  <1>12. \A s : Call("start", s) \notin AllCalls("off")
    <2>1. 1 .. (Len(Script["off"]) + 1) - 1 = 1 .. 6
      <3>1. Lengths["off"] = 6 /\ "off" \in Modes
        BY DEF Lengths, Modes
      <3>2. Len(Script["off"]) = 6
        BY <1>1, <3>1
      <3>3. QED
        BY <3>2
    <2>2. \A j \in 1 .. 6 : \A s : Script["off"][j] # Call("start", s)
      BY FirstCalls DEF Call
    <2>3. QED
      BY <2>1, <2>2 DEF AllCalls, Made
  <1>13. QED
    BY <1>1, <1>8, <1>9, <1>10, <1>11, <1>12

(* What a script stops it starts again or also disables.                    *)
LEMMA StoppedIsDisabled ==
  ASSUME NEW m \in Modes, NEW s \in Services,
         Call("stop", s) \in AllCalls(m), Call("start", s) \notin AllCalls(m)
  PROVE  Call("disable", s) \in AllCalls(m) /\ Call("enable", s) \notin AllCalls(m)
  <1>1. Len(Script[m]) = Lengths[m] /\ Lengths[m] \in 1 .. 21
    BY ScriptTable
  <1>2. 1 .. (Len(Script[m]) + 1) - 1 = 1 .. Lengths[m]
    BY <1>1
  <1>3. \A c : c \in AllCalls(m) <=> \E j \in 1 .. Lengths[m] : Script[m][j] = c
    BY <1>2 DEF AllCalls, Made
  <1>4. PICK j \in 1 .. Lengths[m] : Script[m][j] = Call("stop", s)
    BY <1>3
  <1>5. m = "off"
    <2>1. CASE m = "redirect"
      <3>1. \A k \in 1 .. 15 : Script["redirect"][k].op = "stop" =>
              k + 4 \in 1 .. 15 /\ Script["redirect"][k + 4] = Call("start", Script["redirect"][k].svc)
        BY DEF Script, Apply, Call
      <3>2. Lengths[m] = 15 /\ Script[m][j].op = "stop" /\ Script[m][j].svc = s
        BY <1>4, <2>1 DEF Lengths, Call
      <3>3. QED
        BY <1>3, <2>1, <3>1, <3>2
    <2>2. CASE m = "server"
      <3>1. \A k \in 1 .. 16 : Script["server"][k].op = "stop" =>
              k + 4 \in 1 .. 16 /\ Script["server"][k + 4] = Call("start", Script["server"][k].svc)
        BY DEF Script, Apply, WriteConf, Call
      <3>2. Lengths[m] = 16 /\ Script[m][j].op = "stop" /\ Script[m][j].svc = s
        BY <1>4, <2>2 DEF Lengths, Call
      <3>3. QED
        BY <1>3, <2>2, <3>1, <3>2
    <2>3. CASE m = "client"
      <3>1. \A k \in 1 .. 21 : Script["client"][k].op = "stop" =>
              k + 4 \in 1 .. 21 /\ Script["client"][k + 4] = Call("start", Script["client"][k].svc)
        BY DEF Script, Apply, WriteConf, Call
      <3>2. Lengths[m] = 21 /\ Script[m][j].op = "stop" /\ Script[m][j].svc = s
        BY <1>4, <2>3 DEF Lengths, Call
      <3>3. QED
        BY <1>3, <2>3, <3>1, <3>2
    <2>4. QED
      BY <2>1, <2>2, <2>3 DEF Modes
  <1>6. \A k \in 1 .. 6 : Script["off"][k].op = "stop" =>
          k + 1 \in 1 .. 6 /\ Script["off"][k + 1] = Call("disable", Script["off"][k].svc)
    BY DEF Script, TurnOff, Call
  <1>7. Lengths[m] = 6 /\ Script[m][j].op = "stop" /\ Script[m][j].svc = s
    BY <1>4, <1>5 DEF Lengths, Call
  <1>8. Call("disable", s) \in AllCalls(m)
    BY <1>3, <1>5, <1>6, <1>7
  <1>9. Call("enable", s) \notin AllCalls(m)
    <2>1. \A k \in 1 .. 6 : Script["off"][k] # Call("enable", s)
      BY FirstCalls DEF Call
    <2>2. QED
      BY <1>3, <1>5, <1>7, <2>1
  <1>10. QED
    BY <1>8, <1>9
-----------------------------------------------------------------------------
(* One call.                                                                *)

(* What the mode makes of a unit file systemd can start.                    *)
LEMMA UnitTexts ==
  ASSUME NEW s \in Services, NEW c \in Configs
  PROVE  /\ UnitText(s, c) \in UnitFile /\ UnitText(s, c) # None
         /\ s = "main" /\ Startable(UnitText(s, c)) => ModeOf[c] # "redirect"
         /\ s \in Pollers => UnitText(s, c) = Fixed
         /\ s = "sub" => UnitText(s, c) = c
         /\ s = "main" /\ ModeOf[c] # "redirect" => UnitText(s, c) = c
         /\ s = "main" /\ ModeOf[c] = "redirect" => UnitText(s, c) = Empty
  BY MarksAssumption DEF UnitText, UnitFile, Pollers, Startable

(* The calls have the types of calls, and differ by name and service.       *)
LEMMA CallsDiffer ==
  ASSUME NEW o, NEW p, NEW s, NEW t
  PROVE  Call(o, s) = Call(p, t) <=> o = p /\ s = t
  BY DEF Call

(* What a call does to the port, all in one place.                          *)
Effect(o, t, c) ==
  /\ etc' = etc /\ untouched' = untouched
  /\ conf' = IF o = "conf" THEN c ELSE conf
  /\ unit' = IF o = "write" THEN [unit EXCEPT ![t] = UnitText(t, c)] ELSE unit
  /\ loaded' = IF o = "disable" \/ (o = "enable" /\ unit[t] # None) THEN unit ELSE loaded
  /\ enabled' = IF o = "disable" THEN enabled \ {t}
                ELSE IF o = "enable" /\ Startable(unit[t]) THEN enabled \cup {t} ELSE enabled
  /\ running' = IF o = "stop" THEN [running EXCEPT ![t] = Stopped]
                ELSE IF o = "start" /\ running[t] = Stopped /\ Startable(loaded[t])
                THEN [running EXCEPT ![t] = Process(t, loaded[t], etc)] ELSE running

(* A call a run gets through has that effect.                               *)
LEMMA CallEffect ==
  ASSUME TypeOK, NEW r \in Runs,
         \/ ConfWritten(r) \/ Stop(r) \/ Disable(r) \/ UnitWritten(r) \/ Enable(r) \/ Start(r)
  PROVE  /\ Running(r) /\ Now(r).op \in Ops
         /\ Effect(Now(r).op, Svc(r), held[r])
         /\ pc' = [pc EXCEPT ![r] = @ + 1] /\ held' = held
         /\ alone' = alone /\ settled' = settled
  <1>1. CASE ConfWritten(r)
    BY <1>1 DEF ConfWritten, Calls, Advance, Effect, Ops, systemd
  <1>2. CASE Stop(r)
    BY <1>2 DEF Stop, Calls, Advance, Effect, Ops, files
  <1>3. CASE Disable(r)
    BY <1>3 DEF Disable, Calls, Advance, Effect, Ops, files
  <1>4. CASE UnitWritten(r)
    BY <1>4 DEF UnitWritten, Calls, Advance, Effect, Ops, systemd
  <1>5. CASE Enable(r)
    BY <1>5 DEF Enable, Calls, Advance, Effect, Ops, files
  <1>6. CASE Start(r)
    BY <1>6 DEF Start, Calls, Advance, Effect, Ops, files
  <1>7. QED
    BY <1>1, <1>2, <1>3, <1>4, <1>5, <1>6

(* It adds what it is for to what the run has achieved, and undoes nothing. *)
LEMMA CallAchieves ==
  ASSUME TypeOK, NEW c \in Configs, NEW k \in 1 .. Len(Script[ModeOf[c]]),
         NEW o \in Ops, NEW t \in Services, Script[ModeOf[c]][k] = Call(o, t),
         Achieved(c, Made(ModeOf[c], k)), Effect(o, t, c)
  PROVE  Achieved(c, Made(ModeOf[c], k + 1))'
  <1> DEFINE m == ModeOf[c]
             made == Made(m, k)
             more == Made(m, k + 1)
  <1>1. m \in Modes /\ k \in Nat \ {0} /\ k \in 1 .. Len(Script[m]) + 1
    BY ConfigsAssumption, ScriptEnd
  <1>2. \A p, s : Call(p, s) \in more <=> Call(p, s) \in made \/ (p = o /\ s = t)
    <2>1. more = made \cup {Call(o, t)}
      BY <1>1, MadeGrows
    <2>2. QED
      BY <2>1, CallsDiffer
  <1>3. /\ Call("start", t) \notin made
        /\ o # "start" => Call("enable", t) \notin made
        /\ o = "enable" => Call("write", t) \in made
        /\ o = "start" => Call("enable", t) \in made /\ Call("stop", t) \in made
        /\ o = "start" /\ t = "main" /\ m # "redirect" => Call("conf", "main") \in made
    BY <1>1, ScriptOrder
  <1>4. \A s \in Services : Call("enable", s) \in made => Call("write", s) \in made
    BY <1>1, MadeClosed
  <1>5. /\ Call("conf", "main") \in made => conf = c
        /\ untouched => etc = c
        /\ \A s \in Services : Reached(c, made, s)
    BY DEF Achieved
  <1>6. \A s \in Services : Call("write", s) \in made => unit[s] = UnitText(s, c)
    BY <1>5 DEF Reached
  <1> HIDE DEF m, made, more
  <1>7. ASSUME NEW s \in Services, s # t
        PROVE  Reached(c, more, s)'
    <2>1. \A p : Call(p, s) \in more <=> Call(p, s) \in made
      BY <1>2, <1>7
    <2>2. /\ running'[s] = running[s] /\ unit'[s] = unit[s]
          /\ s \in enabled' <=> s \in enabled
          /\ loaded'[s] = loaded[s] \/ loaded'[s] = unit[s]
          /\ untouched' = untouched
      BY <1>7 DEF Effect, TypeOK
    <2>3. Reached(c, made, s)
      BY <1>5
    <2>4. Call("enable", s) \in made => loaded'[s] = UnitText(s, c)
      BY <1>4, <1>6, <2>2, <2>3 DEF Reached
    <2>5. Serving(s, c)' <=> Serving(s, c)
      BY <2>2 DEF Serving
    <2>6. QED
      BY <2>1, <2>2, <2>3, <2>4, <2>5 DEF Reached
  <1>8. Reached(c, more, t)'
    <2>1. Reached(c, made, t)
      BY <1>5
    <2>2. Call("stop", t) \in more /\ Call("start", t) \notin more => running'[t] = Stopped
      BY <1>2, <1>3, <2>1 DEF Reached, Effect, TypeOK, Ops
    <2>3. Call("disable", t) \in more /\ Call("enable", t) \notin more => t \notin enabled'
      BY <1>2, <1>3, <2>1 DEF Reached, Effect, Ops
    <2>4. Call("write", t) \in more => unit'[t] = UnitText(t, c)
      BY <1>2, <2>1 DEF Reached, Effect, TypeOK
    <2>5. ASSUME Call("enable", t) \in more
          PROVE  loaded'[t] = UnitText(t, c) /\ (Startable(UnitText(t, c)) => t \in enabled')
      <3>1. CASE o = "enable"
        <4>1. unit[t] = UnitText(t, c) /\ unit[t] # None
          BY <1>3, <1>6, <3>1, UnitTexts
        <4>2. QED
          BY <3>1, <4>1 DEF Effect
      <3>2. CASE o # "enable"
        <4>1. o = "start" /\ Call("enable", t) \in made
          BY <1>2, <1>3, <2>5, <3>2
        <4>2. loaded' = loaded /\ enabled' = enabled
          BY <4>1 DEF Effect
        <4>3. QED
          BY <2>1, <4>1, <4>2 DEF Reached
      <3>3. QED
        BY <3>1, <3>2
    <2>6. ASSUME Call("start", t) \in more
          PROVE  Serving(t, c)'
      <3>1. o = "start"
        BY <1>2, <1>3, <2>6
      <3>2. running[t] = Stopped /\ loaded[t] = UnitText(t, c)
        BY <1>3, <2>1, <3>1 DEF Reached
      <3>3. running'[t] = IF Startable(UnitText(t, c)) THEN Process(t, UnitText(t, c), etc)
                          ELSE Stopped
        BY <3>1, <3>2 DEF Effect, TypeOK
      <3>4. t = "main" /\ Startable(UnitText(t, c)) => conf = c
        BY <1>3, <1>5, <3>1, UnitTexts DEF m
      <3>5. untouched' = untouched /\ (untouched => etc = c)
        BY <1>5 DEF Effect
      <3>6. QED
        BY <3>3, <3>4, <3>5 DEF Serving, Process, Pollers
    <2>7. QED
      BY <2>2, <2>3, <2>4, <2>5, <2>6 DEF Reached
  <1>9. Call("conf", "main") \in more => conf' = c
    BY <1>2, <1>5 DEF Effect
  <1>10. untouched' => etc' = c
    BY <1>5 DEF Effect
  <1>11. QED
    BY <1>7, <1>8, <1>9, <1>10 DEF Achieved, m, more
-----------------------------------------------------------------------------
(* The port.                                                                *)

(* Each step leaves the kinds of values meant for it.                       *)
LEMMA PortTypes == TypeOK /\ [PortNext]_port => TypeOK'
  <1> SUFFICES ASSUME TypeOK, [PortNext]_port PROVE TypeOK'
    OBVIOUS
  <1>1. Stopped \in Processes
    BY DEF Stopped, Processes, UnitFile
  <1>2. \A s \in Services, u \in UnitFile, c \in Configs : Process(s, u, c) \in Processes
    BY DEF Process, Processes, TypeOK
  <1>3. ASSUME NEW c \in Configs, Edit(c)
        PROVE  TypeOK'
    BY <1>3 DEF Edit, TypeOK, files, systemd
  <1>4. ASSUME NEW c \in Configs, Reboot(c)
        PROVE  TypeOK'
    <2>1. PICK got \in Configs :
            running' = [s \in Services |-> IF s \in enabled /\ Startable(unit[s])
                                           THEN Process(s, unit[s], got) ELSE Stopped]
      BY <1>4 DEF Reboot, TypeOK
    <2>2. running' \in [Services -> Processes]
      BY <1>1, <1>2, <2>1 DEF TypeOK
    <2>3. /\ held' \in [Runs -> Configs \cup {None}] /\ pc' \in [Runs -> 0 .. 22]
          /\ \A q \in Runs : held'[q] = None <=> pc'[q] = 0
      BY <1>4 DEF Reboot
    <2>4. /\ etc' \in Configs /\ conf' = conf /\ unit' = unit /\ loaded' = unit
          /\ enabled' = enabled /\ settled' = settled /\ alone' = FALSE /\ untouched' = FALSE
      BY <1>4 DEF Reboot, files
    <2>5. QED
      BY <2>2, <2>3, <2>4 DEF TypeOK
  <1>5. ASSUME NEW r \in Runs, Launch(r)
        PROVE  TypeOK'
    <2>1. held' = [held EXCEPT ![r] = etc] /\ pc' = [pc EXCEPT ![r] = 1] /\ etc # None
      BY <1>5, MarksAssumption DEF Launch, TypeOK
    <2>2. /\ held' \in [Runs -> Configs \cup {None}] /\ pc' \in [Runs -> 0 .. 22]
          /\ \A q \in Runs : held'[q] = None <=> pc'[q] = 0
      BY <2>1 DEF TypeOK
    <2>3. QED
      BY <1>5, <2>2 DEF Launch, TypeOK, files, systemd
  <1>6. ASSUME NEW r \in Runs, Running(r)
        PROVE  /\ held[r] \in Configs /\ ModeOf[held[r]] \in Modes
               /\ pc[r] \in 1 .. Len(ScriptOf(r)) /\ pc[r] + 1 \in 1 .. 22
               /\ Now(r) \in Calling /\ Svc(r) \in Services
               /\ Now(r) = Call(Now(r).op, Svc(r))
    <2>1. held[r] \in Configs /\ ModeOf[held[r]] \in Modes
      BY <1>6, ConfigsAssumption DEF Running, TypeOK
    <2>2. Len(ScriptOf(r)) = Lengths[ModeOf[held[r]]] /\ Len(ScriptOf(r)) \in 1 .. 21
      BY <2>1, ScriptTable DEF ScriptOf
    <2>3. pc[r] \in 1 .. Len(ScriptOf(r)) /\ pc[r] + 1 \in 1 .. 22
      <3>1. PICK n \in 0 .. 22, l \in 1 .. 21 : n = pc[r] /\ l = Len(ScriptOf(r))
        BY <2>2 DEF TypeOK
      <3>2. n > 0 /\ n <= l
        BY <1>6, <3>1 DEF Running
      <3>3. n \in 1 .. l /\ n + 1 \in 1 .. 22
        BY <3>2
      <3>4. QED
        BY <3>1, <3>3
    <2>4. Now(r) \in Calling
      BY <2>1, <2>2, <2>3, ScriptTable DEF Now, ScriptOf
    <2>5. QED
      BY <2>1, <2>3, <2>4 DEF Svc, Calling, Call
  <1>7. ASSUME NEW r \in Runs, Running(r), pc' = [pc EXCEPT ![r] = @ + 1], held' = held
        PROVE  pc' \in [Runs -> 0 .. 22] /\ \A q \in Runs : held'[q] = None <=> pc'[q] = 0
    <2>1. pc[r] + 1 \in 0 .. 22 /\ pc[r] + 1 # 0 /\ pc[r] # 0
      BY <1>6, <1>7
    <2>2. QED
      BY <1>7, <2>1 DEF TypeOK
  <1>8. ASSUME NEW r \in Runs,
               \/ ConfWritten(r) \/ Stop(r) \/ Disable(r) \/ UnitWritten(r) \/ Enable(r) \/ Start(r)
        PROVE  TypeOK'
    <2>1. Running(r) /\ Effect(Now(r).op, Svc(r), held[r])
          /\ pc' = [pc EXCEPT ![r] = @ + 1] /\ held' = held
          /\ alone' = alone /\ settled' = settled
      BY <1>8, CallEffect
    <2>2. held[r] \in Configs /\ Svc(r) \in Services
      BY <1>6, <2>1
    <2>3. UnitText(Svc(r), held[r]) \in UnitFile
      BY <2>2, UnitTexts
    <2>4. /\ etc' \in Configs /\ conf' \in Configs \cup {None}
          /\ unit' \in [Services -> UnitFile] /\ loaded' \in [Services -> UnitFile]
          /\ enabled' \subseteq Services /\ untouched' \in BOOLEAN
      BY <2>1, <2>2, <2>3 DEF Effect, TypeOK
    <2>5. running' \in [Services -> Processes]
      <3>1. loaded[Svc(r)] \in UnitFile /\ etc \in Configs
        BY <2>2 DEF TypeOK
      <3>2. Process(Svc(r), loaded[Svc(r)], etc) \in Processes
        BY <1>2, <2>2, <3>1
      <3>3. QED
        BY <1>1, <2>1, <2>2, <3>2 DEF Effect, TypeOK
    <2>6. pc' \in [Runs -> 0 .. 22] /\ \A q \in Runs : held'[q] = None <=> pc'[q] = 0
      BY <1>7, <2>1
    <2>7. QED
      BY <2>1, <2>4, <2>5, <2>6 DEF TypeOK
  <1>9. ASSUME NEW r \in Runs, ConfRefused(r) \/ Return(r)
        PROVE  TypeOK'
    <2>1. pc[r] > 0
      BY <1>9 DEF ConfRefused, Return, Calls, Running
    <2>2. held[r] \in Configs
      BY <2>1 DEF TypeOK
    <2>3. /\ pc' = [pc EXCEPT ![r] = 0] /\ held' = [held EXCEPT ![r] = None]
          /\ etc' = etc /\ conf' = conf /\ unit' = unit /\ loaded' = loaded /\ enabled' = enabled
          /\ running' = running /\ untouched' = untouched
          /\ alone' \in BOOLEAN /\ settled' \in Configs \cup {None}
      BY <1>9, <2>2 DEF ConfRefused, Return, End, files, systemd, TypeOK
    <2>4. /\ held' \in [Runs -> Configs \cup {None}] /\ pc' \in [Runs -> 0 .. 22]
          /\ \A q \in Runs : held'[q] = None <=> pc'[q] = 0
      BY <2>3 DEF TypeOK
    <2>5. QED
      BY <2>3, <2>4 DEF TypeOK
  <1>10. ASSUME NEW r \in Runs, UnitRefused(r)
         PROVE  TypeOK'
    <2>1. Running(r) /\ pc' = [pc EXCEPT ![r] = @ + 1] /\ held' = held
      BY <1>10 DEF UnitRefused, Calls, Advance
    <2>2. QED
      BY <1>7, <1>10, <2>1 DEF UnitRefused, TypeOK, files, systemd
  <1>11. ASSUME NEW s \in Services, Respawn(s)
         PROVE  TypeOK'
    <2>1. Process(s, loaded[s], etc) \in Processes
      BY <1>2 DEF TypeOK
    <2>2. running' \in [Services -> Processes]
      BY <1>11, <2>1 DEF Respawn, TypeOK
    <2>3. QED
      BY <1>11, <2>2 DEF Respawn, TypeOK, files
  <1>12. CASE UNCHANGED port
    BY <1>12 DEF port, files, systemd, TypeOK
  <1>13. QED
    BY <1>3, <1>4, <1>5, <1>8, <1>9, <1>10, <1>11, <1>12 DEF PortNext, Step

(* What has been achieved stays while nobody touches the port, even if the  *)
(* entry is edited.                                                         *)
LEMMA StaysAchieved ==
  ASSUME NEW c, NEW made, Achieved(c, made),
         conf' = conf, unit' = unit, loaded' = loaded, enabled' = enabled, running' = running,
         untouched' => untouched /\ etc' = etc
  PROVE  Achieved(c, made)'
  <1>1. \A s \in Services : Serving(s, c) => Serving(s, c)'
    BY DEF Serving
  <1>2. \A s \in Services : Reached(c, made, s)'
    BY <1>1 DEF Achieved, Reached
  <1>3. QED
    BY <1>2 DEF Achieved

(* A service started again is started for the same entry, as far as it has  *)
(* been started at all.                                                     *)
LEMMA RespawnAchieves ==
  ASSUME TypeOK, NEW c \in Configs, NEW n \in 1 .. Len(Script[ModeOf[c]]) + 1,
         Achieved(c, Made(ModeOf[c], n)), NEW t \in Services, Respawn(t)
  PROVE  Achieved(c, Made(ModeOf[c], n))'
  <1> DEFINE m == ModeOf[c]
             made == Made(m, n)
  <1>1. /\ t # "main" /\ running[t] # Stopped
        /\ running'[t] = Process(t, loaded[t], etc)
        /\ \A s \in Services : s # t => running'[s] = running[s]
        /\ etc' = etc /\ conf' = conf /\ unit' = unit /\ loaded' = loaded /\ enabled' = enabled
        /\ untouched' = untouched
    BY DEF Respawn, files, TypeOK
  <1>2. \A s \in Services : Call("start", s) \in made => Call("enable", s) \in made
    BY ConfigsAssumption, MadeClosed
  <1>3. \A s \in Services : Reached(c, made, s)
    BY DEF Achieved
  <1> HIDE DEF m, made
  <1>4. \A s \in Services : s # t => (Serving(s, c) => Serving(s, c)')
    BY <1>1 DEF Serving
  <1>5. ASSUME Call("start", t) \in made
        PROVE  Serving(t, c)'
    <2>1. Startable(UnitText(t, c)) /\ loaded[t] = UnitText(t, c)
      BY <1>1, <1>2, <1>3, <1>5 DEF Reached, Serving
    <2>2. untouched => etc = c
      BY DEF Achieved, made, m
    <2>3. QED
      BY <1>1, <2>1, <2>2 DEF Serving, Process, Pollers
  <1>6. \A s \in Services : Reached(c, made, s)'
    BY <1>1, <1>3, <1>4, <1>5 DEF Reached
  <1>7. QED
    BY <1>1, <1>6 DEF Achieved, made, m

(* systemd starts at boot what a finished run has enabled, with the files   *)
(* that run has written.                                                    *)
LEMMA RebootAchieves ==
  ASSUME TypeOK, NEW c \in Configs, Achieved(c, AllCalls(ModeOf[c])), NEW d \in Configs, Reboot(d)
  PROVE  Achieved(c, AllCalls(ModeOf[c]))'
  <1> DEFINE m == ModeOf[c]
             made == AllCalls(m)
  <1>1. m \in Modes /\ Len(Script[m]) + 1 \in 1 .. Len(Script[m]) + 1
    BY ConfigsAssumption, ScriptEnd
  <1>2. \A s \in Services : /\ Call("enable", s) \in made => Call("write", s) \in made
                            /\ Call("start", s) \in made => Call("enable", s) \in made
    BY <1>1, MadeClosed DEF AllCalls
  <1>3. PICK got :
          running' = [s \in Services |-> IF s \in enabled /\ Startable(unit[s])
                                         THEN Process(s, unit[s], got) ELSE Stopped]
    BY DEF Reboot
  <1>4. conf' = conf /\ unit' = unit /\ loaded' = unit /\ enabled' = enabled /\ ~untouched'
    BY DEF Reboot, files
  <1>5. \A s \in Services : Reached(c, made, s)
    BY DEF Achieved
  <1>6. \A s \in Services : Call("stop", s) \in made /\ Call("start", s) \notin made => s \notin enabled
    BY <1>1, <1>5, StoppedIsDisabled DEF Reached
  <1>7. Call("start", "main") \in made /\ Startable(UnitText("main", c)) => conf = c
    <2>1. Startable(UnitText("main", c)) => m # "redirect"
      BY UnitTexts DEF Services
    <2>2. m = "off" \/ m \in {"server", "client"} \/ m = "redirect"
      BY <1>1 DEF Modes
    <2>3. m \in {"server", "client"} => conf = c
      BY ScriptEnd DEF Achieved
    <2>4. m = "off" => Call("start", "main") \notin made
      BY ScriptEnd
    <2>5. QED
      BY <2>1, <2>2, <2>3, <2>4
  <1> HIDE DEF m, made
  <1>8. ASSUME NEW s \in Services
        PROVE  Reached(c, made, s)'
    <2>1. Call("stop", s) \in made /\ Call("start", s) \notin made => running'[s] = Stopped
      BY <1>3, <1>6
    <2>2. Call("start", s) \in made =>
            unit[s] = UnitText(s, c) /\ (Startable(UnitText(s, c)) => s \in enabled)
      BY <1>2, <1>5 DEF Reached
    <2>3. Call("start", s) \in made => Serving(s, c)'
      BY <1>3, <1>4, <1>7, <2>2 DEF Serving, Process, Pollers
    <2>4. QED
      BY <1>2, <1>4, <1>5, <2>1, <2>3 DEF Reached
  <1>9. QED
    BY <1>4, <1>8 DEF Achieved, made, m

(* Every step of the port keeps the invariant.                              *)
LEMMA PortStep == PortInv /\ [PortNext]_port => PortInv'
  <1> SUFFICES ASSUME PortInv, [PortNext]_port PROVE PortInv'
    OBVIOUS
  <1>1. TypeOK /\ InScript /\ OneRun /\ RunAchieves /\ SettledHolds
    BY DEF PortInv
  <1>2. TypeOK'
    BY <1>1, PortTypes
  <1>3. ASSUME NEW r \in Runs, pc[r] > 0
        PROVE  /\ held[r] \in Configs /\ ModeOf[held[r]] \in Modes
               /\ pc[r] \in 1 .. Len(Script[ModeOf[held[r]]]) + 1
               /\ pc[r] \in 1 .. 22 /\ settled = None
    <2>1. held[r] \in Configs /\ ModeOf[held[r]] \in Modes
      BY <1>1, <1>3, ConfigsAssumption DEF TypeOK
    <2>2. pc[r] \in 1 .. 22 /\ pc[r] # 0
      BY <1>1, <1>3 DEF TypeOK
    <2>3. settled = None
      BY <1>1, <1>3, <2>2 DEF TypeOK, SettledHolds
    <2>4. QED
      BY <1>1, <1>3, <2>1, <2>2, <2>3 DEF InScript, ScriptOf
  <1>0. \A r, q \in Runs : alone /\ pc[r] # 0 /\ q # r => pc[q] = 0
    <2>1. \A q \in Runs : pc[q] # 0 => pc[q] > 0
      BY <1>1 DEF TypeOK
    <2>2. QED
      BY <1>1, <2>1 DEF OneRun
  <1>4. ASSUME NEW c \in Configs, Edit(c)
        PROVE  PortInv'
    <2>1. /\ conf' = conf /\ unit' = unit /\ loaded' = loaded /\ enabled' = enabled
          /\ running' = running /\ ~untouched' /\ held' = held /\ pc' = pc /\ alone' = alone
          /\ settled' = settled
      BY <1>4 DEF Edit, files, systemd
    <2>2. \A e, made : Achieved(e, made) => Achieved(e, made)'
      BY <2>1, StaysAchieved
    <2>3. InScript' /\ OneRun'
      BY <1>1, <2>1 DEF InScript, OneRun, ScriptOf
    <2>4. RunAchieves'
      BY <1>1, <2>1, <2>2 DEF RunAchieves
    <2>5. SettledHolds'
      BY <1>1, <2>1, <2>2 DEF SettledHolds
    <2>6. QED
      BY <1>2, <2>3, <2>4, <2>5 DEF PortInv
  <1>5. ASSUME NEW c \in Configs, Reboot(c)
        PROVE  PortInv'
    <2>1. alone' = FALSE /\ settled' = settled /\ \A r \in Runs : pc'[r] = 0
      BY <1>5 DEF Reboot
    <2>2. InScript' /\ OneRun' /\ RunAchieves'
      BY <2>1 DEF InScript, OneRun, RunAchieves
    <2>3. \A d \in Configs : settled = d => Achieved(d, AllCalls(ModeOf[d]))'
      BY <1>1, <1>5, RebootAchieves DEF SettledHolds
    <2>4. SettledHolds'
      BY <2>1, <2>3 DEF SettledHolds
    <2>5. QED
      BY <1>2, <2>2, <2>4 DEF PortInv
  <1>6. ASSUME NEW r \in Runs, Launch(r)
        PROVE  PortInv'
    <2>1. /\ pc[r] = 0 /\ held' = [held EXCEPT ![r] = etc] /\ pc' = [pc EXCEPT ![r] = 1]
          /\ alone' = (\A q \in Runs : pc[q] = 0)
          /\ settled' = None /\ etc' = etc
      BY <1>6 DEF Launch
    <2>2. /\ held'[r] = etc /\ pc'[r] = 1
          /\ \A q \in Runs : q # r => held'[q] = held[q] /\ pc'[q] = pc[q]
      BY <1>1, <2>1 DEF TypeOK
    <2>3. InScript'
      <3>1. etc \in Configs /\ ModeOf[etc] \in Modes
        BY <1>1, ConfigsAssumption DEF TypeOK
      <3>2. 1 \in 1 .. Len(Script[ModeOf[etc]]) + 1
        <4>1. PICK l \in 1 .. 21 : l = Len(Script[ModeOf[etc]])
          BY <3>1, ScriptEnd
        <4>2. 1 \in 1 .. l + 1
          OBVIOUS
        <4>3. QED
          BY <4>1, <4>2
      <3>3. QED
        BY <1>1, <2>2, <3>2 DEF InScript, ScriptOf
    <2>4. alone' => \A q \in Runs : q # r => pc'[q] = 0
      BY <2>1, <2>2
    <2>5. OneRun'
      BY <2>4 DEF OneRun
    <2>6. RunAchieves'
      <3>1. Made(ModeOf[etc], 1) = {}
        BY DEF Made
      <3>2. ASSUME NEW q \in Runs, NEW c \in Configs, NEW n \in 1 .. 22,
                   alone', held'[q] = c, pc'[q] = n
            PROVE  Achieved(c, Made(ModeOf[c], n))'
        <4>1. q = r
          BY <2>4, <3>2
        <4>2. c = etc /\ n = 1
          BY <2>2, <3>2, <4>1
        <4>3. Made(ModeOf[c], n) = {}
          BY <3>1, <4>2
        <4>4. QED
          BY <2>1, <4>2, <4>3 DEF Achieved, Reached
      <3>3. QED
        BY <3>2 DEF RunAchieves
    <2>7. SettledHolds'
      BY <2>1, MarksAssumption DEF SettledHolds
    <2>8. QED
      BY <1>2, <2>3, <2>5, <2>6, <2>7 DEF PortInv
  <1>7. ASSUME NEW r \in Runs,
               \/ ConfWritten(r) \/ Stop(r) \/ Disable(r) \/ UnitWritten(r) \/ Enable(r) \/ Start(r)
        PROVE  PortInv'
    <2>1. /\ Running(r) /\ Now(r).op \in Ops
          /\ Effect(Now(r).op, Svc(r), held[r])
          /\ pc' = [pc EXCEPT ![r] = @ + 1] /\ held' = held
          /\ alone' = alone /\ settled' = settled
      BY <1>1, <1>7, CallEffect
    <2>2. pc[r] > 0
      BY <2>1 DEF Running
    <2>3. PICK c \in Configs : c = held[r]
      BY <1>3, <2>2
    <2>4. PICK k \in 1 .. Len(Script[ModeOf[c]]) : k = pc[r]
      <3>1. pc[r] \in 1 .. 22 /\ pc[r] <= Len(Script[ModeOf[c]])
        BY <1>3, <2>1, <2>2, <2>3 DEF Running, ScriptOf
      <3>2. QED
        BY <1>3, <2>2, <2>3, <3>1
    <2>5. PICK l \in 1 .. 21 : l = Len(Script[ModeOf[c]])
      BY ConfigsAssumption, ScriptEnd
    <2>6. Now(r) = Script[ModeOf[c]][k]
      BY <2>3, <2>4 DEF Now, ScriptOf
    <2>7. PICK o \in Ops, t \in Services : o = Now(r).op /\ t = Svc(r) /\ Now(r) = Call(o, t)
      <3>1. ModeOf[c] \in Modes
        BY ConfigsAssumption
      <3>2. Now(r) \in Calling
        BY <2>4, <2>6, <3>1, ScriptTable
      <3>3. QED
        BY <3>2 DEF Calling, Svc, Call
    <2>8. pc'[r] = k + 1 /\ \A q \in Runs : q # r => pc'[q] = pc[q]
      BY <1>1, <2>1, <2>4 DEF TypeOK
    <2>9. InScript'
      <3>1. k + 1 \in 1 .. l + 1
        BY <2>4, <2>5
      <3>2. QED
        BY <1>1, <2>1, <2>3, <2>5, <2>8, <3>1 DEF InScript, ScriptOf
    <2>10. OneRun'
      BY <1>1, <2>1, <2>2, <2>8 DEF OneRun
    <2>11. RunAchieves'
      <3>1. ASSUME NEW q \in Runs, NEW d \in Configs, NEW n \in 1 .. 22,
                   alone', held'[q] = d, pc'[q] = n
            PROVE  Achieved(d, Made(ModeOf[d], n))'
        <4>1. alone /\ pc[r] # 0 /\ n # 0
          BY <2>1, <2>2, <3>1
        <4>2. q = r
          BY <1>0, <2>8, <3>1, <4>1
        <4>3. d = c /\ n = k + 1
          BY <2>1, <2>3, <2>8, <3>1, <4>2
        <4>4. k \in 1 .. 22
          BY <1>3, <2>2, <2>4
        <4>5. Achieved(c, Made(ModeOf[c], k))
          BY <1>1, <2>3, <2>4, <4>1, <4>4, Zenon DEF RunAchieves
        <4>6. Achieved(c, Made(ModeOf[c], k + 1))'
          <5>1. Script[ModeOf[c]][k] = Call(o, t) /\ Effect(o, t, c)
            BY <2>1, <2>3, <2>6, <2>7, Zenon
          <5>2. QED
            BY <1>1, <4>5, <5>1, CallAchieves
        <4>7. QED
          BY <4>3, <4>6
      <3>2. QED
        BY <3>1 DEF RunAchieves
    <2>12. SettledHolds'
      BY <1>3, <2>1, <2>2, MarksAssumption DEF SettledHolds
    <2>13. QED
      BY <1>2, <2>9, <2>10, <2>11, <2>12 DEF PortInv
  <1>8. ASSUME NEW r \in Runs, ConfRefused(r) \/ UnitRefused(r)
        PROVE  PortInv'
    <2>1. Running(r) /\ alone' = FALSE /\ settled' = settled
      BY <1>8 DEF ConfRefused, UnitRefused, Calls
    <2>2. pc[r] > 0
      BY <2>1 DEF Running
    <2>3. OneRun' /\ RunAchieves'
      BY <2>1 DEF OneRun, RunAchieves
    <2>4. SettledHolds'
      BY <1>3, <2>1, <2>2, MarksAssumption DEF SettledHolds
    <2>5. InScript'
      <3>1. CASE ConfRefused(r)
        <4>1. /\ pc' = [pc EXCEPT ![r] = 0] /\ held' = [held EXCEPT ![r] = None]
          BY <3>1 DEF ConfRefused, End
        <4>2. pc'[r] = 0 /\ \A q \in Runs : q # r => pc'[q] = pc[q] /\ held'[q] = held[q]
          BY <1>1, <4>1 DEF TypeOK
        <4>3. QED
          BY <1>1, <4>2 DEF InScript, ScriptOf
      <3>2. CASE UnitRefused(r)
        <4>1. pc' = [pc EXCEPT ![r] = @ + 1] /\ held' = held
          BY <3>2 DEF UnitRefused, Advance
        <4>2. pc[r] \in 1 .. 22 /\ ModeOf[held[r]] \in Modes
          BY <1>3, <2>2
        <4>3. PICK n \in 1 .. 22, l \in 1 .. 21 : n = pc[r] /\ l = Len(Script[ModeOf[held[r]]])
          BY <4>2, ScriptEnd
        <4>4. n + 1 \in 1 .. l + 1
          <5>1. n <= l
            BY <2>1, <4>3 DEF Running, ScriptOf
          <5>2. QED
            BY <5>1
        <4>5. pc'[r] = n + 1 /\ \A q \in Runs : q # r => pc'[q] = pc[q]
          BY <1>1, <4>1, <4>3 DEF TypeOK
        <4>6. pc'[r] \in 1 .. Len(Script[ModeOf[held[r]]]) + 1
          <5>1. n + 1 \in 1 .. Len(Script[ModeOf[held[r]]]) + 1
            BY <4>3, <4>4
          <5>2. QED
            BY <4>5, <5>1
        <4>7. \A q \in Runs : q # r /\ pc'[q] > 0 =>
                pc'[q] \in 1 .. Len(Script[ModeOf[held'[q]]]) + 1
          BY <1>1, <4>1, <4>5 DEF InScript, ScriptOf
        <4>8. QED
          BY <4>1, <4>6, <4>7 DEF InScript, ScriptOf
      <3>3. QED
        BY <1>8, <3>1, <3>2
    <2>6. QED
      BY <1>2, <2>3, <2>4, <2>5 DEF PortInv
  <1>9. ASSUME NEW r \in Runs, Return(r)
        PROVE  PortInv'
    <2>1. /\ pc[r] > 0 /\ pc[r] > Len(ScriptOf(r))
          /\ settled' = IF alone THEN held[r] ELSE None
          /\ pc' = [pc EXCEPT ![r] = 0] /\ held' = [held EXCEPT ![r] = None]
          /\ etc' = etc /\ conf' = conf /\ unit' = unit /\ loaded' = loaded /\ enabled' = enabled
          /\ running' = running /\ alone' = alone /\ untouched' = untouched
      BY <1>9 DEF Return, End, files, systemd
    <2>2. PICK c \in Configs : c = held[r]
      BY <1>3, <2>1
    <2>3. pc'[r] = 0 /\ \A q \in Runs : q # r => pc'[q] = pc[q] /\ held'[q] = held[q]
      BY <1>1, <2>1 DEF TypeOK
    <2>4. InScript' /\ OneRun'
      BY <1>1, <2>1, <2>3 DEF InScript, ScriptOf, OneRun
    <2>5. RunAchieves'
      <3>1. ASSUME NEW q \in Runs, NEW d \in Configs, NEW n \in 1 .. 22,
                   alone', held'[q] = d, pc'[q] = n
            PROVE  Achieved(d, Made(ModeOf[d], n))'
        <4>1. q # r
          BY <2>3, <3>1
        <4>2. pc[r] # 0 /\ alone
          BY <2>1, <3>1
        <4>3. pc[q] = 0 /\ pc[q] = n
          BY <1>0, <2>3, <3>1, <4>1, <4>2
        <4>4. n # 0
          OBVIOUS
        <4>5. QED
          BY <4>3, <4>4
      <3>2. QED
        BY <3>1 DEF RunAchieves
    <2>6. SettledHolds'
      <3>1. ASSUME alone
            PROVE  /\ \A q \in Runs : pc'[q] = 0
                   /\ Achieved(c, AllCalls(ModeOf[c]))'
        <4>1. \A q \in Runs : pc'[q] = 0
          <5>1. pc[r] # 0
            BY <2>1
          <5>2. \A q \in Runs : q # r => pc[q] = 0
            BY <1>0, <3>1, <5>1, Zenon
          <5>3. QED
            BY <2>3, <5>2
        <4>2. PICK n \in 1 .. 22, l \in 1 .. 21 : n = pc[r] /\ l = Len(Script[ModeOf[c]])
          <5>1. pc[r] \in 1 .. 22
            BY <1>3, <2>1
          <5>2. Len(Script[ModeOf[c]]) \in 1 .. 21
            BY ScriptEnd, ConfigsAssumption
          <5>3. QED
            BY <5>1, <5>2
        <4>3. n = l + 1
          <5>1. n \in 1 .. l + 1 /\ n > l
            BY <1>3, <2>1, <2>2, <4>2 DEF ScriptOf
          <5>2. QED
            BY <5>1
        <4>4. Achieved(c, Made(ModeOf[c], n))
          BY <1>1, <2>2, <3>1, <4>2 DEF RunAchieves
        <4>5. Achieved(c, AllCalls(ModeOf[c]))
          BY <4>2, <4>3, <4>4 DEF AllCalls
        <4>6. Achieved(c, AllCalls(ModeOf[c]))'
          BY <2>1, <4>5, StaysAchieved
        <4>7. QED
          BY <4>1, <4>6
      <3>2. QED
        BY <2>1, <2>2, <3>1, MarksAssumption DEF SettledHolds
    <2>7. QED
      BY <1>2, <2>4, <2>5, <2>6 DEF PortInv
  <1>10. ASSUME NEW s \in Services, Respawn(s)
         PROVE  PortInv'
    <2>1. pc' = pc /\ held' = held /\ alone' = alone /\ settled' = settled
      BY <1>10 DEF Respawn
    <2>2. InScript' /\ OneRun'
      BY <1>1, <2>1 DEF InScript, OneRun, ScriptOf
    <2>3. ASSUME NEW r \in Runs, NEW c \in Configs, NEW n \in 1 .. 22,
                 alone, held[r] = c, pc[r] = n
          PROVE  Achieved(c, Made(ModeOf[c], n))'
      <3>1. n > 0
        OBVIOUS
      <3>2. n \in 1 .. Len(Script[ModeOf[c]]) + 1
        BY <1>3, <2>3, <3>1
      <3>3. Achieved(c, Made(ModeOf[c], n))
        BY <1>1, <2>3 DEF RunAchieves
      <3>4. QED
        BY <1>1, <1>10, <3>2, <3>3, RespawnAchieves
    <2>4. ASSUME NEW c \in Configs, settled = c
          PROVE  Achieved(c, AllCalls(ModeOf[c]))'
      <3>1. Len(Script[ModeOf[c]]) + 1 \in 1 .. Len(Script[ModeOf[c]]) + 1
        BY ConfigsAssumption, ScriptEnd
      <3>2. Achieved(c, AllCalls(ModeOf[c]))
        BY <1>1, <2>4 DEF SettledHolds
      <3>3. QED
        BY <1>1, <1>10, <3>1, <3>2, RespawnAchieves DEF AllCalls
    <2>5. RunAchieves'
      BY <2>1, <2>3 DEF RunAchieves
    <2>6. SettledHolds'
      BY <1>1, <2>1, <2>4 DEF SettledHolds
    <2>7. QED
      BY <1>2, <2>2, <2>5, <2>6 DEF PortInv
  <1>11. CASE UNCHANGED port
    <2>1. /\ conf' = conf /\ unit' = unit /\ loaded' = loaded /\ enabled' = enabled
          /\ running' = running /\ untouched' = untouched /\ etc' = etc /\ held' = held
          /\ pc' = pc /\ alone' = alone /\ settled' = settled
      BY <1>11 DEF port, files, systemd
    <2>2. \A e, made : Achieved(e, made) => Achieved(e, made)'
      BY <2>1, StaysAchieved
    <2>3. InScript' /\ OneRun'
      BY <1>1, <2>1 DEF InScript, OneRun, ScriptOf
    <2>4. RunAchieves' /\ SettledHolds'
      BY <1>1, <2>1, <2>2 DEF RunAchieves, SettledHolds
    <2>5. QED
      BY <1>2, <2>3, <2>4 DEF PortInv
  <1>12. QED
    BY <1>4, <1>5, <1>6, <1>7, <1>8, <1>9, <1>10, <1>11 DEF PortNext, Step

(* A port nobody has configured yet.                                        *)
LEMMA PortInit == Init => PortInv
  <1> SUFFICES ASSUME Init PROVE PortInv
    OBVIOUS
  <1>1. Stopped \in Processes
    BY DEF Stopped, Processes, UnitFile
  <1>2. TypeOK
    <2>1. /\ etc \in Configs /\ conf = None /\ enabled = {} /\ alone = FALSE
          /\ settled = None /\ untouched = FALSE
      BY DEF Init
    <2>2. unit \in [Services -> UnitFile] /\ loaded \in [Services -> UnitFile]
      BY DEF Init, UnitFile
    <2>3. running \in [Services -> Processes]
      BY <1>1 DEF Init
    <2>4. /\ held \in [Runs -> Configs \cup {None}] /\ pc \in [Runs -> 0 .. 22]
          /\ \A r \in Runs : held[r] = None <=> pc[r] = 0
      BY DEF Init
    <2>5. QED
      BY <2>1, <2>2, <2>3, <2>4 DEF TypeOK
  <1>3. InScript /\ OneRun /\ RunAchieves /\ SettledHolds
    BY MarksAssumption DEF Init, InScript, OneRun, RunAchieves, SettledHolds
  <1>4. QED
    BY <1>2, <1>3 DEF PortInv

(* The steps of SerialService are steps of the port.                        *)
LEMMA ServiceSteps == [Next]_vars => [PortNext]_port
  BY DEF Next, EditEntry, LaunchRun, Restart, PortNext, vars, port

(* What the finished run has started serves its entry.                      *)
LEMMA SettledServes ==
  ASSUME PortInv, settled # None
  PROVE  /\ settled \in Configs
         /\ \A r \in Runs : pc[r] = 0
         /\ untouched => etc = settled
         /\ Serves(settled)
         /\ untouched /\ ModeOf[settled] # "off" =>
              \A s \in Pollers : running[s].reads = settled
  <1>1. PICK c \in Configs : c = settled
    BY DEF PortInv, TypeOK
  <1>2. Achieved(c, AllCalls(ModeOf[c])) /\ \A r \in Runs : pc[r] = 0
    BY <1>1 DEF PortInv, SettledHolds
  <1>3. \A s \in Services : Reached(c, AllCalls(ModeOf[c]), s)
    BY <1>2 DEF Achieved
  <1>4. ModeOf[c] \in Modes
    BY ConfigsAssumption
  <1>5. \A s \in Services : running[s] = [unit |-> running[s].unit, reads |-> running[s].reads]
    BY DEF PortInv, TypeOK, Processes
  <1>6. "main" \in Services /\ "sub" \in Services /\ "rxtx" \in Services /\ Pollers \subseteq Services
    BY DEF Services, Pollers
  <1>7. Startable(Fixed) /\ Startable(c) /\ ~Startable(Empty)
    BY MarksAssumption DEF Startable
  <1>8. ASSUME ModeOf[c] \in {"server", "client"}
        PROVE  running["main"] = [unit |-> c, reads |-> c]
    <2>1. Serving("main", c)
      BY <1>3, <1>6, <1>8, ScriptEnd DEF Reached
    <2>2. UnitText("main", c) = c
      BY <1>6, <1>8, UnitTexts
    <2>3. running["main"].unit = c /\ running["main"].reads = c
      BY <1>7, <2>1, <2>2 DEF Serving
    <2>4. QED
      BY <1>5, <1>6, <2>3
  <1>9. ASSUME ModeOf[c] = "client"
        PROVE  running["sub"] = [unit |-> c, reads |-> None]
    <2>1. Serving("sub", c)
      BY <1>3, <1>6, <1>9, ScriptEnd DEF Reached
    <2>2. UnitText("sub", c) = c
      BY <1>6, UnitTexts
    <2>3. running["sub"].unit = c /\ running["sub"].reads = None
      BY <1>7, <2>1, <2>2 DEF Serving
    <2>4. QED
      BY <1>5, <1>6, <2>3
  <1>10. ASSUME ModeOf[c] = "redirect"
         PROVE  running["main"] = Stopped
    <2>1. Serving("main", c)
      BY <1>3, <1>6, <1>10, ScriptEnd DEF Reached
    <2>2. UnitText("main", c) = Empty
      BY <1>6, <1>10, UnitTexts
    <2>3. QED
      BY <1>7, <2>1, <2>2 DEF Serving
  <1>11. ASSUME ModeOf[c] = "off", NEW s \in {"main", "sub", "rxtx"}
         PROVE  running[s] = Stopped
    BY <1>3, <1>6, <1>11, ScriptEnd DEF Reached
  <1>12. ASSUME untouched, ModeOf[c] # "off", NEW s \in Pollers
         PROVE  running[s].reads = c
    <2>1. ModeOf[c] \in {"redirect", "server", "client"}
      BY <1>4, <1>12 DEF Modes
    <2>2. Serving(s, c)
      BY <1>3, <1>6, <2>1, ScriptEnd DEF Reached
    <2>3. UnitText(s, c) = Fixed
      BY <1>6, UnitTexts
    <2>4. QED
      BY <1>7, <1>12, <2>2, <2>3 DEF Serving
  <1>13. Serves(c)
    BY <1>8, <1>9, <1>10, <1>11 DEF Serves
  <1>14. untouched => etc = c
    BY <1>2 DEF Achieved
  <1>15. QED
    BY <1>1, <1>2, <1>12, <1>13, <1>14

(* The invariant of the port.                                               *)
LEMMA PortInvariant == Spec => []PortInv
  BY PortInit, PortStep, ServiceSteps, PTL DEF Spec

(* For any configurations, any number of runs of serial at once, refused    *)
(* fopens and reboots: the files, the services and what runs have the       *)
(* values meant for them, and a run holds an entry exactly while it runs.   *)
THEOREM TypeCorrect == Spec => []TypeOK
  BY PortInvariant, PTL DEF PortInv

(* Whatever runs before it were overlapped, refused a file or cut off: a    *)
(* run of serial nothing disturbed leaves the port served as the entry it   *)
(* read says, and so it stays through reboots and services started again.   *)
THEOREM PortIsSettled == Spec => []SettledPort
  <1>1. PortInv => SettledPort
    BY SettledServes DEF SettledPort
  <1>2. QED
    BY <1>1, PortInvariant, PTL

(* Until the entry is edited, the pollers have read the entry that serves   *)
(* the port, however often systemd starts them again.                       *)
THEOREM PollersHaveFollowed == Spec => []PollersFollow
  <1>1. PortInv => PollersFollow
    BY SettledServes DEF PollersFollow, Pollers
  <1>2. QED
    BY <1>1, PortInvariant, PTL
-----------------------------------------------------------------------------
(* The requests.                                                            *)

(* Whatever an operator does, the port takes a step of its own or none.     *)
LEMMA DeploySteps == DeployTypes /\ [DeployNext]_allVars => [PortNext]_port
  <1> SUFFICES ASSUME DeployTypes, [DeployNext]_allVars PROVE [PortNext]_port
    OBVIOUS
  <1>1. ASSUME NEW c \in Configs, Put(c)
        PROVE  [PortNext]_port
    BY <1>1 DEF Put, PortNext, port, vars
  <1>2. ASSUME NEW u \in Runs, DeployStep(u)
        PROVE  [PortNext]_port
    <2>1. CASE UNCHANGED vars
      BY <2>1 DEF vars, port
    <2>2. CASE Launch(u)
      BY <2>2 DEF PortNext
    <2>3. CASE Leave(u)
      BY <2>3 DEF Leave, Boots, PortNext, DeployTypes
    <2>4. CASE SetSerialWrites(u)
      BY <1>1, <2>4 DEF SetSerialWrites, DeployTypes
    <2>5. CASE \E c \in Configs : DefPort(u, c)
      BY <1>1, <2>5 DEF DefPort
    <2>6. CASE DefFactory(u) \/ \E b \in Buttons : SetReboot(u, b)
      BY <1>1, <2>1, <2>6, DefaultAssumption DEF DefFactory, SetReboot
    <2>7. QED
      BY <1>2, <2>1, <2>2, <2>3, <2>4, <2>5, <2>6
         DEF DeployStep, SetSerial, SetSerialApplies, SetSerialReturns, DefSave, OnlyReboot
  <1>3. ASSUME NEW r \in Runs, Step(r)
        PROVE  [PortNext]_port
    BY <1>3 DEF PortNext
  <1>4. ASSUME NEW s \in Services, Respawn(s)
        PROVE  [PortNext]_port
    BY <1>4 DEF PortNext
  <1>5. CASE Cut
    BY <1>5 DEF Cut, Boots, PortNext, DeployTypes
  <1>6. CASE UNCHANGED allVars
    BY <1>6 DEF allVars, vars, port
  <1>7. QED
    BY <1>2, <1>3, <1>4, <1>5, <1>6 DEF DeployNext

(* What Put leaves: the entry, and nothing else of what runs.               *)
LEMMA PutSets ==
  ASSUME NEW c \in Configs, Put(c)
  PROVE  /\ etc' = c /\ pc' = pc /\ settled' = settled
         /\ untouched' => untouched
  BY DEF Put, Edit, vars

(* A run of serial, and systemd, leave the entry alone and do not mark it.  *)
LEMMA StepLeavesEntry ==
  /\ \A r \in Runs : Step(r) => etc' = etc /\ untouched' = untouched
  /\ \A s \in Services : Respawn(s) => /\ etc' = etc /\ untouched' = untouched
                                       /\ pc' = pc /\ settled' = settled
  <1>1. ASSUME NEW r \in Runs, Step(r)
        PROVE  etc' = etc /\ untouched' = untouched
    BY <1>1 DEF Step, ConfWritten, ConfRefused, Stop, Disable, UnitWritten, UnitRefused, Enable,
                Start, Return
  <1>2. QED
    BY <1>1 DEF Respawn

(* No process makes a call unless it runs.                                  *)
LEMMA StepRuns ==
  ASSUME NEW r \in Runs, Step(r)
  PROVE  pc[r] > 0
  BY DEF Step, ConfWritten, ConfRefused, Stop, Disable, UnitWritten, UnitRefused, Enable,
         Start, Return, Calls, Running

(* The requests and their marks keep their types.                           *)
LEMMA DeployTypesStep ==
  ASSUME TypeOK, DeployTypes, [DeployNext]_allVars
  PROVE  DeployTypes'
  <1>1. ASSUME NEW u \in Runs, NEW c \in Configs, SetSerial(u, c) \/ DefPort(u, c)
        PROVE  DeployTypes'
    <2>1. CASE SetSerial(u, c)
      BY <2>1 DEF SetSerial, Begin, Reads, DeployTypes
    <2>2. CASE DefPort(u, c)
      BY <2>2 DEF DefPort, Begin, Writes, DeployTypes
    <2>3. QED
      BY <1>1, <2>1, <2>2
  <1>2. ASSUME NEW u \in Runs, SetSerialWrites(u) \/ SetSerialApplies(u) \/ SetSerialReturns(u)
                               \/ OnlyReboot(u)
        PROVE  DeployTypes'
    <2>1. CASE SetSerialWrites(u)
      BY <2>1 DEF SetSerialWrites, DeployTypes
    <2>2. CASE ~SetSerialWrites(u)
      BY <1>2, <2>2 DEF SetSerialApplies, SetSerialReturns, OnlyReboot, DeployTypes
    <2>3. QED
      BY <2>1, <2>2
  <1>3. ASSUME NEW u \in Runs, DefSave(u) \/ DefFactory(u)
        PROVE  DeployTypes'
    BY <1>3, DefaultAssumption DEF DefSave, DefFactory, Begin, Writes, DeployTypes, TypeOK
  <1>4. ASSUME NEW u \in Runs, NEW b \in Buttons, SetReboot(u, b)
        PROVE  DeployTypes'
    <2>1. flash' \in Configs
      BY <1>4, DefaultAssumption DEF SetReboot, DeployTypes, TypeOK, Buttons
    <2>2. QED
      BY <1>4, <2>1 DEF SetReboot, Begin, Reads, Writes, DeployTypes
  <1>5. ASSUME NEW b \in Buttons \cup {"none"}, Boots(b)
        PROVE  DeployTypes'
    BY <1>5 DEF Boots, DeployTypes
  <1>6. ASSUME NEW u \in Runs, Leave(u)
        PROVE  DeployTypes'
    BY <1>5, <1>6 DEF Leave, DeployTypes
  <1>7. CASE Cut
    BY <1>5, <1>7 DEF Cut
  <1>8. CASE UNCHANGED deploy
    BY <1>8 DEF deploy, DeployTypes
  <1>9. QED
    BY <1>1, <1>2, <1>3, <1>4, <1>6, <1>7, <1>8 DEF DeployNext, DeployStep, allVars

(* A request of another operator either leaves the copies alone or marks    *)
(* this one.                                                                *)
LEMMA OthersKeep ==
  ASSUME DeployTypes, NEW u \in Runs, RequestHolds(u),
         task'[u] = task[u], page'[u] = page[u], form'[u] = form[u],
         \/ disturbed'[u]
         \/ /\ disturbed'[u] = disturbed[u] /\ etc' = etc /\ flash' = flash
            /\ untouched => untouched'
  PROVE  RequestHolds(u)'
  BY DEF RequestHolds

(* The invariant of the requests.                                           *)
LEMMA RequestsStep ==
  ASSUME PortInv, DeployTypes, RequestsHold, [DeployNext]_allVars
  PROVE  RequestsHold'
  <1>0. etc \in Configs
    BY DEF PortInv, TypeOK
  <1> SUFFICES ASSUME NEW v \in Runs PROVE RequestHolds(v)'
    BY DEF RequestsHold
  <1>1. RequestHolds(v)
    BY DEF RequestsHold
  <1>2. ASSUME NEW u \in Runs, NEW c \in Configs, SetSerial(u, c)
        PROVE  RequestHolds(v)'
    <2>1. CASE v = u
      <3>1. task'[v] = "write"
        BY <1>2, <2>1 DEF SetSerial, Begin, DeployTypes
      <3>2. QED
        BY <3>1 DEF RequestHolds
    <2>2. CASE v # u
      <3>1. /\ task'[v] = task[v] /\ page'[v] = page[v] /\ form'[v] = form[v]
            /\ disturbed'[v] = disturbed[v] /\ etc' = etc /\ flash' = flash
            /\ untouched' = untouched
        BY <1>2, <2>2 DEF SetSerial, Begin, Reads, DeployTypes, vars
      <3>2. QED
        BY <1>1, <3>1, OthersKeep
    <2>3. QED
      BY <2>1, <2>2
  <1>3. ASSUME NEW u \in Runs, SetSerialWrites(u)
        PROVE  RequestHolds(v)'
    <2>1. form[u] \in Configs /\ etc' = form[u] /\ form' = form /\ page' = page
      BY <1>3, PutSets DEF SetSerialWrites, DeployTypes
    <2>2. CASE v = u
      <3>1. task'[v] \in {"idle", "apply"}
        BY <1>3, <2>2 DEF SetSerialWrites, DeployTypes
      <3>2. QED
        BY <2>1, <2>2, <3>1 DEF RequestHolds
    <2>3. CASE v # u
      <3>1. task'[v] = task[v] /\ disturbed'[v] = TRUE
        BY <1>3, <2>3 DEF SetSerialWrites, DeployTypes
      <3>2. QED
        BY <1>1, <2>1, <3>1, OthersKeep
    <2>4. QED
      BY <2>2, <2>3
  <1>4. ASSUME NEW u \in Runs, SetSerialApplies(u) \/ OnlyReboot(u)
        PROVE  RequestHolds(v)'
    <2>1. /\ etc' = etc /\ untouched' = TRUE /\ flash' = flash /\ page' = page /\ form' = form
          /\ disturbed' = disturbed
      BY <1>4 DEF SetSerialApplies, OnlyReboot, Launch
    <2>2. CASE v = u
      <3>1. \/ task[v] = "apply" /\ task'[v] = "applying"
            \/ task[v] = "page" /\ task'[v] = "leaving"
        BY <1>4, <2>2 DEF SetSerialApplies, OnlyReboot, DeployTypes
      <3>2. QED
        BY <1>1, <2>1, <3>1 DEF RequestHolds
    <2>3. CASE v # u
      <3>1. task'[v] = task[v]
        BY <1>4, <2>3 DEF SetSerialApplies, OnlyReboot, DeployTypes
      <3>2. QED
        BY <1>1, <2>1, <3>1, OthersKeep
    <2>4. QED
      BY <2>2, <2>3
  <1>5. ASSUME NEW u \in Runs, SetSerialReturns(u)
        PROVE  RequestHolds(v)'
    <2>1. /\ etc' = etc /\ untouched' = untouched /\ flash' = flash /\ page' = page /\ form' = form
          /\ disturbed' = disturbed
      BY <1>5 DEF SetSerialReturns, vars
    <2>2. task'[v] = task[v] \/ task'[v] = "idle"
      BY <1>5 DEF SetSerialReturns, DeployTypes
    <2>3. CASE task'[v] = "idle"
      BY <2>3 DEF RequestHolds
    <2>4. CASE task'[v] = task[v]
      BY <1>1, <2>1, <2>4, OthersKeep
    <2>5. QED
      BY <2>2, <2>3, <2>4
  <1>6. ASSUME NEW u \in Runs,
               DefSave(u) \/ DefFactory(u) \/ \E c \in Configs : DefPort(u, c)
        PROVE  RequestHolds(v)'
    <2>1. /\ page' = page /\ form' = form /\ task' = [task EXCEPT ![u] = "idle"]
          /\ disturbed' = [w \in Runs |-> w # u]
      BY <1>6 DEF DefSave, DefFactory, DefPort, Begin, Writes
    <2>2. CASE v = u
      <3>1. task'[v] = "idle"
        BY <2>1, <2>2 DEF DeployTypes
      <3>2. QED
        BY <3>1 DEF RequestHolds
    <2>3. CASE v # u
      <3>1. task'[v] = task[v] /\ disturbed'[v]
        BY <2>1, <2>3 DEF DeployTypes
      <3>2. QED
        BY <1>1, <2>1, <3>1, OthersKeep
    <2>4. QED
      BY <2>2, <2>3
  <1>7. ASSUME NEW u \in Runs, NEW b \in Buttons, SetReboot(u, b)
        PROVE  RequestHolds(v)'
    <2>1. /\ task' = [task EXCEPT ![u] = "page"] /\ page' = [page EXCEPT ![u] = b]
          /\ form' = form
          /\ flash' = CASE b = "save" -> etc [] b = "factory" -> Default [] OTHER -> flash
          /\ IF b = "factory" THEN Put(Default) ELSE UNCHANGED vars
          /\ disturbed' = IF b = "only" THEN [disturbed EXCEPT ![u] = FALSE]
                          ELSE [w \in Runs |-> w # u]
      BY <1>7 DEF SetReboot, Begin, Reads, Writes
    <2>2. CASE v = u
      <3>1. task'[v] = "page" /\ page'[v] = b
        BY <2>1, <2>2 DEF DeployTypes
      <3>2. b # "only" => etc' = flash'
        <4>1. CASE b = "save"
          BY <2>1, <4>1 DEF vars
        <4>2. CASE b = "factory"
          BY <2>1, <4>2, DefaultAssumption, PutSets
        <4>3. QED
          BY <4>1, <4>2 DEF Buttons
      <3>3. QED
        BY <3>1, <3>2 DEF RequestHolds
    <2>3. CASE v # u
      <3>1. task'[v] = task[v] /\ page'[v] = page[v] /\ form'[v] = form[v]
        BY <2>1, <2>3 DEF DeployTypes
      <3>2. b # "only" => disturbed'[v]
        BY <2>1, <2>3
      <3>3. b = "only" => /\ disturbed'[v] = disturbed[v] /\ etc' = etc /\ flash' = flash
                          /\ untouched' = untouched
        BY <2>1, <2>3 DEF DeployTypes, vars
      <3>4. CASE b # "only"
        BY <1>1, <3>1, <3>2, <3>4, OthersKeep
      <3>5. CASE b = "only"
        BY <1>1, <3>1, <3>3, <3>5, OthersKeep
      <3>6. QED
        BY <3>4, <3>5
    <2>4. QED
      BY <2>2, <2>3
  <1>8. ASSUME NEW b, Boots(b)
        PROVE  RequestHolds(v)'
    <2>1. task'[v] = "idle"
      BY <1>8 DEF Boots
    <2>2. QED
      BY <2>1 DEF RequestHolds
  <1>9. ASSUME UNCHANGED deploy, etc' = etc, untouched' = untouched
        PROVE  RequestHolds(v)'
    BY <1>1, <1>9, OthersKeep DEF deploy
  <1>10. ASSUME NEW r \in Runs, Step(r) /\ UNCHANGED deploy
         PROVE  RequestHolds(v)'
    BY <1>9, <1>10, StepLeavesEntry
  <1>11. ASSUME NEW s \in Services, Respawn(s) /\ UNCHANGED deploy
         PROVE  RequestHolds(v)'
    BY <1>9, <1>11, StepLeavesEntry
  <1>12. CASE UNCHANGED allVars
    BY <1>9, <1>12 DEF allVars, vars
  <1>13. QED
    BY <1>2, <1>3, <1>4, <1>5, <1>6, <1>7, <1>8, <1>10, <1>11, <1>12
       DEF DeployNext, DeployStep, Leave, Cut

(* The reboot through a button finds the port settled with what was saved,  *)
(* and the first request after it ends what BootHolds says.                 *)
LEMMA BootStep ==
  ASSUME PortInv, DeployTypes, RequestsHold, BootHolds, [DeployNext]_allVars
  PROVE  BootHolds'
  <1>1. ASSUME NEW u \in Runs, Leave(u)
        PROVE  BootHolds'
    <2>1. /\ task[u] = "leaving" /\ etc' = flash /\ flash' = flash /\ settled' = settled
          /\ boot' = IF disturbed[u] \/ settled = None THEN "none" ELSE page[u]
          /\ \A v \in Runs : task'[v] = "idle" /\ pc'[v] = 0
      BY <1>1 DEF Leave, Boots, Reboot
    <2>2. ASSUME boot' \in {"save", "factory"}
          PROVE  settled = flash
      <3>1. ~disturbed[u] /\ settled # None /\ page[u] # "only"
        BY <2>1, <2>2
      <3>2. etc = flash /\ untouched
        BY <2>1, <3>1 DEF RequestsHold, RequestHolds
      <3>3. etc = settled
        BY <3>1, <3>2, SettledServes
      <3>4. QED
        BY <3>2, <3>3
    <2>3. QED
      BY <2>1, <2>2 DEF BootHolds
  <1>2. CASE boot' = "none"
    BY <1>2 DEF BootHolds
  <1>3. ASSUME boot' = boot, boot \in {"save", "factory"}
        PROVE  /\ \A u \in Runs : task[u] = "idle" /\ pc[u] = 0
               /\ settled = flash /\ etc = flash
    BY <1>3 DEF BootHolds
  <1>4. ASSUME boot' = boot, boot \in {"save", "factory"}, NEW r \in Runs, Step(r)
        PROVE  FALSE
    BY <1>3, <1>4, StepRuns
  <1>5. ASSUME UNCHANGED deploy, pc' = pc, settled' = settled, etc' = etc
        PROVE  BootHolds'
    BY <1>5 DEF deploy, BootHolds
  <1>6. ASSUME boot' = boot, NEW u \in Runs, task[u] # "idle"
        PROVE  BootHolds'
    BY <1>6 DEF BootHolds
  <1>7. ASSUME NEW u \in Runs, DeployStep(u)
        PROVE  BootHolds'
    BY <1>1, <1>2, <1>6, <1>7
       DEF DeployStep, SetSerial, DefPort, DefSave, DefFactory, SetReboot, Begin,
           SetSerialWrites, SetSerialApplies, SetSerialReturns, OnlyReboot
  <1>8. CASE Cut
    BY <1>2, <1>8 DEF Cut, Boots
  <1>9. ASSUME NEW r \in Runs, Step(r) /\ UNCHANGED deploy
        PROVE  BootHolds'
    BY <1>4, <1>9 DEF deploy, BootHolds
  <1>10. ASSUME NEW s \in Services, Respawn(s) /\ UNCHANGED deploy
         PROVE  BootHolds'
    BY <1>5, <1>10, StepLeavesEntry
  <1>11. CASE UNCHANGED allVars
    BY <1>5, <1>11 DEF allVars, vars
  <1>12. QED
    BY <1>7, <1>8, <1>9, <1>10, <1>11 DEF DeployNext

(* The invariant of the deployment.                                         *)
LEMMA DeployInvariant == DeploySpec => []DeployInv
  <1>1. DeployInit => DeployInv
    <2>1. DeployInit => PortInv
      BY PortInit DEF DeployInit
    <2>2. DeployInit => DeployTypes
      BY DefaultAssumption DEF DeployInit, DeployTypes, Buttons
    <2>3. DeployInit => RequestsHold /\ BootHolds
      BY DEF DeployInit, RequestsHold, RequestHolds, BootHolds
    <2>4. QED
      BY <2>1, <2>2, <2>3 DEF DeployInv
  <1>2. DeployInv /\ [DeployNext]_allVars => DeployInv'
    <2> SUFFICES ASSUME DeployInv, [DeployNext]_allVars PROVE DeployInv'
      OBVIOUS
    <2>1. PortInv /\ DeployTypes /\ RequestsHold /\ BootHolds
      BY DEF DeployInv
    <2>2. PortInv'
      BY <2>1, DeploySteps, PortStep
    <2>3. DeployTypes'
      BY <2>1, DeployTypesStep DEF PortInv
    <2>4. RequestsHold' /\ BootHolds'
      BY <2>1, RequestsStep, BootStep
    <2>5. QED
      BY <2>2, <2>3, <2>4 DEF DeployInv
  <1>3. QED
    BY <1>1, <1>2, PTL DEF DeploySpec

(* For any number of operators, configurations and requests, reboots and    *)
(* refused fopens anywhere: when the serial page answers and serial was     *)
(* alone, the port is served as the form asked, unless another operator     *)
(* wrote since.                                                             *)
THEOREM RequestIsApplied == DeploySpec => []AppliedIsRequested
  <1>1. DeployInv => AppliedIsRequested
    <2> SUFFICES ASSUME DeployInv, NEW u \in Runs,
                        task[u] = "applying", ~disturbed[u], settled # None
                 PROVE  etc = form[u] /\ Serves(form[u])
      BY DEF AppliedIsRequested
    <2>1. etc = form[u] /\ untouched
      BY DEF DeployInv, RequestsHold, RequestHolds
    <2>2. etc = settled /\ Serves(settled)
      BY <2>1, SettledServes DEF DeployInv
    <2>3. QED
      BY <2>1, <2>2
  <1>2. QED
    BY <1>1, DeployInvariant, PTL

(* For any of these: after "Save & Reboot" and "Restore Factory Defaults"   *)
(* the saved configuration is in use and served, though nothing runs serial *)
(* at boot - until the next request, and whatever systemd starts again.     *)
THEOREM SavedWorks == DeploySpec => []SavedIsInEffect
  <1>1. DeployInv => SavedIsInEffect
    <2> SUFFICES ASSUME DeployInv, boot \in {"save", "factory"}
                 PROVE  etc = flash /\ Serves(flash)
      BY DEF SavedIsInEffect
    <2>1. etc = flash /\ settled = flash /\ flash # None
      BY MarksAssumption DEF DeployInv, BootHolds, DeployTypes
    <2>2. Serves(settled)
      BY <2>1, SettledServes DEF DeployInv
    <2>3. QED
      BY <2>1, <2>2
  <1>2. QED
    BY <1>1, DeployInvariant, PTL
=============================================================================
