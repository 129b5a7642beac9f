---------------------------- MODULE SerialService ----------------------------
(***************************************************************************)
(* One serial port and the systemd services that serve it.  "serial N"     *)
(* reads the port's entry of /etc/eddy_sio.cfg once and then, one system() *)
(* or fopen() after the other, rewrites what serves the port:              *)
(*   ttyON.conf              the line ser2net runs                         *)
(*   ttyON.service           main:    ser2net                              *)
(*   ttyON_sub.service       sub:     socat, in the client modes           *)
(*   ttyON_get_rxtx.service  rxtx:    serial_get_rxtx, the byte counters   *)
(*   ttyON_monitor.service   monitor: serial_monitor                       *)
(* Each service is stopped, disabled, given a new unit file, enabled and   *)
(* started.  The web server answers requests concurrently, so two runs of  *)
(* serial may overlap; fopen may fail; the power may go at any call.       *)
(***************************************************************************)
EXTENDS Integers, Sequences

CONSTANTS
  Configs,      \* configurations of the port
  ModeOf,       \* [Configs -> Modes]: what its protocol makes serial do
  Runs,         \* slots for the runs of "serial N" in progress
  None,         \* no such file, no such process
  Empty,        \* a unit file without a line in it
  Fixed,        \* the text of a unit file no setting of the port changes
  MaxEdits,     \* bound: changes of the port's entry
  MaxRuns,      \* bound: runs of serial
  MaxFailures,  \* bound: refused fopens
  MaxRespawns,  \* bound: services that ended and were started again
  MaxRestarts   \* bound: reboots and losses of power

(* "client" is TCP or UDP client, "server" the three TCP servers and UDP   *)
(* server, "redirect" COM redirector, "off" the disabled port.             *)
Modes == {"off", "redirect", "server", "client"}
Services == {"main", "sub", "rxtx", "monitor"}

ASSUME ConfigsAssumption == ModeOf \in [Configs -> Modes]
ASSUME MarksAssumption ==
  /\ None \notin Configs /\ Empty \notin Configs /\ Fixed \notin Configs
  /\ None # Empty /\ None # Fixed /\ Empty # Fixed
ASSUME SlotsAssumption == 0 \notin Runs

VARIABLES
  etc,       \* the port's entry of /etc/eddy_sio.cfg
  conf,      \* ttyON.conf
  unit,      \* the unit files
  loaded,    \* the unit files as systemd has read them
  enabled,   \* the services that start at boot
  running,   \* what each running service was started with
  held,      \* the entry each run of serial has read
  pc,        \* the call of its script each run makes next; 0: not running
  alone,     \* history: the run in progress was never beside another one, and
             \* was refused nothing
  settled,   \* history: the entry such a run has applied, the last to end
  untouched, \* history: etc is what the last run read
  spent      \* counters of the bounds

files == <<conf, unit>>
systemd == <<loaded, enabled, running>>
vars == <<etc, files, systemd, held, pc, alone, settled,
          untouched, spent>>
-----------------------------------------------------------------------------
(* The calls serial makes, by the mode it has read.                        *)

Call(o, s) == [op |-> o, svc |-> s]
Apply(s) == << Call("stop", s), Call("disable", s), Call("write", s),
               Call("enable", s), Call("start", s) >>
TurnOff(s) == << Call("stop", s), Call("disable", s) >>
WriteConf == << Call("conf", "main") >>

(* Slip: the pollers are applied in the client modes only.                 *)
ScriptWithoutPollers ==
  [off      |-> TurnOff("rxtx") \o TurnOff("sub") \o TurnOff("main"),
   redirect |-> Apply("main"),
   server   |-> WriteConf \o Apply("main"),
   client   |-> WriteConf \o Apply("main") \o Apply("sub") \o Apply("rxtx")
                  \o Apply("monitor")]

Script ==
  [off      |-> TurnOff("rxtx") \o TurnOff("sub") \o TurnOff("main"),
   redirect |-> Apply("main") \o Apply("rxtx") \o Apply("monitor"),
   server   |-> WriteConf \o Apply("main") \o Apply("rxtx") \o Apply("monitor"),
   client   |-> WriteConf \o Apply("main") \o Apply("sub") \o Apply("rxtx")
                  \o Apply("monitor")]

ScriptOf(r) == Script[ModeOf[held[r]]]
Running(r) == pc[r] > 0 /\ pc[r] <= Len(ScriptOf(r))
Now(r) == ScriptOf(r)[pc[r]]
Calls(r, o) == Running(r) /\ Now(r).op = o
Svc(r) == Now(r).svc

UnitText(s, c) ==
  IF s \in {"rxtx", "monitor"} THEN Fixed
  ELSE IF s = "main" /\ ModeOf[c] = "redirect" THEN Empty
  ELSE c

(* What a service runs with: its unit, and the file it reads when started: *)
(* ser2net reads ttyON.conf, the two pollers the port's entry.             *)
Process(s, u, entry) ==
  [unit |-> u, reads |-> IF s = "main" THEN conf ELSE IF s = "sub" THEN None ELSE entry]
Stopped == [unit |-> None, reads |-> None]
Startable(u) == u \notin {None, Empty}

Spend(b, max) == spent[b] < max /\ spent' = [spent EXCEPT ![b] = @ + 1]
Advance(r) == pc' = [pc EXCEPT ![r] = @ + 1]
-----------------------------------------------------------------------------
(* "def port", the form handler, pinetd after an SNMP set.                 *)
Edit(c) ==
  /\ c # etc
  /\ etc' = c
  /\ untouched' = FALSE
  /\ UNCHANGED <<files, systemd, held, pc, alone, settled>>

EditEntry(c) == Edit(c) /\ Spend("edits", MaxEdits)

(* Slip: the entry is not read.                                            *)
LaunchUnread(r) ==
  /\ pc[r] = 0
  /\ pc' = [pc EXCEPT ![r] = 1]
  /\ alone' = (\A q \in Runs : pc[q] = 0)
  /\ settled' = None
  /\ untouched' = TRUE
  /\ UNCHANGED <<etc, files, systemd, held>>

(* A run starts, and reads the port's entry.  It would return at once if   *)
(* the SYSTEM or the SIO file were missing or had another id: they are     *)
(* there from the boot on, and no program removes them or changes the id.  *)
Launch(r) ==
  /\ pc[r] = 0
  /\ held' = [held EXCEPT ![r] = etc]
  /\ pc' = [pc EXCEPT ![r] = 1]
  /\ alone' = (\A q \in Runs : pc[q] = 0)
  /\ settled' = None
  /\ untouched' = TRUE
  /\ UNCHANGED <<etc, files, systemd>>

LaunchRun(r) == Launch(r) /\ Spend("runs", MaxRuns)

ConfWritten(r) ==
  /\ Calls(r, "conf")
  /\ conf' = held[r]
  /\ Advance(r)
  /\ UNCHANGED <<etc, unit, systemd, held, alone, settled, untouched, spent>>

End(r) ==
  /\ pc' = [pc EXCEPT ![r] = 0]
  /\ held' = [held EXCEPT ![r] = None]

(* fopen of ttyON.conf fails: serial returns -1, nothing else is touched.  *)
ConfRefused(r) ==
  /\ Calls(r, "conf")
  /\ Spend("failures", MaxFailures)
  /\ End(r)
  /\ alone' = FALSE
  /\ UNCHANGED <<etc, files, systemd, settled, untouched>>

Stop(r) ==
  /\ Calls(r, "stop")
  /\ running' = [running EXCEPT ![Svc(r)] = Stopped]
  /\ Advance(r)
  /\ UNCHANGED <<etc, files, loaded, enabled, held, alone, settled, untouched, spent>>

(* systemctl disable and enable make systemd read the unit files again.    *)
Disable(r) ==
  /\ Calls(r, "disable")
  /\ enabled' = enabled \ {Svc(r)}
  /\ loaded' = unit
  /\ Advance(r)
  /\ UNCHANGED <<etc, files, running, held, alone, settled, untouched, spent>>

UnitWritten(r) ==
  /\ Calls(r, "write")
  /\ unit' = [unit EXCEPT ![Svc(r)] = UnitText(Svc(r), held[r])]
  /\ Advance(r)
  /\ UNCHANGED <<etc, conf, systemd, held, alone, settled, untouched, spent>>

(* fopen of the unit file fails: serial says so and goes on.               *)
UnitRefused(r) ==
  /\ Calls(r, "write")
  /\ Spend("failures", MaxFailures)
  /\ alone' = FALSE
  /\ Advance(r)
  /\ UNCHANGED <<etc, files, systemd, held, settled, untouched>>

(* Slip: the service is started but not enabled.                           *)
EnableForgotten(r) ==
  /\ Calls(r, "enable")
  /\ loaded' = unit
  /\ Advance(r)
  /\ UNCHANGED <<etc, files, enabled, running, held, alone, settled, untouched, spent>>

(* A missing unit file cannot be enabled, an empty one has no target.      *)
Enable(r) ==
  /\ Calls(r, "enable")
  /\ enabled' = IF Startable(unit[Svc(r)]) THEN enabled \cup {Svc(r)} ELSE enabled
  /\ loaded' = IF unit[Svc(r)] = None THEN loaded ELSE unit
  /\ Advance(r)
  /\ UNCHANGED <<etc, files, running, held, alone, settled, untouched, spent>>

(* Starting a service that runs does nothing.                              *)
Start(r) ==
  LET s == Svc(r) IN
  /\ Calls(r, "start")
  /\ running' = IF running[s] = Stopped /\ Startable(loaded[s])
                THEN [running EXCEPT ![s] = Process(s, loaded[s], etc)]
                ELSE running
  /\ Advance(r)
  /\ UNCHANGED <<etc, files, loaded, enabled, held, alone, settled, untouched, spent>>

(* The run that was alone, and was refused nothing, has settled the port.  *)
Return(r) ==
  /\ pc[r] > 0 /\ pc[r] > Len(ScriptOf(r))
  /\ settled' = IF alone THEN held[r] ELSE None
  /\ End(r)
  /\ UNCHANGED <<etc, files, systemd, alone, untouched, spent>>

(* Restart=always: socat and the pollers are started again when they end.  *)
Respawn(s) ==
  /\ s # "main"
  /\ running[s] # Stopped
  /\ running' = [running EXCEPT ![s] = Process(s, loaded[s], etc)]
  /\ Spend("respawns", MaxRespawns)
  /\ UNCHANGED <<etc, files, loaded, enabled, held, pc, alone, settled, untouched>>

(* A reboot: systemd starts what is enabled, while pinetd puts the saved   *)
(* entry c in place of the one in use; the pollers may read either.        *)
Reboot(c) ==
  /\ etc' = c
  /\ \E seen \in {etc, c} :
       running' = [s \in Services |->
                     IF s \in enabled /\ Startable(unit[s])
                     THEN Process(s, unit[s], seen) ELSE Stopped]
  /\ loaded' = unit
  /\ held' = [r \in Runs |-> None]
  /\ pc' = [r \in Runs |-> 0]
  /\ alone' = FALSE
  /\ untouched' = FALSE
  /\ UNCHANGED <<files, enabled, settled>>

Restart == Spend("restarts", MaxRestarts) /\ \E c \in Configs : Reboot(c)
-----------------------------------------------------------------------------
Init ==
  /\ etc \in Configs
  /\ conf = None
  /\ unit = [s \in Services |-> None]
  /\ loaded = unit
  /\ enabled = {}
  /\ running = [s \in Services |-> Stopped]
  /\ held = [r \in Runs |-> None]
  /\ pc = [r \in Runs |-> 0]
  /\ alone = FALSE
  /\ settled = None
  /\ untouched = FALSE
  /\ spent = [edits |-> 0, runs |-> 0, failures |-> 0, respawns |-> 0, restarts |-> 0]

Step(r) ==
  \/ ConfWritten(r) \/ ConfRefused(r) \/ Stop(r) \/ Disable(r) \/ UnitWritten(r)
  \/ UnitRefused(r) \/ Enable(r) \/ Start(r) \/ Return(r)

Next ==
  \/ \E c \in Configs : EditEntry(c)
  \/ \E r \in Runs : LaunchRun(r) \/ Step(r)
  \/ \E s \in Services : Respawn(s)
  \/ Restart

Spec == Init /\ [][Next]_vars
-----------------------------------------------------------------------------
UnitFile == Configs \cup {None, Empty, Fixed}
Processes == [unit : UnitFile, reads : Configs \cup {None}]

TypeOK ==
  /\ etc \in Configs
  /\ conf \in Configs \cup {None}
  /\ unit \in [Services -> UnitFile]
  /\ loaded \in [Services -> UnitFile]
  /\ enabled \subseteq Services
  /\ running \in [Services -> Processes]
  /\ held \in [Runs -> Configs \cup {None}]
  /\ pc \in [Runs -> 0 .. 22]
  /\ \A r \in Runs : held[r] = None <=> pc[r] = 0
  /\ alone \in BOOLEAN /\ untouched \in BOOLEAN
  /\ settled \in Configs \cup {None}

(* The services are those of entry c.  Only a client mode has a sub        *)
(* service; disabling a port leaves its monitor alone.                     *)
Serves(c) ==
  /\ ModeOf[c] \in {"server", "client"} => running["main"] = [unit |-> c, reads |-> c]
  /\ ModeOf[c] = "client" => running["sub"] = [unit |-> c, reads |-> None]
  /\ ModeOf[c] \in {"off", "redirect"} => running["main"] = Stopped
  /\ ModeOf[c] = "off" => running["sub"] = Stopped /\ running["rxtx"] = Stopped

(* Once a run of serial that no other run overlapped and no fopen failed   *)
(* has ended, the port is served as the entry it read says - whatever      *)
(* earlier runs that were overlapped, refused a file or cut off have left  *)
(* behind, and through every reboot that follows.                          *)
SettledPort == settled # None => Serves(settled)

(* As long as the entry such a run read is the one in use, the pollers look *)
(* for ser2net where it is: they read the entry themselves, when they start *)
(* and whenever systemd starts them again.                                 *)
PollersFollow ==
  (settled # None /\ untouched /\ ModeOf[settled] # "off") =>
    \A s \in {"rxtx", "monitor"} : running[s].reads = settled
=============================================================================
