----------------------------- MODULE ConfigStore -----------------------------
(***************************************************************************)
(* The two copies of the device configuration and every program that       *)
(* reads or writes them:                                                   *)
(*   flash - /etc/.eddy_{system,sio,snmp,gpio,dio,wifi}.cfg, the saved copy*)
(*   etc   - /etc/eddy_{system,sio,snmp,gpio,dio,wifi}.cfg, the copy in use*)
(* eddy decides at power-on whether to run "def factory", pinetd copies    *)
(* flash to etc and later merges settings made through SNMP, the def       *)
(* command and the setagent.cgi handlers edit etc, and "def save" copies   *)
(* etc to flash.  There is no lock: a program reads a whole file into its  *)
(* memory, changes some fields and writes the whole file back, and other   *)
(* programs may run between any two of its system calls.                   *)
(*                                                                         *)
(* A program is a sequence of SB_ReadConfig / SB_WriteConfig calls; each   *)
(* call is one step.  A reboot or a loss of power may come between any two.*)
(***************************************************************************)
EXTENDS Integers, Sequences

CONSTANTS
  Items,        \* the configuration items told apart
  FileOf,       \* [Items -> Files]: the file an item is a field of
  Kept,         \* items of SYSTEM factory_default leaves as etc has them
  Mac,          \* those of them that are the identity of the device
  Lines,        \* items of SIO the SNMP agent sets: dps, speed, flow
  Settings,     \* values a user may give an item
  SnmpOn,       \* the settings of an SNMP item whose enable flag is on
  Edits,        \* changes a form or a command line may ask for: functions
                \* from a set of items to Settings
  Default,      \* the value factory_default assigns
  Zero,         \* the value of memory no read has filled
  Absent,       \* "value" of an item whose file does not exist
  Users,        \* slots for the commands and CGI requests running at once
  Boot,         \* the chain eddy, def factory, pinetd started at power-on
  MaxCommands,  \* bound: commands started
  MaxCrashes    \* bound: reboots and losses of power

Files == {"SYSTEM", "SIO", "SNMP", "GPIO", "DIO", "WIFI"}
Copies == {"etc", "flash"}
InFile(f) == {i \in Items : FileOf[i] = f}
Value == Settings \cup {Default, Zero}

ASSUME ItemsAssumption ==
  /\ FileOf \in [Items -> Files]
  /\ Kept \subseteq InFile("SYSTEM")
  /\ Mac \subseteq Kept
  /\ Lines \subseteq InFile("SIO")
  /\ InFile("SYSTEM") # {}
ASSUME ValuesAssumption ==
  /\ Default \notin Settings /\ Zero \notin Settings /\ Absent \notin Settings
  /\ Default # Zero /\ Default # Absent /\ Zero # Absent
ASSUME EditsAssumption ==
  /\ \A e \in Edits : DOMAIN e \subseteq Items /\ \A i \in DOMAIN e : e[i] \in Settings
  /\ SnmpOn \subseteq Settings
ASSUME ActorsAssumption == Boot \notin Users
ASSUME BoundsAssumption == MaxCommands \in Nat /\ MaxCrashes \in Nat

VARIABLES
  flash, etc,  \* the two copies, item by item
  phase,       \* where the boot chain is: "eddy", "factory", "pinetd", "up"
  cmd,         \* the program each actor runs
  pc,          \* the call of it the actor makes next
  mem,         \* the configuration structures in each actor's memory
  edit,        \* the change each actor was asked to make
  ssm,         \* the line settings in the memory shared with the SNMP agent
  overtaken,   \* history: <<a, c, f>> if another actor wrote file f of copy c
               \* after a last read or wrote it
  torn,        \* history: the first factory_default was cut off half-way
  commands, crashes

vars == <<flash, etc, phase, cmd, pc, mem, edit, ssm, overtaken, torn,
          commands, crashes>>

Actors == Users \cup {Boot}
-----------------------------------------------------------------------------
(* The programs.                                                           *)

Rd(c, f) == [do |-> "read", copy |-> c, file |-> f]
Wr(c, f) == [do |-> "write", copy |-> c, file |-> f]

(* Slip: "def save" stores a structure it has not read.                     *)
SaveUnread ==
  << Rd("etc", "SYSTEM"), Wr("flash", "SYSTEM"),
     Rd("etc", "SIO"),    Wr("flash", "SIO"),
     Wr("flash", "SNMP"), Rd("etc", "SNMP") >>

SaveProgram ==
  << Rd("etc", "SYSTEM"), Wr("flash", "SYSTEM"),
     Rd("etc", "SIO"),    Wr("flash", "SIO"),
     Rd("etc", "SNMP"),   Wr("flash", "SNMP"),
     Rd("etc", "GPIO"),   Wr("flash", "GPIO"),
     Rd("etc", "DIO"),    Wr("flash", "DIO"),
     Rd("etc", "WIFI"),   Wr("flash", "WIFI") >>

(* Slip: factory_default leaves the saved SNMP file out.                    *)
FactoryWithoutSnmp ==
  << Rd("etc", "SYSTEM"),
     Wr("flash", "SYSTEM"), Wr("etc", "SYSTEM"),
     Wr("flash", "SIO"),    Wr("etc", "SIO"),
     Wr("flash", "GPIO"),   Wr("etc", "GPIO"),
     Wr("flash", "DIO"),    Wr("etc", "DIO"),
     Wr("etc", "SNMP"),
     Wr("flash", "WIFI"),   Wr("etc", "WIFI") >>

FactoryProgram ==
  << Rd("etc", "SYSTEM"),
     Wr("flash", "SYSTEM"), Wr("etc", "SYSTEM"),
     Wr("flash", "SIO"),    Wr("etc", "SIO"),
     Wr("flash", "GPIO"),   Wr("etc", "GPIO"),
     Wr("flash", "DIO"),    Wr("etc", "DIO"),
     Wr("flash", "SNMP"),   Wr("etc", "SNMP"),
     Wr("flash", "WIFI"),   Wr("etc", "WIFI") >>

PinetdProgram ==
  << Rd("flash", "SYSTEM"), Rd("flash", "SIO"), Rd("flash", "SNMP"),
     Rd("flash", "GPIO"),   Rd("flash", "DIO"), Rd("flash", "WIFI"),
     Wr("etc", "SYSTEM"),   Wr("etc", "SIO"),   Wr("etc", "SNMP"),
     Wr("etc", "GPIO"),     Wr("etc", "DIO"),   Wr("etc", "WIFI") >>

(* Slip: a program writes a file it has not read.                           *)
WanUnread ==
  << Rd("etc", "SYSTEM"), Wr("etc", "SYSTEM"), Wr("etc", "SNMP") >>

(* "def <field> <value>" rewrites the SYSTEM and the SNMP file whichever of *)
(* them holds the field.                                                    *)
WanProgram ==
  << Rd("etc", "SYSTEM"), Rd("etc", "SNMP"),
     Wr("etc", "SYSTEM"), Wr("etc", "SNMP") >>

RewriteProgram(f) == << Rd("etc", f), Wr("etc", f) >>

Commands == {"save", "factory", "pinetd", "wan"} \cup Files

Program ==
  [c \in Commands |->
     CASE c = "save"    -> SaveProgram
       [] c = "factory" -> FactoryProgram
       [] c = "pinetd"  -> PinetdProgram
       [] c = "wan"     -> WanProgram
       [] OTHER         -> RewriteProgram(c)]

Idle == "idle"
NoEdit == [i \in {} |-> Default]
Blank == [i \in Items |-> Zero]

Running(a) == cmd[a] # Idle /\ pc[a] <= Len(Program[cmd[a]])
Finished(a) == cmd[a] # Idle /\ pc[a] = Len(Program[cmd[a]]) + 1
Call(a) == Program[cmd[a]][pc[a]]
-----------------------------------------------------------------------------
(* SB_ReadConfig and SB_WriteConfig.                                       *)

Stored(c) == IF c = "etc" THEN etc ELSE flash

Overlay(copy, f, image) ==
  [i \in Items |-> IF FileOf[i] = f THEN image[i] ELSE copy[i]]

(* Slip: the result of open is not looked at.                              *)
LoadedUnchecked(image, copy, f) ==
  [i \in Items |-> IF FileOf[i] = f THEN copy[i] ELSE image[i]]

(* A file that cannot be opened leaves the destination as it was.          *)
Loaded(image, copy, f) ==
  [i \in Items |-> IF FileOf[i] = f /\ copy[i] # Absent THEN copy[i] ELSE image[i]]

(* Slip: factory_default does not carry the MAC address over.              *)
FactoryWipes(i, v) == Default

FactorySetting(i, v) ==
  IF i \in Kept /\ v # Zero THEN v ELSE Default

(* What an actor writes: its memory image after the change it makes to it. *)
Outgoing(a) ==
  [i \in Items |->
     IF cmd[a] = "factory" THEN FactorySetting(i, mem[a][i])
     ELSE IF i \in DOMAIN edit[a] THEN edit[a][i] ELSE mem[a][i]]

HasUsed(a, c, f) ==
  /\ cmd[a] # Idle
  /\ \E k \in 1 .. pc[a] - 1 : /\ Program[cmd[a]][k].copy = c
                              /\ Program[cmd[a]][k].file = f

OthersOvertaken(a, c, f) ==
  (overtaken \ {<<a, c, f>>})
     \cup {<<b, c, f>> : b \in {d \in Actors \ {a} : HasUsed(d, c, f)}}

ReadConfig(a) ==
  LET c == Call(a).copy
      f == Call(a).file
  IN /\ Running(a)
     /\ Call(a).do = "read"
     /\ mem' = [mem EXCEPT ![a] = Loaded(@, Stored(c), f)]
     /\ pc' = [pc EXCEPT ![a] = @ + 1]
     /\ overtaken' = overtaken \ {<<a, c, f>>}
     /\ UNCHANGED <<flash, etc, phase, cmd, edit, ssm, torn, commands, crashes>>

WriteConfig(a) ==
  LET c == Call(a).copy
      f == Call(a).file
  IN /\ Running(a)
     /\ Call(a).do = "write"
     /\ etc' = IF c = "etc" THEN Overlay(etc, f, Outgoing(a)) ELSE etc
     /\ flash' = IF c = "flash" THEN Overlay(flash, f, Outgoing(a)) ELSE flash
     /\ pc' = [pc EXCEPT ![a] = @ + 1]
     /\ overtaken' = OthersOvertaken(a, c, f)
     /\ UNCHANGED <<phase, cmd, mem, edit, ssm, torn, commands, crashes>>
-----------------------------------------------------------------------------
(* Commands and CGI requests.                                              *)

Launch(u, c, e) ==
  /\ phase = "up"
  /\ cmd[u] = Idle
  /\ commands < MaxCommands
  /\ commands' = commands + 1
  /\ cmd' = [cmd EXCEPT ![u] = c]
  /\ edit' = [edit EXCEPT ![u] = e]
  /\ UNCHANGED <<flash, etc, phase, pc, mem, ssm, overtaken, torn, crashes>>

EditsOf(fs) == {e \in Edits : \A i \in DOMAIN e : FileOf[i] \in fs}

DefSave(u) == Launch(u, "save", NoEdit)
DefFactory(u) == Launch(u, "factory", NoEdit)
DefWan(u) == \E e \in EditsOf({"SYSTEM", "SNMP"}) : Launch(u, "wan", e)
DefPort(u) == \E e \in EditsOf({"SIO"}) : Launch(u, "SIO", e)
DefWifi(u) == \E e \in EditsOf({"WIFI"}) : Launch(u, "WIFI", e)

SetNetwork(u) == \E e \in EditsOf({"SYSTEM"}) : Launch(u, "SYSTEM", e)
SetPassword(u) == \E e \in EditsOf({"SYSTEM"}) : Launch(u, "SYSTEM", e)
SetSnmp(u) == \E e \in EditsOf({"SNMP"}) : Launch(u, "SNMP", e)
SetSerial(u) == \E e \in EditsOf({"SIO"}) : Launch(u, "SIO", e)
SetWireless(u) == \E e \in EditsOf({"WIFI"}) : Launch(u, "WIFI", e)
SetGpio(u) == \E e \in EditsOf({"GPIO"}) : Launch(u, "GPIO", e)
SetDio(u) == \E e \in EditsOf({"DIO"}) : Launch(u, "DIO", e)
(* "Save & Reboot" and "Restore Factory Defaults" run def and wait for it. *)
SetReboot(u) == DefSave(u)
SetFactory(u) == DefFactory(u)

End(u) ==
  /\ cmd' = [cmd EXCEPT ![u] = Idle]
  /\ pc' = [pc EXCEPT ![u] = 1]
  /\ mem' = [mem EXCEPT ![u] = Blank]
  /\ edit' = [edit EXCEPT ![u] = NoEdit]
  /\ overtaken' = {o \in overtaken : o[1] # u}
  /\ UNCHANGED <<flash, etc, phase, ssm, torn, commands, crashes>>

Exit(u) == Finished(u) /\ End(u)

(* A value the command or the form handler does not accept: it returns     *)
(* after its reads and before its first write.                             *)
Reject(u) ==
  /\ Running(u)
  /\ cmd[u] \notin {"save", "factory"}
  /\ Call(u).do = "write"
  /\ \A k \in 1 .. pc[u] - 1 : Program[cmd[u]][k].do = "read"
  /\ End(u)
-----------------------------------------------------------------------------
(* Power-on: eddy, def factory if it has to, pinetd.                       *)

(* Slip: eddy does not look at the result of SB_ReadConfig.                *)
FlashSystemUnchecked == \A i \in InFile("SYSTEM") : flash[i] # Zero

FlashSystemValid == \A i \in InFile("SYSTEM") : flash[i] \notin {Absent, Zero}

StartBoot(c) ==
  /\ cmd' = [cmd EXCEPT ![Boot] = c]
  /\ pc' = [pc EXCEPT ![Boot] = 1]
  /\ mem' = [mem EXCEPT ![Boot] = Blank]
  /\ overtaken' = {o \in overtaken : o[1] # Boot}
  /\ UNCHANGED <<flash, etc, edit, torn, commands, crashes>>

EddyChecks ==
  /\ phase = "eddy"
  /\ phase' = IF FlashSystemValid THEN "pinetd" ELSE "factory"
  /\ StartBoot(phase')
  /\ UNCHANGED ssm

EddyResumes ==
  /\ phase = "factory"
  /\ Finished(Boot)
  /\ phase' = "pinetd"
  /\ StartBoot("pinetd")
  /\ UNCHANGED ssm

SnmpdRuns == phase = "up" /\ \E i \in InFile("SNMP") : mem[Boot][i] \in SnmpOn

(* SNMP_INIT fills the shared memory and pinetd enters its main loop.      *)
PinetdUp ==
  /\ phase = "pinetd"
  /\ Finished(Boot)
  /\ phase' = "up"
  /\ ssm' = [i \in Lines |-> mem[Boot][i]]
  /\ UNCHANGED <<flash, etc, cmd, pc, mem, edit, overtaken, torn, commands, crashes>>

(* The SNMP agent: a manager sets a line parameter.                        *)
SnmpSet(i, v) ==
  /\ SnmpdRuns
  /\ ssm' = [ssm EXCEPT ![i] = v]
  /\ UNCHANGED <<flash, etc, phase, cmd, pc, mem, edit, overtaken, torn,
                 commands, crashes>>

(* pinetd finds line settings that differ from the copy it made at boot,   *)
(* takes them over and writes that copy of all ports to etc.               *)
SnmpSync ==
  /\ SnmpdRuns
  /\ \E i \in Lines : ssm[i] # mem[Boot][i]
  /\ mem' = [mem EXCEPT ![Boot] =
               [i \in Items |-> IF i \in Lines THEN ssm[i] ELSE @[i]]]
  /\ etc' = Overlay(etc, "SIO", mem'[Boot])
  /\ overtaken' = OthersOvertaken(Boot, "etc", "SIO")
  /\ UNCHANGED <<flash, phase, cmd, pc, edit, ssm, torn, commands, crashes>>

FlashComplete == \A i \in Items : flash[i] # Absent

(* /sbin/reboot, the reset button, or a loss of power: every process ends, *)
(* the files stay as they are.                                             *)
Restart ==
  /\ crashes < MaxCrashes
  /\ crashes' = crashes + 1
  /\ phase' = "eddy"
  /\ cmd' = [a \in Actors |-> Idle]
  /\ pc' = [a \in Actors |-> 1]
  /\ mem' = [a \in Actors |-> Blank]
  /\ edit' = [a \in Actors |-> NoEdit]
  /\ ssm' = [i \in Lines |-> Zero]
  /\ overtaken' = {}
  /\ torn' = (torn \/ (FlashSystemValid /\ ~FlashComplete))
  /\ UNCHANGED <<flash, etc, commands>>
-----------------------------------------------------------------------------
Init ==
  /\ flash = [i \in Items |-> Absent]
  /\ etc = [i \in Items |-> Absent]
  /\ phase = "eddy"
  /\ cmd = [a \in Actors |-> Idle]
  /\ pc = [a \in Actors |-> 1]
  /\ mem = [a \in Actors |-> Blank]
  /\ edit = [a \in Actors |-> NoEdit]
  /\ ssm = [i \in Lines |-> Zero]
  /\ overtaken = {}
  /\ torn = FALSE
  /\ commands = 0
  /\ crashes = 0

Request(u) ==
  \/ DefSave(u) \/ DefFactory(u) \/ DefWan(u) \/ DefPort(u) \/ DefWifi(u)
  \/ SetNetwork(u) \/ SetPassword(u) \/ SetSnmp(u) \/ SetSerial(u)
  \/ SetWireless(u) \/ SetGpio(u) \/ SetDio(u) \/ SetReboot(u) \/ SetFactory(u)

Next ==
  \/ \E a \in Actors : ReadConfig(a) \/ WriteConfig(a)
  \/ \E u \in Users : Request(u) \/ Exit(u) \/ Reject(u)
  \/ EddyChecks \/ EddyResumes \/ PinetdUp
  \/ \E i \in Lines, v \in Settings : SnmpSet(i, v)
  \/ SnmpSync
  \/ Restart

Spec == Init /\ [][Next]_vars
-----------------------------------------------------------------------------
(* Types: above all, no program ever holds the "value" of a missing file.  *)
TypeOK ==
  /\ flash \in [Items -> Value \cup {Absent}]
  /\ etc \in [Items -> Value \cup {Absent}]
  /\ phase \in {"eddy", "factory", "pinetd", "up"}
  /\ cmd \in [Actors -> Commands \cup {Idle}]
  /\ pc \in [Actors -> 1 .. 14]
  /\ mem \in [Actors -> [Items -> Value]]
  /\ edit \in [Actors -> Edits \cup {NoEdit}]
  /\ ssm \in [Lines -> Value]
  /\ overtaken \subseteq Actors \X Copies \X Files
  /\ torn \in BOOLEAN
  /\ commands \in 0 .. MaxCommands
  /\ crashes \in 0 .. MaxCrashes

(* Zeroed structures reach a configuration file only if the factory_default *)
(* that first filled flash was cut off after it had written the SYSTEM file *)
(* (eddy then finds the device id and does not run it again); otherwise, as *)
(* long as the device is up, every file in use exists and holds settings    *)
(* somebody chose or the factory ones.                                      *)
ConfigNeverBlank ==
  ~torn => /\ \A i \in Items : flash[i] # Zero /\ etc[i] # Zero
           /\ phase = "up" => \A i \in Items : etc[i] # Absent

(* The inductive form of ConfigNeverBlank.                                 *)

(* The boot chain runs alone, one program after the other.                 *)
BootChain ==
  /\ phase = "eddy" => cmd[Boot] = Idle
  /\ phase = "factory" => cmd[Boot] = "factory"
  /\ phase \in {"pinetd", "up"} => cmd[Boot] = "pinetd"
  /\ phase = "up" => Finished(Boot)
  /\ \A u \in Users : cmd[u] # "pinetd" /\ (phase # "up" => cmd[u] = Idle)
  /\ \A a \in Actors : cmd[a] = Idle \/ Running(a) \/ Finished(a)
  /\ \A a \in Actors : cmd[a] = Idle => pc[a] = 1

Exists(c, f) == \A i \in InFile(f) : Stored(c)[i] # Absent

(* A file a running program has written exists from then on.               *)
WrittenExists ==
  \A a \in Actors : cmd[a] # Idle =>
    \A k \in 1 .. pc[a] - 1 : Program[cmd[a]][k].do = "write" =>
      Exists(Program[cmd[a]][k].copy, Program[cmd[a]][k].file)

HasRead(a, f) ==
  \E k \in 1 .. pc[a] - 1 : /\ Program[cmd[a]][k].do = "read"
                           /\ Program[cmd[a]][k].file = f

NothingBlank ==
  /\ \A i \in Items : flash[i] # Zero /\ etc[i] # Zero
  /\ phase = "eddy" /\ FlashSystemValid => FlashComplete
  /\ phase \in {"pinetd", "up"} => FlashComplete
  /\ phase = "up" => \A i \in Items : etc[i] # Absent
  /\ phase = "up" => \A i \in Lines : ssm[i] # Zero
  /\ \A a \in Actors : cmd[a] \notin {Idle, "factory"} =>
       \A i \in Items : HasRead(a, FileOf[i]) => mem[a][i] # Zero

NeverBlankInv == BootChain /\ WrittenExists /\ (~torn => NothingBlank)

(* When "def save" ends, a file nobody else wrote since it was copied is    *)
(* the same in flash as in etc: no file is forgotten, none is taken from    *)
(* the wrong place.                                                         *)
SaveIsComplete ==
  \A u \in Users : \A i \in Items :
    (/\ cmd[u] = "save"
     /\ Finished(u)
     /\ \A c \in Copies : <<u, c, FileOf[i]>> \notin overtaken)
      => flash[i] = etc[i]

(* Which actor takes a step once the device is up.                         *)
StepOf(a) == pc'[a] = pc[a] + 1 \/ (a = Boot /\ mem'[Boot] # mem[Boot])

(* An operator's program has written over what another program wrote to the *)
(* file after it had read it itself: the two ran at the same time.          *)
OverlapReverts(u, i) == <<u, "etc", FileOf[i]>> \in overtaken

(* pinetd has written back a file others have written since pinetd copied   *)
(* it at power-on or wrote it last; they may have ended long ago.           *)
BootCopyReverts(i) == <<Boot, "etc", FileOf[i]>> \in overtaken

(* Only a stale image reverts a setting.  The commands and web pages of the *)
(* operators change an item they were not asked to change only if another   *)
(* program wrote its file between their read and their write: one after the *)
(* other they undo nothing of each other.  pinetd is the exception that     *)
(* needs no overlap: after an SNMP set it writes the copy of all ports it   *)
(* made at power-on, and so undoes what the pages and def have changed in   *)
(* the file since.  Besides that it changes what the SNMP manager has set   *)
(* and nothing else.                                                        *)
OnlyStaleImagesRevert ==
  [][\A a \in Actors, i \in Items :
       (phase = "up" /\ StepOf(a) /\ cmd[a] # "factory" /\ etc'[i] # etc[i])
       => IF a = Boot
          THEN \/ i \in Lines /\ ssm[i] # mem[Boot][i]
               \/ BootCopyReverts(i)
          ELSE \/ i \in DOMAIN edit[a]
               \/ OverlapReverts(a, i)]_vars

(* With one operator and no SNMP agent, the programs implement the running  *)
(* and the saved configuration of ConfigAbs: one file-sized edit, commit,   *)
(* reset or restore at a time, whatever is cut off in between.              *)
Abs == INSTANCE ConfigAbs WITH running <- etc, saved <- flash
ImplementsConfigAbs == Abs!Spec
=============================================================================
