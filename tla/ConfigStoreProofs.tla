-------------------------- MODULE ConfigStoreProofs --------------------------
(* What ConfigStore guarantees for any number of operators, items and      *)
(* values, proved with TLAPS.                                              *)
EXTENDS ConfigStore, TLAPS

Op == [do : {"read", "write"}, copy : Copies, file : Files]

(* The table of programs, row by row.                                      *)
LEMMA ProgramTable ==
  /\ Program["save"] = SaveProgram
  /\ Program["factory"] = FactoryProgram
  /\ Program["pinetd"] = PinetdProgram
  /\ Program["wan"] = WanProgram
  /\ \A f \in Files : Program[f] = RewriteProgram(f)
  <1>1. /\ Program["save"] = SaveProgram
        /\ Program["factory"] = FactoryProgram
    BY DEF Program, Commands
  <1>2. /\ Program["pinetd"] = PinetdProgram
        /\ Program["wan"] = WanProgram
    BY DEF Program, Commands
  <1>3. ASSUME NEW f \in Files
        PROVE  Program[f] = RewriteProgram(f)
    <2>1. f \notin {"save", "factory", "pinetd", "wan"}
      BY DEF Files
    <2>2. f \in Commands
      BY DEF Commands
    <2>3. QED
      BY <2>1, <2>2 DEF Program
  <1>4. QED
    BY <1>1, <1>2, <1>3

(* The two kinds of call.                                                  *)
LEMMA CallTypes ==
  ASSUME NEW f \in Files, NEW c \in Copies
  PROVE  Rd(c, f) \in Op /\ Wr(c, f) \in Op
  BY DEF Op, Rd, Wr

(* The programs are short sequences of calls.                              *)
LEMMA ProgramType ==
  ASSUME NEW c \in Commands
  PROVE  /\ Program[c] \in Seq(Op)
         /\ Len(Program[c]) \in 1 .. 13
  <1>1. CASE c = "save"
    <2>1. SaveProgram \in Seq(Op) /\ Len(SaveProgram) = 12
      BY CallTypes DEF SaveProgram, Files, Copies
    <2>2. QED
      BY <1>1, <2>1, ProgramTable
  <1>2. CASE c = "factory"
    <2>1. FactoryProgram \in Seq(Op) /\ Len(FactoryProgram) = 13
      BY CallTypes DEF FactoryProgram, Files, Copies
    <2>2. QED
      BY <1>2, <2>1, ProgramTable
  <1>3. CASE c = "pinetd"
    <2>1. PinetdProgram \in Seq(Op) /\ Len(PinetdProgram) = 12
      BY CallTypes DEF PinetdProgram, Files, Copies
    <2>2. QED
      BY <1>3, <2>1, ProgramTable
  <1>4. CASE c = "wan"
    <2>1. WanProgram \in Seq(Op) /\ Len(WanProgram) = 4
      BY CallTypes DEF WanProgram, Files, Copies
    <2>2. QED
      BY <1>4, <2>1, ProgramTable
  <1>5. CASE c \in Files
    <2>1. RewriteProgram(c) \in Seq(Op) /\ Len(RewriteProgram(c)) = 2
      BY <1>5, CallTypes DEF RewriteProgram, Copies
    <2>2. QED
      BY <1>5, <2>1, ProgramTable
  <1>6. QED
    BY <1>1, <1>2, <1>3, <1>4, <1>5 DEF Commands

(* Every program makes a call.                                             *)
LEMMA ProgramNotEmpty ==
  ASSUME NEW c \in Commands
  PROVE  1 <= Len(Program[c]) /\ c # Idle
  <1>1. Len(Program[c]) \in 1 .. 13
    BY ProgramType
  <1>2. 1 <= Len(Program[c])
    <2>1. \A n \in 1 .. 13 : 1 <= n
      OBVIOUS
    <2>2. QED
      BY <1>1, <2>1
  <1>3. c # Idle
    BY DEF Commands, Files, Idle
  <1>4. QED
    BY <1>2, <1>3

(* Every program but factory_default reads a file before it writes it.     *)
LEMMA ReadBeforeWrite ==
  ASSUME NEW c \in Commands \ {"factory"},
         NEW k \in 1 .. Len(Program[c]), Program[c][k].do = "write"
  PROVE  \E j \in 1 .. k - 1 : /\ Program[c][j].do = "read"
                               /\ Program[c][j].file = Program[c][k].file
  <1>1. CASE c = "save"
    <2>1. \A n \in 1 .. 12 : SaveProgram[n].do = "write" =>
            /\ n - 1 \in 1 .. n - 1
            /\ SaveProgram[n - 1].do = "read"
            /\ SaveProgram[n - 1].file = SaveProgram[n].file
      BY DEF SaveProgram, Rd, Wr
    <2>2. Program[c] = SaveProgram /\ Len(SaveProgram) = 12
      BY <1>1, ProgramTable DEF SaveProgram
    <2>3. QED
      BY <2>1, <2>2
  <1>3. CASE c = "pinetd"
    <2>1. \A n \in 1 .. 12 : PinetdProgram[n].do = "write" =>
            /\ n - 6 \in 1 .. n - 1
            /\ PinetdProgram[n - 6].do = "read"
            /\ PinetdProgram[n - 6].file = PinetdProgram[n].file
      BY DEF PinetdProgram, Rd, Wr
    <2>2. Program[c] = PinetdProgram /\ Len(PinetdProgram) = 12
      BY <1>3, ProgramTable DEF PinetdProgram
    <2>3. QED
      BY <2>1, <2>2
  <1>4. CASE c = "wan"
    <2>1. \A n \in 1 .. 4 : WanProgram[n].do = "write" =>
            /\ n - 2 \in 1 .. n - 1
            /\ WanProgram[n - 2].do = "read"
            /\ WanProgram[n - 2].file = WanProgram[n].file
      BY DEF WanProgram, Rd, Wr
    <2>2. Program[c] = WanProgram /\ Len(WanProgram) = 4
      BY <1>4, ProgramTable DEF WanProgram
    <2>3. QED
      BY <2>1, <2>2
  <1>5. CASE c \in Files
    <2>1. \A n \in 1 .. 2 : RewriteProgram(c)[n].do = "write" =>
            /\ n - 1 \in 1 .. n - 1
            /\ RewriteProgram(c)[n - 1].do = "read"
            /\ RewriteProgram(c)[n - 1].file = RewriteProgram(c)[n].file
      BY DEF RewriteProgram, Rd, Wr
    <2>2. Program[c] = RewriteProgram(c) /\ Len(RewriteProgram(c)) = 2
      BY <1>5, ProgramTable DEF RewriteProgram
    <2>3. QED
      BY <2>1, <2>2
  <1>6. QED
    BY <1>1, <1>3, <1>4, <1>5 DEF Commands
-----------------------------------------------------------------------------
(* Type correctness.                                                       *)

(* The next call of a running program.                                     *)
LEMMA CallType ==
  ASSUME TypeOK, NEW a \in Actors, Running(a)
  PROVE  /\ cmd[a] \in Commands
         /\ Call(a).copy \in Copies
         /\ Call(a).file \in Files
         /\ Call(a).do \in {"read", "write"}
         /\ pc[a] \in 1 .. Len(Program[cmd[a]])
         /\ pc[a] + 1 \in 1 .. 14
  <1>1. cmd[a] \in Commands /\ pc[a] \in 1 .. 14
    BY DEF TypeOK, Running
  <1>2. Program[cmd[a]] \in Seq(Op) /\ Len(Program[cmd[a]]) \in 1 .. 13
    BY <1>1, ProgramType
  <1>3. pc[a] \in 1 .. Len(Program[cmd[a]])
    BY <1>1, <1>2 DEF Running
  <1>4. Program[cmd[a]][pc[a]] \in Op
    BY <1>2, <1>3
  <1>5. /\ Call(a).copy \in Copies
        /\ Call(a).file \in Files
        /\ Call(a).do \in {"read", "write"}
    BY <1>4 DEF Call, Op
  <1>6. pc[a] + 1 \in 1 .. 14
    <2>1. \A n \in 1 .. 13 : \A p \in 1 .. n : p + 1 \in 1 .. 14
      OBVIOUS
    <2>2. QED
      BY <1>2, <1>3, <2>1
  <1>7. cmd[a] \in Commands
    BY <1>1
  <1>8. QED
    BY <1>3, <1>5, <1>6, <1>7

(* What a program reads, holds and writes out.                             *)
LEMMA ImageTypes ==
  ASSUME TypeOK, NEW a \in Actors
  PROVE  /\ Outgoing(a) \in [Items -> Value]
         /\ \A c \in Copies, f \in Files : Loaded(mem[a], Stored(c), f) \in [Items -> Value]
         /\ \A f \in Files : Overlay(etc, f, Outgoing(a)) \in [Items -> Value \cup {Absent}]
         /\ \A f \in Files : Overlay(flash, f, Outgoing(a)) \in [Items -> Value \cup {Absent}]
  <1>1. mem[a] \in [Items -> Value] /\ edit[a] \in Edits \cup {NoEdit}
    BY DEF TypeOK
  <1>2. \A i \in Items : i \in DOMAIN edit[a] => edit[a][i] \in Value
    BY <1>1, EditsAssumption DEF NoEdit, Value
  <1>3. Outgoing(a) \in [Items -> Value]
    BY <1>1, <1>2 DEF Outgoing, FactorySetting, Value
  <1>4. \A c \in Copies : Stored(c) \in [Items -> Value \cup {Absent}]
    BY DEF TypeOK, Stored
  <1>5. ASSUME NEW c \in Copies, NEW f \in Files
        PROVE  Loaded(mem[a], Stored(c), f) \in [Items -> Value]
    BY <1>1, <1>4 DEF Loaded
  <1>6. QED
    BY <1>3, <1>5 DEF Overlay, TypeOK

(* The device before its first boot, without any file.                     *)
LEMMA InitTypeOK == Init => TypeOK
  <1> SUFFICES ASSUME Init PROVE TypeOK
    OBVIOUS
  <1>1. /\ flash \in [Items -> Value \cup {Absent}]
        /\ etc \in [Items -> Value \cup {Absent}]
        /\ ssm \in [Lines -> Value]
    BY DEF Init, Value
  <1>2. mem \in [Actors -> [Items -> Value]]
    BY DEF Init, Blank, Value
  <1>3. cmd \in [Actors -> Commands \cup {Idle}] /\ pc \in [Actors -> 1 .. 14]
    BY DEF Init
  <1>4. edit \in [Actors -> Edits \cup {NoEdit}]
    BY DEF Init
  <1>5. commands \in 0 .. MaxCommands /\ crashes \in 0 .. MaxCrashes
    BY BoundsAssumption DEF Init
  <1>6. QED
    BY <1>1, <1>2, <1>3, <1>4, <1>5 DEF Init, TypeOK

(* SB_ReadConfig puts no mark of a missing file into memory.               *)
LEMMA ReadTypeOK ==
  ASSUME TypeOK, NEW a \in Actors, ReadConfig(a)
  PROVE  TypeOK'
  <1>1. Running(a)
    BY DEF ReadConfig
  <1>2. mem' \in [Actors -> [Items -> Value]]
    BY <1>1, CallType, ImageTypes DEF TypeOK, ReadConfig
  <1>3. pc' \in [Actors -> 1 .. 14]
    BY <1>1, CallType DEF TypeOK, ReadConfig
  <1>4. QED
    BY <1>2, <1>3 DEF TypeOK, ReadConfig

(* SB_WriteConfig puts none into a copy.                                   *)
LEMMA WriteTypeOK ==
  ASSUME TypeOK, NEW a \in Actors, WriteConfig(a)
  PROVE  TypeOK'
  <1>1. Running(a)
    BY DEF WriteConfig
  <1>2. /\ etc' \in [Items -> Value \cup {Absent}]
        /\ flash' \in [Items -> Value \cup {Absent}]
    BY <1>1, CallType, ImageTypes DEF TypeOK, WriteConfig
  <1>3. pc' \in [Actors -> 1 .. 14]
    BY <1>1, CallType DEF TypeOK, WriteConfig
  <1>4. overtaken' \subseteq Actors \X Copies \X Files
    BY <1>1, CallType DEF TypeOK, WriteConfig, OthersOvertaken
  <1>5. QED
    BY <1>2, <1>3, <1>4 DEF TypeOK, WriteConfig

(* A request starts a program with its memory zeroed.                      *)
LEMMA LaunchTypeOK ==
  ASSUME TypeOK, NEW u \in Users, Request(u)
  PROVE  TypeOK'
  <1>1. ASSUME NEW c \in Commands, NEW e \in Edits \cup {NoEdit}, Launch(u, c, e)
        PROVE  TypeOK'
    BY <1>1, BoundsAssumption DEF TypeOK, Launch, Actors
  <1>2. \E c \in Commands, e \in Edits \cup {NoEdit} : Launch(u, c, e)
    BY DEF Request, DefSave, DefFactory, DefWan, DefPort, DefWifi, SetNetwork,
           SetPassword, SetSnmp, SetSerial, SetWireless, SetGpio, SetDio,
           SetReboot, SetFactory, EditsOf, Commands, Files
  <1>3. QED
    BY <1>1, <1>2

(* A program ends.                                                         *)
LEMMA EndTypeOK ==
  ASSUME TypeOK, NEW u \in Users, End(u)
  PROVE  TypeOK'
  BY DEF TypeOK, End, Actors, Blank, Value, Idle

(* The boot chain goes on.                                                 *)
LEMMA BootTypeOK ==
  ASSUME TypeOK, EddyChecks \/ EddyResumes \/ PinetdUp
  PROVE  TypeOK'
  <1>1. ASSUME NEW c \in {"factory", "pinetd"}, phase' = c, ssm' = ssm, StartBoot(c)
        PROVE  TypeOK'
    BY <1>1 DEF TypeOK, StartBoot, Actors, Commands, Blank, Value
  <1>2. CASE EddyChecks
    BY <1>1, <1>2 DEF EddyChecks
  <1>3. CASE EddyResumes
    BY <1>1, <1>3 DEF EddyResumes
  <1>4. CASE PinetdUp
    <2>1. ssm' \in [Lines -> Value]
      BY <1>4, ItemsAssumption DEF TypeOK, PinetdUp, InFile, Actors
    <2>2. QED
      BY <1>4, <2>1 DEF TypeOK, PinetdUp
  <1>5. QED
    BY <1>2, <1>3, <1>4

(* An SNMP set, and pinetd taking it over.                                 *)
LEMMA SnmpTypeOK ==
  ASSUME TypeOK, SnmpSync \/ \E i \in Lines, v \in Settings : SnmpSet(i, v)
  PROVE  TypeOK'
  <1>1. CASE SnmpSync
    <2>1. mem' \in [Actors -> [Items -> Value]]
      BY <1>1 DEF TypeOK, SnmpSync, Actors
    <2>2. etc' \in [Items -> Value \cup {Absent}]
      BY <1>1, <2>1 DEF TypeOK, SnmpSync, Overlay, Actors
    <2>3. overtaken' \subseteq Actors \X Copies \X Files
      BY <1>1 DEF TypeOK, SnmpSync, OthersOvertaken, Copies, Files
    <2>4. QED
      BY <1>1, <2>1, <2>2, <2>3 DEF TypeOK, SnmpSync
  <1>2. CASE \E i \in Lines, v \in Settings : SnmpSet(i, v)
    BY <1>2 DEF TypeOK, SnmpSet, Value
  <1>3. QED
    BY <1>1, <1>2

(* The power goes.                                                         *)
LEMMA RestartTypeOK ==
  ASSUME TypeOK, Restart
  PROVE  TypeOK'
  BY BoundsAssumption DEF TypeOK, Restart, Blank, Value, Idle

(* Every reachable state has the types of TypeOK: no program ever carries  *)
(* the "value" of a missing file into its memory or into the other copy.   *)
THEOREM TypeCorrect == Spec => []TypeOK
  <1>1. TypeOK /\ [Next]_vars => TypeOK'
    <2> SUFFICES ASSUME TypeOK, [Next]_vars
                 PROVE  TypeOK'
      OBVIOUS
    <2>1. CASE \E a \in Actors : ReadConfig(a) \/ WriteConfig(a)
      BY <2>1, ReadTypeOK, WriteTypeOK
    <2>2. CASE \E u \in Users : Request(u) \/ Exit(u) \/ Reject(u)
      BY <2>2, LaunchTypeOK, EndTypeOK DEF Exit, Reject
    <2>3. CASE EddyChecks \/ EddyResumes \/ PinetdUp
      BY <2>3, BootTypeOK
    <2>4. CASE SnmpSync \/ \E i \in Lines, v \in Settings : SnmpSet(i, v)
      BY <2>4, SnmpTypeOK
    <2>5. CASE Restart
      BY <2>5, RestartTypeOK
    <2>6. CASE UNCHANGED vars
      BY <2>6 DEF vars, TypeOK
    <2>7. QED
      BY <2>1, <2>2, <2>3, <2>4, <2>5, <2>6 DEF Next
  <1>2. QED
    BY InitTypeOK, <1>1, PTL DEF Spec
-----------------------------------------------------------------------------
(* Blank settings.  Four facts about the programs: pinetd reads every file *)
(* from flash and writes every file to etc, def factory writes every file  *)
(* to flash.                                                               *)

(* pinetd reads every file of flash and nothing else.                      *)
LEMMA PinetdReads ==
  /\ Len(PinetdProgram) = 12
  /\ \A k \in 1 .. 12 : PinetdProgram[k].do = "read" => PinetdProgram[k].copy = "flash"
  /\ \A f \in Files : \E k \in 1 .. 12 :
       PinetdProgram[k].do = "read" /\ PinetdProgram[k].file = f
  <1>1. Len(PinetdProgram) = 12
    BY DEF PinetdProgram
  <1>2. \A k \in 1 .. 12 : PinetdProgram[k].do = "read" => PinetdProgram[k].copy = "flash"
    BY DEF PinetdProgram, Rd, Wr
  <1>3. /\ PinetdProgram[1].do = "read" /\ PinetdProgram[1].file = "SYSTEM"
        /\ PinetdProgram[2].do = "read" /\ PinetdProgram[2].file = "SIO"
        /\ PinetdProgram[3].do = "read" /\ PinetdProgram[3].file = "SNMP"
        /\ PinetdProgram[4].do = "read" /\ PinetdProgram[4].file = "GPIO"
        /\ PinetdProgram[5].do = "read" /\ PinetdProgram[5].file = "DIO"
        /\ PinetdProgram[6].do = "read" /\ PinetdProgram[6].file = "WIFI"
    BY DEF PinetdProgram, Rd
  <1>4. 1 \in 1..12 /\ 2 \in 1..12 /\ 3 \in 1..12 /\ 4 \in 1..12 /\ 5 \in 1..12 /\ 6 \in 1..12
    OBVIOUS
  <1>5. ASSUME NEW f \in Files
        PROVE  \E k \in 1 .. 12 : PinetdProgram[k].do = "read" /\ PinetdProgram[k].file = f
    BY <1>3, <1>4 DEF Files
  <1>6. QED
    BY <1>1, <1>2, <1>5

(* pinetd writes every file of etc.                                        *)
LEMMA PinetdWrites ==
  ASSUME NEW f \in Files
  PROVE  \E k \in 1 .. 12 : PinetdProgram[k] = Wr("etc", f)
  <1>1. /\ PinetdProgram[7] = Wr("etc", "SYSTEM") /\ PinetdProgram[8] = Wr("etc", "SIO")
        /\ PinetdProgram[9] = Wr("etc", "SNMP")   /\ PinetdProgram[10] = Wr("etc", "GPIO")
        /\ PinetdProgram[11] = Wr("etc", "DIO")   /\ PinetdProgram[12] = Wr("etc", "WIFI")
    BY DEF PinetdProgram
  <1>2. 7 \in 1..12 /\ 8 \in 1..12 /\ 9 \in 1..12 /\ 10 \in 1..12 /\ 11 \in 1..12 /\ 12 \in 1..12
    OBVIOUS
  <1>3. QED
    BY <1>1, <1>2 DEF Files

(* factory_default writes every file of flash.                             *)
LEMMA FactoryWrites ==
  /\ Len(FactoryProgram) = 13
  /\ \A f \in Files : \E k \in 1 .. 13 : FactoryProgram[k] = Wr("flash", f)
  <1>1. Len(FactoryProgram) = 13
    BY DEF FactoryProgram
  <1>2. /\ FactoryProgram[2] = Wr("flash", "SYSTEM") /\ FactoryProgram[4] = Wr("flash", "SIO")
        /\ FactoryProgram[6] = Wr("flash", "GPIO")   /\ FactoryProgram[8] = Wr("flash", "DIO")
        /\ FactoryProgram[10] = Wr("flash", "SNMP")  /\ FactoryProgram[12] = Wr("flash", "WIFI")
    BY DEF FactoryProgram
  <1>3. 2 \in 1..13 /\ 4 \in 1..13 /\ 6 \in 1..13 /\ 8 \in 1..13 /\ 10 \in 1..13 /\ 12 \in 1..13
    OBVIOUS
  <1>4. ASSUME NEW f \in Files
        PROVE  \E k \in 1 .. 13 : FactoryProgram[k] = Wr("flash", f)
    BY <1>2, <1>3 DEF Files
  <1>5. QED
    BY <1>1, <1>4

(* A finished pinetd holds every file, and has made every copy.            *)
LEMMA PinetdFinished ==
  ASSUME TypeOK, WrittenExists, cmd[Boot] = "pinetd", Finished(Boot)
  PROVE  /\ \A i \in Items : HasRead(Boot, FileOf[i])
         /\ \A i \in Items : etc[i] # Absent
  <1>1. Program["pinetd"] = PinetdProgram /\ pc[Boot] - 1 = 12
    BY ProgramTable, PinetdReads DEF Finished
  <1>2. \A i \in Items : FileOf[i] \in Files
    BY ItemsAssumption
  <1>3. ASSUME NEW i \in Items
        PROVE  HasRead(Boot, FileOf[i])
    <2>1. PICK k \in 1 .. 12 :
            PinetdProgram[k].do = "read" /\ PinetdProgram[k].file = FileOf[i]
      BY <1>2, PinetdReads
    <2>2. k \in 1 .. pc[Boot] - 1 /\ Program[cmd[Boot]][k] = PinetdProgram[k]
      BY <1>1
    <2>3. QED
      BY <2>1, <2>2 DEF HasRead
  <1>4. ASSUME NEW i \in Items
        PROVE  etc[i] # Absent
    <2>1. PICK k \in 1 .. 12 : PinetdProgram[k] = Wr("etc", FileOf[i])
      BY <1>2, PinetdWrites
    <2>2. i \in InFile(FileOf[i]) /\ Boot \in Actors /\ cmd[Boot] # Idle
      BY DEF InFile, Actors, Idle
    <2>3. Exists("etc", FileOf[i])
      BY <1>1, <2>1, <2>2 DEF WrittenExists, Wr
    <2>4. QED
      BY <2>2, <2>3 DEF Exists, Stored
  <1>5. QED
    BY <1>3, <1>4

(* Once factory_default is through, flash is complete.                     *)
LEMMA FactoryFinished ==
  ASSUME TypeOK, WrittenExists, cmd[Boot] = "factory", Finished(Boot)
  PROVE  FlashComplete
  <1>1. Program["factory"] = FactoryProgram /\ pc[Boot] - 1 = 13
    BY ProgramTable, FactoryWrites DEF Finished
  <1>2. ASSUME NEW i \in Items
        PROVE  flash[i] # Absent
    <2>1. PICK k \in 1 .. 13 : FactoryProgram[k] = Wr("flash", FileOf[i])
      BY ItemsAssumption, FactoryWrites
    <2>2. i \in InFile(FileOf[i]) /\ Boot \in Actors /\ cmd[Boot] # Idle
      BY DEF InFile, Actors, Idle
    <2>3. Exists("flash", FileOf[i])
      BY <1>1, <2>1, <2>2 DEF WrittenExists, Wr
    <2>4. QED
      BY <2>2, <2>3 DEF Exists, Stored
  <1>3. QED
    BY <1>2 DEF FlashComplete

(* Only a booting device, or one that is up, runs programs.                *)
LEMMA RunsWhen ==
  ASSUME TypeOK, BootChain, NEW a \in Actors, Running(a)
  PROVE  \/ phase = "factory" /\ a = Boot /\ cmd[a] = "factory"
         \/ phase = "pinetd" /\ a = Boot /\ cmd[a] = "pinetd"
         \/ phase = "up" /\ a \in Users /\ cmd[a] # "pinetd"
  <1>1. phase \in {"eddy", "factory", "pinetd", "up"} /\ cmd[a] # Idle
    BY DEF TypeOK, Running
  <1>2. CASE a = Boot
    BY <1>1, <1>2 DEF BootChain, Running, Finished
  <1>3. CASE a \in Users
    BY <1>1, <1>3 DEF BootChain
  <1>4. QED
    BY <1>2, <1>3 DEF Actors

(* Facts about a call made by a running program.                           *)
LEMMA PcStep ==
  ASSUME TypeOK, NEW a \in Actors, Running(a),
         pc' = [pc EXCEPT ![a] = @ + 1], cmd' = cmd
  PROVE  /\ Running(a)' \/ Finished(a)'
         /\ pc'[a] - 1 = pc[a] /\ pc[a] \in 1 .. pc'[a] - 1
         /\ 1 .. pc'[a] - 1 = (1 .. pc[a] - 1) \cup {pc[a]}
  <1>1. Len(Program[cmd[a]]) \in 1 .. 13 /\ pc[a] \in 1 .. Len(Program[cmd[a]])
    BY CallType, ProgramType
  <1>2. pc'[a] = pc[a] + 1
    BY DEF TypeOK
  <1>3. pc[a] + 1 <= Len(Program[cmd[a]]) \/ pc[a] + 1 = Len(Program[cmd[a]]) + 1
    BY <1>1
  <1>4. Running(a)' \/ Finished(a)'
    BY <1>2, <1>3 DEF Running, Finished
  <1>5. \A n \in 1 .. 13 : \A p \in 1 .. n :
          p \in 1 .. p + 1 - 1 /\ p + 1 - 1 = p
          /\ 1 .. p + 1 - 1 = (1 .. p - 1) \cup {p}
    OBVIOUS
  <1>6. QED
    BY <1>1, <1>2, <1>4, <1>5

(* A call does not end the boot chain.                                     *)
LEMMA BootChainCall ==
  ASSUME TypeOK, BootChain, NEW a \in Actors, ReadConfig(a) \/ WriteConfig(a)
  PROVE  BootChain'
  <1>1. /\ Running(a) /\ cmd' = cmd /\ phase' = phase
        /\ pc' = [pc EXCEPT ![a] = @ + 1]
    BY DEF ReadConfig, WriteConfig
  <1>2. Running(a)' \/ Finished(a)'
    BY <1>1, PcStep
  <1>3. phase = "up" => a # Boot
    BY <1>1, RunsWhen, ActorsAssumption
  <1>4. \A b \in Actors : b # a => pc'[b] = pc[b]
    BY <1>1 DEF TypeOK
  <1>5. phase = "up" => Finished(Boot)'
    BY <1>1, <1>3, <1>4 DEF BootChain, Finished, Actors
  <1>6. \A b \in Actors : cmd'[b] = Idle \/ Running(b)' \/ Finished(b)'
    BY <1>1, <1>2, <1>4 DEF BootChain, Running, Finished
  <1>7. \A b \in Actors : cmd'[b] = Idle => pc'[b] = 1
    BY <1>1, <1>4 DEF BootChain, Running
  <1>8. QED
    BY <1>1, <1>5, <1>6, <1>7 DEF BootChain

(* A read removes no file.                                                 *)
LEMMA ReadWrittenExists ==
  ASSUME TypeOK, WrittenExists, NEW a \in Actors, ReadConfig(a)
  PROVE  WrittenExists'
  <1>1. cmd' = cmd /\ etc' = etc /\ flash' = flash
    BY DEF ReadConfig
  <1>2. ASSUME NEW b \in Actors, cmd[b] # Idle, NEW k \in 1 .. pc'[b] - 1,
               Program[cmd[b]][k].do = "write"
        PROVE  Exists(Program[cmd[b]][k].copy, Program[cmd[b]][k].file)
    <2>1. CASE b = a
      <3>1. 1 .. pc'[a] - 1 = (1 .. pc[a] - 1) \cup {pc[a]}
        BY PcStep DEF ReadConfig
      <3>2. k # pc[a]
        BY <1>2, <2>1 DEF ReadConfig, Call
      <3>3. QED
        BY <1>2, <2>1, <3>1, <3>2 DEF WrittenExists
    <2>2. CASE b # a
      <3>1. pc'[b] = pc[b]
        BY <2>2 DEF ReadConfig, TypeOK
      <3>2. QED
        BY <1>2, <3>1 DEF WrittenExists
    <2>3. QED
      BY <2>1, <2>2
  <1>3. \A c, f : Exists(c, f)' <=> Exists(c, f)
    BY <1>1 DEF Exists, Stored
  <1>4. QED
    BY <1>1, <1>2, <1>3 DEF WrittenExists

(* A write fills the file it writes, and no write deletes anything.        *)
LEMMA WriteFills ==
  ASSUME TypeOK, NEW a \in Actors, WriteConfig(a)
  PROVE  /\ \A i \in Items : etc[i] # Absent => etc'[i] # Absent
         /\ \A i \in Items : flash[i] # Absent => flash'[i] # Absent
         /\ \A c, f : Exists(c, f) => Exists(c, f)'
         /\ \A c, f : c = Call(a).copy /\ f = Call(a).file => Exists(c, f)'
  <1>1. Running(a) /\ Call(a).copy \in Copies
    BY CallType DEF WriteConfig
  <1>2. \A i \in Items : Outgoing(a)[i] # Absent
    BY ImageTypes, ValuesAssumption DEF Value
  <1>3. \A i \in Items : etc[i] # Absent => etc'[i] # Absent
    BY <1>2 DEF WriteConfig, Overlay
  <1>4. \A i \in Items : flash[i] # Absent => flash'[i] # Absent
    BY <1>2 DEF WriteConfig, Overlay
  <1>5. \A c, f : Exists(c, f) => Exists(c, f)'
    BY <1>3, <1>4 DEF Exists, Stored, InFile
  <1>6. ASSUME NEW c, NEW f, c = Call(a).copy, f = Call(a).file
        PROVE  Exists(c, f)'
    <2>1. CASE c = "etc"
      BY <1>2, <1>6, <2>1 DEF WriteConfig, Overlay, InFile, Exists, Stored
    <2>2. CASE c = "flash"
      BY <1>2, <1>6, <2>2 DEF WriteConfig, Overlay, InFile, Exists, Stored
    <2>3. QED
      BY <1>1, <1>6, <2>1, <2>2 DEF Copies
  <1>7. QED
    BY <1>3, <1>4, <1>5, <1>6

(* A write makes the file it is for.                                       *)
LEMMA WriteWrittenExists ==
  ASSUME TypeOK, WrittenExists, NEW a \in Actors, WriteConfig(a)
  PROVE  WrittenExists'
  <1>1. cmd' = cmd
    BY DEF WriteConfig
  <1>2. ASSUME NEW b \in Actors, cmd[b] # Idle, NEW k \in 1 .. pc'[b] - 1,
               Program[cmd[b]][k].do = "write",
               NEW c, NEW f, c = Program[cmd[b]][k].copy, f = Program[cmd[b]][k].file
        PROVE  Exists(c, f)'
    <2>1. CASE b = a /\ k = pc[a]
      BY <1>2, <2>1, WriteFills DEF Call
    <2>2. CASE b = a /\ k # pc[a]
      <3>1. 1 .. pc'[a] - 1 = (1 .. pc[a] - 1) \cup {pc[a]}
        BY PcStep DEF WriteConfig
      <3>2. Exists(c, f)
        BY <1>2, <2>2, <3>1 DEF WrittenExists
      <3>3. QED
        BY <3>2, WriteFills
    <2>3. CASE b # a
      <3>1. pc'[b] = pc[b]
        BY <2>3 DEF WriteConfig, TypeOK
      <3>2. Exists(c, f)
        BY <1>2, <3>1 DEF WrittenExists
      <3>3. QED
        BY <3>2, WriteFills
    <2>4. QED
      BY <2>1, <2>2, <2>3
  <1>3. QED
    BY <1>1, <1>2 DEF WrittenExists

(* What a program holds after a read, and what it writes, is never zero.   *)
LEMMA ReadNothingBlank ==
  ASSUME TypeOK, BootChain, NothingBlank, NEW a \in Actors, ReadConfig(a)
  PROVE  NothingBlank'
  <1>1. /\ Running(a) /\ cmd' = cmd /\ phase' = phase
        /\ etc' = etc /\ flash' = flash /\ ssm' = ssm
    BY DEF ReadConfig
  <1>2. ASSUME NEW b \in Actors, cmd[b] \notin {Idle, "factory"}, NEW i \in Items,
               HasRead(b, FileOf[i])'
        PROVE  mem'[b][i] # Zero
    <2>1. CASE b # a
      <3>1. mem'[b] = mem[b] /\ pc'[b] = pc[b]
        BY <2>1 DEF ReadConfig, TypeOK
      <3>2. HasRead(b, FileOf[i])
        BY <1>1, <1>2, <3>1 DEF HasRead
      <3>3. QED
        BY <1>2, <3>1, <3>2 DEF NothingBlank
    <2>2. CASE b = a
      <3>1. mem'[a] = Loaded(mem[a], Stored(Call(a).copy), Call(a).file)
        BY DEF ReadConfig, TypeOK
      <3>2. CASE FileOf[i] # Call(a).file
        <4>1. 1 .. pc'[a] - 1 = (1 .. pc[a] - 1) \cup {pc[a]}
          BY PcStep DEF ReadConfig
        <4>2. HasRead(a, FileOf[i])
          BY <1>1, <1>2, <2>2, <3>2, <4>1 DEF HasRead, Call
        <4>3. mem'[a][i] = mem[a][i]
          BY <3>1, <3>2 DEF Loaded
        <4>4. QED
          BY <1>2, <2>2, <4>2, <4>3 DEF NothingBlank
      <3>3. CASE FileOf[i] = Call(a).file
        <4>1. Stored(Call(a).copy)[i] # Absent
          <5>1. CASE phase = "pinetd" /\ cmd[a] = "pinetd"
            <6>1. Program[cmd[a]] = PinetdProgram
              BY <5>1, ProgramTable
            <6>2. pc[a] \in 1 .. 12
              BY <1>1, <6>1, CallType, PinetdReads
            <6>3. Call(a).do = "read" /\ Call(a) = PinetdProgram[pc[a]]
              BY <6>1 DEF Call, ReadConfig
            <6>4. Call(a).copy = "flash"
              BY <6>2, <6>3, PinetdReads
            <6>5. QED
              BY <5>1, <6>4 DEF NothingBlank, FlashComplete, Stored
          <5>2. CASE phase = "up"
            BY <5>2 DEF NothingBlank, FlashComplete, Stored
          <5>3. QED
            BY <1>1, <1>2, <2>2, <5>1, <5>2, RunsWhen
        <4>2. mem'[a][i] = Stored(Call(a).copy)[i]
          BY <3>1, <3>3, <4>1 DEF Loaded
        <4>3. QED
          BY <2>2, <4>2 DEF NothingBlank, Stored
      <3>4. QED
        BY <3>2, <3>3
    <2>3. QED
      BY <2>1, <2>2
  <1>3. QED
    BY <1>1, <1>2 DEF NothingBlank, FlashSystemValid, FlashComplete

(* A running program has nothing blank to write.                           *)
LEMMA OutgoingNotZero ==
  ASSUME TypeOK, NothingBlank, NEW a \in Actors, Running(a), Call(a).do = "write",
         NEW i \in InFile(Call(a).file)
  PROVE  Outgoing(a)[i] # Zero
  <1>1. i \in Items /\ FileOf[i] = Call(a).file
    BY DEF InFile
  <1>2. CASE cmd[a] = "factory"
    BY <1>1, <1>2, ValuesAssumption DEF Outgoing, FactorySetting
  <1>3. CASE cmd[a] # "factory" /\ i \in DOMAIN edit[a]
    <2>1. edit[a] \in Edits
      BY <1>3 DEF TypeOK, NoEdit
    <2>2. QED
      BY <1>1, <1>3, <2>1, EditsAssumption, ValuesAssumption DEF Outgoing
  <1>4. CASE cmd[a] # "factory" /\ i \notin DOMAIN edit[a]
    <2>1. cmd[a] \in Commands \ {"factory"} /\ pc[a] \in 1 .. Len(Program[cmd[a]])
      BY <1>4, CallType
    <2>2. HasRead(a, FileOf[i])
      BY <1>1, <2>1, ReadBeforeWrite DEF HasRead, Call
    <2>3. mem[a][i] # Zero
      BY <1>1, <1>4, <2>2 DEF NothingBlank, Running
    <2>4. QED
      BY <1>1, <1>4, <2>3 DEF Outgoing
  <1>5. QED
    BY <1>2, <1>3, <1>4

(* So no write stores anything blank.                                      *)
LEMMA WriteNothingBlank ==
  ASSUME TypeOK, BootChain, NothingBlank, NEW a \in Actors, WriteConfig(a)
  PROVE  NothingBlank'
  <1>1. /\ Running(a) /\ cmd' = cmd /\ phase' = phase /\ mem' = mem /\ ssm' = ssm
        /\ Call(a).do = "write"
    BY DEF WriteConfig
  <1>2. phase # "eddy"
    BY <1>1, RunsWhen
  <1>3. \A i \in Items : flash'[i] # Zero /\ etc'[i] # Zero
    BY <1>1, OutgoingNotZero DEF WriteConfig, Overlay, InFile, NothingBlank
  <1>4. /\ FlashComplete => FlashComplete'
        /\ (\A i \in Items : etc[i] # Absent) => (\A i \in Items : etc'[i] # Absent)
    BY WriteFills DEF FlashComplete
  <1>5. ASSUME NEW b \in Actors, cmd[b] \notin {Idle, "factory"}, NEW i \in Items,
               HasRead(b, FileOf[i])'
        PROVE  mem[b][i] # Zero
    <2>1. HasRead(b, FileOf[i])
      <3>1. CASE b # a
        <4>1. pc'[b] = pc[b]
          BY <3>1 DEF WriteConfig, TypeOK
        <4>2. QED
          BY <1>1, <1>5, <4>1 DEF HasRead
      <3>2. CASE b = a
        <4>1. 1 .. pc'[a] - 1 = (1 .. pc[a] - 1) \cup {pc[a]}
          BY PcStep DEF WriteConfig
        <4>2. QED
          BY <1>1, <1>5, <3>2, <4>1 DEF HasRead, Call
      <3>3. QED
        BY <3>1, <3>2
    <2>2. QED
      BY <1>5, <2>1 DEF NothingBlank
  <1>6. QED
    BY <1>1, <1>2, <1>3, <1>4, <1>5 DEF NothingBlank

(* The other steps write no file.                                          *)
LEMMA InitNeverBlank == Init => NeverBlankInv
  <1> SUFFICES ASSUME Init PROVE NeverBlankInv
    OBVIOUS
  <1>1. BootChain
    BY DEF Init, BootChain, Actors, Idle
  <1>2. WrittenExists
    BY DEF Init, WrittenExists
  <1>3. ~FlashSystemValid
    BY ItemsAssumption DEF Init, FlashSystemValid, InFile
  <1>4. NothingBlank
    BY <1>3, ValuesAssumption DEF Init, NothingBlank
  <1>5. QED
    BY <1>1, <1>2, <1>4 DEF NeverBlankInv

(* A program that starts has written nothing yet.                          *)
LEMMA LaunchNeverBlank ==
  ASSUME TypeOK, NeverBlankInv, NEW u \in Users, Request(u)
  PROVE  NeverBlankInv'
  <1>1. PICK c \in Commands \ {"pinetd"}, e \in Edits \cup {NoEdit} : Launch(u, c, e)
    BY DEF Request, DefSave, DefFactory, DefWan, DefPort, DefWifi, SetNetwork,
           SetPassword, SetSnmp, SetSerial, SetWireless, SetGpio, SetDio,
           SetReboot, SetFactory, EditsOf, Commands, Files
  <1>2. /\ phase = "up" /\ cmd[u] = Idle /\ cmd' = [cmd EXCEPT ![u] = c]
        /\ phase' = phase /\ pc' = pc /\ etc' = etc /\ flash' = flash
        /\ mem' = mem /\ ssm' = ssm /\ torn' = torn
    BY <1>1 DEF Launch
  <1>3. cmd'[u] = c /\ pc'[u] = 1 /\ \A b \in Actors : b # u => cmd'[b] = cmd[b]
    BY <1>2 DEF TypeOK, NeverBlankInv, BootChain, Actors
  <1>4. BootChain'
    <2>1. cmd'[Boot] = cmd[Boot]
      BY <1>3, ActorsAssumption DEF Actors
    <2>2. 1 <= Len(Program[c]) /\ c # Idle
      BY ProgramNotEmpty
    <2>3. Running(u)'
      <3>1. cmd'[u] # Idle /\ pc'[u] <= Len(Program[cmd'[u]])
        BY <1>3, <2>2
      <3>2. QED
        BY <3>1 DEF Running
    <2>4. \A a \in Actors : cmd'[a] = Idle \/ Running(a)' \/ Finished(a)'
      BY <1>2, <1>3, <2>3 DEF NeverBlankInv, BootChain, Running, Finished
    <2>5. \A a \in Actors : cmd'[a] = Idle => pc'[a] = 1
      BY <1>2, <1>3 DEF NeverBlankInv, BootChain
    <2>6. \A v \in Users : cmd'[v] # "pinetd"
      BY <1>2, <1>3 DEF NeverBlankInv, BootChain, Actors
    <2>7. Finished(Boot)'
      BY <1>2, <2>1 DEF NeverBlankInv, BootChain, Finished
    <2>8. QED
      BY <1>2, <2>1, <2>4, <2>5, <2>6, <2>7 DEF NeverBlankInv, BootChain
  <1>5. WrittenExists'
    <2>1. \A d, f : Exists(d, f)' <=> Exists(d, f)
      BY <1>2 DEF Exists, Stored
    <2>2. 1 .. pc'[u] - 1 = {}
      BY <1>3
    <2>3. QED
      BY <1>2, <1>3, <2>1, <2>2 DEF NeverBlankInv, WrittenExists
  <1>6. ASSUME ~torn'
        PROVE  NothingBlank'
    <2>1. NothingBlank
      BY <1>2, <1>6 DEF NeverBlankInv
    <2>2. 1 .. pc'[u] - 1 = {}
      BY <1>3
    <2>3. ASSUME NEW b \in Actors, cmd'[b] \notin {Idle, "factory"}, NEW i \in Items,
                 HasRead(b, FileOf[i])'
          PROVE  mem'[b][i] # Zero
      <3>1. b # u
        BY <2>2, <2>3 DEF HasRead
      <3>2. HasRead(b, FileOf[i])
        BY <1>2, <1>3, <2>3, <3>1 DEF HasRead
      <3>3. QED
        BY <1>2, <1>3, <2>1, <2>3, <3>1, <3>2 DEF NothingBlank
    <2>4. QED
      BY <1>2, <2>1, <2>3 DEF NothingBlank, FlashComplete
  <1>7. QED
    BY <1>4, <1>5, <1>6 DEF NeverBlankInv

(* A program that ends leaves the files alone.                             *)
LEMMA EndNeverBlank ==
  ASSUME TypeOK, NeverBlankInv, NEW u \in Users, End(u)
  PROVE  NeverBlankInv'
  <1>1. /\ cmd'[u] = Idle /\ pc'[u] = 1
        /\ \A b \in Actors : b # u => cmd'[b] = cmd[b] /\ pc'[b] = pc[b] /\ mem'[b] = mem[b]
        /\ phase' = phase /\ etc' = etc /\ flash' = flash /\ ssm' = ssm /\ torn' = torn
    BY DEF End, TypeOK, Actors
  <1>2. u # Boot
    BY ActorsAssumption
  <1>3. BootChain'
    BY <1>1, <1>2 DEF NeverBlankInv, BootChain, Running, Finished, Actors, Idle
  <1>4. WrittenExists'
    <2>1. \A d, f : Exists(d, f)' <=> Exists(d, f)
      BY <1>1 DEF Exists, Stored
    <2>2. QED
      BY <1>1, <2>1 DEF NeverBlankInv, WrittenExists
  <1>5. ASSUME ~torn'
        PROVE  NothingBlank'
    <2>1. NothingBlank
      BY <1>1, <1>5 DEF NeverBlankInv
    <2>2. ASSUME NEW b \in Actors, cmd'[b] \notin {Idle, "factory"}, NEW i \in Items,
                 HasRead(b, FileOf[i])'
          PROVE  mem'[b][i] # Zero
      <3>1. b # u
        BY <1>1, <2>2
      <3>2. HasRead(b, FileOf[i])
        BY <1>1, <2>2, <3>1 DEF HasRead
      <3>3. QED
        BY <1>1, <2>1, <2>2, <3>1, <3>2 DEF NothingBlank
    <2>3. QED
      BY <1>1, <2>1, <2>2 DEF NothingBlank, FlashSystemValid, FlashComplete
  <1>6. QED
    BY <1>3, <1>4, <1>5 DEF NeverBlankInv


(* The boot chain starts its next program.                                 *)
LEMMA StartBootNeverBlank ==
  ASSUME TypeOK, BootChain, WrittenExists, phase # "up",
         NEW c \in {"factory", "pinetd"}, phase' = c, StartBoot(c)
  PROVE  /\ BootChain'
         /\ WrittenExists'
         /\ NothingBlank /\ (c = "pinetd" => FlashComplete) => NothingBlank'
  <1>1. /\ cmd'[Boot] = c /\ pc'[Boot] = 1
        /\ \A b \in Actors : b # Boot => cmd'[b] = cmd[b] /\ pc'[b] = pc[b]
        /\ \A b \in Users : cmd'[b] = Idle /\ pc'[b] = 1
        /\ etc' = etc /\ flash' = flash
    BY ActorsAssumption DEF StartBoot, TypeOK, Actors, BootChain
  <1>2. 1 <= Len(Program[c]) /\ c # Idle
    <2>1. c \in Commands
      BY DEF Commands
    <2>2. QED
      BY <2>1, ProgramNotEmpty
  <1>3. Running(Boot)'
    <2>1. cmd'[Boot] # Idle /\ pc'[Boot] <= Len(Program[cmd'[Boot]])
      BY <1>1, <1>2
    <2>2. QED
      BY <2>1 DEF Running
  <1>4. BootChain'
    BY <1>1, <1>2, <1>3 DEF BootChain, Actors, Idle
  <1>5. WrittenExists'
    <2>1. \A b \in Actors : cmd'[b] # Idle => pc'[b] = 1
      BY <1>1 DEF Actors
    <2>2. QED
      BY <2>1 DEF WrittenExists
  <1>6. ASSUME NothingBlank, c = "pinetd" => FlashComplete
        PROVE  NothingBlank'
    <2>1. FlashComplete' <=> FlashComplete
      BY <1>1 DEF FlashComplete
    <2>2. ASSUME NEW b \in Actors, cmd'[b] # Idle, NEW i \in Items, HasRead(b, FileOf[i])'
          PROVE  FALSE
      <3>1. pc'[b] = 1
        BY <1>1, <2>2 DEF Actors
      <3>2. QED
        BY <2>2, <3>1 DEF HasRead
    <2>3. QED
      BY <1>1, <1>6, <2>1, <2>2 DEF NothingBlank
  <1>7. QED
    BY <1>4, <1>5, <1>6

(* eddy looks at the SYSTEM file; pinetd comes up.                         *)
LEMMA BootNeverBlank ==
  ASSUME TypeOK, NeverBlankInv, EddyChecks \/ EddyResumes \/ PinetdUp
  PROVE  NeverBlankInv'
  <1>1. CASE EddyChecks
    <2>1. /\ phase' \in {"factory", "pinetd"} /\ StartBoot(phase') /\ phase = "eddy"
          /\ phase' = "pinetd" => FlashSystemValid
          /\ torn' = torn
      BY <1>1 DEF EddyChecks, StartBoot
    <2>2. ~torn => NothingBlank /\ (phase' = "pinetd" => FlashComplete)
      BY <2>1 DEF NeverBlankInv, NothingBlank
    <2>3. QED
      BY <2>1, <2>2, StartBootNeverBlank DEF NeverBlankInv
  <1>2. CASE EddyResumes
    <2>1. /\ phase' = "pinetd" /\ StartBoot("pinetd") /\ phase = "factory"
          /\ torn' = torn
      BY <1>2 DEF EddyResumes, StartBoot
    <2>2. FlashComplete
      BY <1>2, FactoryFinished DEF EddyResumes, NeverBlankInv, BootChain
    <2>3. QED
      BY <2>1, <2>2, StartBootNeverBlank DEF NeverBlankInv
  <1>3. CASE PinetdUp
    <2>1. /\ phase = "pinetd" /\ phase' = "up" /\ cmd[Boot] = "pinetd" /\ Finished(Boot)
          /\ cmd' = cmd /\ pc' = pc /\ mem' = mem /\ etc' = etc /\ flash' = flash
          /\ torn' = torn /\ ssm' = [i \in Lines |-> mem[Boot][i]]
      BY <1>3 DEF PinetdUp, NeverBlankInv, BootChain
    <2>2. /\ \A i \in Items : HasRead(Boot, FileOf[i])
          /\ \A i \in Items : etc[i] # Absent
      BY <2>1, PinetdFinished DEF NeverBlankInv
    <2>3. BootChain'
      BY <2>1 DEF NeverBlankInv, BootChain, Running, Finished
    <2>4. WrittenExists'
      BY <2>1 DEF NeverBlankInv, WrittenExists, Exists, Stored
    <2>5. ASSUME ~torn'
          PROVE  NothingBlank'
      <3>1. NothingBlank
        BY <2>1, <2>5 DEF NeverBlankInv
      <3>2. \A i \in Items : mem[Boot][i] # Zero
        BY <2>1, <2>2, <3>1 DEF NothingBlank, Actors, Idle
      <3>3. \A i \in Lines : ssm'[i] # Zero
        BY <2>1, <3>2, ItemsAssumption DEF InFile
      <3>4. \A b \in Actors, i \in Items : HasRead(b, FileOf[i])' <=> HasRead(b, FileOf[i])
        BY <2>1 DEF HasRead
      <3>5. QED
        BY <2>1, <2>2, <3>1, <3>3, <3>4 DEF NothingBlank, FlashComplete
    <2>6. QED
      BY <2>3, <2>4, <2>5 DEF NeverBlankInv
  <1>4. QED
    BY <1>1, <1>2, <1>3

(* pinetd's image is whole when SNMP makes it write.                       *)
LEMMA SnmpNeverBlank ==
  ASSUME TypeOK, NeverBlankInv,
         SnmpSync \/ \E i \in Lines, v \in Settings : SnmpSet(i, v)
  PROVE  NeverBlankInv'
  <1>1. /\ phase = "up" /\ phase' = phase /\ cmd' = cmd /\ pc' = pc /\ flash' = flash
        /\ torn' = torn
    BY DEF SnmpSync, SnmpSet, SnmpdRuns
  <1>2. cmd[Boot] = "pinetd" /\ Finished(Boot) /\ Boot \in Actors
    BY <1>1 DEF NeverBlankInv, BootChain, Actors
  <1>3. BootChain'
    BY <1>1 DEF NeverBlankInv, BootChain, Running, Finished
  <1>4. \A b \in Actors, i \in Items : HasRead(b, FileOf[i])' <=> HasRead(b, FileOf[i])
    BY <1>1 DEF HasRead
  <1>5. \A i \in Items : HasRead(Boot, FileOf[i])
    BY <1>2, PinetdFinished DEF NeverBlankInv
  <1>6. CASE SnmpSync
    <2>1. /\ mem'[Boot] = [i \in Items |-> IF i \in Lines THEN ssm[i] ELSE mem[Boot][i]]
          /\ \A b \in Actors : b # Boot => mem'[b] = mem[b]
          /\ etc' = Overlay(etc, "SIO", mem'[Boot])
          /\ ssm' = ssm
      BY <1>2, <1>6 DEF SnmpSync, TypeOK
    <2>2. \A i \in Items : mem'[Boot][i] # Absent
      BY <1>2, <2>1, ValuesAssumption DEF TypeOK, Value
    <2>3. \A i \in Items : etc[i] # Absent => etc'[i] # Absent
      BY <2>1, <2>2 DEF Overlay
    <2>4. \A c, f : Exists(c, f) => Exists(c, f)'
      BY <1>1, <2>3 DEF Exists, Stored, InFile
    <2>5. WrittenExists'
      BY <1>1, <2>4 DEF NeverBlankInv, WrittenExists
    <2>6. ASSUME ~torn'
          PROVE  NothingBlank'
      <3>1. NothingBlank
        BY <1>1, <2>6 DEF NeverBlankInv
      <3>2. \A i \in Items : mem[Boot][i] # Zero
        BY <1>2, <1>5, <3>1 DEF NothingBlank, Idle
      <3>3. \A i \in Items : mem'[Boot][i] # Zero
        BY <1>1, <2>1, <3>1, <3>2 DEF NothingBlank
      <3>4. \A i \in Items : etc'[i] # Zero
        BY <2>1, <3>1, <3>3 DEF NothingBlank, Overlay
      <3>5. \A b \in Actors : cmd[b] \notin {Idle, "factory"} =>
              \A i \in Items : HasRead(b, FileOf[i]) => mem'[b][i] # Zero
        BY <2>1, <3>1, <3>3 DEF NothingBlank
      <3>6. QED
        BY <1>1, <1>4, <2>1, <2>3, <3>1, <3>4, <3>5 DEF NothingBlank, FlashComplete
    <2>7. QED
      BY <1>3, <2>5, <2>6 DEF NeverBlankInv
  <1>7. CASE \E i \in Lines, v \in Settings : SnmpSet(i, v)
    <2>1. PICK i \in Lines, v \in Settings : SnmpSet(i, v)
      BY <1>7
    <2>2. etc' = etc /\ mem' = mem
      BY <2>1 DEF SnmpSet
    <2>3. WrittenExists'
      BY <1>1, <2>2 DEF NeverBlankInv, WrittenExists, Exists, Stored
    <2>4. ASSUME ~torn'
          PROVE  NothingBlank'
      <3>1. NothingBlank
        BY <1>1, <2>4 DEF NeverBlankInv
      <3>2. \A j \in Lines : ssm'[j] # Zero
        BY <1>1, <2>1, <3>1, ValuesAssumption DEF SnmpSet, NothingBlank, TypeOK
      <3>3. QED
        BY <1>1, <1>4, <2>2, <3>1, <3>2 DEF NothingBlank, FlashComplete
    <2>5. QED
      BY <1>3, <2>3, <2>4 DEF NeverBlankInv
  <1>8. QED
    BY <1>6, <1>7

(* A loss of power leaves the files, and no program.                       *)
LEMMA RestartNeverBlank ==
  ASSUME TypeOK, NeverBlankInv, Restart
  PROVE  NeverBlankInv'
  <1>1. /\ phase' = "eddy" /\ etc' = etc /\ flash' = flash
        /\ \A a \in Actors : cmd'[a] = Idle /\ pc'[a] = 1
    BY DEF Restart
  <1>2. BootChain' /\ WrittenExists'
    BY <1>1 DEF BootChain, WrittenExists, Actors, Idle
  <1>3. ASSUME ~torn'
        PROVE  NothingBlank'
    <2>1. ~torn /\ (FlashSystemValid => FlashComplete)
      BY <1>3 DEF Restart
    <2>2. (FlashSystemValid' <=> FlashSystemValid) /\ (FlashComplete' <=> FlashComplete)
      BY <1>1 DEF FlashSystemValid, FlashComplete
    <2>3. QED
      BY <1>1, <2>1, <2>2 DEF NeverBlankInv, NothingBlank
  <1>4. QED
    BY <1>2, <1>3 DEF NeverBlankInv

(* Every step keeps NeverBlankInv.                                         *)
LEMMA NeverBlankStep == TypeOK /\ NeverBlankInv /\ [Next]_vars => NeverBlankInv'
  <1> SUFFICES ASSUME TypeOK, NeverBlankInv, [Next]_vars
               PROVE  NeverBlankInv'
    OBVIOUS
  <1>1. ASSUME NEW a \in Actors, ReadConfig(a)
        PROVE  NeverBlankInv'
    <2>1. torn' = torn
      BY <1>1 DEF ReadConfig
    <2>2. QED
      BY <1>1, <2>1, BootChainCall, ReadWrittenExists, ReadNothingBlank DEF NeverBlankInv
  <1>2. ASSUME NEW a \in Actors, WriteConfig(a)
        PROVE  NeverBlankInv'
    <2>1. torn' = torn
      BY <1>2 DEF WriteConfig
    <2>2. QED
      BY <1>2, <2>1, BootChainCall, WriteWrittenExists, WriteNothingBlank DEF NeverBlankInv
  <1>3. CASE \E u \in Users : Request(u) \/ Exit(u) \/ Reject(u)
    BY <1>3, LaunchNeverBlank, EndNeverBlank DEF Exit, Reject
  <1>4. CASE EddyChecks \/ EddyResumes \/ PinetdUp
    BY <1>4, BootNeverBlank
  <1>5. CASE SnmpSync \/ \E i \in Lines, v \in Settings : SnmpSet(i, v)
    BY <1>5, SnmpNeverBlank
  <1>6. CASE Restart
    BY <1>6, RestartNeverBlank
  <1>7. CASE UNCHANGED vars
    BY <1>7 DEF vars, NeverBlankInv, BootChain, WrittenExists, NothingBlank, Running,
                Finished, Exists, Stored, HasRead, FlashSystemValid, FlashComplete
  <1>8. QED
    BY <1>1, <1>2, <1>3, <1>4, <1>5, <1>6, <1>7 DEF Next

(* Unless the very first factory_default was cut off half-way, no program   *)
(* ever writes a zeroed structure into a configuration file, and while the  *)
(* device is up every file in use exists - with any number of commands and  *)
(* CGI requests interleaved call by call, and a loss of power anywhere.     *)
THEOREM NeverBlank == Spec => []ConfigNeverBlank
  <1>1. NeverBlankInv => ConfigNeverBlank
    BY DEF NeverBlankInv, NothingBlank, ConfigNeverBlank
  <1>2. QED
    BY TypeCorrect, InitNeverBlank, NeverBlankStep, <1>1, PTL DEF Spec

(* The invariant itself: the boot chain runs alone, what a program has      *)
(* written exists, and zeroes stay in the memory of programs that have not  *)
(* read yet.                                                                *)
THEOREM NeverBlankHolds == Spec => []NeverBlankInv
  BY TypeCorrect, InitNeverBlank, NeverBlankStep, PTL DEF Spec
-----------------------------------------------------------------------------
(* Nothing is locked, and still no program loses an update by itself: what  *)
(* a program holds of a file it has read is what the file holds until       *)
(* another program writes it.  Proved for any number of operators.          *)

(* What a holds of the files of copy c it has used, and nobody else has     *)
(* written since, is what they hold.                                        *)
Intact(a, c) ==
  \A i \in Items :
    (/\ i \notin DOMAIN edit[a]
     /\ HasUsed(a, c, FileOf[i])
     /\ <<a, c, FileOf[i]>> \notin overtaken)
      => Stored(c)[i] = mem[a][i]

(* factory_default writes values of its own, pinetd reads the saved copy    *)
(* and goes on changing the one in use; "def save" alone needs both.        *)
ImagesIntact ==
  \A a \in Actors : /\ cmd[a] \notin {Idle, "factory"} => Intact(a, "etc")
                    /\ cmd[a] = "save" => Intact(a, "flash") /\ edit[a] = NoEdit

(* The inductive invariant of both properties.                              *)
RaceInv == BootChain /\ WrittenExists /\ ImagesIntact
-----------------------------------------------------------------------------
(* Facts about the programs.                                               *)

(* A program reads a file before it does anything else with it.            *)
LEMMA ReadIsFirst ==
  ASSUME NEW c \in Commands \ {"factory"},
         NEW k \in 1 .. Len(Program[c]), Program[c][k].do = "read",
         NEW j \in 1 .. k - 1
  PROVE  Program[c][j].file # Program[c][k].file
  <1>1. CASE c = "save"
    <2>1. \A n \in 1 .. 12 : SaveProgram[n].do = "read" =>
            \A m \in 1 .. n - 1 : SaveProgram[m].file # SaveProgram[n].file
      BY DEF SaveProgram, Rd, Wr
    <2>2. Program[c] = SaveProgram /\ Len(SaveProgram) = 12
      BY <1>1, ProgramTable DEF SaveProgram
    <2>3. QED
      BY <2>1, <2>2
  <1>2. CASE c = "pinetd"
    <2>1. \A n \in 1 .. 12 : PinetdProgram[n].do = "read" =>
            \A m \in 1 .. n - 1 : PinetdProgram[m].file # PinetdProgram[n].file
      BY DEF PinetdProgram, Rd, Wr
    <2>2. Program[c] = PinetdProgram /\ Len(PinetdProgram) = 12
      BY <1>2, ProgramTable DEF PinetdProgram
    <2>3. QED
      BY <2>1, <2>2
  <1>3. CASE c = "wan"
    <2>1. \A n \in 1 .. 4 : WanProgram[n].do = "read" =>
            \A m \in 1 .. n - 1 : WanProgram[m].file # WanProgram[n].file
      BY DEF WanProgram, Rd, Wr
    <2>2. Program[c] = WanProgram /\ Len(WanProgram) = 4
      BY <1>3, ProgramTable DEF WanProgram
    <2>3. QED
      BY <2>1, <2>2
  <1>4. CASE c \in Files
    <2>1. \A n \in 1 .. 2 : RewriteProgram(c)[n].do = "read" => n = 1
      BY DEF RewriteProgram, Rd, Wr
    <2>2. Program[c] = RewriteProgram(c) /\ Len(RewriteProgram(c)) = 2
      BY <1>4, ProgramTable DEF RewriteProgram
    <2>3. k = 1
      BY <2>1, <2>2
    <2>4. QED
      BY <2>3
  <1>5. QED
    BY <1>1, <1>2, <1>3, <1>4 DEF Commands

(* Everything but pinetd reads the copy in use.                            *)
LEMMA ReadsEtc ==
  ASSUME NEW c \in Commands \ {"factory", "pinetd"},
         NEW k \in 1 .. Len(Program[c]), Program[c][k].do = "read"
  PROVE  Program[c][k].copy = "etc"
  <1>1. CASE c = "save"
    <2>1. \A n \in 1 .. 12 : SaveProgram[n].do = "read" => SaveProgram[n].copy = "etc"
      BY DEF SaveProgram, Rd, Wr
    <2>2. Program[c] = SaveProgram /\ Len(SaveProgram) = 12
      BY <1>1, ProgramTable DEF SaveProgram
    <2>3. QED
      BY <2>1, <2>2
  <1>2. CASE c = "wan"
    <2>1. \A n \in 1 .. 4 : WanProgram[n].do = "read" => WanProgram[n].copy = "etc"
      BY DEF WanProgram, Rd, Wr
    <2>2. Program[c] = WanProgram /\ Len(WanProgram) = 4
      BY <1>2, ProgramTable DEF WanProgram
    <2>3. QED
      BY <2>1, <2>2
  <1>3. CASE c \in Files
    <2>1. \A n \in 1 .. 2 : RewriteProgram(c)[n].do = "read" => RewriteProgram(c)[n].copy = "etc"
      BY DEF RewriteProgram, Rd, Wr
    <2>2. Program[c] = RewriteProgram(c) /\ Len(RewriteProgram(c)) = 2
      BY <1>3, ProgramTable DEF RewriteProgram
    <2>3. QED
      BY <2>1, <2>2
  <1>4. QED
    BY <1>1, <1>2, <1>3 DEF Commands

(* Everything but factory_default and pinetd writes a file of the copy in  *)
(* use only after reading it from there.                                   *)
LEMMA EtcReadFirst ==
  ASSUME NEW c \in Commands \ {"factory", "pinetd"},
         NEW k \in 1 .. Len(Program[c]), Program[c][k].do = "write"
  PROVE  \E j \in 1 .. k - 1 : /\ Program[c][j].copy = "etc"
                               /\ Program[c][j].file = Program[c][k].file
  <1>1. PICK j \in 1 .. k - 1 : /\ Program[c][j].do = "read"
                                /\ Program[c][j].file = Program[c][k].file
    BY ReadBeforeWrite
  <1>2. Len(Program[c]) \in 1 .. 13
    BY ProgramType
  <1>3. j \in 1 .. Len(Program[c])
    BY <1>2
  <1>4. QED
    BY <1>1, <1>3, ReadsEtc

(* "def save" goes through every file of both copies.                      *)
LEMMA SaveUsesAll ==
  ASSUME NEW f \in Files, NEW c \in Copies
  PROVE  /\ Len(SaveProgram) = 12
         /\ \E k \in 1 .. 12 : SaveProgram[k].copy = c /\ SaveProgram[k].file = f
  <1>1. /\ SaveProgram[1] = Rd("etc", "SYSTEM")  /\ SaveProgram[2] = Wr("flash", "SYSTEM")
        /\ SaveProgram[3] = Rd("etc", "SIO")     /\ SaveProgram[4] = Wr("flash", "SIO")
        /\ SaveProgram[5] = Rd("etc", "SNMP")    /\ SaveProgram[6] = Wr("flash", "SNMP")
        /\ SaveProgram[7] = Rd("etc", "GPIO")    /\ SaveProgram[8] = Wr("flash", "GPIO")
        /\ SaveProgram[9] = Rd("etc", "DIO")     /\ SaveProgram[10] = Wr("flash", "DIO")
        /\ SaveProgram[11] = Rd("etc", "WIFI")   /\ SaveProgram[12] = Wr("flash", "WIFI")
        /\ Len(SaveProgram) = 12
    BY DEF SaveProgram
  <1>2. /\ 1 \in 1..12 /\ 2 \in 1..12 /\ 3 \in 1..12 /\ 4 \in 1..12 /\ 5 \in 1..12
        /\ 6 \in 1..12 /\ 7 \in 1..12 /\ 8 \in 1..12 /\ 9 \in 1..12 /\ 10 \in 1..12
        /\ 11 \in 1..12 /\ 12 \in 1..12
    OBVIOUS
  <1>3. /\ Rd(c, f).copy = c /\ Rd(c, f).file = f
        /\ Wr(c, f).copy = c /\ Wr(c, f).file = f
    BY DEF Rd, Wr
  <1>4. \E k \in 1 .. 12 : SaveProgram[k] = Rd(c, f) \/ SaveProgram[k] = Wr(c, f)
    BY <1>1, <1>2 DEF Files, Copies
  <1>5. QED
    BY <1>1, <1>3, <1>4
-----------------------------------------------------------------------------
(* The invariant.                                                          *)

(* The copy in use is whole while the device is up.                        *)
LEMMA EtcWhole ==
  ASSUME TypeOK, BootChain, WrittenExists, phase = "up"
  PROVE  \A i \in Items : etc[i] # Absent
  BY PinetdFinished DEF BootChain

(* What a call adds to the files a program has used.                       *)
LEMMA UsedStep ==
  ASSUME TypeOK, NEW a \in Actors, Running(a), cmd' = cmd,
         pc' = [pc EXCEPT ![a] = @ + 1]
  PROVE  /\ \A d, g : HasUsed(a, d, g)' <=>
              HasUsed(a, d, g) \/ (d = Call(a).copy /\ g = Call(a).file)
         /\ \A b \in Actors : b # a => \A d, g : HasUsed(b, d, g)' <=> HasUsed(b, d, g)
  <1>1. 1 .. pc'[a] - 1 = (1 .. pc[a] - 1) \cup {pc[a]}
    BY PcStep
  <1>2. ASSUME NEW d, NEW g
        PROVE  HasUsed(a, d, g)' <=>
                 HasUsed(a, d, g) \/ (d = Call(a).copy /\ g = Call(a).file)
    BY <1>1 DEF HasUsed, Call, Running
  <1>3. ASSUME NEW b \in Actors, b # a
        PROVE  \A d, g : HasUsed(b, d, g)' <=> HasUsed(b, d, g)
    <2>1. pc'[b] = pc[b]
      BY <1>3 DEF TypeOK
    <2>2. QED
      BY <2>1 DEF HasUsed
  <1>4. QED
    BY <1>2, <1>3

(* A read leaves what the others hold, and fetches what the file holds.    *)
LEMMA ReadImages ==
  ASSUME TypeOK, RaceInv, NEW a \in Actors, ReadConfig(a)
  PROVE  ImagesIntact'
  <1>1. /\ Running(a) /\ Call(a).do = "read" /\ cmd' = cmd /\ edit' = edit
        /\ etc' = etc /\ flash' = flash
        /\ pc' = [pc EXCEPT ![a] = @ + 1]
        /\ overtaken' = overtaken \ {<<a, Call(a).copy, Call(a).file>>}
        /\ mem'[a] = Loaded(mem[a], Stored(Call(a).copy), Call(a).file)
        /\ \A b \in Actors : b # a => mem'[b] = mem[b]
    BY DEF ReadConfig, TypeOK
  <1>2. \A d : Stored(d)' = Stored(d)
    BY <1>1 DEF Stored
  <1>3. ASSUME NEW b \in Actors, b # a, NEW d, Intact(b, d)
        PROVE  Intact(b, d)'
    <2>1. \A g : <<b, d, g>> \notin overtaken' => <<b, d, g>> \notin overtaken
      BY <1>1, <1>3
    <2>2. \A g : HasUsed(b, d, g)' <=> HasUsed(b, d, g)
      BY <1>1, <1>3, UsedStep
    <2>3. mem'[b] = mem[b] /\ edit'[b] = edit[b]
      BY <1>1, <1>3
    <2>4. QED
      BY <1>2, <1>3, <2>1, <2>2, <2>3 DEF Intact
  <1>4. ASSUME cmd[a] # "factory", NEW d, d = "etc" \/ cmd[a] = "save", Intact(a, d)
        PROVE  Intact(a, d)'
    <2> SUFFICES ASSUME NEW i \in Items, i \notin DOMAIN edit[a], HasUsed(a, d, FileOf[i])',
                        <<a, d, FileOf[i]>> \notin overtaken'
                 PROVE  Stored(d)[i] = mem'[a][i]
      BY <1>1, <1>2 DEF Intact
    <2>1. CASE FileOf[i] # Call(a).file
      <3>1. mem'[a][i] = mem[a][i]
        BY <1>1, <2>1 DEF Loaded
      <3>2. HasUsed(a, d, FileOf[i])
        BY <1>1, <2>1, UsedStep
      <3>3. <<a, d, FileOf[i]>> \notin overtaken
        BY <1>1, <2>1
      <3>4. QED
        BY <1>4, <3>1, <3>2, <3>3 DEF Intact
    <2>2. CASE FileOf[i] = Call(a).file
      <3>1. cmd[a] \in Commands \ {"factory"} /\ pc[a] \in 1 .. Len(Program[cmd[a]])
        BY <1>1, <1>4, CallType
      <3>2. ~HasUsed(a, d, FileOf[i])
        <4>1. Program[cmd[a]][pc[a]].do = "read" /\ Program[cmd[a]][pc[a]].file = FileOf[i]
          BY <1>1, <2>2 DEF Call
        <4>2. \A j \in 1 .. pc[a] - 1 : Program[cmd[a]][j].file # FileOf[i]
          BY <3>1, <4>1, ReadIsFirst
        <4>3. QED
          BY <4>2 DEF HasUsed
      <3>3. d = Call(a).copy
        BY <1>1, <3>2, UsedStep
      <3>4. Call(a).copy = "etc" /\ phase = "up"
        <4>1. CASE cmd[a] = "pinetd"
          <5>1. Program[cmd[a]] = PinetdProgram
            BY <4>1, ProgramTable
          <5>2. pc[a] \in 1 .. 12 /\ Call(a) = PinetdProgram[pc[a]]
            BY <3>1, <5>1, PinetdReads DEF Call
          <5>3. Call(a).copy = "flash"
            BY <1>1, <5>2, PinetdReads
          <5>4. d # "etc" /\ cmd[a] # "save"
            BY <3>3, <4>1, <5>3
          <5>5. QED
            BY <1>4, <5>4
        <4>2. CASE cmd[a] # "pinetd"
          <5>1. Call(a).copy = "etc"
            BY <1>1, <3>1, <4>2, ReadsEtc DEF Call
          <5>2. phase = "up"
            BY <1>1, <1>4, <4>2, RunsWhen DEF RaceInv
          <5>3. QED
            BY <5>1, <5>2
        <4>3. QED
          BY <4>1, <4>2
      <3>5. etc[i] # Absent
        BY <3>4, EtcWhole DEF RaceInv
      <3>6. mem'[a][i] = etc[i]
        BY <1>1, <2>2, <3>4, <3>5 DEF Loaded, Stored
      <3>7. QED
        BY <3>3, <3>4, <3>6 DEF Stored
    <2>3. QED
      BY <2>1, <2>2
  <1>5. QED
    BY <1>1, <1>3, <1>4 DEF RaceInv, ImagesIntact

(* A write by a, of an image that is a's own but for a's edit.             *)
LEMMA OthersSee ==
  ASSUME NEW a \in Actors, NEW c, NEW f, NEW b \in Actors, b # a,
         overtaken' = OthersOvertaken(a, c, f),
         NEW d,
         \A i \in Items : d # c \/ FileOf[i] # f => Stored(d)'[i] = Stored(d)[i],
         \A g : HasUsed(b, d, g)' <=> HasUsed(b, d, g),
         mem'[b] = mem[b], edit'[b] = edit[b],
         Intact(b, d)
  PROVE  Intact(b, d)'
  <1> SUFFICES ASSUME NEW i \in Items, i \notin DOMAIN edit[b], HasUsed(b, d, FileOf[i]),
                      <<b, d, FileOf[i]>> \notin overtaken'
               PROVE  Stored(d)'[i] = mem[b][i]
    BY DEF Intact
  <1>1. d # c \/ FileOf[i] # f
    BY DEF OthersOvertaken
  <1>2. <<b, d, FileOf[i]>> \notin overtaken
    BY DEF OthersOvertaken
  <1>3. QED
    BY <1>1, <1>2 DEF Intact

(* A write changes what the others hold only where it marks them.          *)
LEMMA WriteImages ==
  ASSUME TypeOK, RaceInv, NEW a \in Actors, WriteConfig(a)
  PROVE  ImagesIntact'
  <1>0. PICK c \in Copies, f \in Files : c = Call(a).copy /\ f = Call(a).file
    BY CallType DEF WriteConfig
  <1>1. /\ Running(a) /\ Call(a).do = "write" /\ cmd' = cmd /\ edit' = edit /\ mem' = mem
        /\ pc' = [pc EXCEPT ![a] = @ + 1]
        /\ overtaken' = OthersOvertaken(a, c, f)
        /\ etc' = IF c = "etc" THEN Overlay(etc, f, Outgoing(a)) ELSE etc
        /\ flash' = IF c = "flash" THEN Overlay(flash, f, Outgoing(a)) ELSE flash
    BY <1>0 DEF WriteConfig
  <1>3. etc \in [Items -> Value \cup {Absent}] /\ flash \in [Items -> Value \cup {Absent}]
    BY DEF TypeOK
  <1>4. ASSUME NEW d \in Copies, NEW i \in Items, d # c \/ FileOf[i] # f
        PROVE  Stored(d)'[i] = Stored(d)[i]
    BY <1>1, <1>4 DEF Stored, Overlay, Copies
  <1>5. ASSUME NEW i \in Items, FileOf[i] = f
        PROVE  Stored(c)'[i] = Outgoing(a)[i]
    BY <1>1, <1>5 DEF Stored, Overlay, Copies
  <1>6. ASSUME NEW b \in Actors, b # a, NEW d \in Copies, Intact(b, d)
        PROVE  Intact(b, d)'
    <2>1. \A g : HasUsed(b, d, g)' <=> HasUsed(b, d, g)
      BY <1>1, <1>6, UsedStep
    <2>2. QED
      BY <1>1, <1>4, <1>6, <2>1, OthersSee
  <1>7. ASSUME cmd[a] # "factory", NEW d \in Copies, Intact(a, d)
        PROVE  Intact(a, d)'
    <2> SUFFICES ASSUME NEW i \in Items, i \notin DOMAIN edit[a], HasUsed(a, d, FileOf[i])',
                        <<a, d, FileOf[i]>> \notin overtaken'
                 PROVE  Stored(d)'[i] = mem[a][i]
      BY <1>1 DEF Intact
    <2>1. CASE d = c /\ FileOf[i] = f
      BY <1>5, <1>7, <2>1 DEF Outgoing
    <2>2. CASE d # c \/ FileOf[i] # f
      <3>1. HasUsed(a, d, FileOf[i])
        BY <1>0, <1>1, <2>2, UsedStep
      <3>2. <<a, d, FileOf[i]>> \notin overtaken
        BY <1>1, <2>2 DEF OthersOvertaken
      <3>3. QED
        BY <1>4, <1>7, <2>2, <3>1, <3>2 DEF Intact
    <2>3. QED
      BY <2>1, <2>2
  <1>8. QED
    BY <1>1, <1>6, <1>7 DEF RaceInv, ImagesIntact, Copies

(* pinetd takes over what an SNMP manager set.                             *)
LEMMA SyncImages ==
  ASSUME TypeOK, RaceInv, SnmpSync
  PROVE  ImagesIntact'
  <1>1. /\ Boot \in Actors /\ cmd' = cmd /\ edit' = edit /\ pc' = pc /\ flash' = flash
        /\ mem'[Boot] = [i \in Items |-> IF i \in Lines THEN ssm[i] ELSE mem[Boot][i]]
        /\ \A b \in Actors : b # Boot => mem'[b] = mem[b]
        /\ etc' = Overlay(etc, "SIO", mem'[Boot])
        /\ overtaken' = OthersOvertaken(Boot, "etc", "SIO")
    BY DEF SnmpSync, TypeOK, Actors
  <1>2. cmd[Boot] = "pinetd"
    BY DEF SnmpSync, SnmpdRuns, RaceInv, BootChain
  <1>3. ASSUME NEW d \in Copies, NEW i \in Items, d # "etc" \/ FileOf[i] # "SIO"
        PROVE  Stored(d)'[i] = Stored(d)[i]
    BY <1>1, <1>3 DEF Stored, Overlay, Copies, TypeOK
  <1>4. \A b \in Actors : \A d, g : HasUsed(b, d, g)' <=> HasUsed(b, d, g)
    BY <1>1 DEF HasUsed
  <1>5. ASSUME NEW b \in Actors, b # Boot, NEW d \in Copies, Intact(b, d)
        PROVE  Intact(b, d)'
    BY <1>1, <1>3, <1>4, <1>5, OthersSee
  <1>6. ASSUME Intact(Boot, "etc")
        PROVE  Intact(Boot, "etc")'
    <2> SUFFICES ASSUME NEW i \in Items, i \notin DOMAIN edit[Boot],
                        HasUsed(Boot, "etc", FileOf[i]),
                        <<Boot, "etc", FileOf[i]>> \notin overtaken'
                 PROVE  etc'[i] = mem'[Boot][i]
      BY <1>1, <1>4 DEF Intact, Stored
    <2>1. CASE FileOf[i] = "SIO"
      BY <1>1, <2>1 DEF Overlay
    <2>2. CASE FileOf[i] # "SIO"
      <3>1. <<Boot, "etc", FileOf[i]>> \notin overtaken
        BY <1>1, <2>2 DEF OthersOvertaken
      <3>2. etc[i] = mem[Boot][i]
        BY <1>6, <3>1 DEF Intact, Stored
      <3>3. i \notin Lines
        BY <2>2, ItemsAssumption DEF InFile
      <3>4. etc'[i] = etc[i]
        BY <1>1, <2>2 DEF Overlay
      <3>5. mem'[Boot][i] = mem[Boot][i]
        BY <1>1, <3>3
      <3>6. QED
        BY <3>2, <3>4, <3>5
    <2>3. QED
      BY <2>1, <2>2
  <1>7. QED
    BY <1>1, <1>2, <1>5, <1>6 DEF RaceInv, ImagesIntact, Copies, Idle

(* A program that has made no call has nothing to keep intact.             *)
LEMMA FreshImages ==
  ASSUME ImagesIntact, NEW a \in Actors, etc' = etc, flash' = flash,
         pc'[a] = 1, cmd'[a] = "save" => edit'[a] = NoEdit,
         \A b \in Actors : b # a =>
            /\ cmd'[b] = cmd[b] /\ pc'[b] = pc[b] /\ mem'[b] = mem[b] /\ edit'[b] = edit[b]
            /\ \A d, g : <<b, d, g>> \in overtaken' <=> <<b, d, g>> \in overtaken
  PROVE  ImagesIntact'
  <1>1. \A d : Stored(d)' = Stored(d)
    BY DEF Stored
  <1>2. \A d, g : ~HasUsed(a, d, g)'
    <2>1. 1 .. pc'[a] - 1 = {}
      OBVIOUS
    <2>2. QED
      BY <2>1 DEF HasUsed
  <1>3. \A d : Intact(a, d)'
    BY <1>2 DEF Intact
  <1>4. ASSUME NEW b \in Actors, b # a, NEW d, Intact(b, d)
        PROVE  Intact(b, d)'
    <2>1. \A g : HasUsed(b, d, g)' <=> HasUsed(b, d, g)
      BY <1>4 DEF HasUsed
    <2>2. QED
      BY <1>1, <1>4, <2>1 DEF Intact
  <1>5. QED
    BY <1>3, <1>4 DEF ImagesIntact

(* Every step keeps RaceInv.                                               *)
LEMMA RaceStep ==
  ASSUME TypeOK, NeverBlankInv, RaceInv, [Next]_vars
  PROVE  RaceInv'
  <1>1. BootChain' /\ WrittenExists'
    BY NeverBlankStep DEF NeverBlankInv
  <1> SUFFICES ImagesIntact'
    BY <1>1 DEF RaceInv
  <1>2. ASSUME NEW a \in Actors, ReadConfig(a) \/ WriteConfig(a)
        PROVE  ImagesIntact'
    BY <1>2, ReadImages, WriteImages
  <1>3. ASSUME NEW u \in Users, Request(u)
        PROVE  ImagesIntact'
    <2>1. PICK c \in Commands, e \in Edits \cup {NoEdit} :
            Launch(u, c, e) /\ (c = "save" => e = NoEdit)
      BY <1>3 DEF Request, DefSave, DefFactory, DefWan, DefPort, DefWifi, SetNetwork,
             SetPassword, SetSnmp, SetSerial, SetWireless, SetGpio, SetDio,
             SetReboot, SetFactory, Commands, Files, EditsOf
    <2>2. u \in Actors /\ etc' = etc /\ flash' = flash /\ pc' = pc /\ mem' = mem
          /\ overtaken' = overtaken
      BY <2>1 DEF Launch, Actors
    <2>3. pc[u] = 1
      BY <2>1, <2>2 DEF Launch, RaceInv, BootChain
    <2>4. cmd'[u] = c /\ edit'[u] = e
      BY <2>1, <2>2 DEF Launch, TypeOK
    <2>5. \A b \in Actors : b # u => cmd'[b] = cmd[b] /\ edit'[b] = edit[b]
      BY <2>1, <2>2 DEF Launch, TypeOK
    <2>6. QED
      BY <2>1, <2>2, <2>3, <2>4, <2>5, FreshImages DEF RaceInv
  <1>4. ASSUME NEW u \in Users, End(u)
        PROVE  ImagesIntact'
    <2>1. u \in Actors /\ etc' = etc /\ flash' = flash /\ pc'[u] = 1 /\ edit'[u] = NoEdit
      BY <1>4 DEF End, Actors, TypeOK
    <2>2. \A b \in Actors : b # u =>
            /\ cmd'[b] = cmd[b] /\ pc'[b] = pc[b] /\ mem'[b] = mem[b] /\ edit'[b] = edit[b]
            /\ \A d, g : <<b, d, g>> \in overtaken' <=> <<b, d, g>> \in overtaken
      BY <1>4 DEF End, TypeOK
    <2>3. QED
      BY <2>1, <2>2, FreshImages DEF RaceInv
  <1>5. ASSUME NEW c \in {"factory", "pinetd"}, StartBoot(c)
        PROVE  ImagesIntact'
    <2>1. /\ Boot \in Actors /\ etc' = etc /\ flash' = flash /\ pc'[Boot] = 1
          /\ cmd'[Boot] # "save"
      BY <1>5 DEF StartBoot, Actors, TypeOK
    <2>2. \A b \in Actors : b # Boot =>
            /\ cmd'[b] = cmd[b] /\ pc'[b] = pc[b] /\ mem'[b] = mem[b] /\ edit'[b] = edit[b]
            /\ \A d, g : <<b, d, g>> \in overtaken' <=> <<b, d, g>> \in overtaken
      BY <1>5 DEF StartBoot, TypeOK
    <2>3. QED
      BY <2>1, <2>2, FreshImages DEF RaceInv
  <1>6. CASE EddyChecks \/ EddyResumes
    BY <1>5, <1>6 DEF EddyChecks, EddyResumes
  <1>7. CASE SnmpSync
    BY <1>7, SyncImages
  <1>8. CASE Restart
    BY <1>8 DEF Restart, ImagesIntact, Idle
  <1>9. CASE PinetdUp \/ (\E i \in Lines, v \in Settings : SnmpSet(i, v)) \/ UNCHANGED vars
    <2>1. /\ etc' = etc /\ flash' = flash /\ cmd' = cmd /\ pc' = pc /\ mem' = mem
          /\ edit' = edit /\ overtaken' = overtaken
      BY <1>9 DEF PinetdUp, SnmpSet, vars
    <2>2. QED
      BY <2>1 DEF RaceInv, ImagesIntact, Intact, HasUsed, Stored
  <1>10. QED
    BY <1>2, <1>3, <1>4, <1>6, <1>7, <1>8, <1>9 DEF Next, Exit, Reject

(* Before power-on nothing runs.                                           *)
LEMMA InitRace == Init => RaceInv
  <1>1. Init => ImagesIntact
    BY DEF Init, ImagesIntact, Idle
  <1>2. QED
    BY <1>1, InitNeverBlank DEF RaceInv, NeverBlankInv

(* The invariant holds with the two it rests on.                           *)
LEMMA RaceInvariant == Spec => [](TypeOK /\ NeverBlankInv /\ RaceInv)
  <1>1. Init => TypeOK /\ NeverBlankInv /\ RaceInv
    BY InitTypeOK, InitNeverBlank, InitRace
  <1>2. NeverBlankInv /\ RaceInv /\ TypeOK /\ [Next]_vars => NeverBlankInv' /\ RaceInv'
    BY NeverBlankStep, RaceStep
  <1>3. QED
    BY <1>1, <1>2, TypeCorrect, PTL DEF Spec
-----------------------------------------------------------------------------
(* However many commands and pages run beside it, a file nobody wrote while *)
(* "def save" was at work is saved as it is in use: the save takes no file  *)
(* from the wrong place and forgets none.                                   *)
THEOREM SaveIsWhole == Spec => []SaveIsComplete
  <1>1. TypeOK /\ NeverBlankInv /\ RaceInv => SaveIsComplete
    <2> SUFFICES ASSUME TypeOK, RaceInv, NEW u \in Users, NEW i \in Items,
                        cmd[u] = "save", Finished(u),
                        \A c \in Copies : <<u, c, FileOf[i]>> \notin overtaken
                 PROVE  flash[i] = etc[i]
      BY DEF SaveIsComplete
    <2>1. /\ Intact(u, "etc") /\ Intact(u, "flash") /\ edit[u] = NoEdit
      BY DEF RaceInv, ImagesIntact, Actors, Idle
    <2>2. ASSUME NEW c \in Copies
          PROVE  HasUsed(u, c, FileOf[i])
      <3>1. FileOf[i] \in Files
        BY ItemsAssumption
      <3>2. PICK k \in 1 .. 12 : SaveProgram[k].copy = c /\ SaveProgram[k].file = FileOf[i]
        BY <3>1, SaveUsesAll
      <3>3. Program[cmd[u]] = SaveProgram /\ Len(SaveProgram) = 12
        BY <3>1, ProgramTable, SaveUsesAll
      <3>4. pc[u] - 1 = 12
        BY <3>3 DEF Finished
      <3>5. QED
        BY <3>2, <3>3, <3>4 DEF HasUsed, Idle
    <2>3. i \notin DOMAIN edit[u]
      BY <2>1 DEF NoEdit
    <2>4. etc[i] = mem[u][i] /\ flash[i] = mem[u][i]
      BY <2>1, <2>2, <2>3 DEF Intact, Stored, Copies
    <2>5. QED
      BY <2>4
  <1>2. QED
    BY <1>1, RaceInvariant, PTL

(* Nobody asks the boot chain for a change.                                *)
LEMMA BootUnasked == Spec => [](edit[Boot] = NoEdit)
  <1>1. Init => edit[Boot] = NoEdit
    BY DEF Init, Actors
  <1>2. ASSUME TypeOK, edit[Boot] = NoEdit, [Next]_vars
        PROVE  (edit[Boot] = NoEdit)'
    <2>1. ASSUME NEW u \in Users, NEW c, NEW e, Launch(u, c, e)
          PROVE  edit'[Boot] = NoEdit
      BY <1>2, <2>1, ActorsAssumption DEF Launch, TypeOK, Actors
    <2>2. ASSUME NEW u \in Users, Request(u)
          PROVE  edit'[Boot] = NoEdit
      BY <2>1, <2>2 DEF Request, DefSave, DefFactory, DefWan, DefPort, DefWifi, SetNetwork,
             SetPassword, SetSnmp, SetSerial, SetWireless, SetGpio, SetDio,
             SetReboot, SetFactory
    <2>3. ASSUME NEW u \in Users, End(u)
          PROVE  edit'[Boot] = NoEdit
      BY <1>2, <2>3, ActorsAssumption DEF End, TypeOK, Actors
    <2>4. CASE Restart
      BY <2>4 DEF Restart, Actors
    <2>5. \/ \E u \in Users : Request(u) \/ End(u)
          \/ Restart
          \/ edit' = edit
      BY <1>2 DEF Next, ReadConfig, WriteConfig, Exit, Reject, EddyChecks, EddyResumes,
             StartBoot, PinetdUp, SnmpSet, SnmpSync, vars
    <2>6. QED
      BY <1>2, <2>2, <2>3, <2>4, <2>5
  <1>3. QED
    BY <1>1, <1>2, TypeCorrect, PTL DEF Spec

(* However many commands, pages and SNMP managers run at once: a command or *)
(* a page changes a setting it was not asked to change only if another      *)
(* program wrote the file while it ran, and pinetd one the manager did not  *)
(* set only if the file was written since power-on or its last write.       *)
THEOREM RevertNeedsAStaleImage == Spec => OnlyStaleImagesRevert
  <1> DEFINE Reverts(a, i) == (phase = "up" /\ StepOf(a) /\ cmd[a] # "factory" /\ etc'[i] # etc[i])
             Excused(a, i) == IF a = Boot
                              THEN \/ i \in Lines /\ ssm[i] # mem[Boot][i]
                                   \/ BootCopyReverts(i)
                              ELSE \/ i \in DOMAIN edit[a]
                                   \/ OverlapReverts(a, i)
  <1>1. ASSUME TypeOK, NeverBlankInv, RaceInv, edit[Boot] = NoEdit, [Next]_vars,
               NEW a \in Actors, NEW i \in Items, Reverts(a, i)
        PROVE  Excused(a, i)
    <2>1. ASSUME NEW b \in Actors, WriteConfig(b)
          PROVE  Excused(a, i)
      <3>1. /\ Running(b) /\ Call(b).do = "write" /\ mem' = mem
            /\ pc' = [pc EXCEPT ![b] = @ + 1]
            /\ etc' = IF Call(b).copy = "etc" THEN Overlay(etc, Call(b).file, Outgoing(b)) ELSE etc
        BY <2>1 DEF WriteConfig
      <3>2. a = b
        <4>1. SUFFICES ASSUME a # b PROVE FALSE
          OBVIOUS
        <4>2. pc'[a] = pc[a] /\ pc[a] \in 1 .. 14
          BY <1>1, <3>1, <4>1 DEF TypeOK
        <4>3. pc[a] # pc[a] + 1
          BY <4>2
        <4>4. QED
          BY <1>1, <3>1, <4>2, <4>3 DEF StepOf
      <3>3. Call(b).copy = "etc" /\ FileOf[i] = Call(b).file /\ etc'[i] = Outgoing(b)[i]
        BY <1>1, <3>1 DEF Overlay, TypeOK
      <3>4. cmd[a] \in Commands \ {"factory", "pinetd"} /\ pc[a] \in 1 .. Len(Program[cmd[a]])
        BY <1>1, <3>1, <3>2, CallType, RunsWhen DEF RaceInv
      <3>5. HasUsed(a, "etc", FileOf[i])
        <4>1. /\ Program[cmd[a]][pc[a]].do = "write"
              /\ Program[cmd[a]][pc[a]].file = FileOf[i]
          BY <3>1, <3>2, <3>3 DEF Call
        <4>2. PICK j \in 1 .. pc[a] - 1 : /\ Program[cmd[a]][j].copy = "etc"
                                         /\ Program[cmd[a]][j].file = FileOf[i]
          BY <3>4, <4>1, EtcReadFirst
        <4>3. QED
          BY <3>1, <3>2, <4>2 DEF HasUsed, Running
      <3>6. i \notin DOMAIN edit[a] => Outgoing(a)[i] = mem[a][i]
        BY <3>4 DEF Outgoing
      <3>7. Intact(a, "etc")
        BY <1>1, <3>1, <3>2, <3>4 DEF RaceInv, ImagesIntact, Running
      <3>8. a # Boot
        BY <1>1, <3>1, <3>2, <3>4 DEF RaceInv, BootChain, Finished, Running
      <3>9. QED
        BY <1>1, <3>2, <3>3, <3>5, <3>6, <3>7, <3>8 DEF Intact, Stored, OverlapReverts
    <2>2. CASE SnmpSync
      <3>1. /\ pc' = pc /\ cmd[Boot] = "pinetd" /\ Finished(Boot)
            /\ etc' = Overlay(etc, "SIO", mem'[Boot])
            /\ mem'[Boot] = [j \in Items |-> IF j \in Lines THEN ssm[j] ELSE mem[Boot][j]]
        BY <1>1, <2>2 DEF SnmpSync, SnmpdRuns, RaceInv, BootChain, TypeOK, Actors
      <3>2. a = Boot
        <4>1. pc[a] \in 1 .. 14 /\ pc'[a] = pc[a]
          BY <1>1, <3>1 DEF TypeOK
        <4>2. pc[a] # pc[a] + 1
          BY <4>1
        <4>3. QED
          BY <1>1, <4>1, <4>2 DEF StepOf
      <3>3. FileOf[i] = "SIO" /\ etc'[i] = mem'[Boot][i]
        BY <1>1, <3>1 DEF Overlay, TypeOK
      <3>4. HasUsed(Boot, "etc", "SIO")
        <4>1. PICK k \in 1 .. 12 : PinetdProgram[k] = Wr("etc", "SIO")
          BY PinetdWrites DEF Files
        <4>2. Program[cmd[Boot]] = PinetdProgram /\ pc[Boot] - 1 = 12
          BY <3>1, ProgramTable, PinetdReads DEF Finished
        <4>3. QED
          BY <3>1, <4>1, <4>2 DEF HasUsed, Wr, Idle
      <3>5. Intact(Boot, "etc")
        BY <1>1, <3>1 DEF RaceInv, ImagesIntact, Actors, Idle
      <3>6. DOMAIN edit[Boot] = {}
        BY <1>1 DEF NoEdit
      <3>7. QED
        BY <1>1, <3>1, <3>2, <3>3, <3>4, <3>5, <3>6 DEF Intact, Stored, BootCopyReverts
    <2>3. \/ \E b \in Actors : WriteConfig(b)
          \/ SnmpSync
          \/ etc' = etc
      BY <1>1 DEF Next, ReadConfig, Request, DefSave, DefFactory, DefWan, DefPort, DefWifi,
             SetNetwork, SetPassword, SetSnmp, SetSerial, SetWireless, SetGpio, SetDio,
             SetReboot, SetFactory, Launch, Exit, Reject, End, EddyChecks, EddyResumes,
             StartBoot, PinetdUp, SnmpSet, Restart, vars
    <2>4. QED
      BY <1>1, <2>1, <2>2, <2>3
  <1>2. TypeOK /\ NeverBlankInv /\ RaceInv /\ edit[Boot] = NoEdit /\ [Next]_vars =>
          [\A a \in Actors, i \in Items : Reverts(a, i) => Excused(a, i)]_vars
    BY <1>1
  <1>3. QED
    BY <1>2, RaceInvariant, BootUnasked, PTL DEF Spec, OnlyStaleImagesRevert
-----------------------------------------------------------------------------
(* The refinement.  With one operator and no SNMP agent nobody gets in      *)
(* between the calls of a program, and what it holds is what it has read.   *)

OneOperator == \A u, v \in Users : u = v

(* What a program holds of an item it has read, the marks of missing files  *)
(* aside: its memory was zeroed before.                                     *)
Restored(v) == IF v = Absent THEN Zero ELSE v

HasWritten(a, c, f) == \E k \in 1 .. pc[a] - 1 : Program[cmd[a]][k] = Wr(c, f)

(* Only the operator writes over files somebody has used.                   *)
NobodyOvertakes == \A u \in Users : \A c, f : <<u, c, f>> \notin overtaken

(* Who makes changes has been asked for one.                                *)
EditsMeant ==
  /\ edit[Boot] = NoEdit
  /\ \A u \in Users : cmd[u] \notin {Idle, "save", "factory"} => edit[u] \in Edits

(* Memory no read has filled is zero.                                       *)
UnreadIsZero ==
  \A a \in Actors, i \in Items : ~HasRead(a, FileOf[i]) => mem[a][i] = Zero

(* factory_default holds the SYSTEM file in use until it writes it, and has *)
(* saved what it goes on to write.                                          *)
FactoryHolds ==
  \A a \in Actors : cmd[a] = "factory" =>
    /\ pc[a] \in {2, 3} => \A i \in InFile("SYSTEM") : mem[a][i] = Restored(etc[i])
    /\ \A i \in Items : HasWritten(a, "flash", FileOf[i]) =>
         flash[i] = FactorySetting(i, mem[a][i])

(* pinetd holds what is saved until it has copied all of it.                *)
PinetdHolds ==
  phase = "pinetd" =>
    \A i \in Items : HasRead(Boot, FileOf[i]) => mem[Boot][i] = Restored(flash[i])

SoloInv ==
  NobodyOvertakes /\ EditsMeant /\ UnreadIsZero /\ FactoryHolds /\ PinetdHolds
-----------------------------------------------------------------------------
(* Three more facts about the programs.                                    *)

(* factory_default reads the SYSTEM file first, saves each file right       *)
(* before it puts it into use, and the SYSTEM file before the others.       *)
LEMMA FactoryOrder ==
  /\ FactoryProgram[1] = Rd("etc", "SYSTEM")
  /\ \A k \in 1 .. 13 : FactoryProgram[k].do = "read" => k = 1
  /\ \A k \in 2 .. 13 : FactoryProgram[k].do = "write"
  /\ \A k \in 1 .. 13 : FactoryProgram[k] = Wr("flash", "SYSTEM") => k = 2
  /\ \A k \in 2 .. 13 : FactoryProgram[k].copy = "etc" =>
       /\ k - 1 \in 1 .. k - 1
       /\ FactoryProgram[k - 1] = Wr("flash", FactoryProgram[k].file)
  /\ FactoryProgram[3].copy = "etc" /\ FactoryProgram[3].do = "write"
  /\ FactoryProgram[2].copy = "flash"
  <1>1. FactoryProgram[1] = Rd("etc", "SYSTEM") /\ FactoryProgram[2].copy = "flash"
    BY DEF FactoryProgram, Wr
  <1>2. \A k \in 1 .. 13 : FactoryProgram[k].do = "read" => k = 1
    BY DEF FactoryProgram, Rd, Wr
  <1>3. \A k \in 2 .. 13 : FactoryProgram[k].do = "write"
    BY DEF FactoryProgram, Wr
  <1>4. \A k \in 1 .. 13 : FactoryProgram[k] = Wr("flash", "SYSTEM") => k = 2
    BY DEF FactoryProgram, Rd, Wr
  <1>5. \A k \in 2 .. 13 : FactoryProgram[k].copy = "etc" =>
          FactoryProgram[k - 1] = Wr("flash", FactoryProgram[k].file)
    BY DEF FactoryProgram, Wr
  <1>6. FactoryProgram[3].copy = "etc" /\ FactoryProgram[3].do = "write"
    BY DEF FactoryProgram, Wr
  <1>7. \A k \in 2 .. 13 : k - 1 \in 1 .. k - 1
    OBVIOUS
  <1>8. QED
    BY <1>1, <1>2, <1>3, <1>4, <1>5, <1>6, <1>7

(* What the programs write.                                                *)
LEMMA WritesWhere ==
  ASSUME NEW c \in Commands \ {"factory"},
         NEW k \in 1 .. Len(Program[c]), Program[c][k].do = "write"
  PROVE  Program[c][k].copy = IF c = "save" THEN "flash" ELSE "etc"
  <1>1. CASE c = "save"
    <2>1. \A n \in 1 .. 12 : SaveProgram[n].do = "write" => SaveProgram[n].copy = "flash"
      BY DEF SaveProgram, Rd, Wr
    <2>2. Program[c] = SaveProgram /\ Len(SaveProgram) = 12
      BY <1>1, ProgramTable DEF SaveProgram
    <2>3. QED
      BY <1>1, <2>1, <2>2
  <1>2. CASE c = "pinetd"
    <2>1. \A n \in 1 .. 12 : PinetdProgram[n].do = "write" => PinetdProgram[n].copy = "etc"
      BY DEF PinetdProgram, Rd, Wr
    <2>2. Program[c] = PinetdProgram /\ Len(PinetdProgram) = 12
      BY <1>2, ProgramTable DEF PinetdProgram
    <2>3. QED
      BY <1>2, <2>1, <2>2
  <1>3. CASE c = "wan"
    <2>1. \A n \in 1 .. 4 : WanProgram[n].do = "write" => WanProgram[n].copy = "etc"
      BY DEF WanProgram, Rd, Wr
    <2>2. Program[c] = WanProgram /\ Len(WanProgram) = 4
      BY <1>3, ProgramTable DEF WanProgram
    <2>3. QED
      BY <1>3, <2>1, <2>2
  <1>4. CASE c \in Files
    <2>1. \A n \in 1 .. 2 : RewriteProgram(c)[n].do = "write" => RewriteProgram(c)[n].copy = "etc"
      BY DEF RewriteProgram, Rd, Wr
    <2>2. Program[c] = RewriteProgram(c) /\ Len(RewriteProgram(c)) = 2
      BY <1>4, ProgramTable DEF RewriteProgram
    <2>3. c # "save"
      BY <1>4 DEF Files
    <2>4. QED
      BY <2>1, <2>2, <2>3
  <1>5. QED
    BY <1>1, <1>2, <1>3, <1>4 DEF Commands

(* Nothing happens beside a call but that call.                             *)
LEMMA AloneAtCall ==
  ASSUME TypeOK, BootChain, OneOperator, NEW a \in Actors, Running(a)
  PROVE  \A b \in Actors : b # a => cmd[b] = Idle \/ (b = Boot /\ cmd[b] = "pinetd" /\ phase = "up")
  BY RunsWhen DEF OneOperator, BootChain, Actors

(* How a call adds to what has been read and written.                       *)
LEMMA CallAdds ==
  ASSUME TypeOK, NEW a \in Actors, Running(a), cmd' = cmd,
         pc' = [pc EXCEPT ![a] = @ + 1]
  PROVE  /\ \A g : HasRead(a, g)' <=>
              HasRead(a, g) \/ (Call(a).do = "read" /\ g = Call(a).file)
         /\ \A d, g : HasWritten(a, d, g)' <=> HasWritten(a, d, g) \/ Call(a) = Wr(d, g)
         /\ \A b \in Actors : b # a => \A g : HasRead(b, g)' <=> HasRead(b, g)
         /\ \A b \in Actors : b # a => \A d, g : HasWritten(b, d, g)' <=> HasWritten(b, d, g)
  <1>1. 1 .. pc'[a] - 1 = (1 .. pc[a] - 1) \cup {pc[a]}
    BY PcStep
  <1>2. \A b \in Actors : b # a => pc'[b] = pc[b]
    BY DEF TypeOK
  <1>3. \A g : HasRead(a, g)' <=>
          HasRead(a, g) \/ (Call(a).do = "read" /\ g = Call(a).file)
    BY <1>1 DEF HasRead, Call
  <1>4. \A d, g : HasWritten(a, d, g)' <=> HasWritten(a, d, g) \/ Call(a) = Wr(d, g)
    BY <1>1 DEF HasWritten, Call
  <1>5. \A b \in Actors : b # a => \A g : HasRead(b, g)' <=> HasRead(b, g)
    BY <1>2 DEF HasRead
  <1>6. \A b \in Actors : b # a => \A d, g : HasWritten(b, d, g)' <=> HasWritten(b, d, g)
    BY <1>2 DEF HasWritten
  <1>7. QED
    BY <1>3, <1>4, <1>5, <1>6
-----------------------------------------------------------------------------
(* A read fetches what is stored, or leaves the zeroes.                     *)
LEMMA SoloRead ==
  ASSUME TypeOK, BootChain, OneOperator, SoloInv, NEW a \in Actors, ReadConfig(a)
  PROVE  SoloInv'
  <1>1. PICK c \in Copies, f \in Files : c = Call(a).copy /\ f = Call(a).file
    BY CallType DEF ReadConfig
  <1>2. /\ Running(a) /\ Call(a).do = "read" /\ cmd' = cmd /\ edit' = edit
        /\ etc' = etc /\ flash' = flash /\ phase' = phase
        /\ pc' = [pc EXCEPT ![a] = @ + 1]
        /\ overtaken' = overtaken \ {<<a, c, f>>}
        /\ mem'[a] = Loaded(mem[a], Stored(c), f)
        /\ \A b \in Actors : b # a => mem'[b] = mem[b]
    BY <1>1 DEF ReadConfig, TypeOK
  <1>3. \A i \in Items : mem'[a][i] = IF FileOf[i] = f /\ Stored(c)[i] # Absent
                                      THEN Stored(c)[i] ELSE mem[a][i]
    BY <1>2 DEF Loaded
  <1>4. \A b \in Actors : \A g : HasRead(b, g)' <=> HasRead(b, g) \/ (b = a /\ g = f)
    BY <1>1, <1>2, CallAdds
  <1>5. cmd[a] \in Commands /\ pc[a] \in 1 .. Len(Program[cmd[a]])
    BY <1>2, CallType
  <1>6. NobodyOvertakes'
    BY <1>2 DEF SoloInv, NobodyOvertakes
  <1>7. EditsMeant'
    BY <1>2 DEF SoloInv, EditsMeant
  <1>8. UnreadIsZero'
    <2>1. \A b \in Actors, i \in Items : ~HasRead(b, FileOf[i])' => mem'[b][i] = mem[b][i]
      BY <1>2, <1>3, <1>4
    <2>2. QED
      BY <1>4, <2>1 DEF SoloInv, UnreadIsZero
  <1>9. ASSUME cmd[a] # "factory" => c # "etc" \/ cmd[a] # "pinetd",
               NEW i \in Items, FileOf[i] = f, ~HasRead(a, f)
        PROVE  mem'[a][i] = Restored(Stored(c)[i])
    <2>1. mem[a][i] = Zero
      BY <1>9 DEF SoloInv, UnreadIsZero
    <2>2. QED
      BY <1>3, <1>9, <2>1 DEF Restored
  <1>10. FactoryHolds'
    <2>1. ASSUME cmd[a] = "factory"
          PROVE  /\ pc[a] = 1 /\ pc'[a] = 2 /\ c = "etc" /\ f = "SYSTEM" /\ ~HasRead(a, f)
                 /\ \A d, g : ~HasWritten(a, d, g)'
      <3>1. Program[cmd[a]] = FactoryProgram /\ pc[a] \in 1 .. 13
        BY <1>5, <2>1, ProgramTable, FactoryWrites
      <3>2. Call(a) = FactoryProgram[pc[a]]
        BY <3>1 DEF Call
      <3>3. pc[a] = 1
        BY <1>2, <3>1, <3>2, FactoryOrder
      <3>4. c = "etc" /\ f = "SYSTEM"
        BY <1>1, <3>2, <3>3, FactoryOrder DEF Rd
      <3>5. pc'[a] = 2 /\ 1 .. pc[a] - 1 = {}
        BY <1>2, <3>3 DEF TypeOK
      <3>6. ~HasRead(a, f) /\ \A d, g : ~HasWritten(a, d, g)
        BY <3>5 DEF HasRead, HasWritten
      <3>7. \A d, g : Call(a) # Wr(d, g)
        BY <1>2 DEF Wr
      <3>8. QED
        BY <1>2, <3>3, <3>4, <3>5, <3>6, <3>7, CallAdds
    <2>2. ASSUME cmd[a] = "factory", NEW i \in InFile("SYSTEM")
          PROVE  mem'[a][i] = Restored(etc'[i])
      <3>1. i \in Items /\ FileOf[i] = f
        BY <2>1, <2>2 DEF InFile
      <3>2. mem'[a][i] = Restored(Stored(c)[i])
        BY <1>9, <2>1, <2>2, <3>1
      <3>3. QED
        BY <1>2, <2>1, <2>2, <3>2 DEF Stored
    <2>3. \A b \in Actors : b # a => /\ pc'[b] = pc[b]
                                     /\ \A d, g : HasWritten(b, d, g)' <=> HasWritten(b, d, g)
      BY <1>2, CallAdds DEF TypeOK
    <2>4. ASSUME NEW b \in Actors, b # a, cmd[b] = "factory"
          PROVE  FALSE
      BY <1>2, <2>4, AloneAtCall DEF Idle
    <2>5. QED
      BY <1>2, <2>1, <2>2, <2>4 DEF FactoryHolds, Restored
  <1>11. PinetdHolds'
    <2> SUFFICES ASSUME phase = "pinetd", NEW i \in Items, HasRead(Boot, FileOf[i])'
                 PROVE  mem'[Boot][i] = Restored(flash[i])
      BY <1>2 DEF PinetdHolds, Restored
    <2>1. a = Boot /\ cmd[a] = "pinetd"
      BY <1>2, RunsWhen
    <2>2. c = "flash"
      <3>1. Program[cmd[a]] = PinetdProgram /\ pc[a] \in 1 .. 12
        BY <1>5, <2>1, ProgramTable, PinetdReads
      <3>2. QED
        BY <1>1, <1>2, <3>1, PinetdReads DEF Call
    <2>3. CASE FileOf[i] = f /\ ~HasRead(a, f)
      BY <1>9, <2>1, <2>2, <2>3 DEF Stored
    <2>4. CASE FileOf[i] = f /\ HasRead(a, f)
      <3>1. mem[a][i] = Restored(flash[i])
        BY <2>1, <2>4 DEF SoloInv, PinetdHolds
      <3>2. QED
        BY <1>3, <2>1, <2>2, <3>1 DEF Restored, Stored
    <2>5. CASE FileOf[i] # f
      <3>1. mem[a][i] = Restored(flash[i])
        BY <1>4, <2>1, <2>5 DEF SoloInv, PinetdHolds
      <3>2. QED
        BY <1>3, <2>1, <2>5, <3>1
    <2>6. QED
      BY <2>3, <2>4, <2>5
  <1>12. QED
    BY <1>6, <1>7, <1>8, <1>10, <1>11 DEF SoloInv

(* A write is made of what the program holds.                               *)
LEMMA SoloWrite ==
  ASSUME TypeOK, BootChain, OneOperator, SoloInv, NEW a \in Actors, WriteConfig(a)
  PROVE  SoloInv'
  <1>1. PICK c \in Copies, f \in Files : c = Call(a).copy /\ f = Call(a).file
    BY CallType DEF WriteConfig
  <1>2. /\ Running(a) /\ Call(a).do = "write" /\ cmd' = cmd /\ edit' = edit
        /\ mem' = mem /\ phase' = phase
        /\ pc' = [pc EXCEPT ![a] = @ + 1]
        /\ overtaken' = OthersOvertaken(a, c, f)
        /\ etc' = IF c = "etc" THEN Overlay(etc, f, Outgoing(a)) ELSE etc
        /\ flash' = IF c = "flash" THEN Overlay(flash, f, Outgoing(a)) ELSE flash
    BY <1>1 DEF WriteConfig
  <1>3. \A b \in Actors : \A g : HasRead(b, g)' <=> HasRead(b, g)
    BY <1>2, CallAdds
  <1>4. cmd[a] \in Commands /\ pc[a] \in 1 .. Len(Program[cmd[a]])
    BY <1>2, CallType
  <1>5. NobodyOvertakes'
    <2>1. ASSUME NEW u \in Users, u # a
          PROVE  ~HasUsed(u, c, f)
      <3>1. u \in Actors /\ u # Boot
        BY ActorsAssumption DEF Actors
      <3>2. cmd[u] = Idle
        BY <1>2, <2>1, <3>1, AloneAtCall
      <3>3. QED
        BY <3>2 DEF HasUsed
    <2>2. QED
      BY <1>2, <2>1 DEF SoloInv, NobodyOvertakes, OthersOvertaken
  <1>6. EditsMeant'
    BY <1>2 DEF SoloInv, EditsMeant
  <1>7. UnreadIsZero'
    BY <1>2, <1>3 DEF SoloInv, UnreadIsZero
  <1>8. FactoryHolds'
    <2>1. ASSUME NEW b \in Actors, b # a, cmd[b] = "factory"
          PROVE  FALSE
      BY <1>2, <2>1, AloneAtCall DEF Idle
    <2>2. ASSUME cmd[a] = "factory"
          PROVE  /\ Program[cmd[a]] = FactoryProgram /\ pc[a] \in 2 .. 13
                 /\ Call(a) = FactoryProgram[pc[a]] /\ Call(a) = Wr(c, f)
                 /\ pc'[a] = pc[a] + 1
      <3>1. Program[cmd[a]] = FactoryProgram /\ pc[a] \in 1 .. 13
        BY <1>4, <2>2, ProgramTable, FactoryWrites
      <3>2. Call(a) = FactoryProgram[pc[a]]
        BY <3>1 DEF Call
      <3>3. pc[a] # 1
        BY <1>2, <3>2, FactoryOrder DEF Rd
      <3>4. \A n \in 2 .. 13 : FactoryProgram[n] =
                 Wr(FactoryProgram[n].copy, FactoryProgram[n].file)
        BY DEF FactoryProgram, Wr
      <3>5. pc[a] \in 2 .. 13
        BY <3>1, <3>3
      <3>6. pc'[a] = pc[a] + 1
        BY <1>2 DEF TypeOK
      <3>7. QED
        BY <1>1, <3>1, <3>2, <3>4, <3>5, <3>6
    <2>3. ASSUME cmd[a] = "factory", pc'[a] \in {2, 3}, NEW i \in InFile("SYSTEM")
          PROVE  mem'[a][i] = Restored(etc'[i])
      <3>1. pc[a] = 2
        <4>1. PICK n \in 2 .. 13 : n = pc[a]
          BY <2>2, <2>3
        <4>2. n + 1 \in {2, 3} => n = 2
          OBVIOUS
        <4>3. QED
          BY <2>2, <2>3, <4>1, <4>2
      <3>2. c = "flash"
        BY <1>1, <2>2, <2>3, <3>1, FactoryOrder
      <3>3. etc' = etc /\ mem' = mem
        BY <1>2, <3>2
      <3>4. mem[a][i] = Restored(etc[i])
        BY <2>3, <3>1 DEF SoloInv, FactoryHolds
      <3>5. QED
        BY <3>3, <3>4
    <2>4. ASSUME cmd[a] = "factory", NEW i \in Items, HasWritten(a, "flash", FileOf[i])'
          PROVE  flash'[i] = FactorySetting(i, mem[a][i])
      <3>1. CASE c = "flash" /\ FileOf[i] = f
        BY <1>2, <2>4, <3>1 DEF Overlay, Outgoing
      <3>2. CASE c # "flash" \/ FileOf[i] # f
        <4>1. Call(a) # Wr("flash", FileOf[i])
          BY <1>1, <3>2 DEF Wr
        <4>2. HasWritten(a, "flash", FileOf[i])
          BY <1>2, <2>4, <4>1, CallAdds
        <4>3. flash'[i] = flash[i]
          BY <1>2, <3>2 DEF Overlay
        <4>4. QED
          BY <2>4, <4>2, <4>3 DEF SoloInv, FactoryHolds
      <3>3. QED
        BY <3>1, <3>2
    <2>5. QED
      BY <1>2, <2>1, <2>3, <2>4 DEF FactoryHolds, Restored, FactorySetting
  <1>9. PinetdHolds'
    <2> SUFFICES ASSUME phase = "pinetd"
                 PROVE  flash' = flash
      BY <1>2, <1>3 DEF SoloInv, PinetdHolds, Restored, Actors
    <2>1. cmd[a] = "pinetd"
      BY <1>2, RunsWhen
    <2>2. c = "etc"
      BY <1>1, <1>2, <1>4, <2>1, WritesWhere DEF Call
    <2>3. QED
      BY <1>2, <2>2
  <1>10. QED
    BY <1>5, <1>6, <1>7, <1>8, <1>9 DEF SoloInv

(* A program starts with nothing in its memory.                             *)
LEMMA SoloStart ==
  ASSUME TypeOK, BootChain, SoloInv, NEW a \in Actors,
         etc' = etc, flash' = flash,
         pc'[a] = 1, mem'[a] = Blank,
         a = Boot \/ phase' = phase,
         EditsMeant',
         \A b \in Actors : b # a =>
            /\ cmd'[b] = cmd[b] /\ pc'[b] = pc[b] /\ mem'[b] = mem[b],
         overtaken' \subseteq overtaken
  PROVE  SoloInv'
  <1>1. 1 .. pc'[a] - 1 = {}
    OBVIOUS
  <1>2. \A g : ~HasRead(a, g)'
    BY <1>1 DEF HasRead
  <1>3. \A d, g : ~HasWritten(a, d, g)'
    BY <1>1 DEF HasWritten
  <1>4. \A b \in Actors : b # a => \A g : HasRead(b, g)' <=> HasRead(b, g)
    BY DEF HasRead
  <1>5. \A b \in Actors : b # a => \A d, g : HasWritten(b, d, g)' <=> HasWritten(b, d, g)
    BY DEF HasWritten
  <1>6. NobodyOvertakes'
    BY DEF SoloInv, NobodyOvertakes
  <1>7. UnreadIsZero'
    BY <1>4 DEF SoloInv, UnreadIsZero, Blank
  <1>8. FactoryHolds'
    <2>1. ASSUME NEW b \in Actors, b # a, cmd'[b] = "factory", pc'[b] \in {2, 3},
                 NEW i \in InFile("SYSTEM")
          PROVE  mem'[b][i] = Restored(etc'[i])
      BY <2>1 DEF SoloInv, FactoryHolds
    <2>2. ASSUME NEW b \in Actors, b # a, cmd'[b] = "factory", NEW i \in Items,
                 HasWritten(b, "flash", FileOf[i])'
          PROVE  flash'[i] = FactorySetting(i, mem'[b][i])
      BY <1>5, <2>2 DEF SoloInv, FactoryHolds
    <2>3. pc'[a] \notin {2, 3}
      OBVIOUS
    <2>4. QED
      BY <1>3, <2>1, <2>2, <2>3 DEF FactoryHolds, Restored, FactorySetting
  <1>9. PinetdHolds'
    <2>1. CASE a = Boot
      BY <1>2, <2>1 DEF PinetdHolds
    <2>2. CASE a # Boot
      BY <1>4, <2>2 DEF SoloInv, PinetdHolds, Actors, Restored
    <2>3. QED
      BY <2>1, <2>2
  <1>10. QED
    BY <1>6, <1>7, <1>8, <1>9 DEF SoloInv

(* Every step keeps SoloInv.                                               *)
LEMMA SoloStep ==
  ASSUME TypeOK, BootChain, OneOperator, SnmpOn = {}, SoloInv, [Next]_vars
  PROVE  SoloInv'
  <1>1. ASSUME NEW a \in Actors, ReadConfig(a) \/ WriteConfig(a)
        PROVE  SoloInv'
    BY <1>1, SoloRead, SoloWrite
  <1>2. ASSUME NEW u \in Users, Request(u)
        PROVE  SoloInv'
    <2>1. PICK c \in Commands, e \in Edits \cup {NoEdit} :
            Launch(u, c, e) /\ (c \notin {"save", "factory"} => e \in Edits)
      BY <1>2 DEF Request, DefSave, DefFactory, DefWan, DefPort, DefWifi, SetNetwork,
             SetPassword, SetSnmp, SetSerial, SetWireless, SetGpio, SetDio,
             SetReboot, SetFactory, Commands, Files, EditsOf
    <2>2. /\ u \in Actors /\ u # Boot /\ cmd[u] = Idle /\ etc' = etc /\ flash' = flash
          /\ pc' = pc /\ mem' = mem /\ overtaken' = overtaken /\ phase' = phase
          /\ \A b \in Actors : b # u => cmd'[b] = cmd[b] /\ edit'[b] = edit[b]
          /\ cmd'[u] = c /\ edit'[u] = e
      BY <2>1, ActorsAssumption DEF Launch, Actors, TypeOK
    <2>3. pc[u] = 1
      BY <2>2 DEF BootChain
    <2>4. mem[u] = Blank
      <3>1. \A g : ~HasRead(u, g)
        BY <2>3 DEF HasRead
      <3>2. \A i \in Items : mem[u][i] = Zero
        BY <2>2, <3>1 DEF SoloInv, UnreadIsZero
      <3>3. mem[u] \in [Items -> Value]
        BY <2>2 DEF TypeOK
      <3>4. QED
        BY <3>2, <3>3 DEF Blank
    <2>5. EditsMeant'
      <3>1. edit'[Boot] = NoEdit
        BY <2>2 DEF SoloInv, EditsMeant, Actors
      <3>2. ASSUME NEW v \in Users, cmd'[v] \notin {Idle, "save", "factory"}
            PROVE  edit'[v] \in Edits
        BY <2>1, <2>2, <3>2 DEF SoloInv, EditsMeant, Actors
      <3>3. QED
        BY <3>1, <3>2 DEF EditsMeant
    <2>6. QED
      BY <2>2, <2>3, <2>4, <2>5, SoloStart
  <1>3. ASSUME NEW u \in Users, End(u)
        PROVE  SoloInv'
    <2>1. /\ u \in Actors /\ u # Boot /\ etc' = etc /\ flash' = flash /\ phase' = phase
          /\ cmd'[u] = Idle /\ pc'[u] = 1 /\ mem'[u] = Blank
          /\ overtaken' \subseteq overtaken
          /\ \A b \in Actors : b # u => /\ cmd'[b] = cmd[b] /\ pc'[b] = pc[b]
                                        /\ mem'[b] = mem[b] /\ edit'[b] = edit[b]
      BY <1>3, ActorsAssumption DEF End, Actors, TypeOK
    <2>2. EditsMeant'
      BY <2>1 DEF SoloInv, EditsMeant, Actors
    <2>3. QED
      BY <2>1, <2>2, SoloStart
  <1>4. ASSUME NEW c \in {"factory", "pinetd"}, StartBoot(c)
        PROVE  SoloInv'
    <2>1. /\ Boot \in Actors /\ etc' = etc /\ flash' = flash /\ edit' = edit
          /\ pc'[Boot] = 1 /\ mem'[Boot] = Blank
          /\ overtaken' \subseteq overtaken
          /\ \A b \in Actors : b # Boot => /\ cmd'[b] = cmd[b] /\ pc'[b] = pc[b]
                                           /\ mem'[b] = mem[b]
      BY <1>4 DEF StartBoot, Actors, TypeOK
    <2>2. EditsMeant'
      BY <2>1, ActorsAssumption DEF SoloInv, EditsMeant, Actors
    <2>3. QED
      BY <2>1, <2>2, SoloStart
  <1>5. CASE EddyChecks \/ EddyResumes
    BY <1>4, <1>5 DEF EddyChecks, EddyResumes
  <1>6. CASE PinetdUp
    <2>1. /\ etc' = etc /\ flash' = flash /\ cmd' = cmd /\ pc' = pc /\ mem' = mem
          /\ edit' = edit /\ overtaken' = overtaken /\ phase' = "up"
      BY <1>6 DEF PinetdUp
    <2>2. PinetdHolds'
      BY <2>1 DEF PinetdHolds
    <2>3. QED
      BY <2>1, <2>2 DEF SoloInv, NobodyOvertakes, EditsMeant, UnreadIsZero, FactoryHolds,
                        HasRead, HasWritten, Restored, FactorySetting
  <1>7. ~SnmpdRuns
    BY DEF SnmpdRuns
  <1>8. CASE Restart
    <2>1. /\ phase' = "eddy" /\ cmd' = [a \in Actors |-> Idle] /\ pc' = [a \in Actors |-> 1]
          /\ mem' = [a \in Actors |-> Blank] /\ edit' = [a \in Actors |-> NoEdit]
          /\ overtaken' = {}
      BY <1>8 DEF Restart
    <2>2. UnreadIsZero'
      BY <2>1 DEF UnreadIsZero, Blank
    <2>3. FactoryHolds' /\ PinetdHolds'
      BY <2>1 DEF FactoryHolds, PinetdHolds, Idle
    <2>4. EditsMeant' /\ NobodyOvertakes'
      BY <2>1 DEF EditsMeant, NobodyOvertakes, Actors
    <2>5. QED
      BY <2>2, <2>3, <2>4 DEF SoloInv
  <1>9. CASE UNCHANGED vars
    BY <1>9 DEF vars, SoloInv, NobodyOvertakes, EditsMeant, UnreadIsZero, FactoryHolds,
                PinetdHolds, HasRead, HasWritten, Restored, FactorySetting
  <1>10. QED
    BY <1>1, <1>2, <1>3, <1>5, <1>6, <1>7, <1>8, <1>9
       DEF Next, Exit, Reject, SnmpSync, SnmpSet

(* At power-on nobody has read or written anything.                         *)
LEMMA SoloInit == Init => SoloInv
  <1> SUFFICES ASSUME Init PROVE SoloInv
    OBVIOUS
  <1>1. UnreadIsZero
    BY DEF Init, UnreadIsZero, Blank
  <1>2. FactoryHolds /\ PinetdHolds
    BY DEF Init, FactoryHolds, PinetdHolds, Idle
  <1>3. EditsMeant /\ NobodyOvertakes
    BY DEF Init, EditsMeant, NobodyOvertakes, Actors
  <1>4. QED
    BY <1>1, <1>2, <1>3 DEF SoloInv
-----------------------------------------------------------------------------
(* Each write is a step of the abstract specification: pinetd restores,     *)
(* "def save" commits, def factory resets and restores, the others edit.    *)
LEMMA WriteRefines ==
  ASSUME TypeOK, RaceInv, SoloInv, OneOperator, NEW a \in Actors, WriteConfig(a)
  PROVE  Abs!Next \/ UNCHANGED <<etc, flash>>
  <1>1. PICK c \in Copies, f \in Files : c = Call(a).copy /\ f = Call(a).file
    BY CallType DEF WriteConfig
  <1>2. /\ Running(a) /\ Call(a).do = "write"
        /\ etc' = IF c = "etc" THEN Overlay(etc, f, Outgoing(a)) ELSE etc
        /\ flash' = IF c = "flash" THEN Overlay(flash, f, Outgoing(a)) ELSE flash
    BY <1>1 DEF WriteConfig
  <1>3. cmd[a] \in Commands /\ pc[a] \in 1 .. Len(Program[cmd[a]])
    BY <1>2, CallType
  <1>4. etc \in [Items -> Value \cup {Absent}] /\ flash \in [Items -> Value \cup {Absent}]
    BY DEF TypeOK
  <1>5. BootChain /\ ImagesIntact
    BY DEF RaceInv
  <1>6. CASE \A i \in Items : FileOf[i] # f
    BY <1>2, <1>4, <1>6 DEF Overlay
  <1>7. CASE \E i \in Items : FileOf[i] = f
    <2>0. f \in {FileOf[i] : i \in Items}
      BY <1>7
    <2> SUFFICES Abs!Edit(f) \/ Abs!Commit(f) \/ Abs!Reset(f) \/ Abs!Restore(f)
      BY <2>0 DEF Abs!Next
    <2>1. CASE cmd[a] = "factory"
      <3>1. Program[cmd[a]] = FactoryProgram /\ pc[a] \in 1 .. 13
        BY <1>3, <2>1, ProgramTable, FactoryWrites
      <3>2. Call(a) = FactoryProgram[pc[a]]
        BY <3>1 DEF Call
      <3>3. pc[a] \in 2 .. 13
        <4>1. pc[a] # 1
          BY <1>2, <3>2, FactoryOrder DEF Rd
        <4>2. QED
          BY <3>1, <4>1
      <3>4. \A i \in Items : Outgoing(a)[i] = FactorySetting(i, mem[a][i])
        BY <2>1 DEF Outgoing
      <3>5. CASE c = "flash"
        <4>1. ASSUME NEW i \in Items, FileOf[i] = f
              PROVE  Outgoing(a)[i] = Abs!FactorySetting(i, etc[i])
          <5>1. CASE i \in Kept
            <6>1. i \in InFile("SYSTEM") /\ f = "SYSTEM"
              BY <4>1, <5>1, ItemsAssumption DEF InFile
            <6>2. \A k \in 2 .. 13 : FactoryProgram[k].copy = "flash" =>
                    FactoryProgram[k] = Wr("flash", FactoryProgram[k].file)
              BY DEF FactoryProgram, Wr
            <6>3. pc[a] = 2
              BY <1>1, <3>2, <3>3, <3>5, <6>1, <6>2, FactoryOrder
            <6>4. mem[a][i] = Restored(etc[i])
              BY <2>1, <6>1, <6>3 DEF SoloInv, FactoryHolds
            <6>5. QED
              BY <3>4, <5>1, <6>4, ValuesAssumption
                 DEF FactorySetting, Abs!FactorySetting, Restored
          <5>2. CASE i \notin Kept
            BY <3>4, <5>2 DEF FactorySetting, Abs!FactorySetting
          <5>3. QED
            BY <5>1, <5>2
        <4>2. flash' = Abs!Overlay(flash, f, [i \in Items |-> Abs!FactorySetting(i, etc[i])])
          BY <1>2, <3>5, <4>1 DEF Overlay, Abs!Overlay
        <4>3. QED
          BY <1>2, <3>5, <4>2 DEF Abs!Reset
      <3>6. CASE c = "etc"
        <4>1. ASSUME NEW i \in Items, FileOf[i] = f
              PROVE  Outgoing(a)[i] = Abs!Restored(flash[i])
          <5>1. HasWritten(a, "flash", f)
            <6>1. pc[a] - 1 \in 1 .. pc[a] - 1 /\ FactoryProgram[pc[a] - 1] = Wr("flash", f)
              BY <1>1, <3>2, <3>3, <3>6, FactoryOrder
            <6>2. QED
              BY <3>1, <6>1 DEF HasWritten
          <5>2. flash[i] = FactorySetting(i, mem[a][i])
            BY <2>1, <4>1, <5>1 DEF SoloInv, FactoryHolds
          <5>3. mem[a][i] # Absent
            BY ValuesAssumption DEF TypeOK, Value
          <5>4. QED
            BY <3>4, <5>2, <5>3, ValuesAssumption DEF FactorySetting, Abs!Restored
        <4>2. etc' = Abs!Overlay(etc, f, [i \in Items |-> Abs!Restored(flash[i])])
          BY <1>2, <3>6, <4>1 DEF Overlay, Abs!Overlay
        <4>3. QED
          BY <1>2, <3>6, <4>2 DEF Abs!Restore
      <3>7. QED
        BY <3>5, <3>6 DEF Copies
    <2>2. CASE cmd[a] # "factory"
      <3>1. c = IF cmd[a] = "save" THEN "flash" ELSE "etc"
        BY <1>1, <1>2, <1>3, <2>2, WritesWhere DEF Call
      <3>2. PICK j \in 1 .. pc[a] - 1 : /\ Program[cmd[a]][j].do = "read"
                                        /\ Program[cmd[a]][j].file = f
        BY <1>1, <1>2, <1>3, <2>2, ReadBeforeWrite DEF Call
      <3>3. j \in 1 .. Len(Program[cmd[a]])
        <4>1. Len(Program[cmd[a]]) \in 1 .. 13
          BY <1>3, ProgramType
        <4>2. QED
          BY <1>3, <4>1
      <3>4. CASE cmd[a] = "pinetd"
        <4>1. phase = "pinetd" /\ a = Boot
          <5>1. a \notin Users
            BY <1>5, <3>4 DEF BootChain
          <5>2. QED
            BY <1>2, <1>5, <3>4, <5>1, RunsWhen DEF Actors
        <4>2. HasRead(Boot, f)
          BY <3>2, <4>1 DEF HasRead
        <4>3. ASSUME NEW i \in Items, FileOf[i] = f
              PROVE  Outgoing(a)[i] = Abs!Restored(flash[i])
          <5>1. mem[a][i] = Restored(flash[i])
            BY <4>1, <4>2, <4>3 DEF SoloInv, PinetdHolds
          <5>2. DOMAIN edit[a] = {}
            BY <4>1 DEF SoloInv, EditsMeant, NoEdit
          <5>3. QED
            BY <2>2, <5>1, <5>2 DEF Outgoing, Restored, Abs!Restored
        <4>4. etc' = Abs!Overlay(etc, f, [i \in Items |-> Abs!Restored(flash[i])])
          BY <1>2, <3>1, <3>4, <4>3 DEF Overlay, Abs!Overlay
        <4>5. QED
          BY <1>2, <3>1, <3>4, <4>4 DEF Abs!Restore
      <3>5. CASE cmd[a] # "pinetd"
        <4>1. a \in Users
          BY <1>2, <1>5, <2>2, <3>5, RunsWhen
        <4>2. HasUsed(a, "etc", f)
          BY <1>2, <1>3, <2>2, <3>2, <3>3, <3>5, ReadsEtc DEF HasUsed, Running
        <4>3. ASSUME NEW i \in Items, FileOf[i] = f, i \notin DOMAIN edit[a]
              PROVE  Outgoing(a)[i] = etc[i]
          <5>1. Intact(a, "etc") /\ <<a, "etc", f>> \notin overtaken
            BY <1>2, <1>5, <2>2, <4>1 DEF ImagesIntact, SoloInv, NobodyOvertakes, Running
          <5>2. etc[i] = mem[a][i]
            BY <4>2, <4>3, <5>1 DEF Intact, Stored
          <5>3. QED
            BY <2>2, <4>3, <5>2 DEF Outgoing
        <4>4. CASE cmd[a] = "save"
          <5>1. DOMAIN edit[a] = {}
            BY <1>5, <4>4 DEF ImagesIntact, NoEdit
          <5>2. flash' = Abs!Overlay(flash, f, etc)
            BY <1>2, <3>1, <4>3, <4>4, <5>1 DEF Overlay, Abs!Overlay
          <5>3. QED
            BY <1>2, <3>1, <4>4, <5>2 DEF Abs!Commit
        <4>5. CASE cmd[a] # "save"
          <5>1. edit[a] \in Edits
            BY <1>2, <2>2, <4>1, <4>5 DEF SoloInv, EditsMeant, Running
          <5>2. ASSUME NEW i \in Items, FileOf[i] = f
                PROVE  Outgoing(a)[i] = IF i \in DOMAIN edit[a] THEN edit[a][i] ELSE etc[i]
            BY <2>2, <4>3, <5>2 DEF Outgoing
          <5>3. etc' = Abs!Overlay(etc, f,
                         [i \in Items |-> IF i \in DOMAIN edit[a] THEN edit[a][i] ELSE etc[i]])
            BY <1>2, <3>1, <4>5, <5>2 DEF Overlay, Abs!Overlay
          <5>4. QED
            BY <1>2, <3>1, <4>5, <5>1, <5>3 DEF Abs!Edit
        <4>6. QED
          BY <4>4, <4>5
      <3>6. QED
        BY <3>4, <3>5
    <2>3. QED
      BY <2>1, <2>2
  <1>8. QED
    BY <1>6, <1>7

(* With one operator and the SNMP agent off, the programs, with their calls *)
(* cut off by a loss of power anywhere, do what ConfigAbs says: every step  *)
(* edits, commits, resets or restores one configuration file, or leaves     *)
(* both copies as they are.                                                 *)
THEOREM Implementation ==
  ASSUME OneOperator, SnmpOn = {}
  PROVE  Spec => ImplementsConfigAbs
  <1>1. Init => Abs!Init
    BY DEF Init, Abs!Init
  <1>2. TypeOK /\ NeverBlankInv /\ RaceInv /\ SoloInv /\ [Next]_vars
          => [Abs!Next]_<<etc, flash>>
    <2> SUFFICES ASSUME TypeOK, NeverBlankInv, RaceInv, SoloInv, [Next]_vars
                 PROVE  Abs!Next \/ UNCHANGED <<etc, flash>>
      OBVIOUS
    <2>1. ASSUME NEW a \in Actors, WriteConfig(a)
          PROVE  Abs!Next \/ UNCHANGED <<etc, flash>>
      BY <2>1, WriteRefines
    <2>2. ~SnmpdRuns
      BY DEF SnmpdRuns
    <2>3. (\E a \in Actors : WriteConfig(a)) \/ UNCHANGED <<etc, flash>>
      BY <2>2 DEF Next, ReadConfig, Request, DefSave, DefFactory, DefWan, DefPort, DefWifi,
             SetNetwork, SetPassword, SetSnmp, SetSerial, SetWireless, SetGpio, SetDio,
             SetReboot, SetFactory, Launch, Exit, Reject, End, EddyChecks, EddyResumes,
             StartBoot, PinetdUp, SnmpSet, SnmpSync, Restart, vars
    <2>4. QED
      BY <2>1, <2>3
  <1>3. TypeOK /\ NeverBlankInv /\ SoloInv /\ [Next]_vars => SoloInv'
    BY SoloStep DEF NeverBlankInv
  <1>4. QED
    BY <1>1, <1>2, <1>3, SoloInit, RaceInvariant, PTL DEF Spec, ImplementsConfigAbs, Abs!Spec
=============================================================================
