# Verification of the BBB Web Manager

TLA+ models, TLC runs and TLAPS proofs for the firmware of a serial device
server on a BeagleBone Black: a configuration kept twice, a `def` command and
CGI pages that edit it, a supervisor (`pinetd`) and one-shot programs that turn
it into systemd services. The repository has no specification of its own; the
C sources are the reference, and the texts on the pages and in the comments are
the only statements of intent.

## 1. Inventory

| part | state it keeps | operations | talks to |
|---|---|---|---|
| configuration store (`SB_APIs/SB_Environment.c`) | six files twice: saved `/etc/.eddy_*.cfg` ("flash"), in use `/etc/eddy_*.cfg` ("etc") | `SB_ReadConfig`, `SB_WriteConfig`: a whole file, no lock | everybody |
| boot (`app/eddy.c`, head of `app/pinetd.c`) | the boot phase | `eddy` runs `def factory` if the saved SYSTEM file is missing or blank; `pinetd` copies flash to etc | files, `def` |
| `def` (`app/def.c`) | its structures in memory | `save`, `factory`, `port`, `wifi`, single fields | files, login files |
| web pages (`cgi/getagent.c`, `htdocs/`) | the forms open in browsers | render from the files, disable what has no use, ask for the page again | files, `setagent.cgi` |
| web requests (`cgi/setagent.c`, `cgi/agent.c`) | none between requests | ten forms; reboot and factory pages; upload and update | files, `def`, `serial`, `wan`, `upgrade`, `reboot` |
| `serial` (`app/serial.c`) | ttyON.conf, four unit files per port | stop, disable, write, enable, start of each service | systemd |
| pollers (`app/serial_get_rxtx.c`, `app/serial_monitor.c`) | counters files | telnet dialogue with ser2net's control port | SIO file, ser2net |
| supervisor (`app/pinetd.c`) | child pids, shared memory | main loop, `sig_chld` | children, thttpd, snmpd |
| reset button (`app/pinetd.c`) | deadline | watch loop, `reset_or_factory` | wall clock, `def`, `reboot` |
| login files (`app/eddy.c`, `app/def.c`, `cgi/agent.c`) | login.id, login.pw | rewritten by `save` and at boot | SYSTEM file |
| line settings (`app/def.c`, `cgi/setagent.c`, `app/serial.c`) | the dps byte, ports | encode, decode, range checks | SIO file |
| peripherals and pins (`cgi/setagent.c`, `cgi/getagent.c`, `app/def.c`) | four masks and a byte per peripheral | two pages, `def factory`, `def view` | GPIO, DIO files |
| network (`app/wan.c`, `app/wifi.c`, `app/eddy.c`) | interfaces, resolv.conf, dhclient.conf, the live interface | `wan`: six calls; `eddy` at boot; `wifi` after it | SYSTEM file, ifup, DHCP client |
| upgrade (`app/upgrade.c`, `app/upgradetftp.c`) | flash partitions, `/tmp/image_file`, `/tmp/list` | unpack, erase, copy, verify, one retry | `setagent.cgi` |

What is hard here. Nothing locks anything: any number of CGI processes, `def`
commands, `pinetd` and the pollers read and rewrite the same files between each
other's calls. Power may go at any call. `serial` is a script of up to 21
`system()` and `fopen()` calls that nothing undoes, and `wan` one of six. A form
lives in a browser while others write what it was made from, and a browser does
not send a disabled control. Two browsers may update the firmware at once, and
the reboot of one ends the other's. The pollers talk telnet over a stream that
TCP may cut anywhere. Nothing applies the
configuration at boot: systemd starts what the last run of `serial` has enabled
while `pinetd` restores the saved file under it. `pinetd` has one signal handler
that sleeps, forks and waits for pids that may be 0. And the reset button is
timed with a wall clock that wraps.

What makes each part correct: nothing blank is stored or restored; an update is
lost only to a stale image of its file; a save is complete; the services are
those of the configuration last applied, whatever was cut off before; what a
page promises is so after the reboot, and looking at it changes nothing; a pin
has one owner; the flash holds whole images; what is shown as counters is what
the server said; nothing runs twice and nobody starves in the supervisor;
factory settings only for a long press, and every press ends in a reboot.

The full list of hazards, at their lines, is in PROJECT.json.

## 2. Modules

### ConfigStore, ConfigAbs, ConfigStoreProofs

`ConfigStore` has the two copies as functions of the configuration *items*
(fields that some property tells apart, `FileOf` saying which file each is in).
A program is a sequence of `Rd` and `Wr` calls, transcribed from `def.c`,
`pinetd.c` and `setagent.c` in their order (`SaveProgram`, `FactoryProgram`,
`PinetdProgram`, `WanProgram`, `RewriteProgram`), and a call is a step:
`ReadConfig` (a missing file leaves the destination as it was) and
`WriteConfig`. A request starts a program (`DefSave` ... `SetFactory`), `Exit`
ends it, `Reject` is the early return on a value that is not accepted.
`EddyChecks`, `EddyResumes`, `PinetdUp` are the boot chain, `SnmpSet` and
`SnmpSync` the shared memory, `Restart` a reboot or a loss of power at any point.
Variables `overtaken` (another actor wrote the file since I last read or wrote
it) and `torn` (the first factory_default was cut off) are history.

`ConfigAbs` is what one operator is promised: a running and a saved
configuration, edited, committed, reset and restored file by file.
`ConfigStore` maps `running <- etc, saved <- flash`.

### SerialService, SerialDeploy, SerialDeployProofs

`SerialService` is one port (ports share only the SIO file): the entry in etc,
the files `serial` writes, what systemd has loaded, enabled and running, and any
number of overlapping runs, each at a call of `Script[mode]`. `ConfRefused` and
`UnitRefused` are failing `fopen`s (the first returns, the second goes on),
`Respawn` is `Restart=always`, `Restart` is a reboot. The protocols are four
modes, by the calls they make.

`SerialDeploy` extends it with the saved entry and the requests that move it:
the serial page in its three calls, `def port`, `def save`, `def factory` (one
step each here: their races are ConfigStore's), the three reboot buttons and the
second request their page makes ten seconds later, which runs `serial` before it
reboots.

### SerialPage, SerialPageProofs

The serial page of one port as a form. `Render` is `getagent.cgi`: what was sent
to it, or the entry, with `Disabled` for the mode, the login setting and the pins
it shows; `Sent` is the browser, `ChangeMode` and `ChangeLogin` the two lists
whose onchange asks for the page again, `Type` the other controls, `Stored` and
`Differs` are `set_serial`. Controls that are disabled, sent and used alike are
one field of seven. `served` is what `serial` has read *and uses* (`Uses`): the
local port and the line (baud rate, data bits) of a server, the remote address and
the line of a client. Parity and stop bits are not in it, since serial.c:34 and :50
serve NONE and 1STOPBIT whatever is chosen; they are in the field `idle`, with flow
control, alias and the times, which are shown and stored and no claim about the
service covers. `DefPort`,
`DefFactory` are every other writer, `set_gpio` takes the pins away. `plain` is
history: nothing typed, nobody has written.

### GpioPage, PinsAndLinesProofs

The four masks of `SB_GPIO_CONFIG` as sets of pins and the byte per peripheral.
The tables of the source (who owns a pin, which have an enable field, which
blocks of `set_gpio` store one and which of `get_gpio` show one) are
transcribed as sets, for both products, and a theorem uses that the last two
agree. `Setting` is the decoding every block repeats, `Store` the encoding,
`RenderGpio` the page with its disabled selects, `GpioAfter` the handler:
peripherals, enable fields, keypad, settings, where a field that is not sent
falls back on the file (`Fallback`). Three slips of the source are part of the
model: the block of C24 looks at the mode of C21, `gpio.html` calls the list of
B21 "PB10" (`SelectOf`), `def view` looks at A22 for A30. `set_dio` is the DIO
page.

### NetworkPage, NetworkPageProofs

The network page (`Shown`: the configuration on a fixed line, the lease under
DHCP), `SetNetwork` with its comparison (`Differs`) and what it stores either
way, `def`'s network commands, the reboot and factory pages, and `wan` as its
calls in order: `WanRead`, `WanIfdown`, `WanInterfaces`, `WanResolv`,
`WanDhclient`, `WanIfup`; `WanRefused` is an `fopen` that fails, after which wan
goes on with the old file. `Boot` is what eddy, `ifup -a` and pinetd make of the
saved configuration; `Wifi` appends to resolv.conf some time later; `Renew` is a
new lease. `ip` stands for address, mask and gateway. `def dns_s` ends in the
comparison for `def dns`, three letters long (def.c:570), and sets the primary
server, so `DefWan` has no command for the other. `settled`, `alone` and `fresh`
are history.

### Upgrade, UpgradeProofs

Two requests of any number of browsers: `SetUpdate` moves the upload to
`/tmp/image_file`, `SetOnlyUpdate` runs `upgrade`, sleeps and reboots. A run is
a place and a queue: `Unpack` (tar and its list, shared by all runs),
`ReadList`, `NextMember`, `Open`/`Refuse`, `Erase`/`EraseError`, `Copy`/
`ShortWrite`, `Verify`, `Unlink`, `Finish`, `Reboot`; `OpenError` is an open of
the image or of /dev/mtdN that fails, for which `upgrade` returns 0 as for
success: the member is removed without a second try. A block of flash is the
block of an image, erased, or bad; `Burnt` says that writing what is not erased
gives garbage, but for the flash type whose driver erases (`eon`). `Failed` is
the one retry, whose result is dropped. `PowerCut` and another run's reboot end
a run anywhere. `hurt` names the only events that may leave a partition broken,
`missed` the partitions that, or whose last image, could not be opened.

### RxTxPoll, RxTxPollProofs

Both programs that talk to ser2net's control port, and the server as they see
it. `net` is the TCP stream, of which a recv returns any part from the front;
`buf` the buffer, which starts with garbage. `ReadByte` and `ReadOption` are
`negotiate`, byte by byte, with the third byte taken from the buffer if recv
returned one; `Poll` looks for the echo and the line end with strstr and writes
the file, `AskAgain` is the next request, `Copy` is the monitor's log.
`Connect`, `Ended`, `NoFile`, `Close` are restarts and faults. The two programs
share the text of the negotiation; it is mapped once. Both also watch stdin
(serial_get_rxtx.c:280), which under systemd is always readable: select returns
at once and the loop turns without waiting, which changes nothing that is
modelled. In COM redirector mode no branch assigns the control port (:204); the
model starts behind a connection that was made.

### Supervisor, PinetdProofs

`pinetd` after its boot copy. `pc` is main's place, `handler` the one of
`sig_chld`, which may run between any two steps of main and holds it
(`MainRuns`). A SIGCHLD is one pending bit. `Task_Launch` may fail in vfork
(pid 0) or in execl (the child ends at once); pid 0 makes `waitpid` take any
child (`Reapable`). `AfterLaunch` is the order of the launches before
`signal()`. `Number_Of_Ports` is never assigned, so the handler's first loop is
empty and left out. One "port" child stands for all of them.

### ResetButton, PinetdProofs

The button alone, with time: `Second` is a second of real time that cannot pass
while `pinetd` has been due for longer than `Lag`. `tick` is the wall clock
modulo `Modulus`; it takes any value of `Ticks` when the button is seen to go
down and may be set by `ClockSet`. `KeepWatching`, `Factory`, `Warm`,
`RebootFactory`, `RebootAgain`, `Back` are the loop and `reset_or_factory` with
its three sleeps, which returns if the device is still up. `CutShort` is a
SIGCHLD in one of the sleeps: `SB_msleep` is one `nanosleep`, so it ends there.
`Break` and `Mend` are the button's device: while it cannot be opened or read
the button reads as down (`ReadsDown`), because pinetd checks neither the open
(pinetd.c:273) nor the ioctl (339).

### LineSettings, PinsAndLinesProofs

The byte `dps` of each port with its three fields. `WithData`, `WithStop`,
`WithParity` are the mask-and-or pairs of `set_port` and `set_serial`, `Shown`
the decoding of the serial page and `def view`, `Served` the one of `serial`.
`DefChar`, `DefStop`, `DefParity`, `DefProtocol` are commands over a range of
ports, `SetSerial` the page with its refusal of the last port, its comparison
with the file and its run of `serial`, `RunSerial` a run by itself. `asked` and
`applied` are what operators were told. A request is one step.

Operators whose comment begins with "Slip" are not part of a specification:
each is a plausible bug of the definition after it, against which PROJECT.json
checks the properties.

## 3. Runs

| run | asks | bounds, and why they do |
|---|---|---|
| config_races | SaveIsComplete, OnlyStaleImagesRevert for two operators and SNMP | 3 commands and 1 restart: SNMP takes an edit, a save and a reboot to be on, and one more command to race it; 5 items, two in a file where two programs fight over it. TypeOK and ConfigNeverBlank are proved for any number of operators and not repeated here |
| config_restarts | TypeOK, ConfigNeverBlank, NeverBlankInv, ImplementsConfigAbs | all six files, one operator, 3 commands (an edit, a save, one more) and 2 losses of power, so that a recovery can be cut off too. SNMP is off: it writes a stale copy and is no part of ConfigAbs |
| serial_runs | TypeOK, SettledPort, PollersFollow | 3 runs, two at a time: two that overlap or are cut off, and one that has to repair; one configuration of each mode; one edit, refused fopen, respawn and restart |
| deploy_requests | AppliedIsRequested, SavedIsInEffect for two operators | 3 requests, the disabled port and a client (whose script has the most calls); one respawn and loss of power |
| serial_forms | TypeOK, ServedAsShown, LookingAround | one browser, since `def` may write any entry at any time; off, server and client, whose disabled sets differ ("redirect" disables what "server" does), two values of each of the seven fields, any number of steps; proved for any browsers, modes and values |
| line_edits | LineTypeOK, ShownAsAsked, PageUntouched, DataServed | 2 ports (the last, whose page is refused, and another), 5 and 8 data bits (which differ in both bits), all stop bits and parities, any number of requests; proved for any number of ports |
| gpio_pages | TypeOK, OwnedPins, UntouchedSave, DisabledKept, PostedIsStored | both products, two browsers, six pins chosen from the different kinds (owned, keypad, with an enable field, ADC, reset, and the two the source slips on), 3 changed controls, any number of pages; proved for any pins |
| network_pages | SettledNetwork, SavedIsInEffect, UntouchedPage | two operators, two addresses and servers, 4 requests, commands or leases and 1 loss of power or fopen that fails: two that overlap, one that has to repair, and a reboot; proved for any of these |
| upgrade_updates | WholeUnlessHurt, UpdateInstalls | two browsers, 4 requests (an upload and an update of each), 2 faults (a try and its retry, or an open), 1 loss of power; an archive whose members are refused, for one partition and for the other, a plain image for the same, and one whose checksum is 0; two blocks, so that half a partition is old and half is new; both are proved for any of these |
| rxtx_polls | LogHasNoGap, FileIsAnswer, KeepsPolling | both programs; greetings with both options in either order and others in between, two kinds of garbage, 2 recvs that return a part (one that splits an option or an echo, one the answer), one fault. The counters flip between two values, which tells an answer from the one before |
| supervisor_loop | TypeOK, NeverTwice, WebServerKept, SnmpSetsLand, ButtonSeen | 3 children or web servers end by themselves; the web server looked at every second round instead of every 300th |
| button_press | FactoryNeedsHold, WarmMeansShort, PressReboots, ReleaseReboots | a clock of 9 s, read as 0, 3, 5 or 8 when the button is seen and set once to one of these: deadlines far from the wrap, next to it and behind it; shutdown up to 13 s, longer than reset_or_factory waits; pinetd late by a second; one sleep cut short, one failure of the button's device. Without any one of the exceptions of FactoryNeedsHold, or the last hypothesis of ReleaseReboots, TLC finds it violated. FactoryNeedsHold and WarmMeansShort are proved for any of these |

The operators of config_races, deploy_requests, gpio_pages, network_pages and
upgrade_updates and the runs of serial_runs are interchangeable, and these runs
use that symmetry; their properties are invariants and step properties.

Where a cfg turns the deadlock check off, every bounded counter may be used up
(the real system then simply waits for the next request), or, in rxtx_polls, the
program waits for an answer that has been cut.

### Where the code does less than its pages say

Met while modelling. The properties leave these cases out by name, or state what
does hold.

- `factory_default` rebuilds the SYSTEM structure over the one in etc and assigns
  neither the DDNS nor the PortView address, although the factory page says all
  changes will be lost. (ConfigAbs resets what is assigned: `Kept`.)
- After a switch from a client to a server mode nothing stops or disables
  `ttyON_sub.service`; the old socat goes on, and starts at every boot.
- The request behind "Reboot Only" runs `serial` on the *unsaved* entry, whose
  services then survive the reboot that restores the saved entry.
- `pinetd` loses updates without any overlap: after an SNMP set it writes back the
  copy of all ports it made at power-on (pinetd.c:403).
- A button that cannot be read is taken for one that is down (pinetd.c:273, 339):
  such a device restores the factory settings at every boot.
- `reset_or_factory` returns as soon as SIGCHLD has cut its sleeps, or after eleven
  seconds; if the device is still up and three seconds have gone since the press, the
  loop around it runs `def factory`, though the press was short.
- `upgrade` returns 0, as for success, when it cannot open /dev/mtdN or the image
  (upgrade.c:176, 184): no second try, and the page reboots as after an update.
- `/sbin/detect` is launched by `sig_chld` only, and no Makefile builds it.
  Where it is missing, the first child that ends makes `sig_chld` launch it; it
  ends at once; its SIGCHLD brings `sig_chld` back, and the main loop is over: no
  web server check, no SNMP, no button. The liveness properties of
  supervisor_loop are for a device that has it.
- `serial` shifts parity and stop bits down and compares them with constants that
  are not shifted (serial.c:34): every port is served with no parity and one stop
  bit whatever was set. The serial page shows what was set; the status pages
  repeat the mistake of `serial`.
- The serial page offers RS-232 only. Ports 3 and 4 have RS-422 by factory
  default: their untouched page changes it, and serves the port anew.
- An answer of ser2net that TCP cuts in two stops the poller for good, and one cut
  right behind the echo puts what older answers left in the buffer into the file.
- Under DHCP the network page stores the servers of the lease it shows, even when
  it answers that there is nothing to apply; the next run of `wan` puts them
  into dhclient.conf, over those of later leases.

## 4. Fairness

ConfigStore, SerialService, SerialDeploy, SerialPage, LineSettings, GpioPage,
NetworkPage and Upgrade assume none: their properties are safety properties, for
what a cut-off program leaves behind and for what an operator may do at any time.

Supervisor: `WF(Boot \/ Loop \/ SigChld)` - `pinetd` is an ordinary process that
the kernel runs; it is one condition for handler and main together, so it does
not keep the handler from starving main. `WF(Reboot)` - a reboot that was asked
for takes place. None for children, operators or the SNMP manager.

ResetButton: time passes (`Second`), `pinetd` runs (`Pinetd`), a device that
was told to reboot goes down and is switched on again (`Down`, `Up`). None for
the operator.

RxTxPoll: `WF(Program)` - systemd starts a program that has ended again
(Restart=always), select returns when something has come, and the sleep of three
seconds ends. `WF(Serve)` - ser2net answers a command it has got. None for
closing connections or traffic.

## 5. Proofs

Each is for every value of the constants that satisfies the named assumptions of
its module, which the code justifies where they are declared.

**ConfigStoreProofs.** `TypeCorrect`: the conjunct of TypeOK that matters is that
memory never holds `Absent`, the mark of a missing file: it rests on `Loaded`.
`NeverBlank`: `ConfigNeverBlank` is not inductive: that no zero is stored depends
on what is in the memory of each running program, and that on which files it has
read and whether they existed. `NeverBlankInv` has three parts. `BootChain`: the
chain runs alone, one program after the other, and pinetd's image stays in use
after it. `WrittenExists`: a file a running program has passed a write of
exists, which makes a finished factory_default mean a complete flash.
`NothingBlank` (unless `torn`): flash is complete from pinetd on, and in "eddy"
if its SYSTEM file is valid; every structure a program has read is filled. Run
config_restarts checks NeverBlankInv; the proof has one lemma per action and,
under each, one step per part it can disturb. What may break it is exactly one
event - the very first factory_default cut off after the SYSTEM file - and
`torn` records it: then pinetd does copy zeroed structures (`eddy` looks at the
SYSTEM file alone).

SaveIsComplete and OnlyStaleImagesRevert (`SaveIsWhole`,
`RevertNeedsAStaleImage`), for any number of operators, items and edits, an SNMP
manager beside them and a loss of power anywhere. Both rest on `ImagesIntact`:
what a program holds of a file it has used is, but for its own edit, what the
file holds, until another program writes that file. This needs three facts about
the programs - a read of a file is a program's first use of it, all but pinetd
read the copy in use, and all but factory_default read what they write - and
`BootChain` and `WrittenExists`, since a read of a file that does not exist
leaves the memory as it was. Then a program that changes a setting it was not
asked to change was overtaken, and a finished save holds the same of both
copies. For a command or a page being overtaken means an overlap: it has read
the file after it was started, so `def` and the pages, one after the other, undo
nothing of each other. For `pinetd` it does not: its image is the one it made at
power-on, and an SNMP set at any later time writes it back over whatever `def`
and the pages have finished doing to the file since (hazard pinetd.c:403). The
property says that this and the items SNMP has set are all that `pinetd`
changes, not that it loses nothing.

`Implementation`: `Spec` implements `ConfigAbs`, step by step, for any items and
edits and a loss of power at any call. Its two hypotheses are those of the run
that checks it: one operator (`OneOperator`; any number of names for one) and no
SNMP agent (`SnmpOn = {}`), since two operators lose each other's edits where
they overlap, and SNMP undoes edits without (OnlyStaleImagesRevert says when).
`SoloInv` adds to the invariants above what a lone program knows: nobody has
overtaken it, what it holds of a file it has not read is zero, factory_default's
SYSTEM structure is the one in use until it is written, and pinetd's files in
use are restored in the order of its writes. A write then is an edit, a commit,
a reset or a restore of one file, and every other step leaves both copies alone.

**PinsAndLinesProofs**, of the pins. All five properties, for any browsers, any
pins of both products and any digital lines. OwnedPins is inductive with TypeOK:
the tables give no pin to two peripherals, nor an enable field to a pin that is
owned, which is what set_gpio relies on. UntouchedSave, DisabledKept and
PostedIsStored are facts about one step from a state in which no page shows a
pin `set_gpio` has no block for (`HiddenStaysOff`); they rest on
`ShownAreStored`, that the eighty blocks of `get_gpio` and of `set_gpio` are for
the same pins, and on `FallbackKept`, that storing a setting that was read
changes none of the masks.

Of the lines (whose definitions have names of their own, LineInit, LineSpec, so
that one module can hold both). LineTypeOK, ShownAsAsked, PageUntouched and
DataServed for any number of ports and any choice of requests. None of them is
inductive without `ByteIsLine`: the byte is exactly the encoding of the line
asked for, which says that the unused fourth value of parity and the upper bits
never occur. Lemmas about the byte come first (`FieldsOfByte`, one `...Written`
for each writer, `ShownIsLine`, `ServedIsLine`), then one lemma for the steps of
`def`, of `serial` and of the page. That an SNMP set stores only such bytes is
assumed, by leaving it out.

**SerialPageProofs.** TypeOK (which says that a form stays disabled for the mode
and the login setting it shows), ServedAsShown and LookingAround, for any
browsers, modes and values. ServedAsShown follows from it by one lemma: no field
that `serial` uses in a mode is disabled in a form of that mode. It speaks of the
mode, the port or address, the baud rate and the data bits, and of nothing in
`idle`. LookingAround
needs `PlainShows`: a form nobody has typed in, over an entry nobody has written,
shows the entry in everything but the mode and the login setting, through any
number of pages asked for in between, whichever controls each of them sends.

**UpgradeProofs.** TypeOK and WholeUnlessHurt, for any number of browsers,
partitions, blocks, images and archives. WholeUnlessHurt is not inductive: that a
partition is whole when a run leaves it depends on what `verify` has seen of it.
The invariant adds `Exclusive` (two runs that write one partition have hurt it)
and `ReadBack` (the blocks a run has compared and found to be the same still
are, if nobody has hurt the partition; an open that fails in the second try hurts it
like a write that fails); the rest of it (`RunOK`) says which
fields of a run mean something at which place. One lemma per action.

UpdateInstalls, the promise of the page, relates the reboot to the upload many
steps before it. `Loyal` carries the upload through the run of an operator
nobody has interfered with: what is left of the list is the rest of the archive
and still lies in /tmp (`ListOK`), the member the run is at is the next one, and
found (`MemberOK`), and of the members before it the last one for each partition
is in that partition, or the partition is hurt or could not be opened
(`EarlierOK`); while the member is being written this holds of every partition
but its own, through a failed try and the second one. A refused member changes
nothing, an accepted one takes the place of an earlier one for its partition.
The theorem has a hypothesis: no archive names a member twice. `upgrade` removes
a member when it has dealt with it, so the second time it does not find it, and
if another image for the same partition stands between the two, that one stays.
The archives of the run satisfy it.

**PinetdProofs**, of the supervisor. TypeOK and NeverTwice, for any
configuration, any set of programs that exist and any number of deaths.
NeverTwice is not inductive: what is launched must be gone. `OneEach` says when:
of a child nothing is left, running or not reaped, before main launches it,
whenever its pid is 0, and when the handler stands before its launch - whatever
child a `waitpid` for pid 0 has taken. `Unarmed` says that before `signal()`
there is no handler to launch it first.

Of the button. FactoryNeedsHold and WarmMeansShort, for a clock of any
length (over the three seconds), any delays of pinetd and of the shutdown.
Both relate three numbers that move at different times: the press, the clock
that wraps and the deadline. `NotLonger`: the time the deadline has been set
for, as the clock tells it, has been spent pressing, but for what has passed
since pinetd last looked. `NotShorter`: the press has lasted no longer than that
and what pinetd was late to see it begin, or the deadline has passed since
pinetd looked, or the deadline has wrapped and the clock has not (`BeforeWrap`).
`PressIsNew`, `OnePress` and `Inside` tell when these mean something: pinetd has
not misread the button, and a sleep of `reset_or_factory` that no SIGCHLD has cut is
over only after the seconds it was asked for, so that the loop looks at an expired
deadline again no sooner than eleven seconds after /sbin/reboot. FactoryNeedsHold
names the other cases as exceptions; they are not shown to be harmless.

**SerialDeployProofs.** Of one port: TypeOK, SettledPort and PollersFollow, for
any configurations and any number of runs; and of the requests around it:
AppliedIsRequested and SavedIsInEffect, for any number of operators. SettledPort
says nothing of the places a run goes through before it is over, so `RunAchieves`
says of a run that has been alone, at every place of its script, what the calls
made so far have achieved, in terms of the *set* of these calls (`Made`): a
service that was stopped and not started again is stopped, one that was enabled
has been read by systemd with the text that was written, and so on. `Achieved`
is the same for a run under way and for a settled port, of which all calls have
been made, so one lemma per kind of call (`CallAchieves`), one for a service that
is started again and one for a reboot do for both. What makes it true of the
scripts is stated once, of the tables: every file is written before it is
enabled, enabled before it is started, and a mode that does not start a service
has disabled it (`ScriptOrder`, `ScriptEnd`, `StoppedIsDisabled`). SerialDeploy
takes the same steps of the port (`PortStep`) whenever an operator asks for one.
`RequestHolds` adds which entry a request that nobody disturbed has written and
what its run reads, `BootHolds` that after a reboot through a button that saves
nothing is under way until somebody asks for something.

**NetworkPageProofs.** SettledNetwork, SavedIsInEffect and UntouchedPage, for any
operators, addresses, servers, leases and wireless servers. Between `ifdown` and
`ifup` the files are half old and half new; `Done` says which calls of a run that
has been alone are still in effect, and `RunHolds` rests on the interface being
down, which keeps the DHCP client from resolv.conf. After it `SettledHolds` needs
that dhclient runs with what dhclient.conf says (a new lease, and the next boot,
go by it). `LeavingHolds` is the reboot page: while its request is alone nobody
else does anything, its run reads what was saved, and it is over before the
device goes down. `FreshHolds` is UntouchedPage carried through every step that
does not change what is compared. That "leased" is no address is assumed.

**RxTxPollProofs.** FileIsAnswer and LogHasNoGap, for any options the server opens
with, any traffic, any garbage and any size of the buffer an answer fits in, and
any cuts and faults. `OneReply` says what makes a search in the buffer safe: the
stream never holds the echo of more than one command, and holds none while one is
under way, so behind the first echo in it is the whole answer to the last
question, and then the prompt. It needs `AskedOnce`, that a question is asked only
when the options are agreed and the answer before has been taken. `StrStrIs` is
what strstr returns: the pair of bytes stands there, in front of the first zero.
`AnswerIs` combines them: with the answer's start inside what was received, the
one line end between it and the zero is that of the counters; with the start
behind it, the recv has ended one or two bytes behind the command, the exception
of the property. `LogFollows` splits the log and what is still to be received into
what the server sends of itself and, behind it, what has passed; that these can be
told apart is the assumption `TrafficAssumption`, without which "nothing of it in
front" has no meaning.

Only model-checked: all liveness properties (KeepsPolling, WebServerKept,
SnmpSetsLand, ButtonSeen, PressReboots, ReleaseReboots), which are out of this
prover's reach. Every invariant and every action property a run checks is proved.

## 6. Not modelled, and limits

- One `SB_WriteConfig` is atomic and durable. The code overwrites the file in
  place without fsync, so a loss of power can in truth leave a torn or an old
  file.
- Nobody runs `def` during boot before pinetd has copied the files (the web
  server starts after that; a console login could).
- What systemd does is modelled from how serial.c uses it: enable and disable
  read unit files again, a missing unit cannot be enabled, an empty one cannot
  be started, starting a running service does nothing, Restart=always starts
  socat and the pollers again. That ser2net itself ends is not, nor that two
  ports are given the same data or control port, which nothing refuses.
- The browser that shows the reboot page may be closed: then no second request
  comes (SerialDeploy allows it to stay at "page").
- Forms: an operator sends values the page's script and the handler accept; what
  happens between the read and the write of one request is ConfigStore's
  subject, and one step elsewhere. The serial page of the last port is refused
  (setagent.c:793); that is in LineSettings only. The fields of the network page
  `wan` does not read (LAN, names, services) are stored and never compared.
- Network: the `udhcpc` that eddy (eddy.c:99) and wifi (wifi.c:153) start for a
  DHCP line, routes, iptables and wpa_supplicant are left out, and so is the
  alias `:0` of the interface. ifup, ifdown, the DHCP client and the resolver are
  external.
- Upgrade: tar unpacks and lists an archive in one step; members of one name are
  one image; a corruption the CRC does not notice, and upgradetftp, are left out.
- RxTxPoll: the part of the buffer no answer reaches, numbers of more than one
  byte, and a log device that fills up.
- serial.c:138-148 returns at once if the SYSTEM or the SIO file is missing or has
  another id. SerialService leaves this out: both files are there from the boot on
  (ConfigStore: `WrittenExists`), no program removes them and none changes the id;
  a run that returned there would change nothing.
- Zombies that nobody reaps stay; the table of processes is not bounded.
- The button is not pressed again before pinetd has looked at it; a bounce is
  not told apart. FactoryNeedsHold excepts a wrapped deadline (in the three
  seconds before the millisecond clock wraps, every 49.7 days, any press is a
  long one), a clock set meanwhile, a device whose /dev/gpio cannot be opened or
  read while the button is up, a sleep of `reset_or_factory` SIGCHLD has cut, and a
  device that takes eleven seconds to kill pinetd: in the last two the loop looks at
  the expired deadline again and a warm reboot becomes def factory. TLC shows each
  exception to be needed. PressReboots excepts deadlines in the last
  moments before the wrap, which pinetd may miss while the button is held;
  ReleaseReboots is for a button that can be read from some time on.
- Login files: each writer overwrites login.id and login.pw whole, from one
  structure. That a shorter name keeps the tail of the one before (no O_TRUNC)
  is about one text, and the login check itself reads them at each request.
- Growing files: SNMP_INIT adds lines to snmpd.conf at every boot with SNMP on
  (pinetd.c:698); a count of boots and nothing else.
- The wireless page (its file is in ConfigStore; its own fields are stored as
  they are sent), the DDNS agent (a loop around an external program), the pages
  that only show something, HTML, LCD, hardware tests, vendored cgic, and
  programs that no Makefile builds.
