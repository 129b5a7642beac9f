----------------------------- MODULE NetworkPage -----------------------------
(***************************************************************************)
(* The network page and how its settings reach the network and outlast a   *)
(* reboot: getagent.cgi fills the form, setagent.cgi compares what comes   *)
(* back, writes the configuration and runs wan if something differs; wan   *)
(* takes the interface down, writes interfaces, resolv.conf and            *)
(* dhclient.conf, one after the other, and takes it up again.  The reboot  *)
(* page runs wan too before the device goes down, and at boot eddy writes  *)
(* interfaces once more, from the saved configuration, and nothing else;   *)
(* some ten seconds later wifi, if there is a wireless network with a      *)
(* fixed address, appends its server to resolv.conf.  def changes a field  *)
(* and runs nothing.                                                       *)
(*                                                                         *)
(* ip stands for address, mask and gateway, which are read, compared and   *)
(* written together.  The fields of the page that wan does not read (the   *)
(* LAN, the services, the names) are left out: they are shown, stored and  *)
(* never compared.  ifup and ifdown (no-ops on an interface that is up, or *)
(* down), the DHCP client ifup runs and the resolver are external; the     *)
(* udhcpc that eddy and wifi start for a DHCP line is not there.  What     *)
(* other writers of the file do between the read and the write of one      *)
(* request is in ConfigStore; here a request reads and writes at once.     *)
(***************************************************************************)
EXTENDS Naturals, Sequences, SequencesExt

CONSTANTS
  Operators,  \* browsers and shells
  Ips,        \* addresses an operator may give the device
  Servers,    \* DNS servers
  Leases,     \* what a DHCP server hands out: sequences of DNS servers
  Factory,    \* the factory configuration
  WlanServers, \* servers a wireless network may have; its configuration does
              \* not change but by factory settings
  MaxTasks,   \* bound: requests, commands and new leases
  MaxCuts     \* bound: losses of power, and files that cannot be opened

Zero == "0.0.0.0"
Local == "127.0.0.1"   \* what the resolver has when no server is given
Lines == {"I", "D"}

ASSUME LeaseAssumption == Leases # {} /\ Leases \subseteq Seq(Servers)
ASSUME FactoryAssumption ==
  /\ Factory \in [line : Lines, ip : Ips, dns : Servers \cup {Zero},
                  dns_s : Servers \cup {Zero}]
  /\ Zero \notin Servers
ASSUME IpsAssumption == "leased" \notin Ips
ASSUME WlanAssumption == "none" \notin WlanServers

VARIABLES
  etc, flash,   \* the configuration in use and the saved one
  interfaces,   \* /etc/network/interfaces: the line and a fixed address
  resolv,       \* /etc/resolv.conf
  supersede,    \* servers dhclient.conf sets over those of a lease
  wlan,         \* the server of the wireless network, or "none"
  due,          \* wifi has been launched and has not appended its server yet
  live,         \* the interface: is it up, its address, dhclient's setting
  page,         \* the form each browser shows
  fresh,        \* history: it was shown as things have been ever since
  run,          \* the run of wan of each operator, and what it has read
  task,         \* what else the request of an operator is at
  button,       \* the button of its reboot page
  tasks, cuts,  \* counters
  alone,        \* history: nothing has disturbed the operator's request
  settled       \* history: the last run of wan was alone, and no write since

files == <<interfaces, resolv, supersede>>
wifi == <<wlan, due>>
history == <<fresh, alone, settled>>
vars == <<etc, flash, files, wifi, live, page, run, task, button, tasks, cuts, history>>

NoPage == [line |-> "none"]
NoRun == [at |-> "idle", cfg |-> Factory]
Down == [up |-> FALSE, ip |-> "none", over |-> <<>>]
-----------------------------------------------------------------------------
Busy(o) == run[o].at # "idle" \/ task[o] # "idle"

(* The servers a configuration names; 0.0.0.0 stands for none.             *)
Given(d) == IF d = Zero THEN <<>> ELSE <<d>>
Named(c) == Given(c.dns) \o Given(c.dns_s)

(* SB_GetPrimaryDNS and SB_GetSecondaryDNS ask the resolver.               *)
Primary == IF resolv = <<>> THEN Local ELSE resolv[1]
Secondary == IF Len(resolv) < 2 THEN Zero ELSE resolv[2]

(* get_network: a fixed line shows the configuration, or what the page     *)
(* that asked for this one held; a DHCP line shows the network as it is.   *)
Form(line, ip, dns, dns_s) == [line |-> line, ip |-> ip, dns |-> dns, dns_s |-> dns_s]
ShownDhcp == Form("D", live.ip, Primary, Secondary)
Shown == IF etc.line = "I" THEN etc ELSE ShownDhcp

Task == tasks < MaxTasks /\ tasks' = tasks + 1

GetNetwork(o) ==
  /\ ~Busy(o) /\ Task
  /\ page' = [page EXCEPT ![o] = Shown]
  /\ fresh' = [fresh EXCEPT ![o] = TRUE]
  /\ UNCHANGED <<etc, flash, files, wifi, live, run, task, button, cuts, alone, settled>>

(* The list of line types asks for the page again, with what it holds; an  *)
(* address that is not editable is not sent.                               *)
ChangeType(o) ==
  /\ ~Busy(o) /\ page[o] # NoPage /\ Task
  /\ page' = [page EXCEPT ![o] =
       IF @.line = "I" THEN ShownDhcp ELSE Form("I", etc.ip, @.dns, @.dns_s)]
  /\ fresh' = [fresh EXCEPT ![o] = FALSE]
  /\ UNCHANGED <<etc, flash, files, wifi, live, run, task, button, cuts, alone, settled>>

(* Slip: under DHCP too the form is compared with the configuration.       *)
DiffersStored(f) ==
  f.line # etc.line \/ f.dns # etc.dns \/ f.dns_s # etc.dns_s
    \/ (f.line = "I" /\ f.ip # etc.ip)

(* What set_network takes for a change.                                    *)
Differs(f) ==
  \/ f.line # etc.line
  \/ f.line = "I" /\ (f.ip # etc.ip \/ f.dns # etc.dns \/ f.dns_s # etc.dns_s)
  \/ f.line = "D" /\ (f.dns # Primary \/ f.dns_s # Secondary)

(* What it stores, whether it takes it for a change or not.                *)
Stored(f) == [f EXCEPT !.ip = IF f.line = "I" THEN @ ELSE etc.ip]

(* A write of the configuration disturbs the other requests.               *)
Disturbs(o) ==
  /\ alone' = [v \in Operators |-> v = o /\ alone[o]]
  /\ fresh' = [v \in Operators |-> FALSE]

Starts(o) == run' = [run EXCEPT ![o].at = "read"]

(* The fields an operator may have edited before the form is sent.         *)
Edits(f) ==
  {f} \cup {[f EXCEPT !.dns = d] : d \in Servers \cup {Zero}}
      \cup {[f EXCEPT !.dns_s = d] : d \in Servers \cup {Zero}}
      \cup (IF f.line = "I" THEN {[f EXCEPT !.ip = i] : i \in Ips} ELSE {})

SetNetwork(o) ==
  /\ ~Busy(o) /\ page[o] # NoPage /\ Task
  /\ \E f \in Edits(page[o]) :
       /\ etc' = Stored(f)
       /\ IF Differs(f) THEN Starts(o) ELSE UNCHANGED run
  /\ page' = [page EXCEPT ![o] = NoPage]
  /\ settled' = (settled /\ etc' = etc)
  /\ Disturbs(o)
  /\ UNCHANGED <<flash, files, wifi, live, task, button, cuts>>

(* "def dns_s" ends in the comparison for "def dns", three letters long.   *)
DefWan(o) ==
  /\ ~Busy(o) /\ Task
  /\ \/ \E i \in Ips : etc' = [etc EXCEPT !.ip = i]
     \/ \E l \in Lines : etc' = [etc EXCEPT !.line = l]
     \/ \E d \in Servers \cup {Zero} : etc' = [etc EXCEPT !.dns = d]
  /\ settled' = (settled /\ etc' = etc)
  /\ Disturbs(o)
  /\ UNCHANGED <<flash, files, wifi, live, page, run, task, button, cuts>>

(* The reboot and factory pages; the page that answers asks for type=0,    *)
(* which runs wan and reboots.                                             *)
SetReboot(o, b) ==
  /\ ~Busy(o) /\ Task
  /\ button' = [button EXCEPT ![o] = b]
  /\ task' = [task EXCEPT ![o] = "page"]
  /\ etc' = IF b = "factory" THEN Factory ELSE etc
  /\ flash' = CASE b = "save" -> etc [] b = "factory" -> Factory [] OTHER -> flash
  /\ settled' = (settled /\ etc' = etc)
  /\ alone' = [v \in Operators |->
                 v = o /\ \A w \in Operators \ {o} : ~Busy(w)]
  /\ fresh' = [v \in Operators |-> FALSE]
  /\ wlan' = IF b = "factory" THEN "none" ELSE wlan
  /\ UNCHANGED <<files, due, live, page, run, cuts>>

(* Slip: the device goes down without a run of wan.                        *)
OnlyRebootAtOnce(o) ==
  /\ task[o] = "page"
  /\ task' = [task EXCEPT ![o] = "leaving"]
  /\ UNCHANGED <<etc, flash, files, wifi, live, page, run, button, tasks, cuts, history>>

OnlyReboot(o) ==
  /\ task[o] = "page"
  /\ task' = [task EXCEPT ![o] = "leaving"]
  /\ Starts(o)
  /\ UNCHANGED <<etc, flash, files, wifi, live, page, button, tasks, cuts, history>>
-----------------------------------------------------------------------------
(* wan, one call after the other.                                          *)
Goes(o, from, to) == run[o].at = from /\ run' = [run EXCEPT ![o].at = to]
wanKeeps == <<etc, flash, wifi, page, task, button, tasks, cuts>>

(* A run that begins disturbs all others, and any of them disturbs it.     *)
WanRead(o) ==
  /\ run[o].at = "read"
  /\ run' = [run EXCEPT ![o] = [at |-> "ifdown", cfg |-> etc]]
  /\ alone' = [v \in Operators |->
       v = o /\ (task[o] = "leaving" => alone[o])
             /\ \A w \in Operators \ {o} : run[w].at = "idle"]
  /\ settled' = FALSE
  /\ fresh' = [v \in Operators |-> FALSE]
  /\ UNCHANGED <<files, live, wanKeeps>>

WanIfdown(o) ==
  /\ Goes(o, "ifdown", "interfaces")
  /\ live' = Down
  /\ UNCHANGED <<files, wanKeeps, history>>

Static(c) == IF c.line = "I" THEN c.ip ELSE "none"

WanInterfaces(o) ==
  /\ Goes(o, "interfaces", "resolv")
  /\ interfaces' = [line |-> run[o].cfg.line, ip |-> Static(run[o].cfg)]
  /\ UNCHANGED <<resolv, supersede, live, wanKeeps, history>>

WanResolv(o) ==
  /\ Goes(o, "resolv", "dhclient")
  /\ resolv' = IF run[o].cfg.line = "I" THEN Named(run[o].cfg) ELSE <<>>
  /\ fresh' = [v \in Operators |-> FALSE]
  /\ UNCHANGED <<interfaces, supersede, live, wanKeeps, alone, settled>>

(* Slip: an old setting is only ever replaced by another.                  *)
WanDhclientKeeps(o) ==
  /\ Goes(o, "dhclient", "ifup")
  /\ supersede' = IF run[o].cfg.line = "D" /\ Named(run[o].cfg) # <<>>
                  THEN Named(run[o].cfg) ELSE supersede
  /\ UNCHANGED <<interfaces, resolv, live, wanKeeps, history>>

WanDhclient(o) ==
  /\ Goes(o, "dhclient", "ifup")
  /\ supersede' = IF run[o].cfg.line = "D" THEN Named(run[o].cfg) ELSE <<>>
  /\ UNCHANGED <<interfaces, resolv, live, wanKeeps, history>>

(* A file cannot be opened: it stays as it was, and wan goes on.            *)
WanRefused(o) ==
  /\ \/ Goes(o, "interfaces", "resolv")
     \/ Goes(o, "resolv", "dhclient")
     \/ Goes(o, "dhclient", "ifup")
  /\ cuts < MaxCuts /\ cuts' = cuts + 1
  /\ alone' = [alone EXCEPT ![o] = FALSE]
  /\ UNCHANGED <<etc, flash, files, wifi, live, page, task, button, tasks, fresh, settled>>

(* ifup (external) on an interface that is down: the DHCP client reads its *)
(* configuration and writes resolv.conf.                                   *)
Ifup(file, over) ==
  IF file.line = "I"
    THEN live' = [up |-> TRUE, ip |-> file.ip, over |-> <<>>] /\ UNCHANGED resolv
    ELSE \E l \in Leases :
           /\ live' = [up |-> TRUE, ip |-> "leased", over |-> over]
           /\ resolv' = IF over # <<>> THEN over ELSE l

WanIfup(o) ==
  /\ Goes(o, "ifup", "idle")
  /\ IF live.up THEN UNCHANGED <<live, resolv>> ELSE Ifup(interfaces, supersede)
  /\ settled' = (alone[o] /\ run[o].cfg = etc)
  /\ fresh' = [v \in Operators |-> FALSE]
  /\ UNCHANGED <<interfaces, supersede, alone, wanKeeps>>

(* The lease is renewed (external).                                        *)
Renew ==
  /\ live.up /\ live.ip = "leased" /\ Task
  /\ \E l \in Leases : resolv' = IF live.over # <<>> THEN live.over ELSE l
  /\ fresh' = [v \in Operators |-> FALSE]
  /\ UNCHANGED <<etc, flash, interfaces, supersede, wifi, live, page, run, task, button,
                 cuts, alone, settled>>
-----------------------------------------------------------------------------
(* wifi (its wpa_supplicant, routes and iptables are left out).            *)
Wifi ==
  /\ due
  /\ due' = FALSE
  /\ resolv' = IF wlan = "none" THEN resolv ELSE Append(resolv, wlan)
  /\ fresh' = [v \in Operators |-> FALSE]
  /\ UNCHANGED <<etc, flash, interfaces, supersede, wlan, live, page, run, task,
                 button, tasks, cuts, alone, settled>>

(* The device boots: eddy writes interfaces, and ifup -a finds all down;   *)
(* then pinetd copies the saved configuration over the one in use, and     *)
(* launches wifi.                                                          *)
Boot ==
  /\ interfaces' = [line |-> flash.line, ip |-> Static(flash)]
  /\ Ifup(interfaces', supersede)
  /\ etc' = flash
  /\ page' = [o \in Operators |-> NoPage]
  /\ run' = [o \in Operators |-> NoRun]
  /\ task' = [o \in Operators |-> "idle"]
  /\ fresh' = [o \in Operators |-> FALSE]
  /\ alone' = [o \in Operators |-> FALSE]
  /\ settled' = (settled /\ flash = etc)
  /\ due' = (wlan # "none")
  /\ UNCHANGED <<flash, supersede, wlan, button, tasks>>

Leave(o) == task[o] = "leaving" /\ run[o].at = "idle" /\ Boot /\ UNCHANGED cuts

PowerCut == cuts < MaxCuts /\ cuts' = cuts + 1 /\ Boot
-----------------------------------------------------------------------------
Init ==
  /\ etc = Factory /\ flash = Factory
  /\ interfaces = [line |-> Factory.line, ip |-> Static(Factory)]
  /\ supersede = <<>>
  /\ wlan \in WlanServers \cup {"none"} /\ due = (wlan # "none")
  /\ IF Factory.line = "I" THEN resolv = <<>> ELSE resolv \in Leases
  /\ live = [up |-> TRUE, over |-> <<>>,
             ip |-> IF Factory.line = "I" THEN Factory.ip ELSE "leased"]
  /\ page = [o \in Operators |-> NoPage]
  /\ run = [o \in Operators |-> NoRun]
  /\ task = [o \in Operators |-> "idle"]
  /\ button = [o \in Operators |-> "only"]
  /\ tasks = 0 /\ cuts = 0
  /\ fresh = [o \in Operators |-> FALSE]
  /\ alone = [o \in Operators |-> FALSE]
  /\ settled = FALSE

Next ==
  \/ \E o \in Operators :
       \/ GetNetwork(o) \/ ChangeType(o) \/ SetNetwork(o) \/ DefWan(o)
       \/ \E b \in {"save", "only", "factory"} : SetReboot(o, b)
       \/ OnlyReboot(o) \/ Leave(o)
       \/ WanRead(o) \/ WanIfdown(o) \/ WanInterfaces(o) \/ WanResolv(o)
       \/ WanDhclient(o) \/ WanRefused(o) \/ WanIfup(o)
  \/ Wifi \/ Renew \/ PowerCut

Spec == Init /\ [][Next]_vars
-----------------------------------------------------------------------------
(* The resolver asks the servers of configuration c first, and behind them *)
(* only those of the wireless network.                                     *)
Resolves(c) ==
  /\ IsPrefix(Named(c), resolv)
  /\ \A k \in DOMAIN resolv : k > Len(Named(c)) => resolv[k] \in WlanServers

(* The files, the interface and the resolver are as configuration c says.  *)
InEffect(c) ==
  /\ interfaces.line = c.line
  /\ live.up
  /\ c.line = "I" => /\ interfaces.ip = c.ip /\ live.ip = c.ip
                     /\ supersede = <<>> /\ Resolves(c)
  /\ c.line = "D" => /\ live.ip = "leased" /\ supersede = Named(c)
                     /\ Named(c) # <<>> => Resolves(c)

(* Once a run of wan has had the network to itself and could open its      *)
(* files, these, the interface and the resolver agree with the             *)
(* configuration until somebody writes it or starts wan again: whatever    *)
(* overlapping runs, a file that could not be opened or a loss of power    *)
(* have left in them before, through new leases, with wifi at any moment,  *)
(* and through a reboot if the configuration has been saved.               *)
SettledNetwork == settled => InEffect(etc)

(* After a reboot from the web pages that saved the configuration, or the  *)
(* factory one, that nobody else has disturbed and whose run of wan could  *)
(* open its files, the network is as the saved configuration says, its DNS *)
(* servers included.                                                       *)
SavedIsInEffect ==
  [][\A o \in Operators :
       task[o] = "leaving" /\ task'[o] = "idle" /\ cuts' = cuts /\ alone[o]
         /\ button[o] # "only"
       => InEffect(flash)']_vars

(* A page that is sent back as it was shown, while everything is still as  *)
(* it was then, does not take the network down: not on a fixed line, where *)
(* it shows the configuration, nor under DHCP, where it shows the servers  *)
(* of the lease.                                                           *)
UntouchedPage ==
  [][\A o \in Operators :
       /\ fresh[o] /\ page[o] # NoPage /\ page'[o] = NoPage /\ tasks' # tasks
       /\ etc' = Stored(page[o])
       => run' = run]_vars
=============================================================================
