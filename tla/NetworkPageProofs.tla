--------------------------- MODULE NetworkPageProofs ---------------------------
(* The three properties of NetworkPage, proved with TLAPS for any number of *)
(* operators, any addresses, servers and leases.                           *)
EXTENDS NetworkPage, TLAPS

Names == Servers \cup WlanServers \cup {Zero, Local}
Addresses == Ips \cup {"leased", "none"}
Configs == [line : Lines, ip : Ips, dns : Names, dns_s : Names]
Forms == {f \in [line : Lines, ip : Addresses, dns : Names, dns_s : Names] :
            f.line = "I" => f.ip \in Ips}
Places == {"idle", "read", "ifdown", "interfaces", "resolv", "dhclient", "ifup"}

Types ==
  /\ etc \in Configs /\ flash \in Configs
  /\ interfaces \in [line : Lines, ip : Addresses]
  /\ resolv \in Seq(Names) /\ supersede \in Seq(Names)
  /\ wlan \in WlanServers \cup {"none"}
  /\ live \in [up : BOOLEAN, ip : Addresses, over : Seq(Names)]
  /\ page \in [Operators -> {NoPage} \cup Forms]
  /\ run \in [Operators -> [at : Places, cfg : Configs]]
  /\ task \in [Operators -> {"idle", "page", "leaving"}]
  /\ button \in [Operators -> {"save", "only", "factory"}]
  /\ fresh \in [Operators -> BOOLEAN] /\ alone \in [Operators -> BOOLEAN]
  /\ settled \in BOOLEAN
  /\ tasks \in Nat /\ cuts \in Nat

(* A run of wan that has read the configuration.                           *)
Begun(o) == run[o].at \notin {"idle", "read"}

(* A run that has been alone from its start is the only one ...            *)
OneRun == \A o, w \in Operators : alone[o] /\ Begun(o) /\ Begun(w) => o = w

(* ... so that what its calls have done so far is still there.             *)
Supersedes(c) == IF c.line = "D" THEN Named(c) ELSE <<>>

Done(at, c) ==
  /\ at \in {"interfaces", "resolv", "dhclient", "ifup"} => ~live.up
  /\ at \in {"resolv", "dhclient", "ifup"} =>
       interfaces.line = c.line /\ interfaces.ip = Static(c)
  /\ at \in {"dhclient", "ifup"} /\ c.line = "I" => Resolves(c)
  /\ at = "ifup" => supersede = Supersedes(c)

RunHolds == \A o \in Operators : alone[o] => Done(run[o].at, run[o].cfg)

(* When it is over, the DHCP client keeps to what dhclient.conf says, and   *)
(* no other run is on its way.                                             *)
SettledHolds ==
  settled => /\ InEffect(etc)
             /\ live.over = supersede
             /\ \A o \in Operators : ~Begun(o)

(* Behind the reboot page: nobody else does anything, the run reads what   *)
(* has been saved, and it is over before the device goes down.             *)
PageWaits == \A o \in Operators : task[o] = "page" => run[o].at = "idle"

LeavingHolds ==
  \A o \in Operators : alone[o] /\ task[o] # "idle" =>
    /\ \A w \in Operators : w # o => ~Busy(w)
    /\ Begun(o) => run[o].cfg = etc
    /\ task[o] = "leaving" /\ run[o].at = "idle" => settled
    /\ button[o] # "only" => etc = flash

(* A form that has gone stale in no respect has nothing new in it.         *)
FreshHolds ==
  \A o \in Operators : fresh[o] /\ page[o] # NoPage => ~Differs(page[o])

NetworkInv ==
  /\ Types /\ OneRun /\ RunHolds /\ SettledHolds /\ PageWaits /\ LeavingHolds
  /\ FreshHolds
-----------------------------------------------------------------------------
(* The servers of a configuration, and what it means that the resolver asks *)
(* them.                                                                   *)
LEMMA NamedIsSeq ==
  ASSUME NEW c \in Configs
  PROVE  Named(c) \in Seq(Names) /\ Supersedes(c) \in Seq(Names)
  <1>1. c.dns \in Names /\ c.dns_s \in Names
    BY DEF Configs
  <1>2. Given(c.dns) \in Seq(Names) /\ Given(c.dns_s) \in Seq(Names)
    BY <1>1 DEF Given
  <1> QED
    BY <1>2 DEF Named, Supersedes

LEMMA NamedResolves ==
  ASSUME NEW c \in Configs, resolv' = Named(c)
  PROVE  Resolves(c)'
  <1>1. resolv' \in Seq(Names)
    BY NamedIsSeq
  <1>2. IsPrefix(resolv', resolv')
    BY <1>1 DEF IsPrefix
  <1>3. \A k \in DOMAIN resolv' : k <= Len(resolv') /\ k \in Nat
    BY <1>1
  <1> QED
    BY <1>2, <1>3 DEF Resolves

LEMMA ResolvesAppended ==
  ASSUME NEW c \in Configs, Resolves(c), resolv \in Seq(Names),
         NEW w \in WlanServers, resolv' = Append(resolv, w)
  PROVE  Resolves(c)'
  <1> DEFINE N == Named(c)
  <1>1. N \in Seq(Names) /\ w \in Names
    BY NamedIsSeq DEF Names
  <1>2. Len(N) <= Len(resolv) /\ SubSeq(N, 1, Len(N)) = SubSeq(resolv, 1, Len(N))
    BY DEF Resolves, IsPrefix
  <1>3. /\ \A k \in 1 .. Len(resolv) : resolv'[k] = resolv[k]
        /\ Len(resolv') = Len(resolv) + 1 /\ resolv'[Len(resolv')] = w
        /\ resolv' \in Seq(Names) /\ DOMAIN resolv' = 1 .. Len(resolv) + 1
    BY <1>1
  <1>4. SubSeq(resolv', 1, Len(N)) = SubSeq(resolv, 1, Len(N))
    <2>1. Len(N) \in Nat /\ Len(N) <= Len(resolv) /\ Len(N) <= Len(resolv')
      BY <1>1, <1>2, <1>3
    <2> QED
      BY <1>3, <2>1
  <1>5. IsPrefix(N, resolv')
    BY <1>1, <1>2, <1>3, <1>4 DEF IsPrefix
  <1>6. \A k \in DOMAIN resolv : k > Len(N) => resolv[k] \in WlanServers
    BY DEF Resolves
  <1>7. \A k \in DOMAIN resolv' : k > Len(N) => resolv'[k] \in WlanServers
    <2> SUFFICES ASSUME NEW k \in 1 .. Len(resolv) + 1, k > Len(N)
                 PROVE  resolv'[k] \in WlanServers
      BY <1>3
    <2>1. CASE k \in 1 .. Len(resolv)
      BY <1>3, <1>6, <2>1
    <2>2. CASE k = Len(resolv')
      BY <1>3, <2>2
    <2> QED
      BY <1>3, <2>1, <2>2
  <1> QED
    BY <1>5, <1>7 DEF Resolves

LEMMA ResolvesKept ==
  ASSUME NEW c, Resolves(c), resolv' = resolv
  PROVE  Resolves(c)'
  BY DEF Resolves

(* The network is as c says as long as nobody changes it.                  *)
LEMMA InEffectKept ==
  ASSUME NEW c, InEffect(c), UNCHANGED <<files, live>>
  PROVE  InEffect(c)'
  BY ResolvesKept DEF InEffect, files

LEMMA DifferenceKept ==
  ASSUME NEW f, etc' = etc, resolv' = resolv
  PROVE  Differs(f)' = Differs(f)
  BY DEF Differs, Primary, Secondary

LEMMA DoneKept ==
  ASSUME NEW at, NEW c, Done(at, c), UNCHANGED <<files, live>>
  PROVE  Done(at, c)'
  BY ResolvesKept DEF Done, files

(* What ifup makes of the files wan or eddy has written.                   *)
LEMMA IfupWorks ==
  ASSUME Types, NEW c \in Configs, NEW file,
         file.line = c.line, file.ip = Static(c), interfaces' = file,
         supersede = Supersedes(c), supersede' = supersede,
         c.line = "I" => Resolves(c), Ifup(file, supersede)
  PROVE  InEffect(c)' /\ live'.over = supersede'
  <1>1. c.line \in Lines
    BY DEF Configs
  <1>2. CASE c.line = "I"
    <2>1. live' = [up |-> TRUE, ip |-> file.ip, over |-> <<>>] /\ resolv' = resolv
      BY <1>2 DEF Ifup
    <2>2. Resolves(c)' /\ file.ip = c.ip /\ supersede = <<>>
      BY <1>2, <2>1, ResolvesKept DEF Static, Supersedes
    <2> QED
      BY <1>2, <2>1, <2>2 DEF InEffect
  <1>3. CASE c.line = "D"
    <2>1. PICK l \in Leases :
            /\ live' = [up |-> TRUE, ip |-> "leased", over |-> supersede]
            /\ resolv' = IF supersede # <<>> THEN supersede ELSE l
      BY <1>3 DEF Ifup
    <2>2. supersede = Named(c)
      BY <1>3 DEF Supersedes
    <2>3. Named(c) # <<>> => Resolves(c)'
      BY <2>1, <2>2, NamedResolves
    <2> QED
      BY <1>3, <2>1, <2>2, <2>3 DEF InEffect
  <1> QED
    BY <1>1, <1>2, <1>3 DEF Lines

(* And what it leaves are files and settings.                              *)
LEMMA IfupTypes ==
  ASSUME Types, NEW file \in [line : Lines, ip : Addresses], Ifup(file, supersede)
  PROVE  /\ resolv' \in Seq(Names)
         /\ live' \in [up : BOOLEAN, ip : Addresses, over : Seq(Names)]
         /\ live'.up
  <1>1. supersede \in Seq(Names) /\ resolv \in Seq(Names) /\ <<>> \in Seq(Names)
    BY DEF Types
  <1>2. Leases \subseteq Seq(Names)
    BY LeaseAssumption DEF Names
  <1>3. file.ip \in Addresses /\ "leased" \in Addresses
    BY DEF Addresses
  <1>4. CASE file.line = "I"
    <2>1. live' = [up |-> TRUE, ip |-> file.ip, over |-> <<>>] /\ resolv' = resolv
      BY <1>4 DEF Ifup
    <2> QED
      BY <1>1, <1>3, <2>1
  <1>5. CASE file.line # "I"
    <2>1. PICK l \in Leases :
            /\ live' = [up |-> TRUE, ip |-> "leased", over |-> supersede]
            /\ resolv' = IF supersede # <<>> THEN supersede ELSE l
      BY <1>5 DEF Ifup
    <2> QED
      BY <1>1, <1>2, <1>3, <2>1
  <1> QED
    BY <1>4, <1>5
-----------------------------------------------------------------------------
(* What a page shows and what is stored of one that comes back.             *)
LEMMA ShownIsForm ==
  ASSUME Types
  PROVE  Shown \in Forms /\ ShownDhcp \in Forms /\ Primary \in Names /\ Secondary \in Names
  <1>1. resolv \in Seq(Names) /\ Zero \in Names /\ Local \in Names
    BY DEF Types, Names
  <1>2. Primary \in Names /\ Secondary \in Names
    BY <1>1 DEF Primary, Secondary
  <1>3. live.ip \in Addresses
    BY DEF Types
  <1>4. ShownDhcp \in Forms
    BY <1>2, <1>3 DEF ShownDhcp, Form, Forms, Lines
  <1>5. etc \in Forms
    BY DEF Types, Configs, Forms, Addresses
  <1> QED
    BY <1>2, <1>4, <1>5 DEF Shown

LEMMA FormIsNoNoPage ==
  ASSUME NEW f \in Forms
  PROVE  f # NoPage
  <1>1. f.line \in Lines /\ NoPage.line = "none"
    BY DEF Forms, NoPage
  <1> QED
    BY <1>1 DEF Lines

LEMMA EditsAreForms ==
  ASSUME Types, NEW p \in Forms, NEW f \in Edits(p)
  PROVE  /\ f \in Forms /\ f.line = p.line
         /\ Stored(f) \in Configs
  <1>1. Servers \cup {Zero} \subseteq Names /\ Ips \subseteq Addresses
    BY DEF Names, Addresses
  <1>2. p \in [line : Lines, ip : Addresses, dns : Names, dns_s : Names]
        /\ (p.line = "I" => p.ip \in Ips)
    BY DEF Forms
  <1>3. f \in Forms /\ f.line = p.line
    <2>1. CASE f = p
      BY <2>1
    <2>2. ASSUME NEW d \in Servers \cup {Zero}, f = [p EXCEPT !.dns = d]
          PROVE  f \in Forms /\ f.line = p.line
      BY <1>1, <1>2, <2>2 DEF Forms
    <2>3. ASSUME NEW d \in Servers \cup {Zero}, f = [p EXCEPT !.dns_s = d]
          PROVE  f \in Forms /\ f.line = p.line
      BY <1>1, <1>2, <2>3 DEF Forms
    <2>4. ASSUME NEW i \in Ips, f = [p EXCEPT !.ip = i]
          PROVE  f \in Forms /\ f.line = p.line
      BY <1>1, <1>2, <2>4 DEF Forms
    <2> QED
      BY <2>1, <2>2, <2>3, <2>4 DEF Edits
  <1>4. etc.ip \in Ips
    BY DEF Types, Configs
  <1>5. f \in [line : Lines, ip : Addresses, dns : Names, dns_s : Names]
        /\ (f.line = "I" => f.ip \in Ips)
    BY <1>3 DEF Forms
  <1>6. Stored(f) \in Configs
    <2>1. CASE f.line = "I"
      BY <1>5, <2>1 DEF Stored, Configs
    <2>2. CASE f.line # "I"
      BY <1>4, <1>5, <2>2 DEF Stored, Configs
    <2> QED
      BY <2>1, <2>2
  <1> QED
    BY <1>3, <1>6

LEMMA FactoryIsConfig == Factory \in Configs
  BY FactoryAssumption DEF Configs, Names

LEMMA StaticIsAddress ==
  ASSUME NEW c \in Configs
  PROVE  [line |-> c.line, ip |-> Static(c)] \in [line : Lines, ip : Addresses]
  <1>1. c.line \in Lines /\ c.ip \in Ips
    BY DEF Configs
  <1> QED
    BY <1>1 DEF Static, Addresses

(* Types, action by action.                                                *)
LEMMA PageTypes ==
  ASSUME Types, NEW o \in Operators, GetNetwork(o) \/ ChangeType(o)
  PROVE  Types'
  <1>1. UNCHANGED <<etc, flash, files, wifi, live, run, task, button, cuts, alone, settled>>
    BY DEF GetNetwork, ChangeType
  <1>2. tasks' \in Nat
    BY DEF GetNetwork, ChangeType, Task, Types
  <1>3. /\ fresh' \in [Operators -> BOOLEAN]
    BY DEF GetNetwork, ChangeType, Types
  <1>4. page' \in [Operators -> {NoPage} \cup Forms]
    <2>1. CASE GetNetwork(o)
      BY <2>1, ShownIsForm DEF GetNetwork, Types
    <2>2. CASE ChangeType(o)
      <3>1. page[o] \in Forms
        BY <2>2 DEF ChangeType, Types
      <3>2. Form("I", etc.ip, page[o].dns, page[o].dns_s) \in Forms
        <4>1. etc.ip \in Ips /\ page[o].dns \in Names /\ page[o].dns_s \in Names
          BY <3>1 DEF Types, Configs, Forms
        <4> QED
          BY <4>1 DEF Form, Forms, Lines, Addresses
      <3> QED
        BY <2>2, <3>2, ShownIsForm DEF ChangeType, Types
    <2> QED
      BY <2>1, <2>2
  <1> QED
    BY <1>1, <1>2, <1>3, <1>4 DEF Types, files, wifi

LEMMA StartsTypes ==
  ASSUME Types, NEW o \in Operators, Starts(o)
  PROVE  /\ run' \in [Operators -> [at : Places, cfg : Configs]]
         /\ run'[o].at = "read"
         /\ \A w \in Operators : w # o => run'[w] = run[w]
  <1>1. run \in [Operators -> [at : Places, cfg : Configs]]
    BY DEF Types
  <1>2. run' = [run EXCEPT ![o] = [run[o] EXCEPT !.at = "read"]]
    BY DEF Starts
  <1>3. [run[o] EXCEPT !.at = "read"] \in [at : Places, cfg : Configs]
        /\ [run[o] EXCEPT !.at = "read"].at = "read"
    BY <1>1 DEF Places
  <1> QED
    BY <1>1, <1>2, <1>3

LEMMA GoesTypes ==
  ASSUME Types, NEW o \in Operators, NEW from, NEW to \in Places, Goes(o, from, to)
  PROVE  /\ run' \in [Operators -> [at : Places, cfg : Configs]]
         /\ run[o].at = from /\ run'[o].at = to /\ run'[o].cfg = run[o].cfg
         /\ \A w \in Operators : w # o => run'[w] = run[w]
  <1>1. run \in [Operators -> [at : Places, cfg : Configs]]
    BY DEF Types
  <1>2. run' = [run EXCEPT ![o] = [run[o] EXCEPT !.at = to]] /\ run[o].at = from
    BY DEF Goes
  <1>3. /\ [run[o] EXCEPT !.at = to] \in [at : Places, cfg : Configs]
        /\ [run[o] EXCEPT !.at = to].at = to
        /\ [run[o] EXCEPT !.at = to].cfg = run[o].cfg
    BY <1>1
  <1> QED
    BY <1>1, <1>2, <1>3

LEMMA RequestTypes ==
  ASSUME Types, NEW o \in Operators, SetNetwork(o) \/ DefWan(o)
  PROVE  Types'
  <1>1. UNCHANGED <<flash, files, wifi, live, task, button, cuts>>
    BY DEF SetNetwork, DefWan
  <1>2. /\ tasks' \in Nat /\ settled' \in BOOLEAN
        /\ fresh' \in [Operators -> BOOLEAN] /\ alone' \in [Operators -> BOOLEAN]
    <2>1. tasks' = tasks + 1 /\ settled' = (settled /\ etc' = etc) /\ Disturbs(o)
      BY DEF SetNetwork, DefWan, Task
    <2>2. fresh' \in [Operators -> BOOLEAN] /\ alone' \in [Operators -> BOOLEAN]
      BY <2>1, Zenon DEF Disturbs, Types
    <2> QED
      BY <2>1, <2>2 DEF Types
  <1>3. CASE SetNetwork(o)
    <2>1. page[o] \in Forms
      BY <1>3 DEF SetNetwork, Types
    <2>2. PICK f \in Edits(page[o]) :
            etc' = Stored(f) /\ IF Differs(f) THEN Starts(o) ELSE UNCHANGED run
      BY <1>3 DEF SetNetwork
    <2>3. etc' \in Configs
      BY <2>1, <2>2, EditsAreForms
    <2>4. run' \in [Operators -> [at : Places, cfg : Configs]]
      BY <2>2, StartsTypes DEF Types
    <2>5. page' \in [Operators -> {NoPage} \cup Forms]
      BY <1>3 DEF SetNetwork, Types
    <2> QED
      BY <1>1, <1>2, <2>3, <2>4, <2>5 DEF Types, files, wifi
  <1>4. CASE DefWan(o)
    <2>1. etc \in Configs /\ Servers \cup {Zero} \subseteq Names
      BY DEF Types, Names
    <2>2. UNCHANGED <<page, run>>
      BY <1>4 DEF DefWan
    <2>3. etc' \in Configs
      <3>1. ASSUME NEW i \in Ips, etc' = [etc EXCEPT !.ip = i] PROVE etc' \in Configs
        BY <2>1, <3>1 DEF Configs
      <3>2. ASSUME NEW l \in Lines, etc' = [etc EXCEPT !.line = l] PROVE etc' \in Configs
        BY <2>1, <3>2 DEF Configs
      <3>3. ASSUME NEW d \in Servers \cup {Zero}, etc' = [etc EXCEPT !.dns = d]
            PROVE  etc' \in Configs
        BY <2>1, <3>3 DEF Configs
      <3> QED
        BY <1>4, <3>1, <3>2, <3>3 DEF DefWan
    <2> QED
      BY <1>1, <1>2, <2>2, <2>3 DEF Types, files, wifi
  <1> QED
    BY <1>3, <1>4

LEMMA RebootPageTypes ==
  ASSUME Types, NEW o \in Operators,
         (\E b \in {"save", "only", "factory"} : SetReboot(o, b)) \/ OnlyReboot(o)
  PROVE  Types'
  <1>1. ASSUME NEW b \in {"save", "only", "factory"}, SetReboot(o, b)
        PROVE  Types'
    <2>1. /\ button' = [button EXCEPT ![o] = b] /\ task' = [task EXCEPT ![o] = "page"]
          /\ tasks' = tasks + 1
          /\ UNCHANGED <<files, due, live, page, run, cuts>>
      BY <1>1 DEF SetReboot, Task
    <2>2. etc' \in Configs /\ flash' \in Configs
      BY <1>1, FactoryIsConfig DEF SetReboot, Types
    <2>3. wlan' \in WlanServers \cup {"none"} /\ settled' \in BOOLEAN
      BY <1>1 DEF SetReboot, Types
    <2>4. fresh' \in [Operators -> BOOLEAN] /\ alone' \in [Operators -> BOOLEAN]
      BY <1>1, Zenon DEF SetReboot, Types
    <2>5. /\ button' \in [Operators -> {"save", "only", "factory"}]
          /\ task' \in [Operators -> {"idle", "page", "leaving"}]
      BY <2>1 DEF Types
    <2> QED
      BY <2>1, <2>2, <2>3, <2>4, <2>5 DEF Types, files
  <1>2. CASE OnlyReboot(o)
    <2>1. /\ task' = [task EXCEPT ![o] = "leaving"] /\ Starts(o)
          /\ UNCHANGED <<etc, flash, files, wifi, live, page, button, tasks, cuts, history>>
      BY <1>2 DEF OnlyReboot
    <2> QED
      BY <2>1, StartsTypes DEF Types, files, wifi, history
  <1> QED
    BY <1>1, <1>2

LEMMA WanTypes ==
  ASSUME Types, NEW o \in Operators,
         WanRead(o) \/ WanIfdown(o) \/ WanInterfaces(o) \/ WanResolv(o) \/ WanDhclient(o)
  PROVE  Types'
  <1>1. UNCHANGED <<etc, flash, wifi, page, task, button, tasks, cuts>>
    BY DEF WanRead, WanIfdown, WanInterfaces, WanResolv, WanDhclient, wanKeeps
  <1>2. run[o].cfg \in Configs /\ <<>> \in Seq(Names)
    BY DEF Types
  <1>3. CASE WanRead(o)
    <2>1. /\ UNCHANGED <<files, live>> /\ settled' = FALSE
          /\ run' = [run EXCEPT ![o] = [at |-> "ifdown", cfg |-> etc]]
      BY <1>3 DEF WanRead
    <2>2. fresh' \in [Operators -> BOOLEAN] /\ alone' \in [Operators -> BOOLEAN]
      BY <1>3, Zenon DEF WanRead, Types
    <2>3. run' \in [Operators -> [at : Places, cfg : Configs]]
      BY <2>1 DEF Types, Places
    <2> QED
      BY <1>1, <2>1, <2>2, <2>3 DEF Types, files, wifi
  <1>4. CASE WanIfdown(o)
    <2>1. live' = Down /\ UNCHANGED <<files, history>> /\ Goes(o, "ifdown", "interfaces")
      BY <1>4 DEF WanIfdown
    <2>2. live' \in [up : BOOLEAN, ip : Addresses, over : Seq(Names)]
      BY <1>2, <2>1 DEF Down, Addresses
    <2>3. run' \in [Operators -> [at : Places, cfg : Configs]]
      BY <2>1, GoesTypes DEF Places
    <2> QED
      BY <1>1, <2>1, <2>2, <2>3 DEF Types, files, wifi, history
  <1>5. CASE WanInterfaces(o)
    <2>1. /\ interfaces' = [line |-> run[o].cfg.line, ip |-> Static(run[o].cfg)]
          /\ UNCHANGED <<resolv, supersede, live, history>>
          /\ Goes(o, "interfaces", "resolv")
      BY <1>5 DEF WanInterfaces
    <2>2. interfaces' \in [line : Lines, ip : Addresses]
      BY <1>2, <2>1, StaticIsAddress
    <2>3. run' \in [Operators -> [at : Places, cfg : Configs]]
      BY <2>1, GoesTypes DEF Places
    <2> QED
      BY <1>1, <2>1, <2>2, <2>3 DEF Types, wifi, history
  <1>6. CASE WanResolv(o)
    <2>1. /\ resolv' = IF run[o].cfg.line = "I" THEN Named(run[o].cfg) ELSE <<>>
          /\ fresh' = [v \in Operators |-> FALSE]
          /\ UNCHANGED <<interfaces, supersede, live, alone, settled>>
          /\ Goes(o, "resolv", "dhclient")
      BY <1>6 DEF WanResolv
    <2>2. resolv' \in Seq(Names)
      BY <1>2, <2>1, NamedIsSeq
    <2>3. run' \in [Operators -> [at : Places, cfg : Configs]]
      BY <2>1, GoesTypes DEF Places
    <2> QED
      BY <1>1, <2>1, <2>2, <2>3 DEF Types, wifi
  <1>7. CASE WanDhclient(o)
    <2>1. /\ supersede' = IF run[o].cfg.line = "D" THEN Named(run[o].cfg) ELSE <<>>
          /\ UNCHANGED <<interfaces, resolv, live, history>>
          /\ Goes(o, "dhclient", "ifup")
      BY <1>7 DEF WanDhclient
    <2>2. supersede' \in Seq(Names)
      BY <1>2, <2>1, NamedIsSeq
    <2>3. run' \in [Operators -> [at : Places, cfg : Configs]]
      BY <2>1, GoesTypes DEF Places
    <2> QED
      BY <1>1, <2>1, <2>2, <2>3 DEF Types, wifi, history
  <1> QED
    BY <1>3, <1>4, <1>5, <1>6, <1>7

LEMMA WanRefusedTypes ==
  ASSUME Types, NEW o \in Operators, WanRefused(o)
  PROVE  Types'
  <1>1. /\ UNCHANGED <<etc, flash, files, wifi, live, page, task, button, tasks, fresh,
                       settled>>
        /\ cuts' = cuts + 1
        /\ alone' = [alone EXCEPT ![o] = FALSE]
    BY DEF WanRefused
  <1>2. \E from, to \in Places : Goes(o, from, to)
    BY DEF WanRefused, Places
  <1>3. run' \in [Operators -> [at : Places, cfg : Configs]]
    BY <1>2, GoesTypes
  <1>4. alone' \in [Operators -> BOOLEAN]
    BY <1>1, Zenon DEF Types
  <1> QED
    BY <1>1, <1>3, <1>4 DEF Types, files, wifi

LEMMA WanIfupTypes ==
  ASSUME Types, NEW o \in Operators, WanIfup(o)
  PROVE  Types'
  <1>1. /\ UNCHANGED <<etc, flash, wifi, page, task, button, tasks, cuts>>
        /\ UNCHANGED <<interfaces, supersede, alone>>
        /\ fresh' = [v \in Operators |-> FALSE]
        /\ Goes(o, "ifup", "idle")
        /\ IF live.up THEN UNCHANGED <<live, resolv>> ELSE Ifup(interfaces, supersede)
    BY DEF WanIfup, wanKeeps
  <1>2. run' \in [Operators -> [at : Places, cfg : Configs]]
    BY <1>1, GoesTypes DEF Places
  <1>3. settled' \in BOOLEAN
    <2>1. alone[o] \in BOOLEAN /\ settled' = (alone[o] /\ run[o].cfg = etc)
      BY DEF WanIfup, Types
    <2> QED
      BY <2>1, Zenon
  <1>4. /\ live' \in [up : BOOLEAN, ip : Addresses, over : Seq(Names)]
        /\ resolv' \in Seq(Names)
    <2>1. CASE live.up
      BY <1>1, <2>1 DEF Types
    <2>2. CASE ~live.up
      <3>1. interfaces \in [line : Lines, ip : Addresses] /\ Ifup(interfaces, supersede)
        BY <1>1, <2>2 DEF Types
      <3> QED
        BY <3>1, IfupTypes
    <2> QED
      BY <2>1, <2>2
  <1> QED
    BY <1>1, <1>2, <1>3, <1>4 DEF Types, wifi

LEMMA OutsideTypes ==
  ASSUME Types, Wifi \/ Renew
  PROVE  Types'
  <1>1. /\ UNCHANGED <<etc, flash, interfaces, supersede, wlan, live, page, run, task,
                       button, cuts, alone, settled>>
        /\ fresh' = [v \in Operators |-> FALSE]
    BY DEF Wifi, Renew, wifi
  <1>2. tasks' \in Nat
    BY DEF Wifi, Renew, Task, Types
  <1>3. resolv' \in Seq(Names)
    <2>1. CASE Wifi
      <3>1. resolv' = IF wlan = "none" THEN resolv ELSE Append(resolv, wlan)
        BY <2>1 DEF Wifi
      <3>2. wlan # "none" => wlan \in Names
        BY DEF Types, Names
      <3> QED
        BY <3>1, <3>2 DEF Types
    <2>2. CASE Renew
      <3>1. PICK l \in Leases : resolv' = IF live.over # <<>> THEN live.over ELSE l
        BY <2>2 DEF Renew
      <3>2. l \in Seq(Names) /\ live.over \in Seq(Names)
        BY LeaseAssumption DEF Names, Types
      <3> QED
        BY <3>1, <3>2
    <2> QED
      BY <2>1, <2>2
  <1> QED
    BY <1>1, <1>2, <1>3 DEF Types

LEMMA BootTypes ==
  ASSUME Types, Boot, cuts' \in Nat
  PROVE  Types'
  <1> DEFINE file == [line |-> flash.line, ip |-> Static(flash)]
  <1>1. /\ interfaces' = file /\ Ifup(interfaces', supersede) /\ etc' = flash
        /\ page' = [o \in Operators |-> NoPage]
        /\ run' = [o \in Operators |-> NoRun]
        /\ task' = [o \in Operators |-> "idle"]
        /\ fresh' = [o \in Operators |-> FALSE]
        /\ alone' = [o \in Operators |-> FALSE]
        /\ UNCHANGED <<flash, supersede, wlan, button, tasks>>
    BY DEF Boot
  <1>2. file \in [line : Lines, ip : Addresses]
    BY StaticIsAddress DEF Types
  <1>3. /\ resolv' \in Seq(Names)
        /\ live' \in [up : BOOLEAN, ip : Addresses, over : Seq(Names)]
    <2>1. Ifup(file, supersede)
      BY <1>1 DEF Ifup
    <2> QED
      BY <1>2, <2>1, IfupTypes
  <1>4. run' \in [Operators -> [at : Places, cfg : Configs]]
    BY <1>1, FactoryIsConfig DEF NoRun, Places
  <1>5. settled' \in BOOLEAN
    <2>1. settled' = (settled /\ flash = etc)
      BY DEF Boot
    <2> QED
      BY <2>1, Zenon DEF Types
  <1> QED
    BY <1>1, <1>2, <1>3, <1>4, <1>5 DEF Types
-----------------------------------------------------------------------------
(* The invariant, action by action.  What does not touch the network or the *)
(* configuration first.                                                    *)
LEMMA QuietKept ==
  ASSUME NetworkInv,
         UNCHANGED <<etc, flash, files, live, run, task, button, alone, settled>>
  PROVE  OneRun' /\ RunHolds' /\ SettledHolds' /\ PageWaits' /\ LeavingHolds'
  <1>1. OneRun' /\ PageWaits'
    BY DEF NetworkInv, OneRun, PageWaits, Begun
  <1>2. RunHolds'
    BY DoneKept DEF NetworkInv, RunHolds
  <1>3. SettledHolds'
    BY InEffectKept DEF NetworkInv, SettledHolds, Begun, files
  <1>4. LeavingHolds'
    BY DEF NetworkInv, LeavingHolds, Begun, Busy
  <1> QED
    BY <1>1, <1>2, <1>3, <1>4

LEMMA FreshKept ==
  ASSUME NetworkInv, UNCHANGED <<etc, resolv, page, fresh>>
  PROVE  FreshHolds'
  BY DifferenceKept DEF NetworkInv, FreshHolds

LEMMA NobodyFresh ==
  ASSUME fresh' = [v \in Operators |-> FALSE]
  PROVE  FreshHolds'
  BY DEF FreshHolds

(* A page that has just been shown has nothing new in it.                  *)
LEMMA ShownIsNoNews ==
  ASSUME Types
  PROVE  ~Differs(Shown)
  <1>1. etc.line \in Lines
    BY DEF Types, Configs
  <1>2. CASE etc.line = "I"
    BY <1>2 DEF Shown, Differs
  <1>3. CASE etc.line = "D"
    <2>1. /\ Shown.line = "D" /\ Shown.dns = Primary /\ Shown.dns_s = Secondary
      BY <1>3 DEF Shown, ShownDhcp, Form
    <2> QED
      BY <1>3, <2>1 DEF Differs
  <1> QED
    BY <1>1, <1>2, <1>3 DEF Lines

LEMMA PageStep ==
  ASSUME NetworkInv, NEW o \in Operators, GetNetwork(o) \/ ChangeType(o)
  PROVE  NetworkInv'
  <1>1. UNCHANGED <<etc, flash, files, live, run, task, button, alone, settled>>
    BY DEF GetNetwork, ChangeType
  <1>2. FreshHolds'
    <2> SUFFICES ASSUME NEW v \in Operators, fresh'[v], page'[v] # NoPage
                 PROVE  ~Differs(page'[v])
      BY <1>1, DifferenceKept DEF FreshHolds, files
    <2>1. page \in [Operators -> {NoPage} \cup Forms] /\ fresh \in [Operators -> BOOLEAN]
      BY DEF NetworkInv, Types
    <2>2. CASE v # o
      <3>1. page'[v] = page[v] /\ fresh'[v] = fresh[v]
        BY <2>1, <2>2 DEF GetNetwork, ChangeType
      <3> QED
        BY <3>1 DEF NetworkInv, FreshHolds
    <2>3. CASE v = o
      <3>1. CASE GetNetwork(o)
        <4>1. page'[o] = Shown
          BY <2>1, <3>1 DEF GetNetwork
        <4> QED
          BY <2>3, <4>1, ShownIsNoNews DEF NetworkInv
      <3>2. CASE ChangeType(o)
        BY <2>1, <2>3, <3>2 DEF ChangeType
      <3> QED
        BY <3>1, <3>2
    <2> QED
      BY <2>2, <2>3
  <1> QED
    BY <1>1, <1>2, QuietKept, PageTypes DEF NetworkInv

(* A request writes the configuration and may ask for a run of wan.        *)
LEMMA RequestStep ==
  ASSUME NetworkInv, NEW o \in Operators, SetNetwork(o) \/ DefWan(o)
  PROVE  NetworkInv'
  <1>1. /\ ~Busy(o)
        /\ UNCHANGED <<flash, files, live, task, button>>
        /\ alone' = [v \in Operators |-> v = o /\ alone[o]]
        /\ fresh' = [v \in Operators |-> FALSE]
        /\ settled' = (settled /\ etc' = etc)
    BY DEF SetNetwork, DefWan, Disturbs
  <1>2. /\ run'[o].at \in {"idle", "read"}
        /\ \A w \in Operators : w # o => run'[w] = run[w]
    <2>1. Starts(o) \/ UNCHANGED run
      BY DEF SetNetwork, DefWan
    <2> QED
      BY <1>1, <2>1, StartsTypes DEF NetworkInv, Busy
  <1>3. \A v \in Operators : alone'[v] => v = o
    BY <1>1
  <1>4. task[o] = "idle" /\ ~Begun(o)' /\ ~Begun(o)
    BY <1>1, <1>2 DEF Busy, Begun
  <1>5. OneRun'
    BY <1>3, <1>4 DEF OneRun
  <1>6. RunHolds'
    BY <1>2, <1>3 DEF RunHolds, Done
  <1>7. SettledHolds'
    <2> SUFFICES ASSUME settled' PROVE SettledHolds'
      BY DEF SettledHolds
    <2>1. settled /\ etc' = etc
      BY <1>1
    <2>2. InEffect(etc) /\ live.over = supersede /\ \A w \in Operators : ~Begun(w)
      BY <2>1 DEF NetworkInv, SettledHolds
    <2>3. InEffect(etc)'
      BY <1>1, <2>1, <2>2, InEffectKept
    <2>4. \A w \in Operators : ~Begun(w)'
      BY <1>2, <1>4, <2>2 DEF Begun
    <2> QED
      BY <1>1, <2>2, <2>3, <2>4 DEF SettledHolds, files
  <1>8. PageWaits'
    BY <1>1, <1>2, <1>4 DEF NetworkInv, PageWaits
  <1>9. LeavingHolds'
    BY <1>1, <1>3, <1>4 DEF LeavingHolds
  <1> QED
    BY <1>1, <1>5, <1>6, <1>7, <1>8, <1>9, NobodyFresh, RequestTypes DEF NetworkInv

(* The reboot page: nobody else is at anything, or the request is not alone. *)
LEMMA RebootPageStep ==
  ASSUME NetworkInv, NEW o \in Operators, NEW b \in {"save", "only", "factory"},
         SetReboot(o, b)
  PROVE  NetworkInv'
  <1>1. /\ ~Busy(o)
        /\ UNCHANGED <<files, live, run>>
        /\ alone' = [v \in Operators |-> v = o /\ \A w \in Operators \ {o} : ~Busy(w)]
        /\ fresh' = [v \in Operators |-> FALSE]
        /\ settled' = (settled /\ etc' = etc)
        /\ button' = [button EXCEPT ![o] = b] /\ task' = [task EXCEPT ![o] = "page"]
    BY DEF SetReboot
  <1>2. /\ task'[o] = "page" /\ button'[o] = b
        /\ \A w \in Operators : w # o => task'[w] = task[w]
    BY <1>1 DEF NetworkInv, Types
  <1>3. \A v \in Operators : alone'[v] => v = o /\ \A w \in Operators : w # o => ~Busy(w)
    BY <1>1
  <1>4. run[o].at = "idle" /\ ~Begun(o)'
    BY <1>1 DEF Busy, Begun
  <1>5. OneRun' /\ RunHolds'
    BY <1>1, <1>3, <1>4 DEF OneRun, RunHolds, Done
  <1>6. SettledHolds'
    <2> SUFFICES ASSUME settled' PROVE SettledHolds'
      BY DEF SettledHolds
    <2>1. settled /\ etc' = etc
      BY <1>1
    <2>2. InEffect(etc) /\ live.over = supersede /\ \A w \in Operators : ~Begun(w)
      BY <2>1 DEF NetworkInv, SettledHolds
    <2>3. InEffect(etc)'
      BY <1>1, <2>1, <2>2, InEffectKept
    <2> QED
      BY <1>1, <2>2, <2>3 DEF SettledHolds, files, Begun
  <1>7. PageWaits'
    BY <1>1, <1>2, <1>4 DEF NetworkInv, PageWaits
  <1>8. LeavingHolds'
    <2>1. b # "only" => etc' = flash'
      BY DEF SetReboot
    <2> QED
      BY <1>1, <1>2, <1>3, <1>4, <2>1 DEF LeavingHolds, Busy
  <1> QED
    BY <1>1, <1>5, <1>6, <1>7, <1>8, NobodyFresh, RebootPageTypes DEF NetworkInv

(* The page that answers runs wan.                                         *)
LEMMA OnlyRebootStep ==
  ASSUME NetworkInv, NEW o \in Operators, OnlyReboot(o)
  PROVE  NetworkInv'
  <1>1. /\ task[o] = "page" /\ task' = [task EXCEPT ![o] = "leaving"] /\ Starts(o)
        /\ UNCHANGED <<etc, flash, files, live, page, button, alone, settled, fresh>>
    BY DEF OnlyReboot, history
  <1>2. /\ run'[o].at = "read"
        /\ \A w \in Operators : w # o => run'[w] = run[w]
    BY <1>1, StartsTypes DEF NetworkInv
  <1>3. /\ task'[o] = "leaving"
        /\ \A w \in Operators : w # o => task'[w] = task[w]
    BY <1>1 DEF NetworkInv, Types
  <1>4. \A v \in Operators : Begun(v)' => v # o /\ Begun(v)
    BY <1>2 DEF Begun
  <1>5. OneRun'
    BY <1>1, <1>4 DEF NetworkInv, OneRun
  <1>6. RunHolds'
    <2> SUFFICES ASSUME NEW v \in Operators, alone'[v]
                 PROVE  Done(run[v].at, run[v].cfg)'
      BY DEF RunHolds
    <2>1. CASE v = o
      BY <1>2, <2>1 DEF Done
    <2>2. CASE v # o
      BY <1>1, <1>2, <2>2, DoneKept DEF NetworkInv, RunHolds
    <2> QED
      BY <2>1, <2>2
  <1>7. SettledHolds'
    BY <1>1, <1>4, InEffectKept DEF NetworkInv, SettledHolds, files
  <1>8. PageWaits'
    BY <1>2, <1>3 DEF NetworkInv, PageWaits
  <1>9. LeavingHolds'
    <2> SUFFICES ASSUME NEW v \in Operators, alone[v], task'[v] # "idle"
                 PROVE  /\ \A w \in Operators : w # v => ~Busy(w)'
                        /\ Begun(v)' => run'[v].cfg = etc
                        /\ task'[v] = "leaving" /\ run'[v].at = "idle" => settled
                        /\ button[v] # "only" => etc = flash
      BY <1>1 DEF LeavingHolds
    <2>1. v = o
      BY <1>1, <1>3 DEF NetworkInv, LeavingHolds, Busy
    <2> QED
      BY <1>1, <1>2, <1>3, <1>4, <2>1 DEF NetworkInv, LeavingHolds, Busy
  <1> QED
    BY <1>1, <1>5, <1>6, <1>7, <1>8, <1>9, FreshKept, RebootPageTypes DEF NetworkInv, files
-----------------------------------------------------------------------------
(* wan, call by call.                                                      *)
LEMMA WanReadStep ==
  ASSUME NetworkInv, NEW o \in Operators, WanRead(o)
  PROVE  NetworkInv'
  <1>1. /\ run[o].at = "read"
        /\ run' = [run EXCEPT ![o] = [at |-> "ifdown", cfg |-> etc]]
        /\ alone' = [v \in Operators |->
             v = o /\ (task[o] = "leaving" => alone[o])
                   /\ \A w \in Operators \ {o} : run[w].at = "idle"]
        /\ settled' = FALSE
        /\ fresh' = [v \in Operators |-> FALSE]
        /\ UNCHANGED <<etc, flash, files, live, task, button>>
    BY DEF WanRead, wanKeeps
  <1>2. /\ run'[o].at = "ifdown" /\ run'[o].cfg = etc
        /\ \A w \in Operators : w # o => run'[w] = run[w]
    BY <1>1 DEF NetworkInv, Types
  <1>3. \A v \in Operators :
          alone'[v] => /\ v = o /\ (task[o] = "leaving" => alone[o])
                       /\ \A w \in Operators : w # o => run[w].at = "idle"
    BY <1>1
  <1>4. OneRun'
    BY <1>2, <1>3 DEF OneRun, Begun
  <1>5. RunHolds'
    BY <1>2, <1>3 DEF RunHolds, Done
  <1>6. SettledHolds'
    BY <1>1 DEF SettledHolds
  <1>7. PageWaits' /\ task[o] # "page"
    BY <1>1, <1>2 DEF NetworkInv, PageWaits
  <1>8. LeavingHolds'
    <2> SUFFICES ASSUME alone'[o], task[o] # "idle"
                 PROVE  /\ \A w \in Operators : w # o => ~Busy(w)'
                        /\ button[o] # "only" => etc = flash
      BY <1>1, <1>2, <1>3 DEF LeavingHolds
    <2>1. task[o] = "leaving"
      BY <1>7 DEF NetworkInv, Types
    <2>2. alone[o]
      BY <1>3, <2>1
    <2> QED
      BY <1>1, <1>2, <2>2 DEF NetworkInv, LeavingHolds, Busy
  <1> QED
    BY <1>1, <1>4, <1>5, <1>6, <1>7, <1>8, NobodyFresh, WanTypes DEF NetworkInv

(* A call in the middle of a run: what holds of the run holds at the next  *)
(* call, and there is nobody else it could disturb.                        *)
LEMMA CallStep ==
  ASSUME NetworkInv, NEW o \in Operators, NEW from, NEW to \in Places,
         Goes(o, from, to), {from, to} \cap {"idle", "read"} = {},
         UNCHANGED <<etc, flash, task, button, alone, settled>>,
         alone[o] => Done(to, run[o].cfg)'
  PROVE  OneRun' /\ RunHolds' /\ SettledHolds' /\ PageWaits' /\ LeavingHolds'
  <1>1. /\ run[o].at = from /\ run'[o].at = to /\ run'[o].cfg = run[o].cfg
        /\ \A w \in Operators : w # o => run'[w] = run[w]
    BY GoesTypes DEF NetworkInv
  <1>2. Begun(o) /\ \A v \in Operators : Begun(v)' = Begun(v)
    BY <1>1 DEF Begun
  <1>3. OneRun'
    BY <1>2 DEF NetworkInv, OneRun
  <1>4. RunHolds'
    <2> SUFFICES ASSUME NEW v \in Operators, alone[v]
                 PROVE  Done(run[v].at, run[v].cfg)'
      BY DEF RunHolds
    <2>1. CASE v = o
      BY <1>1, <2>1 DEF Done, Static, Resolves, Supersedes, Named
    <2>2. CASE v # o
      <3>1. run'[v] = run[v] /\ ~Begun(v)
        BY <1>1, <1>2, <2>2 DEF NetworkInv, OneRun
      <3> QED
        BY <3>1 DEF Done, Begun
    <2> QED
      BY <2>1, <2>2
  <1>5. ~settled
    BY <1>2 DEF NetworkInv, SettledHolds
  <1>6. SettledHolds'
    BY <1>5 DEF SettledHolds
  <1>7. PageWaits'
    BY <1>1 DEF NetworkInv, PageWaits
  <1>8. LeavingHolds'
    <2> SUFFICES ASSUME NEW v \in Operators, alone[v], task[v] # "idle"
                 PROVE  /\ \A w \in Operators : w # v => ~Busy(w)'
                        /\ Begun(v)' => run'[v].cfg = etc
                        /\ task[v] = "leaving" /\ run'[v].at = "idle" => settled
                        /\ button[v] # "only" => etc = flash
      BY DEF LeavingHolds
    <2>1. v = o
      BY <1>1 DEF NetworkInv, LeavingHolds, Busy
    <2> QED
      BY <1>1, <1>2, <2>1 DEF NetworkInv, LeavingHolds, Busy
  <1> QED
    BY <1>3, <1>4, <1>6, <1>7, <1>8

LEMMA WanCallStep ==
  ASSUME NetworkInv, NEW o \in Operators,
         WanIfdown(o) \/ WanInterfaces(o) \/ WanResolv(o) \/ WanDhclient(o)
  PROVE  NetworkInv'
  <1> DEFINE c == run[o].cfg
  <1>1. /\ UNCHANGED <<etc, flash, page, task, button, alone, settled>>
        /\ c \in Configs
    BY DEF WanIfdown, WanInterfaces, WanResolv, WanDhclient, wanKeeps, history,
           NetworkInv, Types
  <1>2. alone[o] => Done(run[o].at, c)
    BY DEF NetworkInv, RunHolds
  <1>3. Types'
    BY WanTypes DEF NetworkInv
  <1>4. CASE WanIfdown(o)
    <2>1. Goes(o, "ifdown", "interfaces") /\ ~live'.up
          /\ UNCHANGED <<resolv, fresh>>
      BY <1>4 DEF WanIfdown, Down, files, history
    <2>2. \A k : Done("interfaces", k)'
      BY <2>1 DEF Done
    <2>3. OneRun' /\ RunHolds' /\ SettledHolds' /\ PageWaits' /\ LeavingHolds'
      BY <1>1, <2>1, <2>2, CallStep DEF Places
    <2> QED
      BY <1>1, <1>3, <2>1, <2>3, FreshKept DEF NetworkInv
  <1>5. CASE WanInterfaces(o)
    <2>1. /\ Goes(o, "interfaces", "resolv") /\ run[o].at = "interfaces"
          /\ interfaces' = [line |-> c.line, ip |-> Static(c)]
          /\ UNCHANGED <<resolv, live, fresh>>
      BY <1>5 DEF WanInterfaces, Goes, history
    <2>2. alone[o] => ~live.up
      BY <1>2, <2>1 DEF Done
    <2>3. alone[o] => Done("resolv", run[o].cfg)'
      <3>1. run'[o].cfg = c
        BY <2>1, GoesTypes DEF NetworkInv, Places
      <3> QED
        BY <2>1, <2>2, <3>1 DEF Done, Static
    <2>4. OneRun' /\ RunHolds' /\ SettledHolds' /\ PageWaits' /\ LeavingHolds'
      BY <1>1, <2>1, <2>3, CallStep DEF Places
    <2> QED
      BY <1>1, <1>3, <2>1, <2>4, FreshKept DEF NetworkInv
  <1>6. CASE WanResolv(o)
    <2>1. /\ Goes(o, "resolv", "dhclient") /\ run[o].at = "resolv"
          /\ resolv' = IF c.line = "I" THEN Named(c) ELSE <<>>
          /\ UNCHANGED <<interfaces, live>>
          /\ fresh' = [v \in Operators |-> FALSE]
      BY <1>6 DEF WanResolv, Goes
    <2>2. alone[o] => ~live.up /\ interfaces.line = c.line /\ interfaces.ip = Static(c)
      BY <1>2, <2>1 DEF Done
    <2>3. c.line = "I" => Resolves(run[o].cfg)'
      <3>1. run'[o].cfg = c
        BY <2>1, GoesTypes DEF NetworkInv, Places
      <3> QED
        BY <1>1, <2>1, <3>1, NamedResolves DEF Resolves, Named
    <2>4. alone[o] => Done("dhclient", run[o].cfg)'
      <3>1. run'[o].cfg = c
        BY <2>1, GoesTypes DEF NetworkInv, Places
      <3> QED
        BY <2>1, <2>2, <2>3, <3>1 DEF Done, Static
    <2>5. OneRun' /\ RunHolds' /\ SettledHolds' /\ PageWaits' /\ LeavingHolds'
      BY <1>1, <2>1, <2>4, CallStep DEF Places
    <2> QED
      BY <1>1, <1>3, <2>1, <2>5, NobodyFresh DEF NetworkInv
  <1>7. CASE WanDhclient(o)
    <2>1. /\ Goes(o, "dhclient", "ifup") /\ run[o].at = "dhclient"
          /\ supersede' = Supersedes(c)
          /\ UNCHANGED <<interfaces, resolv, live, fresh>>
      BY <1>7 DEF WanDhclient, Goes, history, Supersedes
    <2>2. alone[o] => /\ ~live.up /\ interfaces.line = c.line /\ interfaces.ip = Static(c)
                      /\ c.line = "I" => Resolves(c)
      BY <1>2, <2>1 DEF Done
    <2>3. alone[o] => Done("ifup", run[o].cfg)'
      <3>1. run'[o].cfg = c
        BY <2>1, GoesTypes DEF NetworkInv, Places
      <3> QED
        BY <2>1, <2>2, <3>1 DEF Done, Static, Resolves, Supersedes, Named
    <2>4. OneRun' /\ RunHolds' /\ SettledHolds' /\ PageWaits' /\ LeavingHolds'
      BY <1>1, <2>1, <2>3, CallStep DEF Places
    <2> QED
      BY <1>1, <1>3, <2>1, <2>4, FreshKept DEF NetworkInv
  <1> QED
    BY <1>4, <1>5, <1>6, <1>7

(* A run that could not open a file counts as disturbed from then on.      *)
LEMMA WanRefusedStep ==
  ASSUME NetworkInv, NEW o \in Operators, WanRefused(o)
  PROVE  NetworkInv'
  <1>1. /\ UNCHANGED <<etc, flash, files, live, page, task, button, settled, fresh>>
        /\ alone' = [alone EXCEPT ![o] = FALSE]
    BY DEF WanRefused
  <1>2. PICK from, to \in Places :
          Goes(o, from, to) /\ {from, to} \cap {"idle", "read"} = {}
    BY DEF WanRefused, Places
  <1>3. /\ run[o].at = from /\ run'[o].at = to
        /\ \A w \in Operators : w # o => run'[w] = run[w]
    BY <1>2, GoesTypes DEF NetworkInv
  <1>4. Begun(o) /\ \A v \in Operators : Begun(v)' = Begun(v)
    BY <1>2, <1>3 DEF Begun
  <1>5. \A v \in Operators : alone'[v] => v # o /\ alone[v] /\ ~Begun(v)
    BY <1>1, <1>4 DEF NetworkInv, Types, OneRun
  <1>6. OneRun' /\ RunHolds'
    BY <1>3, <1>4, <1>5 DEF OneRun, RunHolds, Done, Begun
  <1>7. SettledHolds'
    BY <1>1, <1>4 DEF NetworkInv, SettledHolds
  <1>8. PageWaits'
    BY <1>1, <1>2, <1>3 DEF NetworkInv, PageWaits
  <1>9. LeavingHolds'
    <2> SUFFICES ASSUME NEW v \in Operators, alone'[v], task[v] # "idle"
                 PROVE  FALSE
      BY <1>1 DEF LeavingHolds
    <2> QED
      BY <1>4, <1>5 DEF NetworkInv, LeavingHolds, Busy, Begun
  <1> QED
    BY <1>1, <1>6, <1>7, <1>8, <1>9, FreshKept, WanRefusedTypes DEF NetworkInv, files

(* ifup ends a run: one that was alone leaves the network as it should be. *)
LEMMA WanIfupStep ==
  ASSUME NetworkInv, NEW o \in Operators, WanIfup(o)
  PROVE  NetworkInv'
  <1> DEFINE c == run[o].cfg
  <1>1. /\ Goes(o, "ifup", "idle")
        /\ UNCHANGED <<etc, flash, page, task, button, alone, interfaces, supersede>>
        /\ IF live.up THEN UNCHANGED <<live, resolv>> ELSE Ifup(interfaces, supersede)
        /\ settled' = (alone[o] /\ c = etc)
        /\ fresh' = [v \in Operators |-> FALSE]
    BY DEF WanIfup, wanKeeps
  <1>2. /\ run[o].at = "ifup" /\ run'[o].at = "idle"
        /\ \A w \in Operators : w # o => run'[w] = run[w]
    BY <1>1, GoesTypes DEF NetworkInv, Places
  <1>3. Begun(o) /\ ~Begun(o)' /\ \A w \in Operators : w # o => Begun(w)' = Begun(w)
    BY <1>2 DEF Begun
  <1>4. OneRun'
    BY <1>1, <1>3 DEF NetworkInv, OneRun
  <1>5. RunHolds'
    <2> SUFFICES ASSUME NEW v \in Operators, alone[v]
                 PROVE  Done(run[v].at, run[v].cfg)'
      BY <1>1 DEF RunHolds
    <2>1. CASE v = o
      BY <1>2, <2>1 DEF Done
    <2>2. CASE v # o
      <3>1. run'[v] = run[v] /\ ~Begun(v)
        BY <1>2, <1>3, <2>2 DEF NetworkInv, OneRun
      <3> QED
        BY <3>1 DEF Done, Begun
    <2> QED
      BY <2>1, <2>2
  <1>6. SettledHolds'
    <2> SUFFICES ASSUME alone[o], c = etc PROVE SettledHolds'
      BY <1>1 DEF SettledHolds
    <2>1. /\ ~live.up /\ supersede = Supersedes(etc)
          /\ interfaces.line = etc.line /\ interfaces.ip = Static(etc)
          /\ etc.line = "I" => Resolves(etc)
      BY <1>2 DEF NetworkInv, RunHolds, Done
    <2>2. Ifup(interfaces, supersede) /\ interfaces' = interfaces /\ supersede' = supersede
      BY <1>1, <2>1
    <2>3. PICK k \in Configs : k = etc /\ k = etc'
      BY <1>1 DEF NetworkInv, Types
    <2>4. InEffect(k)' /\ live'.over = supersede'
      BY <2>1, <2>2, <2>3, IfupWorks DEF NetworkInv
    <2>5. \A w \in Operators : ~Begun(w)'
      BY <1>3 DEF NetworkInv, OneRun
    <2>6. InEffect(etc)'
      BY <2>3, <2>4 DEF InEffect, Resolves, Named
    <2> QED
      BY <2>4, <2>5, <2>6 DEF SettledHolds
  <1>7. PageWaits'
    BY <1>1, <1>2 DEF NetworkInv, PageWaits
  <1>8. LeavingHolds'
    <2> SUFFICES ASSUME NEW v \in Operators, alone[v], task[v] # "idle"
                 PROVE  /\ \A w \in Operators : w # v => ~Busy(w)'
                        /\ Begun(v)' => run'[v].cfg = etc
                        /\ task[v] = "leaving" /\ run'[v].at = "idle" => settled'
                        /\ button[v] # "only" => etc = flash
      BY <1>1 DEF LeavingHolds
    <2>1. v = o
      BY <1>2 DEF NetworkInv, LeavingHolds, Busy
    <2>2. settled'
      BY <1>1, <1>3, <2>1 DEF NetworkInv, LeavingHolds
    <2>3. /\ \A w \in Operators : w # v => ~Busy(w)'
          /\ button[v] # "only" => etc = flash
      BY <1>1, <1>2, <2>1 DEF NetworkInv, LeavingHolds, Busy
    <2> QED
      BY <1>3, <2>1, <2>2, <2>3
  <1> QED
    BY <1>1, <1>4, <1>5, <1>6, <1>7, <1>8, NobodyFresh, WanIfupTypes DEF NetworkInv
-----------------------------------------------------------------------------
(* wifi adds a server behind the others, at whatever moment.               *)
LEMMA WifiStep ==
  ASSUME NetworkInv, Wifi
  PROVE  NetworkInv'
  <1>1. /\ UNCHANGED <<etc, flash, interfaces, supersede, live, page, run, task, button,
                       alone, settled>>
        /\ fresh' = [v \in Operators |-> FALSE]
        /\ resolv' = IF wlan = "none" THEN resolv ELSE Append(resolv, wlan)
        /\ wlan \in WlanServers \cup {"none"} /\ resolv \in Seq(Names)
    BY DEF Wifi, NetworkInv, Types
  <1>2. ASSUME NEW c \in Configs, Resolves(c)
        PROVE  Resolves(c)'
    BY <1>1, <1>2, ResolvesKept, ResolvesAppended
  <1>3. OneRun' /\ PageWaits'
    BY <1>1 DEF NetworkInv, OneRun, PageWaits, Begun
  <1>4. RunHolds'
    <2> SUFFICES ASSUME NEW v \in Operators, alone[v]
                 PROVE  Done(run[v].at, run[v].cfg)'
      BY <1>1 DEF RunHolds
    <2>1. PICK c \in Configs, at \in Places :
            c = run[v].cfg /\ c = run'[v].cfg /\ at = run[v].at /\ at = run'[v].at
      BY <1>1 DEF NetworkInv, Types
    <2>2. Done(at, c)
      BY <2>1 DEF NetworkInv, RunHolds
    <2>3. Done(at, c)'
      BY <1>1, <1>2, <2>2 DEF Done
    <2> QED
      BY <2>1, <2>3 DEF Done, Static, Resolves, Supersedes, Named
  <1>5. SettledHolds'
    <2> SUFFICES ASSUME settled PROVE SettledHolds'
      BY <1>1 DEF SettledHolds
    <2>1. PICK c \in Configs : c = etc /\ c = etc'
      BY <1>1 DEF NetworkInv, Types
    <2>2. InEffect(c) /\ live.over = supersede /\ \A w \in Operators : ~Begun(w)
      BY <2>1 DEF NetworkInv, SettledHolds
    <2>3. InEffect(c)'
      BY <1>1, <1>2, <2>2 DEF InEffect
    <2>4. InEffect(etc)'
      BY <2>1, <2>3 DEF InEffect, Resolves, Named
    <2> QED
      BY <1>1, <2>2, <2>4 DEF SettledHolds, Begun
  <1>6. LeavingHolds'
    BY <1>1 DEF NetworkInv, LeavingHolds, Begun, Busy
  <1> QED
    BY <1>1, <1>3, <1>4, <1>5, <1>6, NobodyFresh, OutsideTypes DEF NetworkInv

(* A new lease finds no run behind its ifdown, and dhclient keeps to what  *)
(* it was started with.                                                    *)
LEMMA RenewStep ==
  ASSUME NetworkInv, Renew
  PROVE  NetworkInv'
  <1>1. /\ UNCHANGED <<etc, flash, interfaces, supersede, live, page, run, task, button,
                       alone, settled>>
        /\ fresh' = [v \in Operators |-> FALSE]
        /\ live.up /\ live.ip = "leased"
    BY DEF Renew
  <1>2. PICK l \in Leases : resolv' = IF live.over # <<>> THEN live.over ELSE l
    BY DEF Renew
  <1>3. OneRun' /\ PageWaits'
    BY <1>1 DEF NetworkInv, OneRun, PageWaits, Begun
  <1>4. RunHolds'
    <2> SUFFICES ASSUME NEW v \in Operators, alone[v]
                 PROVE  Done(run[v].at, run[v].cfg)'
      BY <1>1 DEF RunHolds
    <2>1. Done(run[v].at, run[v].cfg)
      BY DEF NetworkInv, RunHolds
    <2> QED
      BY <1>1, <2>1 DEF Done
  <1>5. SettledHolds'
    <2> SUFFICES ASSUME settled PROVE SettledHolds'
      BY <1>1 DEF SettledHolds
    <2>1. PICK c \in Configs : c = etc /\ c = etc'
      BY <1>1 DEF NetworkInv, Types
    <2>2. InEffect(c) /\ live.over = supersede /\ \A w \in Operators : ~Begun(w)
      BY <2>1 DEF NetworkInv, SettledHolds
    <2>3. c.line = "D"
      <3>1. c.line \in Lines /\ c.ip \in Ips
        BY DEF Configs
      <3> QED
        BY <1>1, <2>2, <3>1, IpsAssumption DEF InEffect, Lines
    <2>4. supersede = Named(c)
      BY <2>2, <2>3 DEF InEffect
    <2>5. Named(c) # <<>> => Resolves(c)'
      BY <1>2, <2>2, <2>4, NamedResolves
    <2>6. InEffect(c)'
      BY <1>1, <2>2, <2>3, <2>5 DEF InEffect
    <2>7. InEffect(etc)'
      BY <2>1, <2>6 DEF InEffect, Resolves, Named
    <2> QED
      BY <1>1, <2>2, <2>7 DEF SettledHolds, Begun
  <1>6. LeavingHolds'
    BY <1>1 DEF NetworkInv, LeavingHolds, Begun, Busy
  <1> QED
    BY <1>1, <1>3, <1>4, <1>5, <1>6, NobodyFresh, OutsideTypes DEF NetworkInv

(* A boot from a saved configuration that was settled is settled.          *)
LEMMA BootStep ==
  ASSUME NetworkInv, Boot, cuts' \in Nat
  PROVE  NetworkInv'
  <1> DEFINE file == [line |-> flash.line, ip |-> Static(flash)]
  <1>1. /\ interfaces' = file /\ etc' = flash
        /\ run' = [o \in Operators |-> NoRun]
        /\ task' = [o \in Operators |-> "idle"]
        /\ fresh' = [o \in Operators |-> FALSE]
        /\ alone' = [o \in Operators |-> FALSE]
        /\ settled' = (settled /\ flash = etc)
        /\ UNCHANGED <<flash, supersede>>
    BY DEF Boot
  <1>2. Ifup(file, supersede)
    BY <1>1 DEF Boot, Ifup
  <1>3. \A o \in Operators : ~alone'[o] /\ ~Begun(o)' /\ task'[o] = "idle"
    BY <1>1 DEF Begun, NoRun
  <1>4. OneRun' /\ RunHolds' /\ PageWaits' /\ LeavingHolds'
    BY <1>3 DEF OneRun, RunHolds, PageWaits, LeavingHolds
  <1>5. SettledHolds'
    <2> SUFFICES ASSUME settled, flash = etc PROVE SettledHolds'
      BY <1>1 DEF SettledHolds
    <2>1. PICK c \in Configs : c = etc /\ c = etc' /\ c = flash
      BY <1>1 DEF NetworkInv, Types
    <2>2. InEffect(c)
      BY <2>1 DEF NetworkInv, SettledHolds
    <2>3. supersede = Supersedes(c) /\ (c.line = "I" => Resolves(c))
      <3>1. c.line \in Lines
        BY DEF Configs
      <3> QED
        BY <2>2, <3>1 DEF InEffect, Supersedes, Lines
    <2>4. file.line = c.line /\ file.ip = Static(c)
      BY <2>1
    <2>5. InEffect(c)' /\ live'.over = supersede'
      BY <1>1, <1>2, <2>3, <2>4, IfupWorks DEF NetworkInv
    <2>6. InEffect(etc)'
      BY <2>1, <2>5 DEF InEffect, Resolves, Named
    <2> QED
      BY <1>3, <2>5, <2>6 DEF SettledHolds
  <1> QED
    BY <1>1, <1>4, <1>5, NobodyFresh, BootTypes DEF NetworkInv
-----------------------------------------------------------------------------
LEMMA InitInv == Init => NetworkInv
  <1> SUFFICES ASSUME Init PROVE NetworkInv
    OBVIOUS
  <1>1. Types
    <2>1. /\ etc \in Configs /\ flash \in Configs /\ Factory \in Configs
          /\ interfaces \in [line : Lines, ip : Addresses]
      BY FactoryIsConfig, StaticIsAddress DEF Init
    <2>2. resolv \in Seq(Names) /\ supersede \in Seq(Names)
      <3>1. Leases \subseteq Seq(Names) /\ <<>> \in Seq(Names)
        BY LeaseAssumption DEF Names
      <3> QED
        BY <3>1 DEF Init
    <2>3. live \in [up : BOOLEAN, ip : Addresses, over : Seq(Names)]
      <3>1. Factory.ip \in Addresses /\ "leased" \in Addresses /\ <<>> \in Seq(Names)
        BY <2>1 DEF Configs, Addresses
      <3>2. live = [up |-> TRUE, over |-> <<>>,
                    ip |-> IF Factory.line = "I" THEN Factory.ip ELSE "leased"]
        BY DEF Init
      <3> QED
        BY <3>1, <3>2
    <2>4. run \in [Operators -> [at : Places, cfg : Configs]]
      BY <2>1 DEF Init, NoRun, Places
    <2> QED
      BY <2>1, <2>2, <2>3, <2>4 DEF Init, Types
  <1>2. \A o \in Operators : ~fresh[o] /\ ~alone[o] /\ task[o] = "idle"
    BY DEF Init
  <1> QED
    BY <1>1, <1>2 DEF Init, NetworkInv, OneRun, RunHolds, SettledHolds, PageWaits,
       LeavingHolds, FreshHolds

LEMMA NextInv == NetworkInv /\ [Next]_vars => NetworkInv'
  <1> SUFFICES ASSUME NetworkInv, [Next]_vars PROVE NetworkInv'
    OBVIOUS
  <1>1. CASE UNCHANGED vars
    <2>1. UNCHANGED <<etc, flash, files, wifi, live, page, run, task, button, tasks, cuts,
                      history>>
      BY <1>1 DEF vars
    <2>2. Types'
      BY <2>1 DEF NetworkInv, Types, files, wifi, history
    <2> QED
      BY <2>1, <2>2, QuietKept, FreshKept DEF NetworkInv, files, history
  <1>2. ASSUME NEW o \in Operators, Leave(o)
        PROVE  NetworkInv'
    <2>1. Boot /\ cuts' \in Nat
      BY <1>2 DEF Leave, NetworkInv, Types
    <2> QED
      BY <2>1, BootStep
  <1>3. CASE PowerCut
    <2>1. Boot /\ cuts' \in Nat
      BY <1>3 DEF PowerCut, NetworkInv, Types
    <2> QED
      BY <2>1, BootStep
  <1> QED
    BY <1>1, <1>2, <1>3, PageStep, RequestStep, RebootPageStep, OnlyRebootStep,
       WanReadStep, WanCallStep, WanRefusedStep, WanIfupStep, WifiStep, RenewStep DEF Next

LEMMA Inductive == Spec => []NetworkInv
  BY InitInv, NextInv, PTL DEF Spec

(* Whatever overlapping runs of wan, files it could not open and losses of *)
(* power have left in the files before: a run that had the network to      *)
(* itself and could open its files leaves these, the interface and the     *)
(* resolver as the configuration says, and so they stay through new        *)
(* leases, wifi and a reboot.                                              *)
THEOREM NetworkIsSettled == Spec => []SettledNetwork
  <1>1. NetworkInv => SettledNetwork
    BY DEF NetworkInv, SettledHolds, SettledNetwork
  <1> QED
    BY <1>1, Inductive, PTL

(* A reboot through a page that saves, which nobody else disturbs and      *)
(* whose run of wan could open its files, brings the network up as the     *)
(* saved configuration says: that run has settled it before the device     *)
(* goes down.                                                              *)
THEOREM SavedWorks == Spec => SavedIsInEffect
  <1> DEFINE Left(o) == /\ task[o] = "leaving" /\ task'[o] = "idle" /\ cuts' = cuts
                        /\ alone[o] /\ button[o] # "only"
  <1>1. ASSUME NetworkInv, NetworkInv', [Next]_vars, NEW o \in Operators, Left(o)
        PROVE  InEffect(flash)'
    <2>1. \A w \in Operators : w # o => ~Busy(w)
      BY <1>1 DEF NetworkInv, LeavingHolds
    <2>2. Boot /\ run[o].at = "idle"
      <3>1. PICK w \in Operators : Leave(w)
        <4>1. task' # task
          BY <1>1
        <4>2. ASSUME NEW w \in Operators, task' = [task EXCEPT ![w] = "page"]
              PROVE  task'[o] # "idle"
          BY <1>1, <4>2 DEF NetworkInv, Types
        <4>3. ASSUME NEW w \in Operators, task' = [task EXCEPT ![w] = "leaving"]
              PROVE  task'[o] # "idle"
          BY <1>1, <4>3 DEF NetworkInv, Types
        <4>4. ~PowerCut
          BY <1>1 DEF PowerCut, NetworkInv, Types
        <4>5. ASSUME NEW w \in Operators
              PROVE  /\ GetNetwork(w) \/ ChangeType(w) \/ SetNetwork(w) \/ DefWan(w)
                          => task' = task
                     /\ WanRead(w) \/ WanIfdown(w) \/ WanInterfaces(w) \/ WanResolv(w)
                          \/ WanDhclient(w) \/ WanRefused(w) \/ WanIfup(w) => task' = task
                     /\ \A b \in {"save", "only", "factory"} :
                          SetReboot(w, b) => task' = [task EXCEPT ![w] = "page"]
                     /\ OnlyReboot(w) => task' = [task EXCEPT ![w] = "leaving"]
          BY DEF GetNetwork, ChangeType, SetNetwork, DefWan, WanRead, WanIfdown,
             WanInterfaces, WanResolv, WanDhclient, WanRefused, WanIfup, wanKeeps, SetReboot,
             OnlyReboot
        <4>6. (Wifi \/ Renew \/ UNCHANGED vars) => task' = task
          BY DEF Wifi, Renew, vars
        <4> QED
          BY <1>1, <4>1, <4>2, <4>3, <4>4, <4>5, <4>6 DEF Next
      <3>2. w = o
        BY <2>1, <3>1 DEF Leave, Busy
      <3> QED
        BY <3>1, <3>2 DEF Leave
    <2>3. settled /\ etc = flash
      BY <1>1, <2>2 DEF NetworkInv, LeavingHolds
    <2>4. settled' /\ etc' = flash'
      BY <2>2, <2>3 DEF Boot
    <2>5. InEffect(etc)'
      BY <1>1, <2>4 DEF NetworkInv, SettledHolds
    <2> QED
      BY <2>4, <2>5 DEF InEffect, Resolves, Named
  <1>2. NetworkInv /\ NetworkInv' /\ [Next]_vars
          => [\A o \in Operators :
                task[o] = "leaving" /\ task'[o] = "idle" /\ cuts' = cuts /\ alone[o]
                  /\ button[o] # "only"
                => InEffect(flash)']_vars
    BY <1>1
  <1> QED
    BY <1>2, Inductive, PTL DEF Spec, SavedIsInEffect

(* A page nobody has touched, sent while everything is as it was shown, is *)
(* never taken for a change.                                               *)
THEOREM UntouchedIsKept == Spec => UntouchedPage
  <1> DEFINE Sent(o) == /\ fresh[o] /\ page[o] # NoPage /\ page'[o] = NoPage
                        /\ tasks' # tasks /\ etc' = Stored(page[o])
  <1>1. ASSUME NetworkInv, [Next]_vars, NEW o \in Operators, Sent(o)
        PROVE  run' = run
    <2>1. page[o] \in Forms
      BY <1>1 DEF NetworkInv, Types
    <2>2. CASE SetNetwork(o)
      <3>1. PICK f \in Edits(page[o]) :
              etc' = Stored(f) /\ IF Differs(f) THEN Starts(o) ELSE UNCHANGED run
        BY <2>2 DEF SetNetwork
      <3>2. f \in Forms /\ f.line = page[o].line /\ Stored(f) = Stored(page[o])
        BY <1>1, <2>1, <3>1, EditsAreForms DEF NetworkInv
      <3>3. f.dns = page[o].dns /\ f.dns_s = page[o].dns_s
            /\ (f.line = "I" => f.ip = page[o].ip)
        <4>1. ASSUME NEW p \in Forms
              PROVE  /\ Stored(p).dns = p.dns /\ Stored(p).dns_s = p.dns_s
                     /\ p.line = "I" => Stored(p).ip = p.ip
          BY DEF Forms, Stored
        <4> QED
          BY <2>1, <3>2, <4>1
      <3>4. ~Differs(page[o])
        BY <1>1 DEF NetworkInv, FreshHolds
      <3>5. ~Differs(f)
        BY <3>2, <3>3, <3>4 DEF Differs
      <3> QED
        BY <3>1, <3>5
    <2>3. CASE UNCHANGED run
      BY <2>3
    <2>4. ASSUME NEW w \in Operators, w # o, SetNetwork(w)
          PROVE  FALSE
      BY <1>1, <2>4 DEF SetNetwork, NetworkInv, Types
    <2>5. ASSUME NEW w \in Operators
          PROVE  /\ OnlyReboot(w) \/ Leave(w) => tasks' = tasks
                 /\ WanRead(w) \/ WanIfdown(w) \/ WanInterfaces(w) \/ WanResolv(w)
                      \/ WanDhclient(w) \/ WanRefused(w) \/ WanIfup(w) => tasks' = tasks
                 /\ GetNetwork(w) \/ ChangeType(w) \/ DefWan(w) => run' = run
                 /\ \A b \in {"save", "only", "factory"} : SetReboot(w, b) => run' = run
      BY DEF GetNetwork, ChangeType, DefWan, WanRead, WanIfdown, WanInterfaces, WanResolv,
         WanDhclient, WanRefused, WanIfup, wanKeeps, SetReboot, OnlyReboot, Leave, Boot
    <2>6. /\ Wifi \/ PowerCut \/ UNCHANGED vars => tasks' = tasks
          /\ Renew => run' = run
      BY DEF Wifi, PowerCut, Boot, Renew, vars
    <2> QED
      BY <1>1, <2>2, <2>3, <2>4, <2>5, <2>6 DEF Next
  <1>2. NetworkInv /\ [Next]_vars
          => [\A o \in Operators :
                /\ fresh[o] /\ page[o] # NoPage /\ page'[o] = NoPage /\ tasks' # tasks
                /\ etc' = Stored(page[o])
                => run' = run]_vars
    BY <1>1
  <1> QED
    BY <1>2, Inductive, PTL DEF Spec, UntouchedPage
=============================================================================
