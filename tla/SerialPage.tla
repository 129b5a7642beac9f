----------------------------- MODULE SerialPage -----------------------------
(***************************************************************************)
(* The serial page of one port as a form in browsers.  getagent.cgi fills  *)
(* it from the port's entry and disables what the operation mode, the      *)
(* login setting and the peripheral page leave no use for; a browser does  *)
(* not send a disabled control.  Choosing another mode or login setting    *)
(* asks getagent.cgi for the page again, with what the browser sends, and  *)
(* setagent.cgi takes the entry's value for whatever is not sent.  Between *)
(* the two others may write the entry: def, or another page.               *)
(*                                                                         *)
(* Controls that are disabled, sent and used alike are one field here:     *)
(*   ifc     IFTYPE                                                        *)
(*   local   LOCAL_PORT                                                    *)
(*   remote  REMOTE_IP and REMOTE_PORT                                     *)
(*   line    BAUDRATE and DATABIT                                          *)
(*   idle    ALIAS, STOPBIT, PARITY, FLOW, DEVICETYPE, ALIVE_TIME and      *)
(*           LATENCY_TIME, shown and stored, but serial does not serve     *)
(*           what they say                                                 *)
(*   login   PASSIVELOGIN                                                  *)
(*   user    PASSIVE_USER and PASSIVE_PASS                                 *)
(* The port is not the last one, whose page is refused (LineSettings), and *)
(* operators send values the page's script and set_serial accept.  What    *)
(* may come between the read and the write of one request is ConfigStore's *)
(* subject, between the write and the run of serial SerialDeploy's.        *)
(***************************************************************************)
EXTENDS Naturals

CONSTANTS
  Operators,  \* browsers
  Modes,      \* the kinds of operation mode looked at
  Values,     \* values of a field, 0 among them
  Factory     \* the factory configuration of the port

SB_RS232 == 0
SB_DISABLE == 0
Fields == {"ifc", "local", "remote", "line", "idle", "login", "user"}
Entries == [mode : Modes, val : [Fields -> Values]]

(* "server" stands for the TCP servers and UDP server, which read the      *)
(* entry alike here, "client" for TCP and UDP client.                      *)
ASSUME ModesAssumption == Modes \subseteq {"off", "redirect", "server", "client"}
ASSUME ValuesAssumption == {SB_RS232, SB_DISABLE} \subseteq Values
ASSUME FactoryAssumption == Factory \in Entries

VARIABLES
  entry,   \* the port's entry of /etc/eddy_sio.cfg
  uart,    \* gpio.serial_N: the pins are the port's and not GPIO
  page,    \* the form each browser shows
  served,  \* what the port is served with: what serial read and used
  plain    \* history: since the page was opened its operator has typed
           \* nothing, and nobody has written the entry

vars == <<entry, uart, page, served, plain>>

NoPage == [mode |-> "none"]
-----------------------------------------------------------------------------
(* What serial serves as stored: nothing of a disabled port, nothing of a  *)
(* redirected one, whose unit file it leaves empty, and of the others the  *)
(* port or the address and the settings of the line but for parity and     *)
(* stop bits, which are NONE and 1STOPBIT whatever the entry says          *)
(* (LineSettings).                                                         *)
Uses(m) ==
  CASE m = "server" -> {"local", "line"}
    [] m = "client" -> {"remote", "line"}
    [] OTHER -> {}

Used(e) == [mode |-> e.mode, val |-> [f \in Uses(e.mode) |-> e.val[f]]]

(* s_remote_option and s_local_option.                                     *)
Peer(m) == CASE m \in {"redirect", "server"} -> {"remote"}
             [] m = "client" -> {"local"}
             [] OTHER -> {}

(* With s_option every control but the mode is disabled, with              *)
(* s_passive_option the user name and the password.                        *)
Disabled(m, login, pins) ==
  IF m = "off" \/ ~pins THEN Fields
  ELSE Peer(m) \cup (IF login = SB_DISABLE THEN {"user"} ELSE {})

(* The page offers one interface type only.  The other controls show what  *)
(* was sent or, if nothing was, the entry.                                 *)
Shown(f, sent) ==
  IF f = "ifc" THEN SB_RS232
  ELSE IF f \in DOMAIN sent THEN sent[f] ELSE entry.val[f]

Render(m, sent) ==
  LET val == [f \in Fields |-> Shown(f, sent)]
  IN  [mode |-> m, val |-> val, off |-> Disabled(m, val["login"], uart), pins |-> uart]

Sent(g) == [f \in Fields \ g.off |-> g.val[f]]
Nothing == [f \in {} |-> SB_RS232]
-----------------------------------------------------------------------------
Init ==
  /\ entry = Factory
  /\ uart = TRUE
  /\ page = [o \in Operators |-> NoPage]
  /\ served = Used(Factory)
  /\ plain = [o \in Operators |-> FALSE]

get_serial(o) ==
  /\ page' = [page EXCEPT ![o] = Render(entry.mode, Nothing)]
  /\ plain' = [plain EXCEPT ![o] = TRUE]
  /\ UNCHANGED <<entry, uart, served>>

(* The operator chooses a mode: getagent.cgi shows the page for it.        *)
ChangeMode(o, m) ==
  /\ page[o] # NoPage
  /\ page' = [page EXCEPT ![o] = Render(m, Sent(@))]
  /\ UNCHANGED <<entry, uart, served, plain>>

(* Slip: the list of Port Login has no onchange.                           *)
ChangeLoginQuietly(o, v) ==
  /\ page[o] # NoPage /\ "login" \notin page[o].off
  /\ page' = [page EXCEPT ![o].val["login"] = v]
  /\ UNCHANGED <<entry, uart, served, plain>>

(* Likewise for Port Login, if it is not disabled.                         *)
ChangeLogin(o, v) ==
  /\ page[o] # NoPage /\ "login" \notin page[o].off
  /\ page' = [page EXCEPT ![o] = Render(@.mode, [Sent(@) EXCEPT !["login"] = v])]
  /\ UNCHANGED <<entry, uart, served, plain>>

Type(o, f, v) ==
  /\ page[o] # NoPage /\ f \notin page[o].off
  /\ page' = [page EXCEPT ![o].val[f] = v]
  /\ plain' = [plain EXCEPT ![o] = FALSE]
  /\ UNCHANGED <<entry, uart, served>>

(* Slip: what is not sent is taken for 0.                                  *)
StoredZero(g) ==
  [mode |-> g.mode,
   val |-> [f \in Fields |-> IF f \in g.off THEN 0 ELSE g.val[f]]]

(* What set_serial makes of the entry.                                     *)
Stored(g) ==
  [mode |-> g.mode,
   val |-> [f \in Fields |-> IF f \in g.off THEN entry.val[f] ELSE g.val[f]]]

(* Slip: the remote address is stored, but not taken for a change.         *)
DiffersButRemote(e) ==
  e.mode # entry.mode \/ \E f \in Fields \ {"remote"} : e.val[f] # entry.val[f]

Differs(e) == e.mode # entry.mode \/ \E f \in Fields : e.val[f] # entry.val[f]

(* Otherwise "There is noting to apply": serial is not run.                *)
set_serial(o) ==
  /\ page[o] # NoPage
  /\ entry' = Stored(page[o])
  /\ served' = IF Differs(Stored(page[o])) THEN Used(entry') ELSE served
  /\ page' = [page EXCEPT ![o] = NoPage]
  /\ plain' = [p \in Operators |-> plain[p] /\ entry' = entry]
  /\ UNCHANGED uart

(* "def port" changes a field and "def factory" all; neither runs serial.  *)
(* Writing what is there already is a stuttering step.                     *)
Writes(e) ==
  /\ e # entry
  /\ entry' = e
  /\ plain' = [p \in Operators |-> FALSE]
  /\ UNCHANGED <<uart, page, served>>

DefPort == \/ \E m \in Modes : Writes([entry EXCEPT !.mode = m])
           \/ \E f \in Fields, v \in Values : Writes([entry EXCEPT !.val[f] = v])

DefFactory == Writes(Factory)

(* The peripheral page gives the pins to the port or takes them away.      *)
set_gpio ==
  /\ uart' = ~uart
  /\ UNCHANGED <<entry, page, served, plain>>

(* serial run by the page that reboots, or by hand.                        *)
Serial ==
  /\ served' = Used(entry)
  /\ UNCHANGED <<entry, uart, page, plain>>

Next ==
  \/ \E o \in Operators :
       \/ get_serial(o) \/ set_serial(o)
       \/ \E m \in Modes : ChangeMode(o, m)
       \/ \E v \in Values : ChangeLogin(o, v)
       \/ \E f \in Fields \ {"ifc", "login"}, v \in Values : Type(o, f, v)
  \/ DefPort \/ DefFactory \/ set_gpio \/ Serial

Spec == Init /\ [][Next]_vars
-----------------------------------------------------------------------------
Pages == [mode : Modes, val : [Fields -> Values], off : SUBSET Fields, pins : BOOLEAN]

(* A page in a browser keeps what getagent.cgi disabled for the mode and   *)
(* the login setting it still shows: they cannot change without it.        *)
TypeOK ==
  /\ entry \in Entries
  /\ uart \in BOOLEAN
  /\ page \in [Operators -> Pages \cup {NoPage}]
  /\ \A o \in Operators :
       page[o] # NoPage => page[o].off = Disabled(page[o].mode, page[o].val["login"], page[o].pins)
  /\ plain \in [Operators -> BOOLEAN]

Submits(o) == page[o] # NoPage /\ page'[o] = NoPage

(* Whatever set_serial answers to a page, applied or nothing to apply, the *)
(* port is then served in the mode, at the port or address, with the baud  *)
(* rate and the data bits the page shows, however old the page is and      *)
(* whatever others have stored meanwhile: no control whose value serial    *)
(* serves in a mode is disabled in the page of that mode, where it would   *)
(* show one value and leave another in force.  Unless def had left         *)
(* something unapplied, or the page was made while the pins were not the   *)
(* port's.  What the page shows of parity, stop bits, flow control, alias  *)
(* and the other controls of "idle" is not served and not promised here.   *)
ServedAsShown ==
  [][\A o \in Operators :
       Submits(o) /\ page[o].pins /\ served = Used(entry) => served' = Used(page[o])]_vars

(* Looking at the pages of other modes and login settings and coming back  *)
(* to those of the entry changes nothing when the page is sent, and does   *)
(* not disturb the port, although each page asked for sends only some of   *)
(* its controls.  But an interface other than RS-232 is lost: ports 3 and  *)
(* 4 have one by factory default, and no page can show it.                 *)
LookingAround ==
  [][\A o \in Operators :
       /\ Submits(o) /\ plain[o]
       /\ page[o].mode = entry.mode
       /\ page[o].val["login"] = entry.val["login"]
       /\ entry.val["ifc"] = SB_RS232
       => entry' = entry /\ served' = served]_vars
=============================================================================
