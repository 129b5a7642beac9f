----------------------------- MODULE LineSettings -----------------------------
(***************************************************************************)
(* Data bits, stop bits and parity of each port: three fields of one byte, *)
(* dps, that def and the serial page change each on its own, that the page *)
(* and "def view" show, and that serial turns into the line ser2net is to  *)
(* set the port to.                                                        *)
(*                                                                         *)
(* A field is given as the page numbers it: data 0 .. 3 for 5 .. 8 bits,   *)
(* stop 0 and 1 for 1 and 2 bits, parity 0, 1 and 2 for none, odd, even.   *)
(* A request is one step here; that two may interleave is ConfigStore's    *)
(* and SerialDeploy's subject.  An SNMP set of dps is not modelled: which  *)
(* bytes snmpd lets through is not in this code.                           *)
(***************************************************************************)
EXTENDS Integers

CONSTANTS
  SB_MAX_SIO_PORT,
  DataChoices, StopChoices, ParityChoices   \* what operators ask for

ASSUME PortAssumption == SB_MAX_SIO_PORT \in Nat
ASSUME ChoicesAssumption == /\ DataChoices \subseteq 0 .. 3
                            /\ StopChoices \subseteq 0 .. 1
                            /\ ParityChoices \subseteq 0 .. 2

Ports == 1 .. SB_MAX_SIO_PORT
Lines == [data : 0 .. 3, stop : 0 .. 1, parity : 0 .. 2]
Choices == [data : DataChoices, stop : StopChoices, parity : ParityChoices]
NoConf == [data |-> -1, stop |-> -1, parity |-> -1]

VARIABLES
  dps,      \* the byte in /etc/eddy_sio.cfg
  on,       \* the protocol there is not SB_DISABLE_MODE
  conf,     \* the line in ttyON.conf
  asked,    \* history: the line operators were told is set
  applied   \* history: the line operators were told is applied

lineVars == <<dps, on, conf, asked, applied>>
-----------------------------------------------------------------------------
(* The byte.  &= with the complement of a mask and |= with a value that    *)
(* fits the field replace the field.                                       *)

Data(b) == b % 4
Stop(b) == (b \div 4) % 2
Parity(b) == (b \div 8) % 4

WithData(b, v) == b - Data(b) + v

(* Slip: a mask with one bit too many clear, 0xf3 for 0xfb.                *)
WithStopWide(b, v) == b - 8 * (Parity(b) % 2) - 4 * Stop(b) + 4 * v

WithStop(b, v) == b - 4 * Stop(b) + 4 * v

(* Slip: the |= without the &=.                                            *)
WithParityOred(b, v) == IF v = Parity(b) THEN b ELSE b + 8 * v

WithParity(b, v) == b - 8 * Parity(b) + 8 * v


(* What the serial page and "def view" show; 3 is no value of parity.      *)
Shown(b) == [data |-> Data(b), stop |-> Stop(b),
             parity |-> IF Parity(b) = 3 THEN 2 ELSE Parity(b)]

(* serial compares the shifted field with the constants, which are not.    *)
SB_STOPBITS_2 == 4
SB_PARITY_ODD == 8
SB_PARITY_EVEN == 16

Served(b) ==
  [data   |-> Data(b),
   stop   |-> IF Stop(b) = SB_STOPBITS_2 THEN 1 ELSE 0,
   parity |-> CASE Parity(b) = SB_PARITY_ODD -> 1
                [] Parity(b) = SB_PARITY_EVEN -> 2
                [] OTHER -> 0]

SB_DATABITS_8 == 3   \* and no parity, and one stop bit
-----------------------------------------------------------------------------
LineInit ==
  /\ dps = [p \in Ports |-> SB_DATABITS_8]
  /\ on = [p \in Ports |-> FALSE]
  /\ conf = [p \in Ports |-> NoConf]
  /\ asked = [p \in Ports |-> Shown(SB_DATABITS_8)]
  /\ applied = [p \in Ports |-> NoConf]

(* serial, run for port p, reads the entry; it writes no ttyON.conf for a  *)
(* disabled port.                                                          *)
Serial(p, byte, mode) ==
  conf' = [q \in Ports |-> IF q = p /\ mode[p] THEN Served(byte[p]) ELSE conf[q]]

(* "def port <x, x-x, all>" loops from the first port to the last, which   *)
(* may come before it; def runs nothing.                                   *)
Range(first, last) == first .. last

DefChar(first, last, n) ==
  /\ dps' = [p \in Ports |-> IF p \in Range(first, last) THEN WithData(dps[p], n) ELSE dps[p]]
  /\ asked' = [p \in Ports |-> IF p \in Range(first, last)
                                 THEN [asked[p] EXCEPT !.data = n] ELSE asked[p]]
  /\ UNCHANGED <<on, conf, applied>>

DefStop(first, last, n) ==
  /\ dps' = [p \in Ports |-> IF p \in Range(first, last) THEN WithStop(dps[p], n) ELSE dps[p]]
  /\ asked' = [p \in Ports |-> IF p \in Range(first, last)
                                 THEN [asked[p] EXCEPT !.stop = n] ELSE asked[p]]
  /\ UNCHANGED <<on, conf, applied>>

DefParity(first, last, n) ==
  /\ dps' = [p \in Ports |-> IF p \in Range(first, last) THEN WithParity(dps[p], n) ELSE dps[p]]
  /\ asked' = [p \in Ports |-> IF p \in Range(first, last)
                                 THEN [asked[p] EXCEPT !.parity = n] ELSE asked[p]]
  /\ UNCHANGED <<on, conf, applied>>

DefProtocol(first, last, mode) ==
  /\ on' = [p \in Ports |-> IF p \in Range(first, last) THEN mode ELSE on[p]]
  /\ UNCHANGED <<dps, conf, asked, applied>>

DefFactory ==
  /\ dps' = [p \in Ports |-> SB_DATABITS_8]
  /\ on' = [p \in Ports |-> FALSE]
  /\ asked' = [p \in Ports |-> Shown(SB_DATABITS_8)]
  /\ UNCHANGED <<conf, applied>>

(* The serial page of port p.  The fields of the line are disabled, and so *)
(* not sent, where the mode is Disable; the byte then stays as it is.  The *)
(* page number is compared with the number of ports before 1 is taken off: *)
(* the page of the last port is refused.                                   *)
Accepted(p) == p < SB_MAX_SIO_PORT

Posted(p, mode, line) ==
  IF mode THEN WithParity(WithStop(WithData(dps[p], line.data), line.stop), line.parity)
          ELSE dps[p]

(* Slip: the old parity is not shifted before it is compared.              *)
ChangedUnshifted(p, mode, line) ==
  mode # on[p] \/ (mode /\ line.parity # 8 * Parity(dps[p])) \/ Posted(p, mode, line) # dps[p]

(* Otherwise the page answers "There is noting to apply."                  *)
Changed(p, mode, line) == mode # on[p] \/ Posted(p, mode, line) # dps[p]

(* Slip: serial is run for portno, which counts from 0, and not portno + 1. *)
SetSerialMisnumbers(p, mode, line) ==
  /\ Accepted(p)
  /\ dps' = [dps EXCEPT ![p] = Posted(p, mode, line)]
  /\ on' = [on EXCEPT ![p] = mode]
  /\ asked' = [asked EXCEPT ![p] = IF mode THEN line ELSE @]
  /\ IF Changed(p, mode, line)
       THEN /\ IF p - 1 \in Ports THEN Serial(p - 1, dps', on') ELSE UNCHANGED conf
            /\ applied' = [applied EXCEPT ![p] = IF mode THEN line ELSE @]
       ELSE UNCHANGED <<conf, applied>>

SetSerial(p, mode, line) ==
  /\ Accepted(p)
  /\ dps' = [dps EXCEPT ![p] = Posted(p, mode, line)]
  /\ on' = [on EXCEPT ![p] = mode]
  /\ asked' = [asked EXCEPT ![p] = IF mode THEN line ELSE @]
  /\ IF Changed(p, mode, line)
       THEN /\ Serial(p, dps', on')
            /\ applied' = [applied EXCEPT ![p] = IF mode THEN line ELSE @]
       ELSE UNCHANGED <<conf, applied>>

(* serial run by the page that reboots, for one port after the other, or   *)
(* by hand.                                                                *)
RunSerial(p) ==
  /\ Serial(p, dps, on)
  /\ applied' = [applied EXCEPT ![p] = IF on[p] THEN asked[p] ELSE @]
  /\ UNCHANGED <<dps, on, asked>>

LineNext ==
  \/ \E first, last \in Ports :
       \/ \E n \in DataChoices : DefChar(first, last, n)
       \/ \E n \in StopChoices : DefStop(first, last, n)
       \/ \E n \in ParityChoices : DefParity(first, last, n)
       \/ \E mode \in BOOLEAN : DefProtocol(first, last, mode)
  \/ \E p \in Ports, mode \in BOOLEAN, line \in Choices : SetSerial(p, mode, line)
  \/ DefFactory
  \/ \E p \in Ports : RunSerial(p)

LineSpec == LineInit /\ [][LineNext]_lineVars
-----------------------------------------------------------------------------
(* The three bits above the fields stay clear and parity is never 3; the   *)
(* line serial writes is one ser2net knows.                                *)
LineTypeOK ==
  /\ dps \in [Ports -> 0 .. 23]
  /\ on \in [Ports -> BOOLEAN]
  /\ conf \in [Ports -> Lines \cup {NoConf}]
  /\ asked \in [Ports -> Lines]
  /\ applied \in [Ports -> Lines \cup {NoConf}]

(* Whatever was set, by which of def and the page and in whatever order,   *)
(* the page and def view show each field as it was last asked for: the     *)
(* writers' masks and shifts of def.c and setagent.c agree with the        *)
(* readers' of getagent.c and def.c, and no writer touches a neighbour.    *)
ShownAsAsked == \A p \in Ports : Shown(dps[p]) = asked[p]

(* The page sent back as it is shown is answered with "nothing to apply"   *)
(* and applies nothing (set_serial compares field by field).               *)
PageUntouched == \A p \in Ports : ~Changed(p, on[p], Shown(dps[p]))

(* When the page has answered without an error, or serial was run, the     *)
(* file ser2net reads has the data bits that were asked for, and keeps     *)
(* them until the next such answer or run.                                 *)
DataServed == \A p \in Ports : conf[p].data = applied[p].data
=============================================================================
