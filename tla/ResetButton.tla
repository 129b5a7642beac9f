------------------------------ MODULE ResetButton ------------------------------
(***************************************************************************)
(* The reset button, in time.  pinetd looks at it every 30 ms; once it is  *)
(* down it looks every 20 ms, and either the button comes up and the device *)
(* is rebooted, or three seconds have gone by and the factory settings are *)
(* restored before the reboot.                                             *)
(*                                                                         *)
(* SB_GetTick is the wall clock in milliseconds in an unsigned int, and    *)
(* the deadline is compared with it by <.  reset_or_factory returns if the *)
(* device has not gone down eleven seconds after it ran /sbin/reboot, and  *)
(* the loop around it then looks at the deadline and the button again.  It  *)
(* returns sooner when a child of pinetd dies: SB_msleep is one nanosleep, *)
(* and SIGCHLD ends it.  Nothing is made of an open or an ioctl of the     *)
(* button's device that fails: it reads as a button that is down.          *)
(* A unit of time is a second.                                             *)
(***************************************************************************)
EXTENDS Integers

CONSTANTS
  Modulus,   \* SB_GetTick counts modulo this
  Ticks,     \* what it may be when pinetd sees the button go down
  Lag,       \* seconds pinetd may be late, as sig_chld makes it
  Shutdown,  \* seconds after /sbin/reboot within which pinetd is killed
  MaxSteps,  \* bound: times somebody sets the wall clock
  MaxCuts,   \* bound: sleeps SIGCHLD ends, each time the device is up
  MaxFaults  \* bound: times the button's device becomes unreadable

Hold == 3        \* timer = SB_GetTick () + 3000
ShortWait == 1   \* SB_msleep (1000), after def factory and after /sbin/reboot
LongWait == 10   \* SB_msleep (10000), after the second /sbin/reboot
Patience == ShortWait + LongWait
Never == -1

ASSUME TicksAssumption ==
  Modulus \in Nat /\ Modulus > Hold /\ Ticks \subseteq 0 .. Modulus - 1
ASSUME DelaysAssumption == Lag \in Nat /\ Shutdown \in Nat
ASSUME BoundsAssumption == MaxSteps \in Nat /\ MaxCuts \in Nat /\ MaxFaults \in Nat

VARIABLES
  at,       \* "loop", "watch": the two loops; "factory", "reboot", "again":
            \* the three sleeps of reset_or_factory; "off"
  held,     \* the button is down
  length,   \* how long it has been, or was when it came up; not counted
            \* further after the first decision
  noted,    \* pinetd has seen it up since it came up
  broken,   \* its device cannot be opened or read
  late,     \* time since pinetd last looked at it
  tick,     \* SB_GetTick ()
  timer,    \* the deadline
  sleep,    \* what is left of the sleep in reset_or_factory
  asked,    \* time since /sbin/reboot was run first, or Never
  cuts,     \* sleeps of reset_or_factory SIGCHLD has ended since power-on
  decided,  \* history: length at the first decision, or Never
  factory,  \* history: def factory has been run
  misread,  \* history: a button that was up has been read as down
  steps, faults

button == <<held, length, noted>>
bounded == <<steps, faults>>
buttonVars == <<at, button, broken, late, tick, timer, sleep, asked, cuts, decided,
                factory, misread, bounded>>

Longest == Hold + Lag + 2   \* a longer press is not told apart

Wraps(t) == t % Modulus
-----------------------------------------------------------------------------
(* The button and the clocks.                                              *)

Looking == at \in {"loop", "watch"}

(* Nobody presses the button again before pinetd has seen that it was up.  *)
Push ==
  /\ ~held /\ at # "off"
  /\ Looking => noted
  /\ held' = TRUE
  /\ length' = IF decided = Never THEN 0 ELSE length
  /\ UNCHANGED <<at, noted, broken, late, tick, timer, sleep, asked, cuts, decided,
                 factory, misread, bounded>>

Release ==
  /\ held
  /\ held' = FALSE
  /\ noted' = FALSE
  /\ UNCHANGED <<at, length, broken, late, tick, timer, sleep, asked, cuts, decided,
                 factory, misread, bounded>>

(* /dev/gpio cannot be opened at power-on, or an ioctl on it fails.         *)
Break ==
  /\ ~broken
  /\ faults < MaxFaults
  /\ broken' = TRUE
  /\ faults' = faults + 1
  /\ UNCHANGED <<at, button, late, tick, timer, sleep, asked, cuts, decided, factory,
                 misread, steps>>

Mend ==
  /\ broken
  /\ broken' = FALSE
  /\ UNCHANGED <<at, button, late, tick, timer, sleep, asked, cuts, decided, factory,
                 misread, bounded>>

(* A second goes by.  pinetd does not sleep longer than it asked for, and  *)
(* a device that shuts down is down in time.                               *)
Second ==
  /\ at # "off"
  /\ Looking => late <= Lag
  /\ ~Looking => sleep > 0
  /\ asked < Shutdown
  /\ tick' = Wraps(tick + 1)
  /\ length' = IF held /\ decided = Never /\ length < Longest THEN length + 1 ELSE length
  /\ late' = IF Looking THEN late + 1 ELSE 0
  /\ sleep' = IF Looking THEN 0 ELSE sleep - 1
  /\ asked' = IF asked = Never THEN Never ELSE asked + 1
  /\ UNCHANGED <<at, held, noted, broken, timer, cuts, decided, factory, misread, bounded>>

(* A child dies: the sleep is over when sig_chld is.                        *)
CutShort ==
  /\ at \in {"factory", "reboot", "again"}
  /\ sleep > 0
  /\ cuts < MaxCuts
  /\ cuts' = cuts + 1
  /\ sleep' \in 0 .. Lag
  /\ UNCHANGED <<at, button, broken, late, tick, timer, asked, decided, factory, misread,
                 bounded>>

ClockSet(t) ==
  /\ steps < MaxSteps
  /\ at = "watch"
  /\ steps' = steps + 1
  /\ tick' = t
  /\ UNCHANGED <<at, button, broken, late, timer, sleep, asked, cuts, decided, factory,
                 misread, faults>>
-----------------------------------------------------------------------------
(* pinetd.                                                                 *)

ReadsDown == held \/ broken

Look ==
  /\ late' = 0
  /\ noted' = (noted \/ ~ReadsDown)
  /\ misread' = (misread \/ (ReadsDown /\ ~held))
  /\ UNCHANGED <<held, length, broken>>

LookUp ==
  /\ at = "loop"
  /\ ~ReadsDown
  /\ Look
  /\ UNCHANGED <<at, tick, timer, sleep, asked, cuts, decided, factory, bounded>>

LookDown ==
  /\ at = "loop"
  /\ ReadsDown
  /\ Look
  /\ tick' \in Ticks
  /\ timer' = Wraps(tick' + Hold)
  /\ at' = "watch"
  /\ UNCHANGED <<sleep, asked, cuts, decided, factory, bounded>>

(* Slip: the comparison is the other way round.                            *)
ExpiredReversed == tick < timer

Expired == timer < tick

Decide(p, s) ==
  /\ at' = p
  /\ sleep' = s
  /\ decided' = IF decided = Never THEN length ELSE decided
  /\ UNCHANGED <<button, broken, tick, timer, cuts, misread, bounded>>

(* Slip: the deadline is set inside the loop.                              *)
WatchRestarts ==
  /\ at = "watch"
  /\ ~Expired
  /\ ReadsDown
  /\ Look
  /\ timer' = Wraps(tick + Hold)
  /\ UNCHANGED <<at, tick, sleep, asked, cuts, decided, factory, bounded>>

KeepWatching ==
  /\ at = "watch"
  /\ ~Expired
  /\ ReadsDown
  /\ Look
  /\ UNCHANGED <<at, tick, timer, sleep, asked, cuts, decided, factory, bounded>>

(* def factory, and a second of sleep.                                     *)
Factory ==
  /\ at = "watch"
  /\ Expired
  /\ Decide("factory", ShortWait)
  /\ factory' = TRUE
  /\ late' = 0
  /\ UNCHANGED asked

AskReboot == asked' = IF asked = Never THEN 0 ELSE asked

(* Slip: the button is looked at before the deadline is.                   *)
WarmFirst ==
  /\ at = "watch"
  /\ ~ReadsDown
  /\ Decide("reboot", ShortWait)
  /\ late' = 0
  /\ AskReboot
  /\ UNCHANGED factory

(* Slip: a button that comes up breaks the loop.                           *)
WarmForgotten ==
  /\ at = "watch"
  /\ ~Expired
  /\ ~ReadsDown
  /\ Look
  /\ at' = "loop"
  /\ UNCHANGED <<tick, timer, sleep, asked, cuts, decided, factory, bounded>>

Warm ==
  /\ at = "watch"
  /\ ~Expired
  /\ ~ReadsDown
  /\ Decide("reboot", ShortWait)
  /\ late' = 0
  /\ AskReboot
  /\ UNCHANGED factory

RebootFactory ==
  /\ at = "factory"
  /\ sleep = 0
  /\ Decide("reboot", ShortWait)
  /\ AskReboot
  /\ UNCHANGED <<late, factory>>

(* /sbin/reboot is run a second time.                                      *)
RebootAgain ==
  /\ at = "reboot"
  /\ sleep = 0
  /\ at' = "again"
  /\ sleep' = LongWait
  /\ UNCHANGED <<button, broken, late, tick, timer, asked, cuts, decided, factory, misread,
                 bounded>>

(* reset_or_factory returns.                                               *)
Back ==
  /\ at = "again"
  /\ sleep = 0
  /\ at' = "watch"
  /\ late' = 0
  /\ UNCHANGED <<button, broken, tick, timer, sleep, asked, cuts, decided, factory, misread,
                 bounded>>

(* The device goes down, and comes up again: the clock is made anew and    *)
(* what pinetd knew is gone.                                               *)
Quiet ==
  /\ held' = FALSE /\ noted' = TRUE
  /\ length' = 0 /\ late' = 0 /\ sleep' = 0 /\ tick' = 0 /\ timer' = 0
  /\ asked' = Never /\ cuts' = 0
  /\ decided' = Never /\ factory' = FALSE /\ misread' = FALSE

Down ==
  /\ asked # Never /\ at # "off"
  /\ at' = "off"
  /\ Quiet
  /\ UNCHANGED <<broken, bounded>>

Up ==
  /\ at = "off"
  /\ at' = "loop"
  /\ UNCHANGED <<button, broken, late, tick, timer, sleep, asked, cuts, decided, factory,
                 misread, bounded>>
-----------------------------------------------------------------------------
ButtonInit ==
  /\ at = "loop"
  /\ held = FALSE /\ noted = TRUE
  /\ length = 0 /\ late = 0 /\ sleep = 0 /\ tick = 0 /\ timer = 0
  /\ asked = Never /\ cuts = 0
  /\ decided = Never /\ factory = FALSE /\ misread = FALSE
  /\ broken = FALSE /\ steps = 0 /\ faults = 0

Pinetd ==
  \/ LookUp \/ LookDown \/ KeepWatching \/ Factory \/ Warm
  \/ RebootFactory \/ RebootAgain \/ Back

ButtonNext ==
  \/ Push \/ Release \/ Break \/ Mend \/ Second \/ CutShort
  \/ \E t \in Ticks : ClockSet(t)
  \/ Pinetd \/ Down \/ Up

(* Time passes, pinetd is scheduled, a reboot takes place, the device is   *)
(* switched on again.                                                      *)
ButtonSpec ==
  /\ ButtonInit /\ [][ButtonNext]_buttonVars
  /\ WF_buttonVars(Second) /\ WF_buttonVars(Pinetd)
  /\ WF_buttonVars(Down) /\ WF_buttonVars(Up)
-----------------------------------------------------------------------------
(* The factory settings are restored only if the button was held for three *)
(* seconds, less what pinetd was late, with these exceptions: the deadline *)
(* wrapped or the clock was set; the button's device could not be opened or *)
(* read while the button was up, which counts as a press; or               *)
(* reset_or_factory has returned from a short press, because the device    *)
(* took eleven seconds to go down or because a child of pinetd died in one *)
(* of its sleeps.                                                          *)
FactoryNeedsHold ==
  factory /\ timer >= Hold /\ steps = 0 /\ ~misread /\ cuts = 0 /\ asked < Patience
    => decided >= Hold - Lag

(* The last seconds before the tick wraps: pinetd may miss a deadline there. *)
Near(t) == t >= Modulus - 1 - Lag

(* A press that ends in a mere reboot was not longer than three seconds    *)
(* and the times pinetd may be late to see it begin and to see it end.     *)
WarmMeansShort ==
  decided # Never /\ ~factory /\ ~Near(timer) /\ steps = 0 => decided <= Hold + 1 + Lag

(* A press pinetd has seen ends in a reboot, however long it lasts, even if *)
(* the clock wraps or is set meanwhile and the device is slow to go down.  *)
PressReboots == (at = "watch" /\ ~Near(timer)) ~> at = "off"

(* Wherever the deadline is, it does once the button comes up, if it can   *)
(* be read from some time on.                                              *)
ReleaseReboots == []<>~held /\ <>[]~broken => (at = "watch" ~> at = "off")
=============================================================================
