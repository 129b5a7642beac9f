------------------------------ MODULE GpioPage ------------------------------
(***************************************************************************)
(* The peripheral page (get_gpio of getagent.cgi and gpio.html,            *)
(* s4m_gpio.html), its handler (set_gpio of setagent.cgi), the DIO page    *)
(* (get_dio, dio.html) and its handler (set_dio), "def factory" and        *)
(* "def view".                                                             *)
(*                                                                         *)
(* A page is rendered from the configuration file, edited in a browser and *)
(* posted some time later.  What it posts are the selects that are not     *)
(* disabled; for a field that is not posted the handler falls back on the  *)
(* configuration file.  Several operators may have a page open.            *)
(*                                                                         *)
(* A pin is <<port, bit>>.  The four masks of struct SB_GPIO_CONFIG are    *)
(* sets of pins.  Pins and Dios are the pins and digital lines looked at:  *)
(* all the others are treated alike.                                       *)
(***************************************************************************)
EXTENDS Naturals

CONSTANTS
    Operators,    \* browsers with a page open
    Products,     \* kinds of board: "S4M" (EDDY_S4M) and "other"
    Pins,         \* the pins looked at
    Dios,         \* the digital lines looked at
    MaxEdits      \* bound: how many controls are changed in a behaviour

ASSUME ProductsAssumption == Products \subseteq {"S4M", "other"}
ASSUME PinsAssumption == Pins \subseteq {"A", "B", "C"} \X (0..31)
ASSUME EditsAssumption == MaxEdits \in Nat

VARIABLES
    product,      \* Product_ID of this board
    gpio,         \* /etc/eddy_gpio.cfg
    dio,          \* /etc/eddy_dio.cfg
    page,         \* the page each operator has open
    edits         \* controls changed so far

vars == <<product, gpio, dio, page, edits>>

-----------------------------------------------------------------------------
(* The tables of the source: which pins belong to which peripheral, which  *)
(* have an enable field of their own, which have a settings field.         *)

A(bits) == {"A"} \X bits
B(bits) == {"B"} \X bits
C(bits) == {"C"} \X bits

Peripherals == {"SIO1", "SIO2", "SIO3", "SIO4", "DEBUGPORT", "ADC", "EEPROM",
                "LAN", "RESET", "NAND", "RDYLED", "KEYPAD"}

PinsOf ==
    [SIO1      |-> B({4, 5} \cup 22..27),
     SIO2      |-> B({6, 7, 28, 29}),
     SIO3      |-> A({4, 5}) \cup B({8, 9}),
     SIO4      |-> B({10, 11}) \cup C({8, 10}),
     DEBUGPORT |-> B({14, 15}),
     ADC       |-> C(0..3),
     EEPROM    |-> B(0..3),
     LAN       |-> C({12, 15}),
     RESET     |-> C({16}),
     NAND      |-> C({14, 17}),
     RDYLED    |-> C({4}),
     KEYPAD    |-> B({20, 21, 30, 31}) \cup C(20..23)]

(* The pins with an enable field.                                          *)
FreePins ==
    A({22}) \cup B({12, 13} \cup 16..19) \cup C({5, 9, 18, 19, 26})

S4MFreePins ==
    A({5, 22, 30}) \cup B((0..3) \cup {12, 13} \cup (16..21) \cup {30, 31})
        \cup C({5, 9, 10, 24, 25} \cup 12..15 \cup 17..20)

(* The pins with a block in set_gpio that stores their setting.            *)
StoredA == A({4, 5, 22})
StoredBLow == B(0..15)
StoredBHigh == B(16..31)
StoredCLow == C((0..5) \cup (8..10) \cup {12, 14})
StoredCHigh == C((15..23) \cup {26})
S4MStoredA == A({5, 22, 30})
S4MStoredB == B((0..3) \cup {12, 13} \cup (16..21) \cup {30, 31})
S4MStoredCLow == C((0..3) \cup {5, 9, 10, 12, 13})
S4MStoredCHigh == C({14, 15} \cup (17..20) \cup {24, 25})

StoredPins ==
    [S4M   |-> Pins \cap (S4MStoredA \cup S4MStoredB \cup S4MStoredCLow \cup S4MStoredCHigh),
     other |-> Pins \cap (StoredA \cup StoredBLow \cup StoredBHigh
                                   \cup StoredCLow \cup StoredCHigh)]

(* The pins whose setting get_gpio puts on the page.                       *)
ShownA == A({4, 5, 22})
ShownBLow == B(0..15)
ShownBHigh == B(16..31)
ShownC == C((0..5) \cup (8..10) \cup {12} \cup (14..23) \cup {26})
S4MShownAB == A({5, 22, 30}) \cup B((0..3) \cup {12, 13} \cup (16..21) \cup {30, 31})
S4MShownC == C((0..3) \cup {5, 9, 10} \cup (12..15) \cup (17..20) \cup {24, 25})

ShownPins ==
    [S4M   |-> Pins \cap (S4MShownAB \cup S4MShownC),
     other |-> Pins \cap (ShownA \cup ShownBLow \cup ShownBHigh \cup ShownC)]

EnablePins == [S4M |-> Pins \cap S4MFreePins, other |-> Pins \cap FreePins]

(* The pins of a peripheral that are looked at.                            *)
OwnPins == [q \in Peripherals |-> Pins \cap PinsOf[q]]

(* The peripherals with a select: an S4M board has only the ADC.           *)
PagePeripherals == [S4M |-> {"ADC"}, other |-> Peripherals]

-----------------------------------------------------------------------------
(* Reading and writing the setting of a pin.                               *)

PullUp == 0
PullDown == 1
OutLow == 2
OutHigh == 3
Settings == 0..3

(* What a configuration says of pin p if the mode of q is looked at.       *)
SettingBy(c, p, q) ==
    IF q \in c.mode
    THEN IF p \in c.value THEN OutHigh ELSE OutLow
    ELSE IF p \in c.pullup THEN PullUp ELSE PullDown

Setting(c, p) == SettingBy(c, p, p)

(* The fallback with its pulls forgotten.                                  *)
SlipFallback(c, p) ==
    IF p \in c.mode THEN IF p \in c.value THEN OutHigh ELSE OutLow ELSE PullDown

(* What set_gpio falls back on when the field of p is not posted.  The     *)
(* block of C24 on an S4M board looks at the mode of C21.                  *)
Fallback(c, p) ==
    SettingBy(c, p, IF product = "S4M" /\ p = <<"C", 24>> THEN <<"C", 21>> ELSE p)

(* The pins "def view" lists and the setting it prints.  Its line for A30  *)
(* of an S4M board looks at the mode of A22.                               *)
ViewPins ==
    [S4M   |-> A({5, 22, 30}) \cup B((0..3) \cup {12, 13} \cup (16..21) \cup {30, 31})
                 \cup C((0..25) \ {4, 6, 7, 8, 11, 16, 21, 22, 23}),
     other |-> A({4, 5}) \cup B(0..31) \cup C((0..26) \ {6, 7, 11, 24, 25})]

A30 == <<"A", 30>>

view_gpio(c, p) ==
    SettingBy(c, p, IF product = "S4M" /\ p = A30 THEN <<"A", 22>> ELSE p)

(* Store with a low output leaving the level as it was.                    *)
SlipStore(c, ps, s) ==
    [c EXCEPT
        !.mode   = {p \in Pins : IF p \in ps THEN s[p] \in {OutLow, OutHigh} ELSE p \in @},
        !.value  = @ \cup {p \in ps : s[p] = OutHigh},
        !.pullup = (@ \ {p \in ps : s[p] = PullDown}) \cup {p \in ps : s[p] = PullUp}]

(* The configuration with setting s[p] stored for every pin p of ps: a pull *)
(* is stored for inputs only, a level for outputs only.                    *)
Store(c, ps, s) ==
    [c EXCEPT
        !.mode   = {p \in Pins : IF p \in ps THEN s[p] \in {OutLow, OutHigh} ELSE p \in @},
        !.value  = (@ \ {p \in ps : s[p] = OutLow}) \cup {p \in ps : s[p] = OutHigh},
        !.pullup = (@ \ {p \in ps : s[p] = PullDown}) \cup {p \in ps : s[p] = PullUp}]

(* Does value v of the select of q leave its pins to the operator?  The    *)
(* keypad is served through GPIO by the program itself (1).                *)
UsesGpio(q, v) == IF q = "KEYPAD" THEN v # 2 ELSE v = 0

-----------------------------------------------------------------------------
(* Pages.                                                                  *)

NoPage == [kind |-> "none"]

GpioPages ==
    [kind : {"gpio"}, per : [Peripherals -> 0..2], enable : SUBSET Pins,
     set : [Pins -> Settings], off : SUBSET Pins]

(* The pin selects of gpio.html that are disabled because the peripheral   *)
(* they belong to is not on "GPIO", and those whose pin is not enabled.    *)
HiddenByPeripheral(per) == UNION {OwnPins[q] : q \in {r \in PagePeripherals[product] : per[r] # 0}}
HiddenByEnable(enable) == EnablePins[product] \ enable

(* The page get_gpio renders from configuration c.                         *)
RenderGpio(c) ==
    [kind   |-> "gpio",
     per    |-> c.per,
     enable |-> c.enable \cap EnablePins[product],
     set    |-> [p \in Pins |-> Setting(c, p)],
     off    |-> {p \in Pins : \/ p \notin ShownPins[product]
                              \/ p \in HiddenByPeripheral(c.per)
                              \/ p \in HiddenByEnable(c.enable)}]

(* The select in which page g posts field p, or none.  gpio.html calls the *)
(* select of B21 "PB10": B21 has no field, and B10 has two of which the    *)
(* handler takes the first that is posted.                                 *)
B10 == <<"B", 10>>
B21 == <<"B", 21>>
NoSelect == <<"none", 0>>

SelectOf(g, p) ==
    IF product # "S4M" /\ p = B21 THEN NoSelect
    ELSE IF product # "S4M" /\ p = B10 /\ p \in g.off /\ B21 \in Pins \ g.off THEN B21
    ELSE IF p \in g.off THEN NoSelect
    ELSE p

DioSettings == 0..2

DioPages ==
    [kind : {"dio"}, lcd : BOOLEAN, set : [Dios -> DioSettings], off : SUBSET Dios]

(* DioSetting with the levels swapped.                                     *)
SlipDioSetting(c, d) == IF d \in c.mode THEN 0 ELSE IF d \in c.value THEN 1 ELSE 2

DioSetting(c, d) == IF d \in c.mode THEN 0 ELSE IF d \in c.value THEN 2 ELSE 1

(* What "def view" prints of digital line d.                               *)
view_dio(c, d) == IF d \in c.mode THEN 0 ELSE IF d \in c.value THEN 2 ELSE 1

RenderDio(c) ==
    [kind |-> "dio",
     lcd  |-> c.lcd,
     set  |-> [d \in Dios |-> DioSetting(c, d)],
     off  |-> IF c.lcd THEN Dios ELSE {}]

-----------------------------------------------------------------------------
(* Configurations.                                                         *)

GpioConfigs ==
    [per : [Peripherals -> 0..2], enable : SUBSET Pins, mode : SUBSET Pins,
     value : SUBSET Pins, pullup : SUBSET Pins]

DioConfigs == [lcd : BOOLEAN, mode : SUBSET Dios, value : SUBSET Dios]

(* What "def factory" writes.                                              *)
FactoryPeripherals ==
    [q \in Peripherals |->
        IF q \in {"SIO1", "SIO2", "SIO3", "SIO4", "DEBUGPORT", "RDYLED"} THEN 1
        ELSE IF q = "KEYPAD" /\ product # "S4M" THEN 1
        ELSE 0]

FactoryEnable ==
    IF product = "S4M"
    THEN S4MFreePins \cup C({2, 3})
    ELSE FreePins \cup PinsOf["EEPROM"] \cup PinsOf["ADC"] \cup PinsOf["LAN"]
            \cup PinsOf["NAND"] \cup PinsOf["KEYPAD"] \cup C({25})

FactoryGpio ==
    [per |-> FactoryPeripherals, enable |-> FactoryEnable \cap Pins,
     mode |-> {}, value |-> {}, pullup |-> {}]

FactoryDio == [lcd |-> TRUE, mode |-> {}, value |-> {}]

(* The peripherals with the options of the select numbered from 1.         *)
SlipPeripherals(c, g) == [q \in Peripherals |-> g.per[q] + 1]

(* What set_gpio makes of configuration c when page g is posted.           *)
PeripheralsAfter(c, g) ==
    IF product = "S4M"
    THEN [q \in Peripherals |->
            CASE q = "ADC" -> g.per[q]
              [] q \in {"SIO1", "SIO2", "SIO3", "SIO4", "DEBUGPORT", "RESET", "RDYLED"} -> 1
              [] q \in {"LAN", "EEPROM", "NAND"} -> 0
              [] OTHER -> c.per[q]]
    ELSE g.per

(* The enable masks with the pins of a peripheral in use not taken away.   *)
SlipEnable(c, g) ==
    LET given == UNION {OwnPins[q] : q \in {r \in PagePeripherals[product] : UsesGpio(r, g.per[r])}}
    IN  {p \in Pins : IF p \in EnablePins[product] THEN p \in g.enable
                      ELSE p \in given \/ p \in c.enable}

EnableAfter(c, g) ==
    LET given == UNION {OwnPins[q] : q \in {r \in PagePeripherals[product] : UsesGpio(r, g.per[r])}}
        taken == UNION {OwnPins[q] : q \in {r \in PagePeripherals[product] : ~UsesGpio(r, g.per[r])}}
    IN  {p \in Pins : IF p \in EnablePins[product] THEN p \in g.enable
                      ELSE p \in given \/ (p \in c.enable /\ p \notin taken)}

(* The keypad program reads its pins: they become inputs.                  *)
KeypadInputs(c, g) ==
    IF product # "S4M" /\ g.per["KEYPAD"] = 1
    THEN [c EXCEPT !.mode = @ \ OwnPins["KEYPAD"]]
    ELSE c

SettingsAfter(c, g) ==
    [p \in Pins |-> LET s == SelectOf(g, p)
                    IN  IF s = NoSelect THEN Fallback(c, p) ELSE g.set[s]]

GpioAfter(c, g) ==
    LET c1 == [KeypadInputs(c, g) EXCEPT !.per = PeripheralsAfter(c, g),
                                         !.enable = EnableAfter(c, g)]
    IN  Store(c1, StoredPins[product], SettingsAfter(c1, g))

(* What set_dio makes of configuration c when page g is posted: an input   *)
(* keeps the level it had as an output.                                    *)
DioAfter(c, g) ==
    LET s == [d \in Dios |-> IF d \in g.off THEN DioSetting(c, d) ELSE g.set[d]]
    IN  [lcd   |-> g.lcd,
         mode  |-> {d \in Dios : s[d] = 0},
         value |-> (c.value \ {d \in Dios : s[d] = 1}) \cup {d \in Dios : s[d] = 2}]

-----------------------------------------------------------------------------
(* Actions.                                                                *)

Init ==
    /\ product \in Products
    /\ gpio = FactoryGpio
    /\ dio = FactoryDio
    /\ page = [o \in Operators |-> NoPage]
    /\ edits = 0

(* getagent.cgi type=4: the peripheral page.                               *)
get_gpio(o) ==
    /\ page[o] = NoPage
    /\ page' = [page EXCEPT ![o] = RenderGpio(gpio)]
    /\ UNCHANGED <<product, gpio, dio, edits>>

(* getagent.cgi type=i: the DIO page, whose link an S4M board hides.        *)
get_dio(o) ==
    /\ page[o] = NoPage
    /\ product # "S4M"
    /\ page' = [page EXCEPT ![o] = RenderDio(dio)]
    /\ UNCHANGED <<product, gpio, dio, edits>>

(* In the browser: one select is changed.  Nothing is disabled or enabled  *)
(* by that: the pages have no script behind their onchange handlers.       *)
ChangePeripheral(o) ==
    \E q \in PagePeripherals[product], v \in 0..2 :
        /\ OwnPins[q] # {}
        /\ page' = [page EXCEPT ![o].per[q] = v]

ChangeEnable(o) ==
    \E p \in EnablePins[product] :
        page' = [page EXCEPT ![o].enable = IF p \in @ THEN @ \ {p} ELSE @ \cup {p}]

ChangePin(o) ==
    \E p \in Pins \ page[o].off, v \in Settings :
        page' = [page EXCEPT ![o].set[p] = v]

ChangeDio(o) ==
    \/ page' = [page EXCEPT ![o].lcd = ~@]
    \/ \E d \in Dios \ page[o].off, v \in DioSettings :
           page' = [page EXCEPT ![o].set[d] = v]

Change(o) ==
    /\ edits < MaxEdits
    /\ \/ page[o].kind = "gpio" /\ (ChangePeripheral(o) \/ ChangeEnable(o) \/ ChangePin(o))
       \/ page[o].kind = "dio" /\ ChangeDio(o)
    /\ edits' = edits + 1
    /\ UNCHANGED <<product, gpio, dio>>

(* setagent.cgi: the page is posted.                                       *)
set_gpio(o) ==
    /\ page[o].kind = "gpio"
    /\ gpio' = GpioAfter(gpio, page[o])
    /\ page' = [page EXCEPT ![o] = NoPage]
    /\ UNCHANGED <<product, dio, edits>>

set_dio(o) ==
    /\ page[o].kind = "dio"
    /\ dio' = DioAfter(dio, page[o])
    /\ page' = [page EXCEPT ![o] = NoPage]
    /\ UNCHANGED <<product, gpio, edits>>

(* "def factory" writes both files.                                        *)
def_factory ==
    /\ gpio' = FactoryGpio
    /\ dio' = FactoryDio
    /\ UNCHANGED <<product, page, edits>>

Next ==
    \/ \E o \in Operators :
          get_gpio(o) \/ get_dio(o) \/ Change(o) \/ set_gpio(o) \/ set_dio(o)
    \/ def_factory

Spec == Init /\ [][Next]_vars

-----------------------------------------------------------------------------
(* Properties.                                                             *)

(* The configuration files and the pages hold what their structures and    *)
(* selects can hold.                                                       *)
TypeOK ==
    /\ product \in Products
    /\ gpio \in GpioConfigs
    /\ dio \in DioConfigs
    /\ page \in [Operators -> {NoPage} \cup GpioPages \cup DioPages]
    /\ edits \in 0..MaxEdits

(* A pin that a peripheral in use needs is never enabled as GPIO, whoever  *)
(* posted the last page and however old that page was: the peripheral      *)
(* selects and the enable fields of set_gpio do not contradict each other. *)
OwnedPins ==
    \A q \in PagePeripherals[product] :
        ~UsesGpio(q, gpio.per[q]) => OwnPins[q] \cap gpio.enable = {}

SamePin(c, d, p) ==
    /\ p \in c.mode <=> p \in d.mode
    /\ p \in c.value <=> p \in d.value
    /\ p \in c.pullup <=> p \in d.pullup

(* The pins set_gpio does not handle like the others: C24 of an S4M board  *)
(* (it looks at C21), B10 of the others (it gets the setting of B21 while  *)
(* its own select is disabled), and the pins of a keypad in use.           *)
Irregular(g) ==
    IF product = "S4M" THEN {<<"C", 24>>}
    ELSE {B10} \cup (IF g.per["KEYPAD"] = 1 THEN OwnPins["KEYPAD"] ELSE {})

(* In this step operator o's page of that kind is handled.                 *)
Posts(o, kind) == page[o].kind = kind /\ page'[o] = NoPage

(* Showing a page and posting it as it is changes no setting, no enable    *)
(* field, no peripheral of that page and no digital line: get_gpio shows   *)
(* and set_gpio falls back on exactly what the file says, although the     *)
(* disabled half of the page is not posted at all.                         *)
UntouchedSave ==
    [][\A o \in Operators :
        /\ Posts(o, "gpio") /\ page[o] = RenderGpio(gpio) =>
              /\ \A p \in Pins \ Irregular(page[o]) : SamePin(gpio, gpio', p)
              /\ \A p \in EnablePins[product] : p \in gpio'.enable <=> p \in gpio.enable
              /\ \A q \in PagePeripherals[product] : gpio'.per[q] = gpio.per[q]
        /\ Posts(o, "dio") /\ page[o] = RenderDio(dio) => dio' = dio]_vars

(* A pin whose select is disabled keeps the setting it has in the file when *)
(* the page is posted, even if another operator changed it after the page   *)
(* was shown: a stale page does not bring back old settings of these pins.  *)
DisabledKept ==
    [][\A o \in Operators :
        Posts(o, "gpio") =>
            \A p \in (Pins \cap page[o].off) \ Irregular(page[o]) : SamePin(gpio, gpio', p)]_vars

(* A pin or digital line whose select is active gets the setting its        *)
(* operator saw when he posted, whatever other pages were posted meanwhile, *)
(* and "def view" prints that setting.  B21 of gpio.html has no select of   *)
(* its own name, and the line of A30 looks at another pin.                  *)
PostedIsStored ==
    [][\A o \in Operators :
        /\ Posts(o, "gpio") =>
              \A p \in Pins \ page[o].off :
                  (product = "S4M" \/ p # B21) =>
                      /\ Setting(gpio', p) = page[o].set[p]
                      /\ p \in ViewPins[product] \ {A30} =>
                             view_gpio(gpio', p) = page[o].set[p]
        /\ Posts(o, "dio") =>
              \A d \in Dios \ page[o].off : view_dio(dio', d) = page[o].set[d]]_vars
=============================================================================
