------------------------- MODULE PinsAndLinesProofs -------------------------
(***************************************************************************)
(* Theorems about what the hardware of the device is set to.  GpioPage:    *)
(* the pins of the peripherals, for every set of pins, of digital lines    *)
(* and of operators, and any number of changes in the browser.             *)
(* LineSettings: the byte of the serial lines, for any number of ports and *)
(* any choice of requests.                                                 *)
(***************************************************************************)
EXTENDS GpioPage, LineSettings, TLAPS

(* Part 1: the pins.                                                       *)
(* No pin belongs to two peripherals.                                      *)
LEMMA OwnersDiffer ==
    ASSUME NEW q \in Peripherals, NEW r \in Peripherals, NEW p, p \in PinsOf[q], p \in PinsOf[r]
    PROVE  q = r
  BY DEF Peripherals, PinsOf, A, B, C

(* No pin of a peripheral select has an enable field on the same page.     *)
LEMMA EnableFieldsApart ==
    ASSUME product \in {"S4M", "other"}, NEW q \in PagePeripherals[product],
           NEW p \in PinsOf[q]
    PROVE  p \notin EnablePins[product]
  BY DEF PagePeripherals, Peripherals, EnablePins, PinsOf, FreePins, S4MFreePins, A, B, C

-----------------------------------------------------------------------------
(* Types.                                                                  *)

(* get_gpio makes a page.                                                  *)
LEMMA RenderGpioType ==
    ASSUME NEW c \in GpioConfigs
    PROVE  RenderGpio(c) \in GpioPages
  <1>1. \A p \in Pins : Setting(c, p) \in Settings
    BY DEF Setting, SettingBy, Settings, PullUp, PullDown, OutLow, OutHigh
  <1>2. QED
    BY <1>1 DEF RenderGpio, GpioPages, GpioConfigs, EnablePins

(* get_dio makes a page.                                                   *)
LEMMA RenderDioType ==
    ASSUME NEW c \in DioConfigs
    PROVE  RenderDio(c) \in DioPages
  <1>1. \A d \in Dios : DioSetting(c, d) \in DioSettings
    BY DEF DioSetting, DioSettings
  <1>2. QED
    BY <1>1 DEF RenderDio, DioPages, DioConfigs

(* def factory makes configurations.                                       *)
LEMMA FactoryType ==
    /\ FactoryGpio \in GpioConfigs
    /\ FactoryDio \in DioConfigs
  <1>1. FactoryPeripherals \in [Peripherals -> 0..2]
    BY DEF FactoryPeripherals
  <1>2. QED
    BY <1>1 DEF FactoryGpio, GpioConfigs, FactoryDio, DioConfigs

(* Storing settings leaves peripherals and enable fields alone.            *)
LEMMA StoreType ==
    ASSUME NEW c \in GpioConfigs, NEW ps \in SUBSET Pins, NEW s
    PROVE  /\ Store(c, ps, s) \in GpioConfigs
           /\ Store(c, ps, s).per = c.per
           /\ Store(c, ps, s).enable = c.enable
  BY DEF Store, GpioConfigs

(* set_gpio makes a configuration.                                         *)
LEMMA GpioAfterType ==
    ASSUME NEW c \in GpioConfigs, NEW g \in GpioPages, product \in {"S4M", "other"}
    PROVE  /\ GpioAfter(c, g) \in GpioConfigs
           /\ GpioAfter(c, g).per = PeripheralsAfter(c, g)
           /\ GpioAfter(c, g).enable = EnableAfter(c, g)
  <1> DEFINE c1 == [KeypadInputs(c, g) EXCEPT !.per = PeripheralsAfter(c, g),
                                              !.enable = EnableAfter(c, g)]
  <1>1. KeypadInputs(c, g) \in GpioConfigs
    BY DEF KeypadInputs, GpioConfigs
  <1>2. PeripheralsAfter(c, g) \in [Peripherals -> 0..2]
    <2>1. c.per \in [Peripherals -> 0..2] /\ g.per \in [Peripherals -> 0..2]
      BY DEF GpioConfigs, GpioPages
    <2>2. QED
      BY <2>1 DEF PeripheralsAfter
  <1>3. EnableAfter(c, g) \in SUBSET Pins
    BY DEF EnableAfter
  <1>4. /\ c1 \in GpioConfigs
        /\ c1.per = PeripheralsAfter(c, g)
        /\ c1.enable = EnableAfter(c, g)
    BY <1>1, <1>2, <1>3 DEF GpioConfigs
  <1>5. StoredPins[product] \in SUBSET Pins
    BY DEF StoredPins
  <1>6. QED
    BY <1>4, <1>5, StoreType DEF GpioAfter

(* set_dio makes a configuration.                                          *)
LEMMA DioAfterType ==
    ASSUME NEW c \in DioConfigs, NEW g \in DioPages
    PROVE  DioAfter(c, g) \in DioConfigs
  BY DEF DioAfter, DioConfigs, DioPages

(* A browser makes a page of a page.                                       *)
LEMMA ChangeType ==
    ASSUME TypeOK, NEW o \in Operators, Change(o)
    PROVE  TypeOK'
  <1>1. page[o] \in {NoPage} \cup GpioPages \cup DioPages
    BY DEF TypeOK
  <1>2. CASE page[o].kind = "gpio"
    <2>1. page[o] \in GpioPages
      BY <1>1, <1>2 DEF NoPage, DioPages
    <2>2. page'[o] \in GpioPages /\ page' = [page EXCEPT ![o] = page'[o]]
      <3>1. CASE ChangePeripheral(o)
        <4>1. PICK q \in PagePeripherals[product], v \in 0..2 :
                 page' = [page EXCEPT ![o].per[q] = v]
          BY <3>1 DEF ChangePeripheral
        <4>2. page'[o] = [page[o] EXCEPT !.per[q] = v]
          BY <4>1 DEF TypeOK
        <4>3. QED
          BY <4>1, <4>2, <2>1 DEF TypeOK, GpioPages
      <3>2. CASE ChangeEnable(o)
        <4>1. PICK p \in EnablePins[product] :
                 page' = [page EXCEPT ![o].enable = IF p \in @ THEN @ \ {p} ELSE @ \cup {p}]
          BY <3>2 DEF ChangeEnable
        <4>2. p \in Pins
          BY ProductsAssumption DEF EnablePins, TypeOK
        <4>3. QED
          BY <4>1, <4>2, <2>1 DEF TypeOK, GpioPages
      <3>3. CASE ChangePin(o)
        BY <3>3, <2>1 DEF ChangePin, TypeOK, GpioPages
      <3>4. QED
        BY <1>2, <3>1, <3>2, <3>3 DEF Change
    <2>3. QED
      BY <2>2, EditsAssumption DEF TypeOK, Change
  <1>3. CASE page[o].kind = "dio"
    <2>1. page[o] \in DioPages
      BY <1>1, <1>3 DEF NoPage, GpioPages
    <2>2. page'[o] \in DioPages /\ page' = [page EXCEPT ![o] = page'[o]]
      <3>1. CASE page' = [page EXCEPT ![o].lcd = ~@]
        <4>1. (~page[o].lcd) \in BOOLEAN
          OBVIOUS
        <4>2. page'[o] = [page[o] EXCEPT !.lcd = ~page[o].lcd]
          BY <3>1 DEF TypeOK
        <4>3. page'[o] \in DioPages
          BY <4>1, <4>2, <2>1 DEF DioPages
        <4>4. QED
          BY <3>1, <4>2, <4>3 DEF TypeOK
      <3>2. ASSUME NEW d \in Dios \ page[o].off, NEW v \in DioSettings,
                   page' = [page EXCEPT ![o].set[d] = v]
            PROVE  page'[o] \in DioPages /\ page' = [page EXCEPT ![o] = page'[o]]
        BY <3>2, <2>1 DEF TypeOK, DioPages
      <3>3. QED
        BY <1>3, <3>1, <3>2 DEF Change, ChangeDio
    <2>3. QED
      BY <2>2, EditsAssumption DEF TypeOK, Change
  <1>4. QED
    BY <1>2, <1>3 DEF Change

(* TypeOK holds in every reachable state: the two handlers and the browser *)
(* only ever produce masks, selects and pages of their types.              *)
THEOREM TypeCorrect == Spec => []TypeOK
  <1>1. Init => TypeOK
    BY FactoryType, EditsAssumption DEF Init, TypeOK, NoPage
  <1>2. TypeOK /\ [Next]_vars => TypeOK'
    <2> SUFFICES ASSUME TypeOK, [Next]_vars PROVE TypeOK'
      OBVIOUS
    <2>1. ASSUME NEW o \in Operators, get_gpio(o) PROVE TypeOK'
      BY <2>1, RenderGpioType DEF get_gpio, TypeOK
    <2>2. ASSUME NEW o \in Operators, get_dio(o) PROVE TypeOK'
      BY <2>2, RenderDioType DEF get_dio, TypeOK
    <2>3. ASSUME NEW o \in Operators, Change(o) PROVE TypeOK'
      BY <2>3, ChangeType
    <2>4. ASSUME NEW o \in Operators, set_gpio(o) PROVE TypeOK'
      <3>1. page[o] \in GpioPages
        BY <2>4 DEF set_gpio, TypeOK, NoPage, DioPages
      <3>2. GpioAfter(gpio, page[o]) \in GpioConfigs
        BY <3>1, GpioAfterType, ProductsAssumption DEF TypeOK
      <3>3. QED
        BY <2>4, <3>2 DEF set_gpio, TypeOK
    <2>5. ASSUME NEW o \in Operators, set_dio(o) PROVE TypeOK'
      <3>1. page[o] \in DioPages
        BY <2>5 DEF set_dio, TypeOK, NoPage, GpioPages
      <3>2. QED
        BY <2>5, <3>1, DioAfterType DEF set_dio, TypeOK
    <2>6. CASE def_factory
      BY <2>6, FactoryType DEF def_factory, TypeOK
    <2>7. CASE UNCHANGED vars
      BY <2>7 DEF vars, TypeOK
    <2>8. QED
      BY <2>1, <2>2, <2>3, <2>4, <2>5, <2>6, <2>7 DEF Next
  <1>3. QED
    BY <1>1, <1>2, PTL DEF Spec

-----------------------------------------------------------------------------
(* The pins of a peripheral in use.                                        *)

(* The factory settings give no pin away that a peripheral uses.           *)
LEMMA FactoryOwned ==
    ASSUME product \in {"S4M", "other"}, NEW q \in PagePeripherals[product],
           ~UsesGpio(q, FactoryGpio.per[q])
    PROVE  OwnPins[q] \cap FactoryGpio.enable = {}
  <1>1. q \in Peripherals /\ FactoryGpio.per[q] = FactoryPeripherals[q]
    BY DEF PagePeripherals, Peripherals, FactoryGpio
  <1>2. q \in {"SIO1", "SIO2", "SIO3", "SIO4", "DEBUGPORT", "RDYLED"} /\ product = "other"
    BY <1>1 DEF PagePeripherals, Peripherals, FactoryPeripherals, UsesGpio
  <1>3. PinsOf[q] \cap FactoryEnable = {}
    <2>1. /\ PinsOf[q] \cap PinsOf["EEPROM"] = {} /\ PinsOf[q] \cap PinsOf["ADC"] = {}
          /\ PinsOf[q] \cap PinsOf["LAN"] = {} /\ PinsOf[q] \cap PinsOf["NAND"] = {}
          /\ PinsOf[q] \cap PinsOf["KEYPAD"] = {}
      BY <1>1, <1>2, OwnersDiffer DEF Peripherals
    <2>2. PinsOf[q] \cap FreePins = {}
      BY <1>2 DEF PinsOf, FreePins, A, B, C
    <2>3. PinsOf[q] \cap C({25}) = {}
      BY <1>2 DEF PinsOf, A, B, C
    <2>4. QED
      BY <1>2, <2>1, <2>2, <2>3 DEF FactoryEnable
  <1>4. QED
    BY <1>1, <1>3 DEF OwnPins, FactoryGpio

(* The peripherals of the page are taken from the page.                    *)
LEMMA PagePeripheralsAfter ==
    ASSUME product \in {"S4M", "other"}, NEW c, NEW g, NEW q \in PagePeripherals[product]
    PROVE  PeripheralsAfter(c, g)[q] = g.per[q]
  BY DEF PagePeripherals, Peripherals, PeripheralsAfter

(* set_gpio gives no pin away that a peripheral uses.                      *)
LEMMA PostOwned ==
    ASSUME product \in {"S4M", "other"}, NEW c \in GpioConfigs, NEW g \in GpioPages,
           NEW q \in PagePeripherals[product], ~UsesGpio(q, GpioAfter(c, g).per[q])
    PROVE  OwnPins[q] \cap GpioAfter(c, g).enable = {}
  <1>1. q \in Peripherals
    BY DEF PagePeripherals, Peripherals
  <1>2. ~UsesGpio(q, g.per[q])
    BY GpioAfterType, PagePeripheralsAfter
  <1> SUFFICES ASSUME NEW p \in OwnPins[q], p \in EnableAfter(c, g) PROVE FALSE
    BY GpioAfterType
  <1>3. p \in PinsOf[q] /\ p \notin EnablePins[product]
    BY <1>1, EnableFieldsApart DEF OwnPins
  <1>4. \A r \in PagePeripherals[product] : p \in OwnPins[r] => r = q
    BY <1>1, <1>3, OwnersDiffer DEF OwnPins, PagePeripherals, Peripherals
  <1>5. QED
    BY <1>2, <1>3, <1>4 DEF EnableAfter

(* No operator, with a page however old, and no "def factory" ever leaves a *)
(* pin enabled as GPIO that a peripheral in use needs.                      *)
THEOREM OwnedPinsHold == Spec => []OwnedPins
  <1>1. Init => OwnedPins
    BY FactoryOwned, ProductsAssumption DEF Init, OwnedPins
  <1>2. TypeOK /\ OwnedPins /\ [Next]_vars => OwnedPins'
    <2> SUFFICES ASSUME TypeOK, OwnedPins, [Next]_vars PROVE OwnedPins'
      OBVIOUS
    <2>1. product \in {"S4M", "other"}
      BY ProductsAssumption DEF TypeOK
    <2>2. ASSUME NEW o \in Operators, set_gpio(o) PROVE OwnedPins'
      <3>1. page[o] \in GpioPages
        BY <2>2 DEF set_gpio, TypeOK, NoPage, DioPages
      <3>2. QED
        BY <2>1, <2>2, <3>1, PostOwned DEF set_gpio, TypeOK, OwnedPins
    <2>3. CASE def_factory
      BY <2>1, <2>3, FactoryOwned DEF def_factory, OwnedPins
    <2>4. ASSUME UNCHANGED <<product, gpio>> PROVE OwnedPins'
      BY <2>4 DEF OwnedPins
    <2>5. QED
      BY <2>2, <2>3, <2>4 DEF Next, vars, get_gpio, get_dio, Change, set_dio
  <1>3. QED
    BY <1>1, <1>2, TypeCorrect, PTL DEF Spec

-----------------------------------------------------------------------------
(* What a posted page does to the settings.                                *)

(* The pins get_gpio shows are those set_gpio stores.                      *)
LEMMA ShownAreStored == ShownPins = StoredPins
  <1>1. S4MShownAB \cup S4MShownC
          = S4MStoredA \cup S4MStoredB \cup S4MStoredCLow \cup S4MStoredCHigh
    BY DEF S4MShownAB, S4MShownC, S4MStoredA, S4MStoredB, S4MStoredCLow, S4MStoredCHigh, A, B, C
  <1>2. ShownA \cup ShownBLow \cup ShownBHigh \cup ShownC
          = StoredA \cup StoredBLow \cup StoredBHigh \cup StoredCLow \cup StoredCHigh
    <2>1. ShownC = StoredCLow \cup StoredCHigh
      BY DEF ShownC, StoredCLow, StoredCHigh, C
    <2>2. ShownA = StoredA /\ ShownBLow = StoredBLow /\ ShownBHigh = StoredBHigh
      BY DEF ShownA, StoredA, ShownBLow, StoredBLow, ShownBHigh, StoredBHigh
    <2>3. QED
      BY <2>1, <2>2
  <1>3. QED
    BY <1>1, <1>2 DEF ShownPins, StoredPins

(* Storing the setting a configuration already has changes nothing of the  *)
(* pin, in none of its masks.                                              *)
LEMMA StoreSame ==
    ASSUME NEW c \in GpioConfigs, NEW ps \in SUBSET Pins, NEW s, NEW p \in Pins,
           s[p] = Setting(c, p)
    PROVE  SamePin(c, Store(c, ps, s), p)
  BY DEF Store, GpioConfigs, SamePin, Setting, SettingBy, OutHigh, OutLow, PullUp, PullDown

(* A setting that is stored is the setting read back.                      *)
LEMMA StoreReads ==
    ASSUME NEW c \in GpioConfigs, NEW ps \in SUBSET Pins, NEW s, NEW p \in ps,
           s[p] \in Settings
    PROVE  Setting(Store(c, ps, s), p) = s[p]
  BY DEF Store, GpioConfigs, Setting, SettingBy, Settings, OutHigh, OutLow, PullUp, PullDown

(* Only the handler of a page closes it by posting.                        *)
LEMMA PostIsHandled ==
    ASSUME TypeOK, Next, NEW o \in Operators, NEW kind \in {"gpio", "dio"}, Posts(o, kind)
    PROVE  \/ kind = "gpio" /\ page[o] \in GpioPages /\ set_gpio(o)
           \/ kind = "dio" /\ page[o] \in DioPages /\ set_dio(o)
  <1>1. /\ page[o] # NoPage
        /\ kind = "gpio" => page[o] \in GpioPages
        /\ kind = "dio" => page[o] \in DioPages
    BY DEF TypeOK, Posts, NoPage, GpioPages, DioPages
  <1>2. ASSUME NEW u \in Operators, get_gpio(u) \/ get_dio(u) PROVE FALSE
    <2>1. page[u] = NoPage /\ u # o
      BY <1>1, <1>2 DEF get_gpio, get_dio
    <2>2. page'[o] = page[o]
      BY <1>2, <2>1 DEF get_gpio, get_dio, TypeOK
    <2>3. QED
      BY <1>1, <2>2 DEF Posts
  <1>3. ASSUME NEW u \in Operators, Change(u) PROVE FALSE
    <2>1. \/ \E q \in PagePeripherals[product], v \in 0..2 :
                page' = [page EXCEPT ![u].per[q] = v]
          \/ \E e : page' = [page EXCEPT ![u].enable = e]
          \/ \E p \in Pins, v \in Settings : page' = [page EXCEPT ![u].set[p] = v]
          \/ \E l : page' = [page EXCEPT ![u].lcd = l]
          \/ \E d \in Dios, v \in DioSettings : page' = [page EXCEPT ![u].set[d] = v]
      BY <1>3 DEF Change, ChangePeripheral, ChangeEnable, ChangePin, ChangeDio
    <2>2. page'[o].kind = page[o].kind
      BY <1>1, <2>1 DEF TypeOK, GpioPages, DioPages, Posts
    <2>3. QED
      BY <2>2 DEF Posts, NoPage
  <1>4. ~def_factory
    BY <1>1 DEF def_factory, Posts
  <1>5. ASSUME NEW u \in Operators, set_gpio(u) \/ set_dio(u) PROVE u = o
    BY <1>1, <1>5 DEF set_gpio, set_dio, Posts, TypeOK
  <1>6. QED
    BY <1>1, <1>2, <1>3, <1>4, <1>5 DEF Next, Posts, set_gpio, set_dio

(* What set_gpio stores, pin by pin.                                       *)
LEMMA KeypadSame ==
    ASSUME NEW c \in GpioConfigs, NEW g \in GpioPages, product \in {"S4M", "other"},
           NEW p \in Pins \ Irregular(g), NEW c1,
           c1.mode = KeypadInputs(c, g).mode, c1.value = c.value, c1.pullup = c.pullup
    PROVE  SamePin(c, c1, p) /\ Setting(c1, p) = Setting(c, p)
  BY DEF KeypadInputs, GpioConfigs, Irregular, OwnPins, Peripherals, SamePin, Setting, SettingBy

(* Two steps that leave a pin alone.                                       *)
LEMMA SameTransitive ==
    ASSUME NEW c, NEW d, NEW e, NEW p, SamePin(c, d, p), SamePin(d, e, p)
    PROVE  SamePin(c, e, p)
  BY DEF SamePin

(* A pin that is not sent, or sent as it is, stays as it is.               *)
LEMMA FallbackKept ==
    ASSUME NEW c \in GpioConfigs, NEW g \in GpioPages, product \in {"S4M", "other"},
           NEW p \in Pins \ Irregular(g),
           p \in g.off \/ g.set[p] = Setting(c, p)
    PROVE  SamePin(c, GpioAfter(c, g), p)
  <1> DEFINE c1 == [KeypadInputs(c, g) EXCEPT !.per = PeripheralsAfter(c, g),
                                              !.enable = EnableAfter(c, g)]
             s == SettingsAfter(c1, g)
  <1>1. c1 \in GpioConfigs
    <2>1. KeypadInputs(c, g) \in GpioConfigs
      BY DEF KeypadInputs, GpioConfigs
    <2>2. PeripheralsAfter(c, g) \in [Peripherals -> 0..2] /\ EnableAfter(c, g) \in SUBSET Pins
      BY GpioAfterType DEF GpioConfigs
    <2>3. QED
      BY <2>1, <2>2 DEF GpioConfigs
  <1>2. SamePin(c, c1, p) /\ Setting(c1, p) = Setting(c, p)
    <2>1. c1.mode = KeypadInputs(c, g).mode /\ c1.value = c.value /\ c1.pullup = c.pullup
      BY DEF KeypadInputs, GpioConfigs
    <2> HIDE DEF c1
    <2>2. QED
      BY <2>1, KeypadSame
  <1>3. Fallback(c1, p) = Setting(c1, p)
    BY DEF Fallback, Setting, Irregular
  <1>4. SelectOf(g, p) = NoSelect \/ (SelectOf(g, p) = p /\ p \notin g.off)
    BY DEF SelectOf, Irregular
  <1>5. s[p] = Setting(c1, p)
    BY <1>2, <1>3, <1>4 DEF SettingsAfter
  <1>6. SamePin(c1, Store(c1, StoredPins[product], s), p)
    <2>1. StoredPins[product] \in SUBSET Pins
      BY DEF StoredPins
    <2>2. QED
      BY <1>1, <1>5, <2>1, StoreSame
  <1>7. QED
    BY <1>2, <1>6, SameTransitive DEF GpioAfter

(* A posted page leaves the pins alone whose selects are disabled on it,   *)
(* whatever has happened since it was shown.                               *)
THEOREM DisabledAreKept == Spec => DisabledKept
  <1>1. TypeOK /\ [Next]_vars
          => [\A o \in Operators :
                 Posts(o, "gpio") =>
                    \A p \in (Pins \cap page[o].off) \ Irregular(page[o]) :
                        SamePin(gpio, gpio', p)]_vars
    <2> SUFFICES ASSUME TypeOK, Next, NEW o \in Operators, Posts(o, "gpio"),
                        NEW p \in (Pins \cap page[o].off) \ Irregular(page[o])
                 PROVE  SamePin(gpio, gpio', p)
      OBVIOUS
    <2>1. page[o] \in GpioPages /\ set_gpio(o)
      BY PostIsHandled
    <2>2. QED
      BY <2>1, FallbackKept, ProductsAssumption DEF set_gpio, TypeOK
  <1>2. QED
    BY <1>1, TypeCorrect, PTL DEF Spec, DisabledKept

(* A page that still shows what the file says changes nothing when it is   *)
(* posted.                                                                 *)
LEMMA RenderPost ==
    ASSUME NEW c \in GpioConfigs, product \in {"S4M", "other"}, NEW g \in GpioPages,
           g = RenderGpio(c)
    PROVE  /\ \A p \in Pins \ Irregular(g) : SamePin(c, GpioAfter(c, g), p)
           /\ \A p \in EnablePins[product] : p \in GpioAfter(c, g).enable <=> p \in c.enable
           /\ \A q \in PagePeripherals[product] : GpioAfter(c, g).per[q] = c.per[q]
  <1>1. \A p \in Pins : g.set[p] = Setting(c, p)
    BY DEF RenderGpio
  <1>2. EnablePins[product] \subseteq Pins
    BY DEF EnablePins
  <1>3. \A p \in EnablePins[product] : p \in g.enable <=> p \in c.enable
    BY DEF RenderGpio
  <1>4. \A p \in EnablePins[product] : p \in EnableAfter(c, g) <=> p \in c.enable
    BY <1>2, <1>3 DEF EnableAfter
  <1>5. g.per = c.per
    BY DEF RenderGpio
  <1>6. QED
    BY <1>1, <1>4, <1>5, FallbackKept, GpioAfterType, PagePeripheralsAfter

(* The DIO page sent as it is shown changes nothing.                       *)
LEMMA RenderDioPost ==
    ASSUME NEW c \in DioConfigs
    PROVE  DioAfter(c, RenderDio(c)) = c
  <1> DEFINE g == RenderDio(c)
  <1>1. \A d \in Dios : g.set[d] = DioSetting(c, d)
    BY DEF RenderDio
  <1>2. /\ {d \in Dios : DioSetting(c, d) = 0} = c.mode
        /\ (c.value \ {d \in Dios : DioSetting(c, d) = 1}) \cup {d \in Dios : DioSetting(c, d) = 2}
              = c.value
    BY DEF DioSetting, DioConfigs
  <1>3. g.lcd = c.lcd
    BY DEF RenderDio
  <1> DEFINE s == [d \in Dios |-> IF d \in g.off THEN DioSetting(c, d) ELSE g.set[d]]
  <1>4. \A d \in Dios : s[d] = DioSetting(c, d)
    BY <1>1
  <1>5. DioAfter(c, g) = [lcd |-> c.lcd, mode |-> c.mode, value |-> c.value]
    <2>1. DioAfter(c, g) = [lcd |-> g.lcd, mode |-> {d \in Dios : s[d] = 0},
                            value |-> (c.value \ {d \in Dios : s[d] = 1})
                                         \cup {d \in Dios : s[d] = 2}]
      BY DEF DioAfter
    <2> HIDE DEF s, g
    <2>2. QED
      BY <1>2, <1>3, <1>4, <2>1
  <1>6. QED
    BY <1>5 DEF DioConfigs

(* Showing either page and posting it as it is changes nothing.            *)
THEOREM UntouchedIsKept == Spec => UntouchedSave
  <1>1. TypeOK /\ [Next]_vars
          => [\A o \in Operators :
                /\ Posts(o, "gpio") /\ page[o] = RenderGpio(gpio) =>
                      /\ \A p \in Pins \ Irregular(page[o]) : SamePin(gpio, gpio', p)
                      /\ \A p \in EnablePins[product] : p \in gpio'.enable <=> p \in gpio.enable
                      /\ \A q \in PagePeripherals[product] : gpio'.per[q] = gpio.per[q]
                /\ Posts(o, "dio") /\ page[o] = RenderDio(dio) => dio' = dio]_vars
    <2> SUFFICES ASSUME TypeOK, Next, NEW o \in Operators
                 PROVE  /\ Posts(o, "gpio") /\ page[o] = RenderGpio(gpio) =>
                            /\ \A p \in Pins \ Irregular(page[o]) : SamePin(gpio, gpio', p)
                            /\ \A p \in EnablePins[product] :
                                   p \in gpio'.enable <=> p \in gpio.enable
                            /\ \A q \in PagePeripherals[product] : gpio'.per[q] = gpio.per[q]
                        /\ Posts(o, "dio") /\ page[o] = RenderDio(dio) => dio' = dio
      OBVIOUS
    <2>1. ASSUME Posts(o, "gpio"), page[o] = RenderGpio(gpio)
          PROVE  /\ \A p \in Pins \ Irregular(page[o]) : SamePin(gpio, gpio', p)
                 /\ \A p \in EnablePins[product] : p \in gpio'.enable <=> p \in gpio.enable
                 /\ \A q \in PagePeripherals[product] : gpio'.per[q] = gpio.per[q]
      <3>1. page[o] \in GpioPages /\ gpio' = GpioAfter(gpio, page[o])
        BY <2>1, PostIsHandled DEF set_gpio
      <3>2. product \in {"S4M", "other"} /\ gpio \in GpioConfigs
        BY ProductsAssumption DEF TypeOK
      <3>3. QED
        BY <2>1, <3>1, <3>2, RenderPost
    <2>2. ASSUME Posts(o, "dio"), page[o] = RenderDio(dio) PROVE dio' = dio
      BY <2>2, PostIsHandled, RenderDioPost DEF set_dio, TypeOK
    <2>3. QED
      BY <2>1, <2>2
  <1>2. QED
    BY <1>1, TypeCorrect, PTL DEF Spec, UntouchedSave

(* The selects a page does not show are disabled on it.                    *)
HiddenIsOff ==
    \A o \in Operators : page[o].kind = "gpio" => Pins \ ShownPins[product] \subseteq page[o].off

(* A pin that a page does not show is never sent from it.                  *)
THEOREM HiddenStaysOff == Spec => []HiddenIsOff
  <1>1. Init => HiddenIsOff
    BY DEF Init, HiddenIsOff, NoPage
  <1>2. TypeOK /\ HiddenIsOff /\ [Next]_vars => HiddenIsOff'
    <2> SUFFICES ASSUME TypeOK, HiddenIsOff, [Next]_vars, NEW o \in Operators,
                        page'[o].kind = "gpio"
                 PROVE  Pins \ ShownPins[product] \subseteq page'[o].off /\ product' = product
      BY DEF HiddenIsOff
    <2>1. product' = product
      BY DEF Next, vars, get_gpio, get_dio, Change, set_gpio, set_dio, def_factory
    <2>2. ASSUME NEW u \in Operators, get_gpio(u)
          PROVE  Pins \ ShownPins[product] \subseteq page'[o].off
      <3>1. page'[u].off = RenderGpio(gpio).off
        BY <2>2 DEF get_gpio, TypeOK
      <3>2. Pins \ ShownPins[product] \subseteq RenderGpio(gpio).off
        BY DEF RenderGpio
      <3>3. o # u => page'[o] = page[o]
        BY <2>2 DEF get_gpio, TypeOK
      <3>4. QED
        BY <3>1, <3>2, <3>3 DEF HiddenIsOff
    <2>3. ASSUME NEW u \in Operators, get_dio(u)
          PROVE  Pins \ ShownPins[product] \subseteq page'[o].off
      BY <2>3 DEF get_dio, TypeOK, HiddenIsOff, RenderDio
    <2>4. ASSUME NEW u \in Operators, Change(u)
          PROVE  Pins \ ShownPins[product] \subseteq page'[o].off
      <3>1. page'[o].kind = page[o].kind /\ page'[o].off = page[o].off
        <4>1. \/ \E q, v : page' = [page EXCEPT ![u].per[q] = v]
              \/ \E p : page' = [page EXCEPT ![u].enable = IF p \in @ THEN @ \ {p} ELSE @ \cup {p}]
              \/ \E p, v : page' = [page EXCEPT ![u].set[p] = v]
              \/ page' = [page EXCEPT ![u].lcd = ~@]
          BY <2>4 DEF Change, ChangePeripheral, ChangeEnable, ChangePin, ChangeDio
        <4>2. page[u] \in GpioPages \/ page[u] \in DioPages
          BY <2>4 DEF Change, TypeOK, NoPage
        <4>3. CASE page' = [page EXCEPT ![u].lcd = ~@]
          BY <4>2, <4>3 DEF TypeOK, GpioPages, DioPages
        <4>4. CASE \E p, v : page' = [page EXCEPT ![u].set[p] = v]
          BY <4>2, <4>4 DEF TypeOK, GpioPages, DioPages
        <4>5. CASE \E q, v : page' = [page EXCEPT ![u].per[q] = v]
          BY <4>2, <4>5 DEF TypeOK, GpioPages, DioPages
        <4>6. CASE \E p : page' = [page EXCEPT ![u].enable =
                                       IF p \in @ THEN @ \ {p} ELSE @ \cup {p}]
          BY <4>2, <4>6 DEF TypeOK, GpioPages, DioPages
        <4>7. QED
          BY <4>1, <4>3, <4>4, <4>5, <4>6
      <3>2. QED
        BY <3>1 DEF HiddenIsOff
    <2>5. ASSUME NEW u \in Operators, set_gpio(u) \/ set_dio(u)
          PROVE  Pins \ ShownPins[product] \subseteq page'[o].off
      BY <2>5 DEF set_gpio, set_dio, TypeOK, HiddenIsOff, NoPage
    <2>6. ASSUME UNCHANGED page
          PROVE  Pins \ ShownPins[product] \subseteq page'[o].off
      BY <2>6 DEF HiddenIsOff
    <2>7. QED
      BY <2>1, <2>2, <2>3, <2>4, <2>5, <2>6 DEF Next, vars, def_factory
  <1>3. QED
    BY <1>1, <1>2, TypeCorrect, PTL DEF Spec

(* A pin that is sent gets the setting that was sent.                      *)
LEMMA PostStores ==
    ASSUME TypeOK, HiddenIsOff, Next, NEW o \in Operators, Posts(o, "gpio"),
           NEW p \in Pins \ page[o].off, product = "S4M" \/ p # B21
    PROVE  Setting(gpio', p) = page[o].set[p]
  <1> DEFINE g == page[o]
             c1 == [KeypadInputs(gpio, g) EXCEPT !.per = PeripheralsAfter(gpio, g),
                                                 !.enable = EnableAfter(gpio, g)]
             s == SettingsAfter(c1, g)
  <1>1. page[o] \in GpioPages /\ gpio' = Store(c1, StoredPins[product], s)
    BY PostIsHandled DEF set_gpio, GpioAfter
  <1>2. product \in {"S4M", "other"} /\ gpio \in GpioConfigs
    BY ProductsAssumption DEF TypeOK
  <1>3. p \in StoredPins[product] /\ StoredPins[product] \in SUBSET Pins
    BY <1>2, ShownAreStored DEF HiddenIsOff, Posts, ShownPins
  <1>4. c1 \in GpioConfigs
    <2>1. KeypadInputs(gpio, g) \in GpioConfigs
      BY <1>2 DEF KeypadInputs, GpioConfigs
    <2>2. PeripheralsAfter(gpio, g) \in [Peripherals -> 0..2] /\ EnableAfter(gpio, g) \in SUBSET Pins
      BY <1>1, <1>2, GpioAfterType DEF GpioConfigs
    <2>3. QED
      BY <2>1, <2>2 DEF GpioConfigs
  <1>5. SelectOf(g, p) = p /\ p # NoSelect
    BY PinsAssumption DEF SelectOf, B10, B21, NoSelect
  <1>6. s[p] = g.set[p] /\ s[p] \in Settings
    BY <1>1, <1>5 DEF SettingsAfter, GpioPages
  <1> HIDE DEF c1, s, g
  <1>7. Setting(gpio', p) = s[p]
    BY <1>1, <1>3, <1>4, <1>6, StoreReads
  <1>8. QED
    BY <1>6, <1>7 DEF g

(* So does a digital line.                                                 *)
LEMMA PostStoresDio ==
    ASSUME TypeOK, Next, NEW o \in Operators, Posts(o, "dio"), NEW d \in Dios \ page[o].off
    PROVE  view_dio(dio', d) = page[o].set[d]
  <1> DEFINE g == page[o]
             s == [e \in Dios |-> IF e \in g.off THEN DioSetting(dio, e) ELSE g.set[e]]
  <1>1. g \in DioPages /\ dio' = DioAfter(dio, g)
    BY PostIsHandled DEF set_dio
  <1>2. s[d] = g.set[d] /\ s[d] \in {0, 1, 2}
    BY <1>1 DEF DioPages, DioSettings
  <1>3. /\ dio'.mode = {e \in Dios : s[e] = 0}
        /\ dio'.value = (dio.value \ {e \in Dios : s[e] = 1}) \cup {e \in Dios : s[e] = 2}
    BY <1>1 DEF DioAfter
  <1> HIDE DEF s
  <1>4. QED
    BY <1>2, <1>3 DEF view_dio

(* What an operator saw in an active select when he posted is what is      *)
(* stored and what "def view" prints, B21 of the boards other than the S4M *)
(* excepted.                                                               *)
THEOREM PostedAreStored == Spec => PostedIsStored
  <1>1. TypeOK /\ HiddenIsOff /\ [Next]_vars
          => [\A o \in Operators :
                /\ Posts(o, "gpio") =>
                      \A p \in Pins \ page[o].off :
                          (product = "S4M" \/ p # B21) =>
                              /\ Setting(gpio', p) = page[o].set[p]
                              /\ p \in ViewPins[product] \ {A30} =>
                                     view_gpio(gpio', p) = page[o].set[p]
                /\ Posts(o, "dio") =>
                      \A d \in Dios \ page[o].off :
                          view_dio(dio', d) = page[o].set[d]]_vars
    <2> SUFFICES ASSUME TypeOK, HiddenIsOff, Next, NEW o \in Operators
                 PROVE  /\ Posts(o, "gpio") =>
                              \A p \in Pins \ page[o].off :
                                  (product = "S4M" \/ p # B21) =>
                                      /\ Setting(gpio', p) = page[o].set[p]
                                      /\ p \in ViewPins[product] \ {A30} =>
                                             view_gpio(gpio', p) = page[o].set[p]
                        /\ Posts(o, "dio") =>
                              \A d \in Dios \ page[o].off :
                                  view_dio(dio', d) = page[o].set[d]
      OBVIOUS
    <2>1. ASSUME Posts(o, "gpio"), NEW p \in Pins \ page[o].off, product = "S4M" \/ p # B21
          PROVE  /\ Setting(gpio', p) = page[o].set[p]
                 /\ p \in ViewPins[product] \ {A30} => view_gpio(gpio', p) = page[o].set[p]
      <3>1. Setting(gpio', p) = page[o].set[p]
        BY <2>1, PostStores
      <3>2. p # A30 => view_gpio(gpio', p) = Setting(gpio', p)
        <4>1. product' = product
          BY <2>1, PostIsHandled DEF set_gpio
        <4>2. QED
          BY <4>1 DEF view_gpio, Setting
      <3>3. QED
        BY <3>1, <3>2
    <2>2. QED
      BY <2>1, PostStoresDio
  <1>2. QED
    BY <1>1, HiddenStaysOff, TypeCorrect, PTL DEF Spec, PostedIsStored
-----------------------------------------------------------------------------
(* Part 2: the lines.                                                      *)

(* The byte a line is kept in.                                             *)
Encoded(l) == l.data + 4 * l.stop + 8 * l.parity

(* Every reader finds in the byte what a writer has put there.             *)
LEMMA FieldsOfByte ==
  ASSUME NEW l \in Lines
  PROVE  /\ Encoded(l) \in 0 .. 23
         /\ Data(Encoded(l)) = l.data
         /\ Stop(Encoded(l)) = l.stop
         /\ Parity(Encoded(l)) = l.parity
  <1>1. l.data \in 0 .. 3 /\ l.stop \in 0 .. 1 /\ l.parity \in 0 .. 2
    BY DEF Lines
  <1>2. Encoded(l) \in 0 .. 23
    BY <1>1 DEF Encoded
  <1>3. Data(Encoded(l)) = l.data
    BY <1>1 DEF Encoded, Data
  <1>4. Stop(Encoded(l)) = l.stop
    BY <1>1 DEF Encoded, Stop
  <1>5. Parity(Encoded(l)) = l.parity
    BY <1>1 DEF Encoded, Parity
  <1> QED
    BY <1>2, <1>3, <1>4, <1>5

(* A writer changes its own field of the line and no other.                *)
LEMMA DataWritten ==
  ASSUME NEW l \in Lines, NEW n \in 0 .. 3
  PROVE  /\ [l EXCEPT !.data = n] \in Lines
         /\ WithData(Encoded(l), n) = Encoded([l EXCEPT !.data = n])
  <1>1. l.data \in 0 .. 3 /\ l.stop \in 0 .. 1 /\ l.parity \in 0 .. 2
    BY DEF Lines
  <1>2. [l EXCEPT !.data = n] \in Lines
    BY DEF Lines
  <1>3. Data(Encoded(l)) = l.data
    BY FieldsOfByte
  <1>4. Encoded([l EXCEPT !.data = n]) = n + 4 * l.stop + 8 * l.parity
    BY DEF Encoded, Lines
  <1> QED
    BY <1>1, <1>2, <1>3, <1>4 DEF WithData, Encoded

(* Writing the stop bits changes them and nothing else.                    *)
LEMMA StopWritten ==
  ASSUME NEW l \in Lines, NEW n \in 0 .. 1
  PROVE  /\ [l EXCEPT !.stop = n] \in Lines
         /\ WithStop(Encoded(l), n) = Encoded([l EXCEPT !.stop = n])
  <1>1. l.data \in 0 .. 3 /\ l.stop \in 0 .. 1 /\ l.parity \in 0 .. 2
    BY DEF Lines
  <1>2. [l EXCEPT !.stop = n] \in Lines
    BY DEF Lines
  <1>3. Stop(Encoded(l)) = l.stop
    BY FieldsOfByte
  <1>4. Encoded([l EXCEPT !.stop = n]) = l.data + 4 * n + 8 * l.parity
    BY DEF Encoded, Lines
  <1> QED
    BY <1>1, <1>2, <1>3, <1>4 DEF WithStop, Encoded

(* Writing the parity changes it and nothing else.                         *)
LEMMA ParityWritten ==
  ASSUME NEW l \in Lines, NEW n \in 0 .. 2
  PROVE  /\ [l EXCEPT !.parity = n] \in Lines
         /\ WithParity(Encoded(l), n) = Encoded([l EXCEPT !.parity = n])
  <1>1. l.data \in 0 .. 3 /\ l.stop \in 0 .. 1 /\ l.parity \in 0 .. 2
    BY DEF Lines
  <1>2. [l EXCEPT !.parity = n] \in Lines
    BY DEF Lines
  <1>3. Parity(Encoded(l)) = l.parity
    BY FieldsOfByte
  <1>4. Encoded([l EXCEPT !.parity = n]) = l.data + 4 * l.stop + 8 * n
    BY DEF Encoded, Lines
  <1> QED
    BY <1>1, <1>2, <1>3, <1>4 DEF WithParity, Encoded

(* The page writes all three, one after the other.                         *)
LEMMA ThreeFieldsWritten ==
  ASSUME NEW l \in Lines, NEW m \in Lines
  PROVE  WithParity(WithStop(WithData(Encoded(l), m.data), m.stop), m.parity) = Encoded(m)
  <1>1. m.data \in 0 .. 3 /\ m.stop \in 0 .. 1 /\ m.parity \in 0 .. 2
    BY DEF Lines
  <1> DEFINE l1 == [l EXCEPT !.data = m.data]
             l2 == [l1 EXCEPT !.stop = m.stop]
             l3 == [l2 EXCEPT !.parity = m.parity]
  <1>2. l1 \in Lines /\ WithData(Encoded(l), m.data) = Encoded(l1)
    BY <1>1, DataWritten
  <1>3. l2 \in Lines /\ WithStop(Encoded(l1), m.stop) = Encoded(l2)
    <2> HIDE DEF l1
    <2> QED
      BY <1>1, <1>2, StopWritten
  <1>4. WithParity(Encoded(l2), m.parity) = Encoded(l3)
    <2> HIDE DEF l2
    <2> QED
      BY <1>1, <1>3, ParityWritten
  <1>5. Encoded(l3) = Encoded(m)
    BY DEF Encoded, Lines
  <1> QED
    BY <1>2, <1>3, <1>4, <1>5

(* What is shown for the byte is the line.                                 *)
LEMMA ShownIsLine ==
  ASSUME NEW l \in Lines
  PROVE  Shown(Encoded(l)) = l
  <1>1. /\ Data(Encoded(l)) = l.data
        /\ Stop(Encoded(l)) = l.stop
        /\ Parity(Encoded(l)) = l.parity
    BY FieldsOfByte
  <1>2. l.parity # 3
    BY DEF Lines
  <1>3. Shown(Encoded(l)) = [data |-> l.data, stop |-> l.stop, parity |-> l.parity]
    BY <1>1, <1>2 DEF Shown
  <1> QED
    BY <1>3 DEF Lines

(* serial writes a line for every byte, and has the data bits right.       *)
LEMMA ServedIsLine ==
  ASSUME NEW l \in Lines
  PROVE  Served(Encoded(l)) \in Lines /\ Served(Encoded(l)).data = l.data
  <1>1. Data(Encoded(l)) = l.data /\ l.data \in 0 .. 3
    BY FieldsOfByte DEF Lines
  <1> DEFINE stop == IF Stop(Encoded(l)) = SB_STOPBITS_2 THEN 1 ELSE 0
             parity == CASE Parity(Encoded(l)) = SB_PARITY_ODD -> 1
                         [] Parity(Encoded(l)) = SB_PARITY_EVEN -> 2
                         [] OTHER -> 0
  <1>2. stop \in 0 .. 1 /\ parity \in 0 .. 2
    BY DEF SB_PARITY_ODD, SB_PARITY_EVEN
  <1>3. Served(Encoded(l)) = [data |-> l.data, stop |-> stop, parity |-> parity]
    BY <1>1 DEF Served
  <1> QED
    BY <1>1, <1>2, <1>3 DEF Lines
-----------------------------------------------------------------------------
(* The invariant: the byte of a port is the line that was asked for, and   *)
(* ttyON.conf has its data bits.                                           *)
ByteIsLine == \A p \in Ports : dps[p] = Encoded(asked[p])

LineInv == LineTypeOK /\ ByteIsLine /\ DataServed

(* The factory line is one the byte can hold.                              *)
LEMMA ConstantsOK ==
  /\ SB_DATABITS_8 = Encoded(Shown(SB_DATABITS_8))
  /\ Shown(SB_DATABITS_8) \in Lines
  /\ SB_DATABITS_8 \in 0 .. 23
  <1>1. Shown(SB_DATABITS_8) = [data |-> 3, stop |-> 0, parity |-> 0]
    <2>1. Data(3) = 3 /\ Stop(3) = 0 /\ Parity(3) = 0
      BY DEF Data, Stop, Parity
    <2>2. QED
      BY <2>1 DEF Shown, SB_DATABITS_8
  <1>2. Encoded([data |-> 3, stop |-> 0, parity |-> 0]) = 3
    BY DEF Encoded
  <1> QED
    BY <1>1, <1>2 DEF SB_DATABITS_8, Lines

(* The factory line is the one asked for at first.                         *)
LEMMA InitLineInv == LineInit => LineInv
  <1> SUFFICES ASSUME LineInit PROVE LineInv
    OBVIOUS
  <1>1. LineTypeOK
    BY ConstantsOK DEF LineInit, LineTypeOK
  <1>2. ByteIsLine
    BY ConstantsOK DEF LineInit, ByteIsLine
  <1>3. DataServed
    BY DEF LineInit, DataServed
  <1> QED
    BY <1>1, <1>2, <1>3 DEF LineInv

(* A def command that gives some ports a new byte and a new line, which    *)
(* agree, and runs nothing.                                                *)
LEMMA DefStep ==
  ASSUME LineInv,
         dps' \in [Ports -> 0 .. 23], asked' \in [Ports -> Lines],
         on' \in [Ports -> BOOLEAN],
         \A p \in Ports : dps'[p] = Encoded(asked'[p]),
         UNCHANGED <<conf, applied>>
  PROVE  LineInv'
  <1>1. LineTypeOK'
    BY DEF LineInv, LineTypeOK
  <1>2. ByteIsLine'
    BY DEF ByteIsLine
  <1>3. DataServed'
    BY DEF LineInv, DataServed
  <1> QED
    BY <1>1, <1>2, <1>3 DEF LineInv

(* One field of the ports in S, by a writer that is right for every line.  *)
LEMMA FieldStep ==
  ASSUME LineInv, NEW S, NEW W, NEW L,
         \A p \in Ports : W[p] = Encoded(L[p]) /\ L[p] \in Lines,
         dps' = [p \in Ports |-> IF p \in S THEN W[p] ELSE dps[p]],
         asked' = [p \in Ports |-> IF p \in S THEN L[p] ELSE asked[p]],
         UNCHANGED <<on, conf, applied>>
  PROVE  LineInv'
  <1>1. \A p \in Ports : asked[p] \in Lines /\ dps[p] = Encoded(asked[p])
    BY DEF LineInv, LineTypeOK, ByteIsLine
  <1>2. \A p \in Ports : asked'[p] \in Lines /\ dps'[p] = Encoded(asked'[p])
    BY <1>1
  <1>3. asked' \in [Ports -> Lines]
    BY <1>2
  <1>4. \A p \in Ports : dps'[p] \in 0 .. 23
    BY <1>2, FieldsOfByte
  <1>5. dps' \in [Ports -> 0 .. 23]
    BY <1>4
  <1>6. on' \in [Ports -> BOOLEAN]
    BY DEF LineInv, LineTypeOK
  <1> QED
    BY <1>2, <1>3, <1>5, <1>6, DefStep

(* serial for port p, while the entry and what was asked agree: the new    *)
(* ttyON.conf is a line with the data bits of it.                          *)
LEMMA SerialStep ==
  ASSUME NEW p \in Ports, NEW byte, NEW mode, NEW line \in Lines,
         byte[p] = Encoded(line),
         conf \in [Ports -> Lines \cup {NoConf}],
         applied \in [Ports -> Lines \cup {NoConf}],
         DataServed,
         Serial(p, byte, mode),
         applied' = [applied EXCEPT ![p] = IF mode[p] THEN line ELSE @]
  PROVE  /\ conf' \in [Ports -> Lines \cup {NoConf}]
         /\ applied' \in [Ports -> Lines \cup {NoConf}]
         /\ DataServed'
  <1>1. Served(byte[p]) \in Lines /\ Served(byte[p]).data = line.data
    BY ServedIsLine
  <1>2. conf' \in [Ports -> Lines \cup {NoConf}]
    BY <1>1 DEF Serial
  <1>3. applied' \in [Ports -> Lines \cup {NoConf}]
    OBVIOUS
  <1>4. ASSUME NEW q \in Ports
        PROVE  conf'[q].data = applied'[q].data
    <2>1. CASE q = p /\ mode[p]
      BY <1>1, <2>1 DEF Serial
    <2>2. CASE ~(q = p /\ mode[p])
      <3>1. conf'[q] = conf[q]
        BY <2>2 DEF Serial
      <3>2. applied'[q] = applied[q]
        BY <2>2
      <3>3. QED
        BY <3>1, <3>2 DEF DataServed
    <2>3. QED
      BY <2>1, <2>2
  <1> QED
    BY <1>2, <1>3, <1>4 DEF DataServed

(* One request of the page.                                                *)
LEMMA SetSerialStep ==
  ASSUME LineInv, NEW p \in Ports, NEW mode \in BOOLEAN, NEW line \in Lines,
         SetSerial(p, mode, line)
  PROVE  LineInv'
  <1>1. /\ dps \in [Ports -> 0 .. 23] /\ asked \in [Ports -> Lines]
        /\ on \in [Ports -> BOOLEAN]
        /\ conf \in [Ports -> Lines \cup {NoConf}]
        /\ applied \in [Ports -> Lines \cup {NoConf}]
        /\ DataServed
        /\ \A q \in Ports : dps[q] = Encoded(asked[q])
    BY DEF LineInv, LineTypeOK, ByteIsLine
  <1>2. /\ dps' = [dps EXCEPT ![p] = Posted(p, mode, line)]
        /\ on' = [on EXCEPT ![p] = mode]
        /\ asked' = [asked EXCEPT ![p] = IF mode THEN line ELSE @]
    BY DEF SetSerial
  <1>3. asked' \in [Ports -> Lines] /\ on' \in [Ports -> BOOLEAN]
    BY <1>1, <1>2
  <1>4. Posted(p, mode, line) = Encoded(IF mode THEN line ELSE asked[p])
    <2>1. CASE mode
      BY <1>1, <2>1, ThreeFieldsWritten DEF Posted
    <2>2. CASE ~mode
      BY <1>1, <2>2 DEF Posted
    <2>3. QED
      BY <2>1, <2>2
  <1>5. \A q \in Ports : dps'[q] = Encoded(asked'[q])
    BY <1>1, <1>2, <1>4
  <1>6. dps' \in [Ports -> 0 .. 23]
    <2>1. Posted(p, mode, line) \in 0 .. 23
      BY <1>1, <1>4, FieldsOfByte
    <2>2. QED
      BY <1>1, <1>2, <2>1
  <1>7. /\ conf' \in [Ports -> Lines \cup {NoConf}]
        /\ applied' \in [Ports -> Lines \cup {NoConf}]
        /\ DataServed'
    <2>1. CASE Changed(p, mode, line)
      <3>1. Serial(p, dps', on')
        BY <2>1 DEF SetSerial
      <3>2. applied' = [applied EXCEPT ![p] = IF on'[p] THEN asked'[p] ELSE @]
        <4>1. applied' = [applied EXCEPT ![p] = IF mode THEN line ELSE @]
          BY <2>1 DEF SetSerial
        <4>2. on'[p] = mode /\ (mode => asked'[p] = line)
          BY <1>1, <1>2
        <4>3. QED
          BY <4>1, <4>2
      <3>3. dps'[p] = Encoded(asked'[p]) /\ asked'[p] \in Lines
        BY <1>3, <1>5
      <3>4. QED
        BY <1>1, <3>1, <3>2, <3>3, SerialStep
    <2>2. CASE ~Changed(p, mode, line)
      <3>1. UNCHANGED <<conf, applied>>
        BY <2>2 DEF SetSerial
      <3>2. QED
        BY <1>1, <3>1 DEF DataServed
    <2>3. QED
      BY <2>1, <2>2
  <1> QED
    BY <1>3, <1>5, <1>6, <1>7 DEF LineInv, LineTypeOK, ByteIsLine

(* Every step keeps the invariant.                                         *)
LEMMA NextLineInv == LineInv /\ [LineNext]_lineVars => LineInv'
  <1> SUFFICES ASSUME LineInv, [LineNext]_lineVars PROVE LineInv'
    OBVIOUS
  <1>1. /\ dps \in [Ports -> 0 .. 23] /\ asked \in [Ports -> Lines]
        /\ on \in [Ports -> BOOLEAN]
        /\ \A p \in Ports : dps[p] = Encoded(asked[p]) /\ asked[p] \in Lines
    BY DEF LineInv, LineTypeOK, ByteIsLine
  <1>2. ASSUME NEW first \in Ports, NEW last \in Ports, NEW n \in DataChoices,
               DefChar(first, last, n)
        PROVE  LineInv'
    <2> DEFINE W == [p \in Ports |-> WithData(dps[p], n)]
               L == [p \in Ports |-> [asked[p] EXCEPT !.data = n]]
    <2>1. n \in 0 .. 3
      BY ChoicesAssumption
    <2>2. \A p \in Ports : W[p] = Encoded(L[p]) /\ L[p] \in Lines
      <3>1. ASSUME NEW p \in Ports
            PROVE  /\ WithData(dps[p], n) = Encoded([asked[p] EXCEPT !.data = n])
                   /\ [asked[p] EXCEPT !.data = n] \in Lines
        <4>1. dps[p] = Encoded(asked[p]) /\ asked[p] \in Lines
          BY <1>1
        <4>2. QED
          BY <2>1, <4>1, DataWritten
      <3>2. \A p \in Ports : /\ W[p] = WithData(dps[p], n)
                             /\ L[p] = [asked[p] EXCEPT !.data = n]
        OBVIOUS
      <3>3. QED
        BY <3>1, <3>2
    <2>3. /\ dps' = [p \in Ports |-> IF p \in Range(first, last) THEN W[p] ELSE dps[p]]
          /\ asked' = [p \in Ports |-> IF p \in Range(first, last) THEN L[p] ELSE asked[p]]
      BY <1>2 DEF DefChar
    <2>4. UNCHANGED <<on, conf, applied>>
      BY <1>2 DEF DefChar
    <2> HIDE DEF W, L
    <2>5. QED
      BY <2>2, <2>3, <2>4, FieldStep
  <1>3. ASSUME NEW first \in Ports, NEW last \in Ports, NEW n \in StopChoices,
               DefStop(first, last, n)
        PROVE  LineInv'
    <2> DEFINE W == [p \in Ports |-> WithStop(dps[p], n)]
               L == [p \in Ports |-> [asked[p] EXCEPT !.stop = n]]
    <2>1. n \in 0 .. 1
      BY ChoicesAssumption
    <2>2. \A p \in Ports : W[p] = Encoded(L[p]) /\ L[p] \in Lines
      <3>1. ASSUME NEW p \in Ports
            PROVE  /\ WithStop(dps[p], n) = Encoded([asked[p] EXCEPT !.stop = n])
                   /\ [asked[p] EXCEPT !.stop = n] \in Lines
        <4>1. dps[p] = Encoded(asked[p]) /\ asked[p] \in Lines
          BY <1>1
        <4>2. QED
          BY <2>1, <4>1, StopWritten
      <3>2. \A p \in Ports : /\ W[p] = WithStop(dps[p], n)
                             /\ L[p] = [asked[p] EXCEPT !.stop = n]
        OBVIOUS
      <3>3. QED
        BY <3>1, <3>2
    <2>3. /\ dps' = [p \in Ports |-> IF p \in Range(first, last) THEN W[p] ELSE dps[p]]
          /\ asked' = [p \in Ports |-> IF p \in Range(first, last) THEN L[p] ELSE asked[p]]
      BY <1>3 DEF DefStop
    <2>4. UNCHANGED <<on, conf, applied>>
      BY <1>3 DEF DefStop
    <2> HIDE DEF W, L
    <2>5. QED
      BY <2>2, <2>3, <2>4, FieldStep
  <1>4. ASSUME NEW first \in Ports, NEW last \in Ports, NEW n \in ParityChoices,
               DefParity(first, last, n)
        PROVE  LineInv'
    <2> DEFINE W == [p \in Ports |-> WithParity(dps[p], n)]
               L == [p \in Ports |-> [asked[p] EXCEPT !.parity = n]]
    <2>1. n \in 0 .. 2
      BY ChoicesAssumption
    <2>2. \A p \in Ports : W[p] = Encoded(L[p]) /\ L[p] \in Lines
      <3>1. ASSUME NEW p \in Ports
            PROVE  /\ WithParity(dps[p], n) = Encoded([asked[p] EXCEPT !.parity = n])
                   /\ [asked[p] EXCEPT !.parity = n] \in Lines
        <4>1. dps[p] = Encoded(asked[p]) /\ asked[p] \in Lines
          BY <1>1
        <4>2. QED
          BY <2>1, <4>1, ParityWritten
      <3>2. \A p \in Ports : /\ W[p] = WithParity(dps[p], n)
                             /\ L[p] = [asked[p] EXCEPT !.parity = n]
        OBVIOUS
      <3>3. QED
        BY <3>1, <3>2
    <2>3. /\ dps' = [p \in Ports |-> IF p \in Range(first, last) THEN W[p] ELSE dps[p]]
          /\ asked' = [p \in Ports |-> IF p \in Range(first, last) THEN L[p] ELSE asked[p]]
      BY <1>4 DEF DefParity
    <2>4. UNCHANGED <<on, conf, applied>>
      BY <1>4 DEF DefParity
    <2> HIDE DEF W, L
    <2>5. QED
      BY <2>2, <2>3, <2>4, FieldStep
  <1>5. ASSUME NEW first \in Ports, NEW last \in Ports, NEW mode \in BOOLEAN,
               DefProtocol(first, last, mode)
        PROVE  LineInv'
    <2>1. on' \in [Ports -> BOOLEAN]
      BY <1>1, <1>5 DEF DefProtocol
    <2>2. UNCHANGED <<dps, conf, asked, applied>>
      BY <1>5 DEF DefProtocol
    <2>3. QED
      BY <1>1, <2>1, <2>2, DefStep
  <1>6. ASSUME NEW p \in Ports, NEW mode \in BOOLEAN, NEW line \in Choices,
               SetSerial(p, mode, line)
        PROVE  LineInv'
    <2>1. line \in Lines
      BY ChoicesAssumption DEF Choices, Lines
    <2>2. QED
      BY <1>6, <2>1, SetSerialStep
  <1>7. CASE DefFactory
    <2>1. /\ dps' \in [Ports -> 0 .. 23] /\ asked' \in [Ports -> Lines]
          /\ on' \in [Ports -> BOOLEAN]
      BY <1>7, ConstantsOK DEF DefFactory
    <2>2. \A p \in Ports : dps'[p] = Encoded(asked'[p])
      BY <1>7, ConstantsOK DEF DefFactory
    <2>3. UNCHANGED <<conf, applied>>
      BY <1>7 DEF DefFactory
    <2>4. QED
      BY <2>1, <2>2, <2>3, DefStep
  <1>8. ASSUME NEW p \in Ports, RunSerial(p)
        PROVE  LineInv'
    <2>1. UNCHANGED <<dps, on, asked>>
      BY <1>8 DEF RunSerial
    <2>2. /\ conf \in [Ports -> Lines \cup {NoConf}]
          /\ applied \in [Ports -> Lines \cup {NoConf}]
          /\ DataServed
      BY DEF LineInv, LineTypeOK
    <2>3. /\ Serial(p, dps, on)
          /\ applied' = [applied EXCEPT ![p] = IF on[p] THEN asked[p] ELSE @]
      BY <1>8 DEF RunSerial
    <2>4. /\ conf' \in [Ports -> Lines \cup {NoConf}]
          /\ applied' \in [Ports -> Lines \cup {NoConf}]
          /\ DataServed'
      BY <1>1, <2>2, <2>3, SerialStep
    <2>5. QED
      BY <2>1, <2>4 DEF LineInv, LineTypeOK, ByteIsLine
  <1>9. CASE UNCHANGED lineVars
    BY <1>9 DEF lineVars, LineInv, LineTypeOK, ByteIsLine, DataServed
  <1> QED
    BY <1>2, <1>3, <1>4, <1>5, <1>6, <1>7, <1>8, <1>9 DEF LineNext

(* LineInv is inductive.                                                   *)
LEMMA LineInvariant == LineSpec => []LineInv
  <1>1. LineInit => LineInv
    BY InitLineInv
  <1>2. LineInv /\ [LineNext]_lineVars => LineInv'
    BY NextLineInv
  <1> QED
    BY <1>1, <1>2, PTL DEF LineSpec
-----------------------------------------------------------------------------
(* The bits above the fields stay clear, and serial writes no line ser2net *)
(* does not know.                                                          *)
THEOREM LineTypeCorrect == LineSpec => []LineTypeOK
  <1>1. LineInv => LineTypeOK
    BY DEF LineInv
  <1> QED
    BY <1>1, LineInvariant, PTL

(* def and the page change each field alone, and what is shown is what was *)
(* last asked for.                                                         *)
THEOREM ShownIsAsked == LineSpec => []ShownAsAsked
  <1>1. LineInv => ShownAsAsked
    <2> SUFFICES ASSUME LineInv, NEW p \in Ports
                 PROVE  Shown(dps[p]) = asked[p]
      BY DEF ShownAsAsked
    <2>1. dps[p] = Encoded(asked[p]) /\ asked[p] \in Lines
      BY DEF LineInv, LineTypeOK, ByteIsLine
    <2>2. QED
      BY <2>1, ShownIsLine
  <1> QED
    BY <1>1, LineInvariant, PTL

(* A page sent back as it is shown changes nothing.                        *)
THEOREM UntouchedPage == LineSpec => []PageUntouched
  <1>1. LineInv => PageUntouched
    <2> SUFFICES ASSUME LineInv, NEW p \in Ports
                 PROVE  ~Changed(p, on[p], Shown(dps[p]))
      BY DEF PageUntouched
    <2>1. dps[p] = Encoded(asked[p]) /\ asked[p] \in Lines
      BY DEF LineInv, LineTypeOK, ByteIsLine
    <2>2. Shown(dps[p]) = asked[p]
      BY <2>1, ShownIsLine
    <2>3. Posted(p, on[p], asked[p]) = dps[p]
      BY <2>1, ThreeFieldsWritten DEF Posted
    <2>4. QED
      BY <2>2, <2>3 DEF Changed
  <1> QED
    BY <1>1, LineInvariant, PTL

(* The data bits get to ser2net.                                           *)
THEOREM DataReachesPort == LineSpec => []DataServed
  <1>1. LineInv => DataServed
    BY DEF LineInv
  <1> QED
    BY <1>1, LineInvariant, PTL
=============================================================================
