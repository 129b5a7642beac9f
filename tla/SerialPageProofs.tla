-------------------------- MODULE SerialPageProofs --------------------------
(* Theorems about SerialPage, for any number of browsers, any modes and    *)
(* any values of the fields, proved with TLAPS.                            *)
EXTENDS SerialPage, TLAPS

(* No control that serial uses in a mode is disabled in its page.          *)
LEMMA UsedAreEnabled ==
  ASSUME NEW m \in Modes, NEW login, NEW f \in Uses(m)
  PROVE  f \in Fields \ Disabled(m, login, TRUE)
  <1>1. CASE m = "server"
    BY <1>1 DEF Uses, Disabled, Peer, Fields
  <1>2. CASE m = "client"
    BY <1>2 DEF Uses, Disabled, Peer, Fields
  <1>3. CASE m # "server" /\ m # "client"
    BY <1>3 DEF Uses
  <1> QED
    BY <1>1, <1>2, <1>3

(* getagent.cgi makes a form, disabled for what it shows.                  *)
LEMMA RenderType ==
  ASSUME TypeOK, NEW m \in Modes, NEW sent,
         \A f \in (DOMAIN sent) \cap Fields : sent[f] \in Values
  PROVE  /\ Render(m, sent) \in Pages
         /\ Render(m, sent).off = Disabled(m, Render(m, sent).val["login"], uart)
         /\ Render(m, sent).mode = m
         /\ Render(m, sent).pins = uart
         /\ \A f \in Fields : Render(m, sent).val[f] = Shown(f, sent)
  <1>1. [f \in Fields |-> Shown(f, sent)] \in [Fields -> Values]
    BY ValuesAssumption DEF Shown, TypeOK, Entries
  <1>2. \A l : Disabled(m, l, uart) \in SUBSET Fields
    BY DEF Disabled, Peer, Fields
  <1> QED
    BY <1>1, <1>2 DEF Render, Pages, TypeOK

(* A form is not the mark of a browser without one.                        *)
LEMMA PageIsNotNone ==
  ASSUME NEW g \in Pages
  PROVE  g # NoPage
  BY ModesAssumption DEF Pages, NoPage

(* A browser sends the controls that are not disabled.                     *)
LEMMA SentType ==
  ASSUME NEW g \in Pages
  PROVE  \A f \in DOMAIN Sent(g) : f \in Fields \ g.off /\ Sent(g)[f] = g.val[f] /\ g.val[f] \in Values
  BY DEF Sent, Pages

(* The first page is asked for with no controls.                           *)
LEMMA NothingType == DOMAIN Nothing = {}
  BY DEF Nothing

(* set_serial makes an entry of the form and the entry.                    *)
LEMMA StoredType ==
  ASSUME TypeOK, NEW g \in Pages
  PROVE  /\ Stored(g) \in Entries
         /\ Stored(g).mode = g.mode
         /\ \A f \in Fields : Stored(g).val[f] = IF f \in g.off THEN entry.val[f] ELSE g.val[f]
  BY DEF Stored, Entries, Pages, TypeOK

(* Entries of one mode with the same fields are the same.                  *)
LEMMA EntriesEqual ==
  ASSUME NEW d \in Entries, NEW e \in Entries, d.mode = e.mode,
         \A f \in Fields : d.val[f] = e.val[f]
  PROVE  d = e
  <1>1. d.val = e.val
    BY DEF Entries
  <1> QED
    BY <1>1 DEF Entries

(* A browser's page that is gone was submitted.                            *)
LEMMA SubmitIsHandled ==
  ASSUME TypeOK, Next, NEW o \in Operators, Submits(o)
  PROVE  set_serial(o)
  <1>1. ASSUME NEW u \in Operators, NEW m \in Modes, ChangeMode(u, m)
        PROVE  FALSE
    <2>1. page[u] \in Pages
      BY <1>1 DEF ChangeMode, TypeOK
    <2>2. Render(m, Sent(page[u])) \in Pages
      BY <2>1, SentType, RenderType
    <2> QED
      BY <1>1, <2>2, PageIsNotNone DEF ChangeMode, Submits, TypeOK
  <1>2. ASSUME NEW u \in Operators, NEW v \in Values, ChangeLogin(u, v)
        PROVE  FALSE
    <2> DEFINE s == [Sent(page[u]) EXCEPT !["login"] = v]
    <2>1. page[u] \in Pages
      BY <1>2 DEF ChangeLogin, TypeOK
    <2>2. \A f \in (DOMAIN s) \cap Fields : s[f] \in Values
      BY <2>1, SentType DEF Sent
    <2>3. page[u].mode \in Modes
      BY <2>1 DEF Pages
    <2> HIDE DEF s
    <2>4. Render(page[u].mode, s) \in Pages
      BY <2>2, <2>3, RenderType
    <2> QED
      BY <1>2, <2>4, PageIsNotNone DEF ChangeLogin, Submits, TypeOK, s
  <1>3. ASSUME NEW u \in Operators, get_serial(u)
        PROVE  FALSE
    <2>1. entry.mode \in Modes
      BY DEF TypeOK, Entries
    <2>2. Render(entry.mode, Nothing) \in Pages
      BY <2>1, NothingType, RenderType
    <2> QED
      BY <1>3, <2>2, PageIsNotNone DEF get_serial, Submits, TypeOK
  <1>4. ASSUME NEW u \in Operators, NEW f \in Fields, NEW v \in Values, Type(u, f, v)
        PROVE  FALSE
    <2>1. page[u] \in Pages
      BY <1>4 DEF Type, TypeOK
    <2>2. [page[u] EXCEPT !.val[f] = v] \in Pages
      BY <2>1 DEF Pages
    <2> QED
      BY <1>4, <2>2, PageIsNotNone DEF Type, Submits, TypeOK
  <1>5. ASSUME NEW u \in Operators, set_serial(u)
        PROVE  u = o
    BY <1>5 DEF set_serial, Submits, TypeOK
  <1>6. ASSUME DefPort \/ DefFactory \/ set_gpio \/ Serial
        PROVE  FALSE
    BY <1>6 DEF DefPort, DefFactory, Writes, set_gpio, Serial, Submits
  <1> QED
    BY <1>1, <1>2, <1>3, <1>4, <1>5, <1>6 DEF Next
-----------------------------------------------------------------------------
(* The types, and that a page is disabled for what it shows.               *)

PageOK(g) == g \in Pages /\ g.off = Disabled(g.mode, g.val["login"], g.pins)

(* A step that changes one form only.                                      *)
LEMMA OnePage ==
  ASSUME TypeOK, NEW o \in Operators, NEW g, PageOK(g) \/ g = NoPage,
         page' = [page EXCEPT ![o] = g], UNCHANGED <<entry, uart>>,
         plain' \in [Operators -> BOOLEAN]
  PROVE  TypeOK'
  BY DEF TypeOK, PageOK

(* Every step keeps the types, and forms disabled for what they show.      *)
LEMMA TypeStep ==
  ASSUME TypeOK, [Next]_vars
  PROVE  TypeOK'
  <1>1. ASSUME NEW o \in Operators, get_serial(o)
        PROVE  TypeOK'
    <2>1. entry.mode \in Modes
      BY DEF TypeOK, Entries
    <2>2. PageOK(Render(entry.mode, Nothing))
      BY <2>1, NothingType, RenderType DEF PageOK
    <2>3. plain' \in [Operators -> BOOLEAN]
      BY <1>1 DEF get_serial, TypeOK
    <2> QED
      BY <1>1, <2>2, <2>3, OnePage DEF get_serial
  <1>2. ASSUME NEW o \in Operators, NEW m \in Modes, ChangeMode(o, m)
        PROVE  TypeOK'
    <2>1. page[o] \in Pages
      BY <1>2 DEF ChangeMode, TypeOK
    <2>2. PageOK(Render(m, Sent(page[o])))
      BY <2>1, SentType, RenderType DEF PageOK
    <2>3. plain' \in [Operators -> BOOLEAN]
      BY <1>2 DEF ChangeMode, TypeOK
    <2> QED
      BY <1>2, <2>2, <2>3, OnePage DEF ChangeMode
  <1>3. ASSUME NEW o \in Operators, NEW v \in Values, ChangeLogin(o, v)
        PROVE  TypeOK'
    <2> DEFINE s == [Sent(page[o]) EXCEPT !["login"] = v]
    <2>1. page[o] \in Pages /\ page[o].mode \in Modes
      BY <1>3 DEF ChangeLogin, TypeOK, Pages
    <2>2. \A f \in (DOMAIN s) \cap Fields : s[f] \in Values
      BY <2>1, SentType DEF Sent
    <2>3. plain' \in [Operators -> BOOLEAN]
      BY <1>3 DEF ChangeLogin, TypeOK
    <2>4. page' = [page EXCEPT ![o] = Render(page[o].mode, s)]
      BY <1>3 DEF ChangeLogin
    <2> HIDE DEF s
    <2>5. PageOK(Render(page[o].mode, s))
      BY <2>1, <2>2, RenderType DEF PageOK
    <2> QED
      BY <1>3, <2>3, <2>4, <2>5, OnePage DEF ChangeLogin
  <1>4. ASSUME NEW o \in Operators, NEW f \in Fields \ {"ifc", "login"}, NEW v \in Values,
               Type(o, f, v)
        PROVE  TypeOK'
    <2> DEFINE g == [page[o] EXCEPT !.val[f] = v]
    <2>1. PageOK(page[o])
      BY <1>4 DEF Type, TypeOK, PageOK
    <2>2. g \in Pages /\ g.mode = page[o].mode /\ g.off = page[o].off /\ g.pins = page[o].pins
            /\ g.val["login"] = page[o].val["login"]
      BY <2>1 DEF PageOK, Pages
    <2>3. PageOK(g)
      BY <2>1, <2>2 DEF PageOK
    <2>4. plain' \in [Operators -> BOOLEAN]
      BY <1>4 DEF Type, TypeOK
    <2>5. page' = [page EXCEPT ![o] = g]
      BY <1>4 DEF Type
    <2> QED
      BY <1>4, <2>3, <2>4, <2>5, OnePage DEF Type
  <1>5. ASSUME NEW o \in Operators, set_serial(o)
        PROVE  TypeOK'
    <2>1. Stored(page[o]) \in Entries
      BY <1>5, StoredType DEF set_serial, TypeOK
    <2> QED
      BY <1>5, <2>1 DEF set_serial, TypeOK
  <1>6. ASSUME NEW e \in Entries, Writes(e)
        PROVE  TypeOK'
    BY <1>6 DEF Writes, TypeOK
  <1>7. ASSUME DefPort \/ DefFactory
        PROVE  \E e \in Entries : Writes(e)
    <2>1. \A m \in Modes : [entry EXCEPT !.mode = m] \in Entries
      BY DEF TypeOK, Entries
    <2>2. \A f \in Fields, v \in Values : [entry EXCEPT !.val[f] = v] \in Entries
      BY DEF TypeOK, Entries
    <2> QED
      BY <1>7, <2>1, <2>2, FactoryAssumption DEF DefPort, DefFactory
  <1>8. ASSUME set_gpio \/ Serial \/ UNCHANGED vars
        PROVE  TypeOK'
    BY <1>8 DEF set_gpio, Serial, vars, TypeOK
  <1> QED
    BY <1>1, <1>2, <1>3, <1>4, <1>5, <1>6, <1>7, <1>8 DEF Next

(* Entries and pages keep their form, and what is disabled in a browser is *)
(* what getagent.cgi disables for what the page shows.                     *)
THEOREM TypeCorrect == Spec => []TypeOK
  <1>1. Init => TypeOK
    BY FactoryAssumption DEF Init, TypeOK, NoPage
  <1> QED
    BY <1>1, TypeStep, PTL DEF Spec
-----------------------------------------------------------------------------
(* A page that is stored is used as it shows.                              *)
LEMMA StoredIsUsed ==
  ASSUME TypeOK, NEW g, PageOK(g), g.pins
  PROVE  Used(Stored(g)) = Used(g)
  <1>1. g.mode \in Modes /\ g.pins = TRUE
    BY DEF PageOK, Pages
  <1>2. Stored(g).mode = g.mode
    BY StoredType DEF PageOK
  <1>3. ASSUME NEW f \in Uses(g.mode)
        PROVE  Stored(g).val[f] = g.val[f]
    <2>1. f \in Fields \ g.off
      BY <1>1, UsedAreEnabled DEF PageOK
    <2> QED
      BY <2>1, StoredType DEF PageOK
  <1>4. [f \in Uses(g.mode) |-> Stored(g).val[f]] = [f \in Uses(g.mode) |-> g.val[f]]
    BY <1>3
  <1> QED
    BY <1>2, <1>4 DEF Used

(* When a page has been answered, the port is served with what it shows.   *)
THEOREM ShownIsServed == Spec => ServedAsShown
  <1>1. TypeOK /\ [Next]_vars
          => [\A o \in Operators :
                Submits(o) /\ page[o].pins /\ served = Used(entry) => served' = Used(page[o])]_vars
    <2> SUFFICES ASSUME TypeOK, Next, NEW o \in Operators, Submits(o), page[o].pins,
                        served = Used(entry)
                 PROVE  served' = Used(page[o])
      OBVIOUS
    <2> DEFINE g == page[o]
    <2>1. set_serial(o) /\ PageOK(g)
      BY SubmitIsHandled DEF Submits, TypeOK, PageOK
    <2>2. Used(Stored(g)) = Used(g)
      BY <2>1, StoredIsUsed
    <2>3. CASE Differs(Stored(g))
      BY <2>1, <2>2, <2>3 DEF set_serial
    <2>4. CASE ~Differs(Stored(g))
      <3>1. Stored(g) \in Entries /\ entry \in Entries
        BY <2>1, StoredType DEF TypeOK, PageOK
      <3>2. Stored(g) = entry
        BY <2>4, <3>1, EntriesEqual DEF Differs
      <3> QED
        BY <2>1, <2>2, <2>4, <3>2 DEF set_serial
    <2> QED
      BY <2>3, <2>4
  <1> QED
    BY <1>1, TypeCorrect, PTL DEF Spec, ServedAsShown
-----------------------------------------------------------------------------
(* A page nobody has typed into shows the entry, but for the two controls  *)
(* whose choice asks for another page and the interface.                   *)
LooksAt(g, e) == \A f \in Fields \ {"ifc", "login"} : g.val[f] = e.val[f]

PlainShows ==
  \A o \in Operators :
    page[o] # NoPage => /\ page[o].val["ifc"] = SB_RS232
                        /\ plain[o] => LooksAt(page[o], entry)

(* Every step keeps the forms nobody has typed in true to the entry.       *)
LEMMA PlainStep ==
  ASSUME TypeOK, PlainShows, [Next]_vars
  PROVE  PlainShows'
  <1> SUFFICES ASSUME NEW o \in Operators, (page[o] # NoPage)'
               PROVE  /\ page'[o].val["ifc"] = SB_RS232
                      /\ plain'[o] => LooksAt(page'[o], entry')
    BY DEF PlainShows
  <1> USE DEF LooksAt
  <1>1. ASSUME NEW u \in Operators, get_serial(u)
        PROVE  /\ page'[o].val["ifc"] = SB_RS232
               /\ plain'[o] => LooksAt(page'[o], entry')
    <2>1. entry.mode \in Modes
      BY DEF TypeOK, Entries
    <2>2. \A f \in Fields : Render(entry.mode, Nothing).val[f] = IF f = "ifc" THEN SB_RS232 ELSE entry.val[f]
      BY <2>1, NothingType, RenderType DEF Shown
    <2>3. "ifc" \in Fields
      BY DEF Fields
    <2>4. CASE o = u
      BY <1>1, <2>2, <2>3, <2>4 DEF get_serial, TypeOK
    <2>5. CASE o # u
      BY <1>1, <2>5 DEF get_serial, TypeOK, PlainShows
    <2> QED
      BY <2>4, <2>5
  <1>2. ASSUME NEW u \in Operators, NEW m \in Modes, ChangeMode(u, m)
        PROVE  /\ page'[o].val["ifc"] = SB_RS232
               /\ plain'[o] => LooksAt(page'[o], entry')
    <2>1. page[u] \in Pages
      BY <1>2 DEF ChangeMode, TypeOK
    <2> DEFINE s == Sent(page[u])
    <2>2. \A f \in DOMAIN s : s[f] = page[u].val[f] /\ s[f] \in Values
      BY <2>1, SentType
    <2>3. "ifc" \in Fields
      BY DEF Fields
    <2>4. page' = [page EXCEPT ![u] = Render(m, s)]
      BY <1>2 DEF ChangeMode
    <2> HIDE DEF s
    <2>5. \A f \in Fields : Render(m, s).val[f] = Shown(f, s)
      BY <2>2, RenderType
    <2>6. CASE o = u
      <3>1. page'[o] = Render(m, s) /\ plain' = plain /\ entry' = entry
        BY <1>2, <2>4, <2>6 DEF ChangeMode, TypeOK
      <3>2. page'[o].val["ifc"] = SB_RS232
        BY <2>3, <2>5, <3>1 DEF Shown
      <3>3. ASSUME plain[o], NEW f \in Fields \ {"ifc", "login"}
            PROVE  page'[o].val[f] = entry.val[f]
        <4>1. page[u].val[f] = entry.val[f]
          BY <1>2, <2>6, <3>3 DEF PlainShows, ChangeMode
        <4> QED
          BY <2>2, <2>5, <3>1, <4>1 DEF Shown
      <3> QED
        BY <3>1, <3>2, <3>3
    <2>7. CASE o # u
      BY <1>2, <2>7 DEF ChangeMode, TypeOK, PlainShows
    <2> QED
      BY <2>6, <2>7
  <1>3. ASSUME NEW u \in Operators, NEW v \in Values, ChangeLogin(u, v)
        PROVE  /\ page'[o].val["ifc"] = SB_RS232
               /\ plain'[o] => LooksAt(page'[o], entry')
    <2>1. page[u] \in Pages /\ page[u].mode \in Modes
      BY <1>3 DEF ChangeLogin, TypeOK, Pages
    <2> DEFINE s == [Sent(page[u]) EXCEPT !["login"] = v]
    <2>2. \A f \in DOMAIN s : s[f] \in Values /\ (f # "login" => s[f] = page[u].val[f])
      BY <2>1, SentType DEF Sent
    <2>3. "ifc" \in Fields
      BY DEF Fields
    <2>4. page' = [page EXCEPT ![u] = Render(page[u].mode, s)]
      BY <1>3 DEF ChangeLogin
    <2> HIDE DEF s
    <2>5. \A f \in Fields : Render(page[u].mode, s).val[f] = Shown(f, s)
      BY <2>1, <2>2, RenderType
    <2>6. CASE o = u
      <3>1. page'[o] = Render(page[u].mode, s) /\ plain' = plain /\ entry' = entry
        BY <1>3, <2>4, <2>6 DEF ChangeLogin, TypeOK
      <3>2. page'[o].val["ifc"] = SB_RS232
        BY <2>3, <2>5, <3>1 DEF Shown
      <3>3. ASSUME plain[o], NEW f \in Fields \ {"ifc", "login"}
            PROVE  page'[o].val[f] = entry.val[f]
        <4>1. page[u].val[f] = entry.val[f]
          BY <1>3, <2>6, <3>3 DEF PlainShows, ChangeLogin
        <4> QED
          BY <2>2, <2>5, <3>1, <4>1 DEF Shown
      <3> QED
        BY <3>1, <3>2, <3>3
    <2>7. CASE o # u
      BY <1>3, <2>7 DEF ChangeLogin, TypeOK, PlainShows
    <2> QED
      BY <2>6, <2>7
  <1>4. ASSUME NEW u \in Operators, NEW f \in Fields \ {"ifc", "login"}, NEW v \in Values,
               Type(u, f, v)
        PROVE  /\ page'[o].val["ifc"] = SB_RS232
               /\ plain'[o] => LooksAt(page'[o], entry')
    <2>1. CASE o = u
      <3>1. page[u] \in Pages /\ page[u].val["ifc"] = SB_RS232
        BY <1>4 DEF Type, TypeOK, PlainShows
      <3>2. page'[o].val["ifc"] = SB_RS232
        BY <1>4, <2>1, <3>1 DEF Type, TypeOK, Pages
      <3>3. ~plain'[o]
        BY <1>4, <2>1 DEF Type, TypeOK
      <3> QED
        BY <3>2, <3>3
    <2>2. CASE o # u
      BY <1>4, <2>2 DEF Type, TypeOK, PlainShows
    <2> QED
      BY <2>1, <2>2
  <1>5. ASSUME NEW u \in Operators, set_serial(u)
        PROVE  /\ page'[o].val["ifc"] = SB_RS232
               /\ plain'[o] => LooksAt(page'[o], entry')
    <2>1. o # u /\ page'[o] = page[o]
      BY <1>5 DEF set_serial, TypeOK
    <2>2. plain'[o] => plain[o] /\ entry' = entry
      BY <1>5 DEF set_serial, TypeOK
    <2> QED
      BY <2>1, <2>2 DEF PlainShows
  <1>6. ASSUME NEW e, Writes(e)
        PROVE  /\ page'[o].val["ifc"] = SB_RS232
               /\ plain'[o] => LooksAt(page'[o], entry')
    <2>1. page' = page /\ (plain'[o] => plain[o] /\ entry' = entry)
      BY <1>6 DEF Writes, TypeOK
    <2> QED
      BY <2>1 DEF PlainShows
  <1>7. ASSUME set_gpio \/ Serial \/ UNCHANGED vars
        PROVE  /\ page'[o].val["ifc"] = SB_RS232
               /\ plain'[o] => LooksAt(page'[o], entry')
    BY <1>7 DEF set_gpio, Serial, vars, PlainShows
  <1> QED
    BY <1>1, <1>2, <1>3, <1>4, <1>5, <1>6, <1>7 DEF Next, DefPort, DefFactory

(* A form nobody has typed in shows the entry.                             *)
LEMMA PlainAlways == Spec => []PlainShows
  <1>1. Init => PlainShows
    BY DEF Init, PlainShows
  <1> QED
    BY <1>1, PlainStep, TypeCorrect, PTL DEF Spec

(* Looking at other pages and coming back leaves the entry and the port as *)
(* they are.                                                               *)
THEOREM LookingAroundIsFree == Spec => LookingAround
  <1>1. TypeOK /\ PlainShows /\ [Next]_vars
          => [\A o \in Operators :
                /\ Submits(o) /\ plain[o]
                /\ page[o].mode = entry.mode
                /\ page[o].val["login"] = entry.val["login"]
                /\ entry.val["ifc"] = SB_RS232
                => entry' = entry /\ served' = served]_vars
    <2> SUFFICES ASSUME TypeOK, PlainShows, Next, NEW o \in Operators, Submits(o), plain[o],
                        page[o].mode = entry.mode,
                        page[o].val["login"] = entry.val["login"],
                        entry.val["ifc"] = SB_RS232
                 PROVE  entry' = entry /\ served' = served
      OBVIOUS
    <2> DEFINE g == page[o]
    <2>1. set_serial(o) /\ g \in Pages /\ entry \in Entries
      BY SubmitIsHandled DEF Submits, TypeOK
    <2>2. \A f \in Fields : g.val[f] = entry.val[f]
      BY DEF PlainShows, LooksAt, Submits
    <2>3. Stored(g) \in Entries /\ Stored(g).mode = entry.mode
            /\ \A f \in Fields : Stored(g).val[f] = entry.val[f]
      BY <2>1, <2>2, StoredType
    <2>4. Stored(g) = entry
      BY <2>1, <2>3, EntriesEqual
    <2>5. ~Differs(Stored(g))
      BY <2>3 DEF Differs
    <2> QED
      BY <2>1, <2>4, <2>5 DEF set_serial
  <1> QED
    BY <1>1, TypeCorrect, PlainAlways, PTL DEF Spec, LookingAround
=============================================================================
