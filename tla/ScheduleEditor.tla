--------------------------- MODULE ScheduleEditor ---------------------------
(***************************************************************************)
(* The schedule editor of the hub's job pages: a page is opened for a      *)
(* stored cron expression, the script parses it into panels of tabs, boxes *)
(* and inputs, each click rewrites the expression and the hidden inputs of *)
(* the form, and saving the form stores those inputs.                      *)
(*                                                                         *)
(* A text is one field of an expression, kept as what it says rather than  *)
(* as characters.  The click handlers of Bootstrap's tabs and buttons run  *)
(* with those of the editor and are part of its actions.                   *)
(***************************************************************************)
EXTENDS Integers, FiniteSets

CONSTANTS
  Parts,        \* the fields of an expression: minute, hour, ...
  EveryNParts,  \* those whose panel has a tab "every n": minute and hour
  Boxes,        \* values of the check boxes in each field's panel
  Numbers,      \* what may be typed into an input of a tab "every n"
  MaxNumber,    \* the greatest value such an input accepts
  Specials,     \* the special expressions with a radio button
  Hourly,       \* the one chosen when none is
  NoSpecial,    \* the empty input "special"
  Stored        \* expressions a page may be opened for

\* An empty number input, and the value the inputs are rendered with.
Blank == -1
DefaultNumber == 5

ASSUME EditorAssumption ==
  /\ EveryNParts \subseteq Parts
  /\ Boxes \in [Parts -> SUBSET Nat]
  /\ Numbers \subseteq Nat /\ MaxNumber \in Nat
  /\ Hourly \in Specials /\ NoSpecial \notin Specials

VARIABLES
  page,      \* "closed", "view" or "edit"
  stored,    \* the expression in the database
  watching,  \* the script has got through init
  schedule,  \* Schedule._schedule
  tab,       \* the active tab of each field's panel
  checked,   \* the boxes that are checked in each panel
  active,    \* the boxes whose label is highlighted
  number,    \* the value of each panel's number input
  radios,    \* the radio buttons that are checked: they form no group
  lit,       \* the radio buttons whose label is highlighted
  form       \* the expression in the form's inputs

guiVars == <<tab, checked, active, number, radios, lit>>
vars == <<page, stored, watching, schedule, guiVars, form>>

-----------------------------------------------------------------------------
\* Expressions

Kinds == {"", "*", "*/n", "a,b", "jan,feb", "a-b", "jan-feb", "a-b/n"}
Texts == [kind : Kinds, items : SUBSET Nat, n : Nat \cup {Blank}]

Text(kind, items, n) == [kind |-> kind, items |-> items, n |-> n]

Nothing == Text("", {}, 0)
Star == Text("*", {}, 0)
Step(n) == Text("*/n", {}, n)
List(items) == Text("a,b", items, 0)
Names(items) == Text("jan,feb", items, 0)
Span(items) == Text("a-b", items, 0)
NamedSpan(items) == Text("jan-feb", items, 0)
SpanStep(items, n) == Text("a-b/n", items, n)

Least(S) == CHOOSE i \in S : \A j \in S : i <= j

\* The type parse gives a field, or "unknown" where it throws.
Type(text) ==
  CASE text.kind = "*" -> "every"
    [] text.kind = "*/n" /\ text.n # Blank -> "every-n"
    [] text.kind = "a-b/n" -> "each-range-step"
    [] text.kind = "a,b" /\ Cardinality(text.items) = 1 -> "each"
    [] text.kind \in {"a,b", "jan,feb"} /\ Cardinality(text.items) > 1 -> "each-csv"
    [] text.kind \in {"a-b", "jan-feb"} -> "each-range"
    [] OTHER -> "unknown"

Normal(parts) == [special |-> NoSpecial, parts |-> parts]
Special(s) == [special |-> s, parts |-> [p \in Parts |-> Nothing]]

\* Schedule.format makes a text of fields or of a special expression alone.
ASSUME StoredAssumption ==
  \A e \in Stored : \/ e = Special(e.special)
                    \/ e = Normal(e.parts) /\ e.parts \in [Parts -> Texts]

IsSpecial(expression) == expression.special # NoSpecial

Formatted(s) == IF s.type = "special" THEN Special(s.special) ELSE Normal(s.parts)

Parses(expression) ==
  IsSpecial(expression) \/ \A p \in Parts : Type(expression.parts[p]) # "unknown"

\* The numbers whose boxes are checked when the page opens: names are looked up
\* in a list of single names, parseInt makes nothing of a range of names.
Selected(text) ==
  CASE Type(text) = "each-range-step" -> {i \in text.items : i % text.n = 0}
    [] text.kind = "jan-feb" -> {}
    [] OTHER -> text.items

\* What cron makes of a text: the values of the field at which it fires.
Meaning(p, text) ==
  CASE text.kind = "*" -> Boxes[p]
    [] text.kind = "*/n" ->
         IF text.n < 1 THEN {}
           ELSE {i \in Boxes[p] : (i - Least(Boxes[p])) % text.n = 0}
    [] text.kind = "a-b/n" ->
         {i \in text.items : (i - Least(text.items)) % text.n = 0}
    [] OTHER -> text.items

-----------------------------------------------------------------------------
\* Opening a page

DefaultSchedule ==
  [type |-> "normal", special |-> Hourly, parts |-> [p \in Parts |-> Star]]

Parsed(expression) ==
  IF IsSpecial(expression)
    THEN [DefaultSchedule EXCEPT !.type = "special", !.special = expression.special]
    ELSE [DefaultSchedule EXCEPT !.parts = expression.parts]

\* The tab that opens for a text; a panel without a tab "every n" has the tab of
\* the boxes in its place.
TabFor(p, text) ==
  CASE Type(text) = "every" -> "every"
    [] Type(text) = "every-n" /\ p \in EveryNParts -> "every-n"
    [] OTHER -> "each"

Ticks(p, text) ==
  IF Type(text) \in {"every", "every-n"} THEN {} ELSE Selected(text) \cap Boxes[p]

\* The panels as the server renders them.
RenderPanels ==
  /\ tab' = [p \in Parts |-> "every"]
  /\ checked' = [p \in Parts |-> {}] /\ active' = [p \in Parts |-> {}]
  /\ number' = [p \in EveryNParts |-> DefaultNumber]
  /\ radios' = {} /\ lit' = {}

\* _updateGui
UpdateGui ==
  IF IsSpecial(stored)
    THEN /\ radios' = {stored.special} \cap Specials
         /\ lit' = {stored.special} \cap Specials
         /\ tab' = [p \in Parts |-> "every"]
         /\ checked' = [p \in Parts |-> {}] /\ active' = [p \in Parts |-> {}]
         /\ number' = [p \in EveryNParts |-> DefaultNumber]
    ELSE /\ tab' = [p \in Parts |-> TabFor(p, stored.parts[p])]
         /\ checked' = [p \in Parts |-> Ticks(p, stored.parts[p])]
         /\ active' = checked'
         /\ number' = [p \in EveryNParts |->
                         IF Type(stored.parts[p]) = "every-n"
                           THEN stored.parts[p].n ELSE DefaultNumber]
         /\ radios' = {} /\ lit' = {}

\* init throws where parse does: the page stays as rendered and nothing watches
\* it, and what parse had set by then is never read.
Open(mode) ==
  /\ page = "closed"
  /\ page' = mode
  /\ form' = stored
  /\ watching' = Parses(stored)
  /\ IF Parses(stored)
       THEN schedule' = Parsed(stored) /\ UpdateGui
       ELSE schedule' = DefaultSchedule /\ RenderPanels
  /\ UNCHANGED stored

\* The page is gone and its script with it.
Close(expression) ==
  /\ page' = "closed" /\ watching' = FALSE
  /\ stored' = expression /\ form' = expression
  /\ schedule' = DefaultSchedule /\ RenderPanels

Leave == page # "closed" /\ Close(stored)

-----------------------------------------------------------------------------
\* The user's events on an open page

\* What the tab of a panel says, from its boxes and its input.
TabText(t, boxes, n) ==
  CASE t = "every" -> Star
    [] t = "every-n" -> Step(n)
    [] t = "each" -> IF boxes = {} THEN Star ELSE List(boxes)

NumberOf(p) == IF p \in EveryNParts THEN number[p] ELSE Blank

\* What a click on the header of a panel would make of its field.
Shown(p) == TabText(tab[p], checked[p], NumberOf(p))

Editing == page = "edit" /\ watching

\* Faulty variant: the form is written before the expression is parsed.
Store_eager(s) ==
  /\ schedule' = s
  /\ form' = Formatted(s)

\* Faulty variant: the inputs are not emptied first.
Store_merged(s) ==
  /\ schedule' = s
  /\ form' = IF Parses(Formatted(s))
               THEN [Formatted(s) EXCEPT
                       !.special = IF s.type = "special" THEN @ ELSE form.special]
               ELSE form

\* The end of _onUpdate: where parse throws, the schedule has been changed and
\* the form has not.
Store(s) ==
  /\ schedule' = s
  /\ form' = IF Parses(Formatted(s)) THEN Formatted(s) ELSE form

WithPart(p, text) == [schedule EXCEPT !.type = "normal", !.parts[p] = text]

UpdatePart(p, text) == Store(WithPart(p, text))

UpdateSpecial(s) ==
  Store([schedule EXCEPT !.type = "special", !.special = s])

\* Faulty variant: the field is read from the tab that is active before the click.
ClickTab_stale(p, t) ==
  /\ Editing
  /\ UpdatePart(p, Shown(p))
  /\ tab' = [tab EXCEPT ![p] = t]
  /\ UNCHANGED <<page, stored, watching, checked, active, number, radios, lit>>

\* The editor's handler goes by the link, then Bootstrap shows its tab, even if
\* the editor's has thrown.
ClickTab(p, t) ==
  /\ Editing
  /\ t = "every-n" => p \in EveryNParts
  /\ UpdatePart(p, TabText(t, checked[p], NumberOf(p)))
  /\ tab' = [tab EXCEPT ![p] = t]
  /\ UNCHANGED <<page, stored, watching, checked, active, number, radios, lit>>

ClickHeader(p) ==
  /\ Editing
  /\ UpdatePart(p, Shown(p))
  /\ UNCHANGED <<page, stored, watching, guiVars>>

\* Button.toggle: the label turns, the box follows it, and a change is announced
\* unless box and label differed.  If _onUpdate throws, the click is not kept from
\* the browser, which clicks the box itself: label and box turn back, and the
\* change it announces is written and throws again.
ClickBox(p, i) ==
  LET turned == IF i \in active[p] THEN active[p] \ {i} ELSE active[p] \cup {i}
      boxes == (checked[p] \ {i}) \cup (turned \cap {i})
      text == TabText("each", boxes, Blank)
      announced == i \in checked[p] <=> i \in active[p]
      throws == announced /\ ~Parses(Formatted(WithPart(p, text)))
  IN  /\ Editing /\ tab[p] = "each"
      /\ \/ /\ ~throws
            /\ active' = [active EXCEPT ![p] = turned]
            /\ checked' = [checked EXCEPT ![p] = boxes]
            /\ IF announced THEN UpdatePart(p, text) ELSE UNCHANGED <<schedule, form>>
         \/ /\ throws
            /\ UpdatePart(p, TabText("each", checked[p], Blank))
            /\ UNCHANGED <<checked, active>>
      /\ UNCHANGED <<page, stored, watching, tab, number, radios, lit>>

TypeNumber(p, n) ==
  /\ Editing /\ tab[p] = "every-n" /\ n # number[p]
  /\ number' = [number EXCEPT ![p] = n]
  /\ UpdatePart(p, Step(n))
  /\ UNCHANGED <<page, stored, watching, tab, checked, active, radios, lit>>

\* Faulty variant: the default is highlighted but not checked.
ClickSpecial_unchecked ==
  /\ Editing
  /\ IF lit = {}
       THEN UpdateSpecial(Hourly) /\ lit' = {Hourly} /\ UNCHANGED radios
       ELSE UpdateSpecial(CHOOSE s \in lit : TRUE) /\ UNCHANGED <<radios, lit>>
  /\ UNCHANGED <<page, stored, watching, tab, checked, active, number>>

\* The header of the special panel, or its one tab.
ClickSpecial ==
  /\ Editing
  /\ IF lit = {}
       THEN /\ UpdateSpecial(Hourly)
            /\ radios' = radios \cup {Hourly} /\ lit' = {Hourly}
       ELSE UpdateSpecial(CHOOSE s \in lit : TRUE) /\ UNCHANGED <<radios, lit>>
  /\ UNCHANGED <<page, stored, watching, tab, checked, active, number>>

\* Button.toggle: a radio button that is still checked announces no change.
ClickRadio(s) ==
  /\ Editing
  /\ lit' = {s} /\ radios' = radios \cup {s}
  /\ IF s \in radios THEN UNCHANGED <<schedule, form>> ELSE UpdateSpecial(s)
  /\ UNCHANGED <<page, stored, watching, tab, checked, active, number>>

\* A page that is only viewed refuses every click, but not what is typed.
TypeInView(p, n) ==
  /\ page = "view" /\ tab[p] = "every-n"
  /\ number' = [number EXCEPT ![p] = n]
  /\ UNCHANGED <<page, stored, watching, schedule, tab, checked, active,
                 radios, lit, form>>

\* The browser submits the form once every number input is empty or in range.
Save ==
  /\ page = "edit"
  /\ \A p \in EveryNParts : number[p] \in (1..MaxNumber) \cup {Blank}
  /\ Close(form)

-----------------------------------------------------------------------------
Init ==
  /\ page = "closed" /\ stored \in Stored /\ form = stored
  /\ watching = FALSE /\ schedule = DefaultSchedule
  /\ tab = [p \in Parts |-> "every"]
  /\ checked = [p \in Parts |-> {}] /\ active = [p \in Parts |-> {}]
  /\ number = [p \in EveryNParts |-> DefaultNumber]
  /\ radios = {} /\ lit = {}

User ==
  \/ \E mode \in {"view", "edit"} : Open(mode)
  \/ \E p \in Parts : ClickHeader(p)
  \/ \E p \in Parts, t \in {"every", "every-n", "each"} : ClickTab(p, t)
  \/ \E p \in Parts : \E i \in Boxes[p] : ClickBox(p, i)
  \/ \E p \in EveryNParts, n \in Numbers \cup {Blank} :
       TypeNumber(p, n) \/ TypeInView(p, n)
  \/ ClickSpecial
  \/ \E s \in Specials : ClickRadio(s)
  \/ Save
  \/ Leave

Next == User

Spec == Init /\ [][Next]_vars

-----------------------------------------------------------------------------
\* Properties

\* Every variable has its type. For boxes and radio buttons that says more: a
\* label is highlighted exactly when its box is checked, at most one special
\* expression is, and its button is checked.
TypeOK ==
  LET SpecialTexts == Specials \cup {NoSpecial} \cup {e.special : e \in Stored}
  IN  /\ page \in {"closed", "view", "edit"} /\ watching \in BOOLEAN
      /\ {stored, form} \subseteq [special : SpecialTexts, parts : [Parts -> Texts]]
      /\ schedule \in [type : {"normal", "special"}, special : SpecialTexts,
                       parts : [Parts -> Texts]]
      /\ tab \in [Parts -> {"every", "every-n", "each"}]
      /\ \A p \in Parts : tab[p] = "every-n" => p \in EveryNParts
      /\ number \in [EveryNParts -> Nat \cup {Blank}]
      /\ checked \in [Parts -> SUBSET Nat] /\ active = checked
      /\ \A p \in Parts : checked[p] \subseteq Boxes[p]
      /\ lit \subseteq radios /\ radios \subseteq Specials /\ Cardinality(lit) <= 1

\* While a page is edited the inputs of the form hold the expression the editor
\* holds, wherever that expression can be parsed (schedules.js:450-451).
FormIsSchedule ==
  Editing /\ Parses(Formatted(schedule)) => form = Formatted(schedule)

\* A text that its panel can show: as a tab, an input or boxes.
Showable(p, text) ==
  CASE text.kind = "*/n" -> p \in EveryNParts
    [] text.kind = "a-b" -> text.items # {} /\ text.items \subseteq Boxes[p]
    [] text.kind = "a-b/n" -> /\ text.items # {} /\ text.n > 0
                              /\ Least(text.items) % text.n = 0
                              /\ Meaning(p, text) \subseteq Boxes[p]
    [] text.kind = "jan-feb" -> FALSE
    [] OTHER -> text.items \subseteq Boxes[p]

AllShowable(expression) == \A p \in Parts : Showable(p, expression.parts[p])

\* If a page was opened for an expression its panels can show, what the active tab
\* of each panel shows always fires when its field does.  So to open a panel, which
\* writes what its tab shows, never changes when a field fires (schedules.js:205).
PanelsShowSchedule ==
  Editing /\ AllShowable(stored) =>
    \A p \in Parts : Meaning(p, Shown(p)) = Meaning(p, schedule.parts[p])

\* Saving never stores an expression that the editor could not parse, if it could
\* the one before, nor one that the panels could not show, if they could the one
\* before, whatever was typed and thrown on the way (schedules.js:166, 450).
SavedSchedulesOpen ==
  [][/\ Parses(stored) => Parses(stored')
     /\ AllShowable(stored) => AllShowable(stored')]_stored
=============================================================================
