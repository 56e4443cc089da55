------------------------ MODULE ScheduleEditorProofs ------------------------
(***************************************************************************)
(* What the schedule editor promises for all fields, boxes, numbers and    *)
(* stored expressions.                                                     *)
(***************************************************************************)
EXTENDS ScheduleEditor, FiniteSetTheorems, TLAPS

-----------------------------------------------------------------------------
\* The inductive invariant

\* An expression is one of fields or a special one alone, as Schedule.format and
\* the editor write it (models/schedule.rb:19-27).
WellFormed(e) == e = Special(e.special) \/ e = Normal(e.parts)

Formed == WellFormed(stored) /\ WellFormed(form)

\* While a page is edited the form holds something that can be opened again.
FormOpens == page = "edit" /\ Parses(stored) => Parses(form)

\* While a page is edited the panels can show what the editor and the form hold.
StaysShowable ==
  page = "edit" /\ AllShowable(stored) => AllShowable(schedule) /\ AllShowable(form)

Inv == /\ TypeOK /\ Formed /\ FormOpens /\ FormIsSchedule
       /\ PanelsShowSchedule /\ StaysShowable

\* The types of TypeOK by name.
SpecialTexts == Specials \cup {NoSpecial} \cup {e.special : e \in Stored}
Expressions == [special : SpecialTexts, parts : [Parts -> Texts]]
Schedules == [type : {"normal", "special"}, special : SpecialTexts,
              parts : [Parts -> Texts]]

\* Labels, boxes and radio buttons, apart from the rest of TypeOK.
Buttons ==
  /\ checked \in [Parts -> SUBSET Nat] /\ active = checked
  /\ \A p \in Parts : checked[p] \subseteq Boxes[p]
  /\ lit \subseteq radios /\ radios \subseteq Specials /\ Cardinality(lit) <= 1

\* The part of TypeOK that says which values there are.
Typed ==
  /\ page \in {"closed", "view", "edit"} /\ watching \in BOOLEAN
  /\ {stored, form} \subseteq Expressions
  /\ schedule \in Schedules
  /\ tab \in [Parts -> {"every", "every-n", "each"}]
  /\ \A p \in Parts : tab[p] = "every-n" => p \in EveryNParts
  /\ number \in [EveryNParts -> Nat \cup {Blank}]

LEMMA TypeParts == TypeOK <=> Typed /\ Buttons
BY DEF TypeOK, Typed, Buttons, SpecialTexts, Expressions, Schedules

-----------------------------------------------------------------------------
\* Lemmas about texts and expressions

LEMMA TextTyped ==
  ASSUME NEW items \in SUBSET Nat, NEW n \in Nat \cup {Blank}
  PROVE  /\ {Nothing, Star, Step(n), List(items)} \subseteq Texts
         /\ Step(n).kind = "*/n" /\ Step(n).n = n
         /\ List(items).kind = "a,b" /\ List(items).items = items
         /\ Star.kind = "*" /\ Nothing.kind = "" /\ Nothing.items = {}
BY DEF Nothing, Star, Step, List, Text, Texts, Kinds, Blank

\* What a tab says is a text.
LEMMA TabTextTyped ==
  ASSUME NEW t \in {"every", "every-n", "each"}, NEW boxes \in SUBSET Nat,
         NEW n \in Nat \cup {Blank}
  PROVE  TabText(t, boxes, n) \in Texts
BY TextTyped DEF TabText

LEMMA SpecialTyped ==
  ASSUME NEW s \in SpecialTexts
  PROVE  Special(s) \in Expressions /\ WellFormed(Special(s))
<1>1. Nothing \in Texts
  BY TextTyped DEF Blank
<1> QED
  BY <1>1 DEF Special, Expressions, WellFormed

LEMMA NormalTyped ==
  ASSUME NEW parts \in [Parts -> Texts]
  PROVE  Normal(parts) \in Expressions /\ WellFormed(Normal(parts))
<1>1. NoSpecial \in SpecialTexts
  BY DEF SpecialTexts
<1> QED
  BY <1>1 DEF Normal, Expressions, WellFormed

LEMMA FormattedTyped ==
  ASSUME NEW s \in Schedules
  PROVE  Formatted(s) \in Expressions /\ WellFormed(Formatted(s))
BY SpecialTyped, NormalTyped DEF Formatted, Schedules

\* Every stored expression is one.
LEMMA StoredTyped ==
  ASSUME NEW e \in Stored
  PROVE  e \in Expressions /\ WellFormed(e)
<1>1. e.special \in SpecialTexts
  BY DEF SpecialTexts
<1>2. CASE e = Special(e.special)
  <2>1. Special(e.special) \in Expressions /\ WellFormed(Special(e.special))
    BY <1>1, SpecialTyped
  <2> QED
    BY <1>2, <2>1
<1>3. CASE e = Normal(e.parts) /\ e.parts \in [Parts -> Texts]
  <2>1. Normal(e.parts) \in Expressions /\ WellFormed(Normal(e.parts))
    BY <1>3, NormalTyped
  <2> QED
    BY <1>3, <2>1
<1> QED
  BY <1>2, <1>3, StoredAssumption

\* Parsing and formatting an expression gives it back.
LEMMA ParsedIsFormatted ==
  ASSUME NEW e \in Expressions, WellFormed(e)
  PROVE  Parsed(e) \in Schedules /\ Formatted(Parsed(e)) = e
<1>1. /\ DefaultSchedule \in Schedules
      /\ e.special \in SpecialTexts /\ e.parts \in [Parts -> Texts]
  BY TextTyped, EditorAssumption
  DEF DefaultSchedule, Schedules, SpecialTexts, Expressions, Blank
<1>2. CASE IsSpecial(e)
  <2>1. e = Special(e.special)
    BY <1>2 DEF WellFormed, IsSpecial, Normal
  <2>2. /\ Parsed(e) \in Schedules
        /\ Parsed(e).type = "special" /\ Parsed(e).special = e.special
    BY <1>1, <1>2 DEF Parsed, Schedules
  <2> QED
    BY <2>1, <2>2 DEF Formatted
<1>3. CASE ~IsSpecial(e)
  <2>1. e = Normal(e.parts)
    BY <1>3 DEF WellFormed, IsSpecial, Normal, Special
  <2>2. /\ Parsed(e) \in Schedules
        /\ Parsed(e).type = "normal" /\ Parsed(e).parts = e.parts
    BY <1>1, <1>3 DEF Parsed, Schedules, DefaultSchedule
  <2> QED
    BY <2>1, <2>2 DEF Formatted
<1> QED
  BY <1>2, <1>3

-----------------------------------------------------------------------------
\* What a click makes of the schedule and of the form

\* A step of _onUpdate: form and schedule stay in their types, the form stays one
\* that parses and it follows the schedule as far as that parses.
Keeps ==
  /\ Editing /\ UNCHANGED <<page, stored, watching>>
  /\ schedule' \in Schedules /\ form' \in Expressions /\ WellFormed(form')
  /\ Parses(form) => Parses(form')
  /\ Parses(Formatted(schedule')) => form' = Formatted(schedule')

LEMMA StoreKeeps ==
  ASSUME Typed, Formed, Editing, UNCHANGED <<page, stored, watching>>,
         NEW s \in Schedules, Store(s)
  PROVE  Keeps /\ schedule' = s
<1>1. schedule' = s /\ form' = IF Parses(Formatted(s)) THEN Formatted(s) ELSE form
  BY DEF Store
<1>2. Formatted(s) \in Expressions /\ WellFormed(Formatted(s))
  BY FormattedTyped
<1>3. form \in Expressions /\ WellFormed(form)
  BY DEF Typed, Formed
<1> QED
  BY <1>1, <1>2, <1>3 DEF Keeps

LEMMA UpdatePartKeeps ==
  ASSUME Typed, Formed, Editing, UNCHANGED <<page, stored, watching>>,
         NEW p \in Parts, NEW text \in Texts, UpdatePart(p, text)
  PROVE  /\ Keeps /\ schedule'.parts \in [Parts -> Texts]
         /\ schedule'.parts[p] = text
         /\ \A q \in Parts : q # p => schedule'.parts[q] = schedule.parts[q]
<1> DEFINE s == WithPart(p, text)
<1>1. /\ s \in Schedules /\ s.parts \in [Parts -> Texts] /\ s.parts[p] = text
      /\ \A q \in Parts : q # p => s.parts[q] = schedule.parts[q]
  BY DEF Typed, Schedules, WithPart
<1>2. Store(s)
  BY DEF UpdatePart
<1> HIDE DEF s
<1> QED
  BY <1>1, <1>2, StoreKeeps

LEMMA UpdateSpecialKeeps ==
  ASSUME Typed, Formed, Editing, UNCHANGED <<page, stored, watching>>,
         NEW x \in Specials, UpdateSpecial(x)
  PROVE  Keeps /\ schedule'.parts = schedule.parts
<1> DEFINE s == [schedule EXCEPT !.type = "special", !.special = x]
<1>1. s \in Schedules /\ s.parts = schedule.parts
  BY DEF Typed, Schedules, SpecialTexts
<1>2. Store(s)
  BY DEF UpdateSpecial
<1> HIDE DEF s
<1> QED
  BY <1>1, <1>2, StoreKeeps

LEMMA SameKeeps ==
  ASSUME Typed, Formed, FormIsSchedule, Editing,
         UNCHANGED <<page, stored, watching, schedule, form>>
  PROVE  Keeps
BY DEF Keeps, FormIsSchedule, Typed, Formed

\* What a tab of a panel would write is a text.
LEMMA ShownTyped ==
  ASSUME TypeOK, NEW p \in Parts
  PROVE  /\ Shown(p) \in Texts
         /\ \A t \in {"every", "every-n", "each"} :
              TabText(t, checked[p], NumberOf(p)) \in Texts
<1>1. Boxes[p] \subseteq Nat
  BY EditorAssumption
<1>2. checked[p] \in SUBSET Nat /\ tab[p] \in {"every", "every-n", "each"}
  BY <1>1, TypeParts DEF Typed, Buttons
<1>3. NumberOf(p) \in Nat \cup {Blank}
  BY TypeParts DEF Typed, NumberOf
<1> QED
  BY <1>2, <1>3, TabTextTyped DEF Shown

\* The special expression that is lit is the only one.
LEMMA LitIsSpecial ==
  ASSUME TypeOK, lit # {}
  PROVE  (CHOOSE s \in lit : TRUE) \in Specials
BY TypeParts DEF Buttons

\* The steps of a user on a page that is edited.
Clicks ==
  \/ \E p \in Parts : ClickHeader(p)
  \/ \E p \in Parts, t \in {"every", "every-n", "each"} : ClickTab(p, t)
  \/ \E p \in Parts : \E i \in Boxes[p] : ClickBox(p, i)
  \/ \E p \in EveryNParts, n \in Numbers \cup {Blank} : TypeNumber(p, n)
  \/ ClickSpecial
  \/ \E s \in Specials : ClickRadio(s)

LEMMA ClicksKeep ==
  ASSUME TypeOK, Formed, FormIsSchedule, Clicks
  PROVE  Keeps
<1>1. Typed
  BY TypeParts
<1>2. ASSUME NEW p \in Parts, ClickHeader(p) PROVE Keeps
  BY <1>1, <1>2, ShownTyped, UpdatePartKeeps DEF ClickHeader
<1>3. ASSUME NEW p \in Parts, NEW t \in {"every", "every-n", "each"}, ClickTab(p, t)
      PROVE  Keeps
  <2>1. TabText(t, checked[p], NumberOf(p)) \in Texts
    BY ShownTyped
  <2> QED
    BY <1>1, <1>3, <2>1, UpdatePartKeeps DEF ClickTab
<1>4. ASSUME NEW p \in Parts, NEW i \in Boxes[p], ClickBox(p, i) PROVE Keeps
  <2> DEFINE turned == IF i \in active[p] THEN active[p] \ {i} ELSE active[p] \cup {i}
             boxes == (checked[p] \ {i}) \cup (turned \cap {i})
  <2>1. boxes \in SUBSET Nat
    BY TypeParts, EditorAssumption DEF Buttons
  <2>2. /\ TabText("each", boxes, Blank) \in Texts
        /\ TabText("each", checked[p], Blank) \in Texts
    BY <2>1, TabTextTyped, TypeParts DEF Buttons
  <2>3. /\ Editing /\ UNCHANGED <<page, stored, watching>>
        /\ \/ UpdatePart(p, TabText("each", boxes, Blank))
           \/ UpdatePart(p, TabText("each", checked[p], Blank))
           \/ UNCHANGED <<schedule, form>>
    BY <1>4 DEF ClickBox
  <2> HIDE DEF boxes
  <2> QED
    BY <1>1, <2>2, <2>3, UpdatePartKeeps, SameKeeps
<1>5. ASSUME NEW p \in EveryNParts, NEW n \in Numbers \cup {Blank}, TypeNumber(p, n)
      PROVE  Keeps
  <2>1. p \in Parts /\ n \in Nat \cup {Blank}
    BY EditorAssumption
  <2>2. Step(n) \in Texts
    BY <2>1, TextTyped
  <2> QED
    BY <1>1, <1>5, <2>1, <2>2, UpdatePartKeeps DEF TypeNumber
<1>6. CASE ClickSpecial
  <2>1. /\ Editing /\ UNCHANGED <<page, stored, watching>>
        /\ \E s \in Specials : UpdateSpecial(s)
    BY <1>6, LitIsSpecial, EditorAssumption DEF ClickSpecial
  <2> QED
    BY <1>1, <2>1, UpdateSpecialKeeps
<1>7. ASSUME NEW s \in Specials, ClickRadio(s) PROVE Keeps
  <2>1. /\ Editing /\ UNCHANGED <<page, stored, watching>>
        /\ UpdateSpecial(s) \/ UNCHANGED <<schedule, form>>
    BY <1>7 DEF ClickRadio
  <2> QED
    BY <1>1, <2>1, UpdateSpecialKeeps, SameKeeps
<1> QED
  BY <1>2, <1>3, <1>4, <1>5, <1>6, <1>7 DEF Clicks

-----------------------------------------------------------------------------
\* Types

\* What the panels show, apart from what the page holds.
Panels ==
  /\ tab \in [Parts -> {"every", "every-n", "each"}]
  /\ \A p \in Parts : tab[p] = "every-n" => p \in EveryNParts
  /\ number \in [EveryNParts -> Nat \cup {Blank}]

Holds ==
  /\ page \in {"closed", "view", "edit"} /\ watching \in BOOLEAN
  /\ {stored, form} \subseteq Expressions
  /\ schedule \in Schedules

LEMMA TypedParts == TypeOK <=> Holds /\ Panels /\ Buttons
BY TypeParts DEF Typed, Holds, Panels

LEMMA TypedPartsNext == TypeOK' <=> Holds' /\ Panels' /\ Buttons'
BY DEF TypeOK, Buttons, SpecialTexts, Expressions, Schedules, Holds, Panels

\* At most one of a set that has at most one element.
LEMMA AtMostOne ==
  ASSUME NEW x, NEW S
  PROVE  Cardinality({x} \cap S) <= 1 /\ Cardinality({x}) <= 1 /\ Cardinality({}) <= 1
<1>1. Cardinality({x}) = 1 /\ Cardinality({}) = 0
  BY FS_Singleton, FS_EmptySet
<1>2. {x} \cap S = {x} \/ {x} \cap S = {}
  OBVIOUS
<1> QED
  BY <1>1, <1>2

LEMMA RenderTyped ==
  ASSUME RenderPanels
  PROVE  Panels' /\ Buttons'
<1>1. Panels'
  BY DEF RenderPanels, Panels, DefaultNumber
<1>2. Buttons'
  BY AtMostOne DEF RenderPanels, Buttons
<1> QED
  BY <1>1, <1>2

LEMMA UpdateGuiTyped ==
  ASSUME Holds, UpdateGui
  PROVE  Panels' /\ Buttons'
<1>1. CASE IsSpecial(stored)
  <2>1. Panels'
    BY <1>1 DEF UpdateGui, Panels, DefaultNumber
  <2>2. Buttons'
    BY <1>1, AtMostOne DEF UpdateGui, Buttons
  <2> QED
    BY <2>1, <2>2
<1>2. CASE ~IsSpecial(stored)
  <2>1. /\ tab' = [p \in Parts |-> TabFor(p, stored.parts[p])]
        /\ checked' = [p \in Parts |-> Ticks(p, stored.parts[p])]
        /\ active' = checked' /\ radios' = {} /\ lit' = {}
        /\ number' = [p \in EveryNParts |->
                        IF Type(stored.parts[p]) = "every-n"
                          THEN stored.parts[p].n ELSE DefaultNumber]
    BY <1>2 DEF UpdateGui
  <2>2. \A p \in Parts, text \in Texts :
          /\ TabFor(p, text) \in {"every", "every-n", "each"}
          /\ TabFor(p, text) = "every-n" => p \in EveryNParts
    BY DEF TabFor
  <2>3. \A p \in Parts : stored.parts[p] \in Texts
    BY DEF Holds, Expressions
  <2>4. \A p \in EveryNParts : stored.parts[p].n \in Nat \cup {Blank}
    BY <2>3, EditorAssumption DEF Texts
  <2>5. Panels'
    BY <2>1, <2>2, <2>3, <2>4 DEF Panels, DefaultNumber
  <2>6. \A p \in Parts, text \in Texts : Ticks(p, text) \subseteq Boxes[p]
    BY DEF Ticks
  <2>7. /\ checked' \in [Parts -> SUBSET Nat]
        /\ \A p \in Parts : checked'[p] \subseteq Boxes[p]
    BY <2>1, <2>3, <2>6, EditorAssumption
  <2>8. Buttons'
    BY <2>1, <2>7, AtMostOne DEF Buttons
  <2> QED
    BY <2>5, <2>8
<1> QED
  BY <1>1, <1>2

LEMMA OpenTyped ==
  ASSUME TypeOK, Formed, NEW mode \in {"view", "edit"}, Open(mode)
  PROVE  TypeOK' /\ Formed'
<1>1. Holds /\ stored \in Expressions /\ WellFormed(stored)
  BY TypedParts DEF Holds, Formed
<1>2. Panels' /\ Buttons'
  BY <1>1, RenderTyped, UpdateGuiTyped DEF Open
<1>3. DefaultSchedule \in Schedules
  BY TextTyped, EditorAssumption DEF DefaultSchedule, Schedules, SpecialTexts, Blank
<1>4. schedule' \in Schedules
  BY <1>1, <1>3, ParsedIsFormatted DEF Open
<1>5. /\ page' \in {"closed", "view", "edit"} /\ watching' \in BOOLEAN
      /\ stored' = stored /\ form' = stored
  BY DEF Open, Parses, IsSpecial
<1>6. Holds'
  BY <1>1, <1>4, <1>5 DEF Holds
<1> QED
  BY <1>1, <1>2, <1>5, <1>6, TypedPartsNext DEF Formed

LEMMA CloseTyped ==
  ASSUME NEW e \in Expressions, WellFormed(e), Close(e)
  PROVE  TypeOK' /\ Formed'
<1>1. Panels' /\ Buttons'
  BY RenderTyped DEF Close
<1>2. DefaultSchedule \in Schedules
  BY TextTyped, EditorAssumption DEF DefaultSchedule, Schedules, SpecialTexts, Blank
<1>3. Holds' /\ Formed'
  BY <1>2 DEF Close, Holds, Formed
<1> QED
  BY <1>1, <1>3, TypedPartsNext

\* A click on a box turns its label and the box with it.
LEMMA ClicksTyped ==
  ASSUME TypeOK, Formed, FormIsSchedule, Clicks
  PROVE  TypeOK' /\ Formed'
<1>1. Holds /\ Panels /\ Buttons
  BY TypedParts
<1>2. Holds' /\ Formed'
  BY <1>1, ClicksKeep DEF Keeps, Holds, Formed
<1>3. ASSUME NEW p \in Parts, ClickHeader(p) PROVE Panels' /\ Buttons'
  BY <1>1, <1>3 DEF ClickHeader, guiVars, Panels, Buttons
<1>4. ASSUME NEW p \in Parts, NEW t \in {"every", "every-n", "each"}, ClickTab(p, t)
      PROVE  Panels' /\ Buttons'
  <2>1. Panels'
    BY <1>1, <1>4 DEF ClickTab, Panels
  <2>2. Buttons'
    BY <1>1, <1>4 DEF ClickTab, Buttons
  <2> QED
    BY <2>1, <2>2
<1>5. ASSUME NEW p \in Parts, NEW i \in Boxes[p], ClickBox(p, i)
      PROVE  Panels' /\ Buttons'
  <2> DEFINE turned == IF i \in active[p] THEN active[p] \ {i} ELSE active[p] \cup {i}
             boxes == (checked[p] \ {i}) \cup (turned \cap {i})
  <2>1. /\ \/ /\ active' = [active EXCEPT ![p] = turned]
              /\ checked' = [checked EXCEPT ![p] = boxes]
           \/ UNCHANGED <<checked, active>>
        /\ UNCHANGED <<tab, number, radios, lit>>
    BY <1>5 DEF ClickBox
  <2>2. boxes = turned /\ boxes \subseteq Boxes[p]
    BY <1>1 DEF Buttons
  <2> HIDE DEF turned, boxes
  <2>3. /\ checked' \in [Parts -> SUBSET Nat] /\ active' = checked'
        /\ \A q \in Parts : checked'[q] \subseteq Boxes[q]
    BY <1>1, <2>1, <2>2, EditorAssumption DEF Buttons
  <2>4. Panels' /\ Buttons'
    BY <1>1, <2>1, <2>3 DEF Panels, Buttons
  <2> QED
    BY <2>4
<1>6. ASSUME NEW p \in EveryNParts, NEW n \in Numbers \cup {Blank}, TypeNumber(p, n)
      PROVE  Panels' /\ Buttons'
  <2>1. n \in Nat \cup {Blank}
    BY EditorAssumption
  <2>2. Panels'
    BY <1>1, <1>6, <2>1 DEF TypeNumber, Panels
  <2>3. Buttons'
    BY <1>1, <1>6 DEF TypeNumber, Buttons
  <2> QED
    BY <2>2, <2>3
<1>7. ASSUME ClickSpecial PROVE Panels' /\ Buttons'
  <2>1. \/ UNCHANGED <<radios, lit>>
        \/ radios' = radios \cup {Hourly} /\ lit' = {Hourly}
    BY <1>7 DEF ClickSpecial
  <2>2. Cardinality({Hourly}) <= 1 /\ Hourly \in Specials
    BY AtMostOne, EditorAssumption
  <2>3. UNCHANGED <<tab, checked, active, number>>
    BY <1>7 DEF ClickSpecial
  <2>4. Panels'
    BY <1>1, <2>3 DEF Panels
  <2>5. Buttons'
    BY <1>1, <2>1, <2>2, <2>3 DEF Buttons
  <2> QED
    BY <2>4, <2>5
<1>8. ASSUME NEW s \in Specials, ClickRadio(s) PROVE Panels' /\ Buttons'
  BY <1>1, <1>8, AtMostOne DEF ClickRadio, Panels, Buttons
<1> QED
  BY <1>2, <1>3, <1>4, <1>5, <1>6, <1>7, <1>8, TypedPartsNext DEF Clicks

LEMMA TypeInViewTyped ==
  ASSUME TypeOK, Formed, NEW p \in EveryNParts, NEW n \in Numbers \cup {Blank},
         TypeInView(p, n)
  PROVE  TypeOK' /\ Formed'
<1>1. Holds /\ Panels /\ Buttons /\ n \in Nat \cup {Blank}
  BY TypedParts, EditorAssumption
<1>2. Panels'
  BY <1>1 DEF TypeInView, Panels
<1>3. Buttons'
  BY <1>1 DEF TypeInView, Buttons
<1>4. Holds' /\ Formed'
  BY <1>1 DEF TypeInView, Holds, Formed
<1> QED
  BY <1>2, <1>3, <1>4, TypedPartsNext

LEMMA TypeStep ==
  ASSUME TypeOK, Formed, FormIsSchedule, [Next]_vars
  PROVE  TypeOK' /\ Formed'
<1>1. CASE Clicks
  BY <1>1, ClicksTyped
<1>2. ASSUME NEW mode \in {"view", "edit"}, Open(mode) PROVE TypeOK' /\ Formed'
  BY <1>2, OpenTyped
<1>3. ASSUME NEW p \in EveryNParts, NEW n \in Numbers \cup {Blank}, TypeInView(p, n)
      PROVE  TypeOK' /\ Formed'
  BY <1>3, TypeInViewTyped
<1>4. CASE Save \/ Leave
  <2>1. stored \in Expressions /\ form \in Expressions
    BY TypedParts DEF Holds
  <2> QED
    BY <1>4, <2>1, CloseTyped DEF Save, Leave, Formed
<1>5. CASE UNCHANGED vars
  BY <1>5 DEF TypeOK, Formed, vars, guiVars
<1> QED
  BY <1>1, <1>2, <1>3, <1>4, <1>5 DEF Next, User, Clicks

-----------------------------------------------------------------------------
\* The form

LEMMA FormStep ==
  ASSUME TypeOK, Formed, FormOpens, FormIsSchedule, [Next]_vars
  PROVE  FormOpens' /\ FormIsSchedule'
<1>1. CASE Clicks
  <2>1. Keeps
    BY <1>1, ClicksKeep
  <2>2. FormOpens'
    BY <2>1 DEF Keeps, FormOpens, Parses, IsSpecial
  <2>3. FormIsSchedule'
    BY <2>1 DEF Keeps, FormIsSchedule, Parses, IsSpecial, Formatted, Special, Normal
  <2> QED
    BY <2>2, <2>3
<1>2. ASSUME NEW mode \in {"view", "edit"}, Open(mode)
      PROVE  FormOpens' /\ FormIsSchedule'
  <2>1. stored \in Expressions /\ WellFormed(stored)
    BY TypedParts DEF Holds, Formed
  <2>2. form' = stored /\ stored' = stored
    BY <1>2 DEF Open
  <2>3. Parses(stored) => schedule' = Parsed(stored)
    BY <1>2 DEF Open
  <2>4. watching' = Parses(stored)
    BY <1>2 DEF Open
  <2>5. FormOpens'
    BY <2>2 DEF FormOpens, Parses, IsSpecial
  <2>6. watching' => Formatted(schedule') = form'
    BY <2>1, <2>2, <2>3, <2>4, ParsedIsFormatted
  <2>7. FormIsSchedule'
    BY <2>6 DEF FormIsSchedule, Editing, Formatted, Special, Normal
  <2> QED
    BY <2>5, <2>7
<1>3. ASSUME NEW p \in EveryNParts, NEW n \in Numbers \cup {Blank}, TypeInView(p, n)
      PROVE  FormOpens' /\ FormIsSchedule'
  <2>1. page' = "view"
    BY <1>3 DEF TypeInView
  <2> QED
    BY <2>1 DEF FormOpens, FormIsSchedule, Editing
<1>4. CASE Save \/ Leave
  <2>1. page' = "closed"
    BY <1>4 DEF Save, Leave, Close
  <2> QED
    BY <2>1 DEF FormOpens, FormIsSchedule, Editing
<1>5. CASE UNCHANGED vars
  <2>1. FormOpens'
    BY <1>5 DEF FormOpens, vars, Parses, IsSpecial
  <2>2. FormIsSchedule'
    BY <1>5 DEF FormIsSchedule, Editing, vars, Parses, IsSpecial, Formatted,
       Special, Normal
  <2> QED
    BY <2>1, <2>2
<1> QED
  BY <1>1, <1>2, <1>3, <1>4, <1>5 DEF Next, User, Clicks

-----------------------------------------------------------------------------
\* What the panels show

\* A set of naturals that is not empty has a least one.
LEMMA LeastIs ==
  ASSUME NEW S \in SUBSET Nat, S # {}
  PROVE  Least(S) \in S /\ \A j \in S : Least(S) <= j
<1> DEFINE Below == {p \in Nat \X Nat : p[1] < p[2]}
<1>1. IsWellFoundedOn(Below, Nat)
  BY NatLessThanWellFounded DEF OpToRel
<1> HIDE DEF Below
<1>2. PICK x \in S : \A y \in S : ~(<<y, x>> \in Below)
  BY <1>1, WFMin
<1>3. \A y \in S : ~(y < x)
  BY <1>2 DEF Below
<1>4. \A y \in S : x <= y
  BY <1>3
<1> QED
  BY <1>4, Zenon DEF Least

LEMMA MultipleMod ==
  ASSUME NEW n \in Nat \ {0}, NEW c \in Int
  PROVE  (c * n) % n = 0
<1> DEFINE x == c * n
           d == x \div n
           r == x % n
<1>1. x \in Int /\ d \in Int /\ r \in 0..(n - 1) /\ x = d * n + r
  OBVIOUS
<1> HIDE DEF d, r
<1>2. (c - d) * n = r
  BY <1>1
<1>3. CASE c > d
  <2>1. (c - d) * n >= n
    BY <1>1, <1>3
  <2> QED
    BY <1>1, <1>2, <2>1
<1>4. CASE c < d
  <2>1. (d - c) * n >= n
    BY <1>1, <1>4
  <2> QED
    BY <1>1, <1>2, <2>1
<1>5. CASE c = d
  BY <1>1, <1>2, <1>5 DEF r
<1> QED
  BY <1>1, <1>3, <1>4, <1>5

\* The multiples of n in a set whose least number is one are the numbers that come
\* in steps of n from it.
LEMMA StepsFromMultiple ==
  ASSUME NEW n \in Nat \ {0}, NEW l \in Nat, NEW i \in Nat, l % n = 0
  PROVE  i % n = 0 <=> (i - l) % n = 0
<1> DEFINE a == l \div n
           b == i \div n
           c == (i - l) \div n
<1>1. a \in Int /\ l = a * n
  OBVIOUS
<1>2. ASSUME i % n = 0 PROVE (i - l) % n = 0
  <2>1. b \in Int /\ i = b * n
    BY <1>2
  <2>2. i - l = (b - a) * n /\ b - a \in Int
    BY <1>1, <2>1
  <2> QED
    BY <2>2, MultipleMod
<1>3. ASSUME (i - l) % n = 0 PROVE i % n = 0
  <2>1. c \in Int /\ i - l = c * n
    BY <1>3
  <2>2. i = (c + a) * n /\ c + a \in Int
    BY <1>1, <2>1
  <2> QED
    BY <2>2, MultipleMod
<1> QED
  BY <1>2, <1>3

\* A panel shows a text that it can show for what it is.
LEMMA OpenShows ==
  ASSUME NEW p \in Parts, NEW text \in Texts, Type(text) # "unknown",
         Showable(p, text), NEW n, Type(text) = "every-n" => n = text.n
  PROVE  Meaning(p, TabText(TabFor(p, text), Ticks(p, text), n)) = Meaning(p, text)
<1>1. CASE text.kind = "*"
  <2>1. Type(text) = "every" /\ TabFor(p, text) = "every"
    BY <1>1 DEF Type, TabFor
  <2> QED
    BY <1>1, <2>1 DEF TabText, Meaning, Star, Text
<1>2. CASE text.kind = "*/n"
  <2>1. Type(text) = "every-n" /\ p \in EveryNParts
    BY <1>2 DEF Type, Showable
  <2>2. TabFor(p, text) = "every-n" /\ n = text.n
    BY <2>1 DEF TabFor
  <2> QED
    BY <1>2, <2>2 DEF TabText, Meaning, Step, Text
<1> DEFINE each == TabText("each", Ticks(p, text), n)
<1>3. ASSUME NEW items \in SUBSET Nat, items # {}, Ticks(p, text) = items
      PROVE  Meaning(p, each) = items
  <2>1. each = List(items)
    BY <1>3 DEF TabText
  <2> HIDE DEF each
  <2>2. each.kind = "a,b" /\ each.items = items
    BY <1>3, <2>1 DEF List, Text
  <2> QED
    BY <2>2 DEF Meaning
<1>4. CASE text.kind \in {"a,b", "jan,feb", "a-b"}
  <2>1. text.items # {} /\ text.items \subseteq Boxes[p]
    <3>1. text.items = {} =>
            ~(Cardinality(text.items) = 1) /\ ~(Cardinality(text.items) > 1)
      BY FS_EmptySet
    <3>2. text.kind \in {"a,b", "jan,feb"} => text.items # {}
      <4> SUFFICES ASSUME text.kind \in {"a,b", "jan,feb"}, text.items = {}
                   PROVE  Type(text) = "unknown"
        OBVIOUS
      <4> DEFINE one == Cardinality(text.items) = 1
                 many == Cardinality(text.items) > 1
      <4>1. ~one /\ ~many
        BY <3>1
      <4> HIDE DEF one, many
      <4> QED
        BY <4>1 DEF Type, one, many
    <3> QED
      BY <1>4, <3>2 DEF Showable
  <2>2. Type(text) \notin {"every", "every-n", "each-range-step"}
    BY <1>4 DEF Type
  <2>3. TabFor(p, text) = "each" /\ Ticks(p, text) = text.items
    BY <1>4, <2>1, <2>2 DEF TabFor, Ticks, Selected
  <2>4. Meaning(p, text) = text.items
    BY <1>4 DEF Meaning
  <2>5. text.items \in SUBSET Nat
    BY DEF Texts
  <2> QED
    BY <1>3, <2>1, <2>3, <2>4, <2>5
<1>5. CASE text.kind = "a-b/n"
  <2> DEFINE l == Least(text.items)
             steps == {i \in text.items : (i - l) % text.n = 0}
  <2>1. /\ text.items # {} /\ text.n > 0 /\ l % text.n = 0
        /\ Meaning(p, text) \subseteq Boxes[p]
    BY <1>5 DEF Showable
  <2>2. Type(text) = "each-range-step"
    BY <1>5 DEF Type
  <2>3. text.items \in SUBSET Nat /\ text.n \in Nat \ {0}
    BY <2>1 DEF Texts, Blank
  <2>4. l \in text.items /\ l \in Nat
    BY <2>1, <2>3, LeastIs
  <2>5. Meaning(p, text) = steps
    BY <1>5 DEF Meaning
  <2>6. Selected(text) = {i \in text.items : i % text.n = 0}
    BY <1>5, <2>2 DEF Selected
  <2>7. \A i \in text.items : i % text.n = 0 <=> (i - l) % text.n = 0
    BY <2>1, <2>3, <2>4, StepsFromMultiple
  <2>8. Selected(text) = steps
    BY <2>6, <2>7
  <2>9. l \in Selected(text) /\ steps \in SUBSET Nat
    BY <2>1, <2>3, <2>4, <2>6
  <2>10. TabFor(p, text) = "each" /\ Ticks(p, text) = Selected(text) \cap Boxes[p]
    BY <2>2 DEF TabFor, Ticks
  <2>11. Ticks(p, text) = steps /\ steps # {}
    BY <2>1, <2>5, <2>8, <2>9, <2>10
  <2> HIDE DEF steps
  <2> QED
    BY <1>3, <2>5, <2>9, <2>10, <2>11
<1>6. text.kind \notin {"", "jan-feb"}
  BY DEF Type, Showable
<1>7. text.kind \in Kinds
  BY DEF Texts
<1> QED
  BY <1>1, <1>2, <1>4, <1>5, <1>6, <1>7 DEF Kinds

\* The panel of a field fires when the field does.
Agrees(p) == Meaning(p, Shown(p)) = Meaning(p, schedule.parts[p])

\* A panel that a step does not touch agrees as before.
LEMMA Untouched ==
  ASSUME NEW p \in Parts, Agrees(p), schedule'.parts[p] = schedule.parts[p],
         tab'[p] = tab[p], checked'[p] = checked[p],
         p \in EveryNParts => number'[p] = number[p]
  PROVE  Agrees(p)'
BY DEF Agrees, Shown, NumberOf

\* A click on a panel writes what the panel shows from then on.
LEMMA Written ==
  ASSUME NEW p \in Parts, schedule'.parts[p] = Shown(p)'
  PROVE  Agrees(p)'
BY DEF Agrees

\* Boxes are read in the same way whatever the number input holds.
LEMMA BoxesAlone ==
  ASSUME NEW boxes, NEW n, NEW m
  PROVE  TabText("each", boxes, n) = TabText("each", boxes, m)
BY DEF TabText

LEMMA ClicksAgree ==
  ASSUME TypeOK, Formed, FormIsSchedule, Clicks, \A p \in Parts : Agrees(p)
  PROVE  \A p \in Parts : Agrees(p)'
<1>1. Typed /\ Buttons
  BY TypeParts
<1>2. ASSUME NEW p \in Parts, ClickHeader(p) PROVE \A q \in Parts : Agrees(q)'
  <2>1. /\ schedule'.parts[p] = Shown(p)
        /\ \A q \in Parts : q # p => schedule'.parts[q] = schedule.parts[q]
    BY <1>1, <1>2, ShownTyped, UpdatePartKeeps DEF ClickHeader
  <2>2. UNCHANGED guiVars
    BY <1>2 DEF ClickHeader
  <2>3. Shown(p)' = Shown(p)
    BY <2>2 DEF Shown, NumberOf, guiVars
  <2>4. Agrees(p)'
    BY <2>1, <2>3, Written
  <2>5. \A q \in Parts : q # p => Agrees(q)'
    BY <2>1, <2>2, Untouched DEF guiVars
  <2> QED
    BY <2>4, <2>5
<1>3. ASSUME NEW p \in Parts, NEW t \in {"every", "every-n", "each"}, ClickTab(p, t)
      PROVE  \A q \in Parts : Agrees(q)'
  <2>1. TabText(t, checked[p], NumberOf(p)) \in Texts
    BY ShownTyped
  <2>2. /\ schedule'.parts[p] = TabText(t, checked[p], NumberOf(p))
        /\ \A q \in Parts : q # p => schedule'.parts[q] = schedule.parts[q]
    BY <1>1, <1>3, <2>1, UpdatePartKeeps DEF ClickTab
  <2>3. UNCHANGED <<checked, number>> /\ tab' = [tab EXCEPT ![p] = t]
    BY <1>3 DEF ClickTab
  <2>4. tab'[p] = t /\ \A q \in Parts : q # p => tab'[q] = tab[q]
    BY <1>1, <2>3 DEF Typed
  <2>5. Shown(p)' = TabText(t, checked[p], NumberOf(p))
    BY <2>3, <2>4 DEF Shown, NumberOf
  <2>6. Agrees(p)'
    BY <2>2, <2>5, Written
  <2>7. \A q \in Parts : q # p => Agrees(q)'
    BY <2>2, <2>3, <2>4, Untouched
  <2> QED
    BY <2>6, <2>7
<1>4. ASSUME NEW p \in Parts, NEW i \in Boxes[p], ClickBox(p, i)
      PROVE  \A q \in Parts : Agrees(q)'
  <2> DEFINE turned == IF i \in active[p] THEN active[p] \ {i} ELSE active[p] \cup {i}
             boxes == (checked[p] \ {i}) \cup (turned \cap {i})
  <2>1. boxes \in SUBSET Nat
    BY <1>1, EditorAssumption DEF Buttons
  <2>3. /\ Editing /\ tab[p] = "each"
        /\ UNCHANGED <<page, stored, watching, tab, number>>
        /\ \/ /\ UpdatePart(p, TabText("each", boxes, Blank))
              /\ checked' = [checked EXCEPT ![p] = boxes]
           \/ /\ UpdatePart(p, TabText("each", checked[p], Blank))
              /\ checked' = [checked EXCEPT ![p] = checked[p]]
    <3>1. i \in checked[p] <=> i \in active[p]
      BY <1>1 DEF Buttons
    <3>2. checked = [checked EXCEPT ![p] = checked[p]]
      BY <1>1 DEF Buttons
    <3> QED
      BY <1>4, <3>1, <3>2 DEF ClickBox
  <2> HIDE DEF boxes
  <2>4. PICK ticks \in SUBSET Nat :
          /\ UpdatePart(p, TabText("each", ticks, Blank))
          /\ checked' = [checked EXCEPT ![p] = ticks]
    BY <1>1, <2>1, <2>3 DEF Buttons
  <2>5. TabText("each", ticks, Blank) \in Texts
    BY TabTextTyped
  <2>6. /\ schedule'.parts[p] = TabText("each", ticks, Blank)
        /\ \A q \in Parts : q # p => schedule'.parts[q] = schedule.parts[q]
    BY <1>1, <2>3, <2>4, <2>5, UpdatePartKeeps
  <2>7. checked'[p] = ticks /\ \A q \in Parts : q # p => checked'[q] = checked[q]
    BY <1>1, <2>4 DEF Buttons
  <2>8. Shown(p)' = TabText("each", ticks, NumberOf(p))
    BY <2>3, <2>7 DEF Shown, NumberOf
  <2>9. Agrees(p)'
    BY <2>6, <2>8, BoxesAlone, Written
  <2>10. \A q \in Parts : q # p => Agrees(q)'
    BY <2>3, <2>6, <2>7, Untouched
  <2> QED
    BY <2>9, <2>10
<1>5. ASSUME NEW p \in EveryNParts, NEW n \in Numbers \cup {Blank}, TypeNumber(p, n)
      PROVE  \A q \in Parts : Agrees(q)'
  <2>1. p \in Parts /\ n \in Nat \cup {Blank}
    BY EditorAssumption
  <2>2. Step(n) \in Texts
    BY <2>1, TextTyped
  <2>3. /\ Editing /\ tab[p] = "every-n" /\ UpdatePart(p, Step(n))
        /\ UNCHANGED <<page, stored, watching, tab, checked>>
        /\ number' = [number EXCEPT ![p] = n]
    BY <1>5 DEF TypeNumber
  <2>4. /\ schedule'.parts[p] = Step(n)
        /\ \A q \in Parts : q # p => schedule'.parts[q] = schedule.parts[q]
    BY <1>1, <2>1, <2>2, <2>3, UpdatePartKeeps
  <2>5. number'[p] = n /\ \A q \in EveryNParts : q # p => number'[q] = number[q]
    BY <1>1, <2>3 DEF Typed
  <2>6. Shown(p)' = Step(n)
    BY <2>3, <2>5 DEF Shown, NumberOf, TabText
  <2>7. Agrees(p)'
    BY <2>1, <2>4, <2>6, Written
  <2>8. \A q \in Parts : q # p => Agrees(q)'
    BY <2>3, <2>4, <2>5, Untouched
  <2> QED
    BY <2>7, <2>8
<1>6. ASSUME UNCHANGED <<tab, checked, number>>, schedule'.parts = schedule.parts
      PROVE  \A q \in Parts : Agrees(q)'
  BY <1>6, Untouched
<1>7. ASSUME ClickSpecial PROVE \A q \in Parts : Agrees(q)'
  <2>1. /\ Editing /\ UNCHANGED <<page, stored, watching, tab, checked, number>>
        /\ \E s \in Specials : UpdateSpecial(s)
    BY <1>7, LitIsSpecial, EditorAssumption DEF ClickSpecial
  <2>2. schedule'.parts = schedule.parts
    BY <1>1, <2>1, UpdateSpecialKeeps
  <2> QED
    BY <1>6, <2>1, <2>2
<1>8. ASSUME NEW s \in Specials, ClickRadio(s) PROVE \A q \in Parts : Agrees(q)'
  <2>1. /\ Editing /\ UNCHANGED <<page, stored, watching, tab, checked, number>>
        /\ UpdateSpecial(s) \/ UNCHANGED <<schedule, form>>
    BY <1>8 DEF ClickRadio
  <2>2. schedule'.parts = schedule.parts
    BY <1>1, <2>1, UpdateSpecialKeeps
  <2> QED
    BY <1>6, <2>1, <2>2
<1> QED
  BY <1>2, <1>3, <1>4, <1>5, <1>7, <1>8 DEF Clicks

\* A page that opens shows a special expression as stars, and others as they are.
LEMMA OpenAgrees ==
  ASSUME TypeOK, Formed, NEW mode \in {"view", "edit"}, Open(mode), watching',
         AllShowable(stored)
  PROVE  \A p \in Parts : Agrees(p)'
<1>1. /\ Parses(stored) /\ schedule' = Parsed(stored) /\ UpdateGui
  BY DEF Open
<1>2. stored.parts \in [Parts -> Texts]
  BY TypedParts DEF Holds, Expressions
<1>3. CASE IsSpecial(stored)
  <2>1. \A p \in Parts : tab'[p] = "every" /\ schedule'.parts[p] = Star
    BY <1>1, <1>3 DEF UpdateGui, Parsed, DefaultSchedule
  <2>2. \A p \in Parts : Shown(p)' = Star
    BY <2>1 DEF Shown, TabText
  <2> QED
    BY <2>1, <2>2, Written
<1>4. CASE ~IsSpecial(stored)
  <2> SUFFICES ASSUME NEW p \in Parts PROVE Agrees(p)'
    OBVIOUS
  <2> DEFINE text == stored.parts[p]
  <2>1. /\ tab'[p] = TabFor(p, text) /\ checked'[p] = Ticks(p, text)
        /\ p \in EveryNParts =>
             number'[p] = IF Type(text) = "every-n" THEN text.n ELSE DefaultNumber
    BY <1>1, <1>4 DEF UpdateGui
  <2>2. schedule'.parts[p] = text
    BY <1>1, <1>4 DEF Parsed, DefaultSchedule
  <2>3. Type(text) # "unknown" /\ text \in Texts /\ Showable(p, text)
    BY <1>1, <1>2, <1>4 DEF Parses, AllShowable
  <2>4. Type(text) = "every-n" => text.kind = "*/n"
    BY DEF Type
  <2>5. Type(text) = "every-n" => p \in EveryNParts
    BY <2>3, <2>4 DEF Showable
  <2>6. Type(text) = "every-n" => NumberOf(p)' = text.n
    BY <2>1, <2>5 DEF NumberOf
  <2>7. Shown(p)' = TabText(TabFor(p, text), Ticks(p, text), NumberOf(p)')
    BY <2>1 DEF Shown
  <2> HIDE DEF text
  <2>8. Meaning(p, Shown(p)') = Meaning(p, text)
    BY <2>3, <2>6, <2>7, OpenShows
  <2> QED
    BY <2>2, <2>8 DEF Agrees
<1> QED
  BY <1>3, <1>4

LEMMA PanelsStep ==
  ASSUME TypeOK, Formed, FormIsSchedule, PanelsShowSchedule, [Next]_vars
  PROVE  PanelsShowSchedule'
<1> SUFFICES ASSUME Editing', AllShowable(stored')
             PROVE  \A p \in Parts : Agrees(p)'
  BY DEF PanelsShowSchedule, Agrees, AllShowable, Showable, Meaning
<1>1. CASE Clicks
  <2>1. Editing /\ stored' = stored
    BY <1>1, ClicksKeep DEF Keeps
  <2>2. \A p \in Parts : Agrees(p)
    BY <2>1 DEF PanelsShowSchedule, Agrees
  <2> QED
    BY <1>1, <2>2, ClicksAgree
<1>2. ASSUME NEW mode \in {"view", "edit"}, Open(mode)
      PROVE  \A p \in Parts : Agrees(p)'
  <2>1. stored' = stored /\ watching'
    BY <1>2 DEF Open, Editing
  <2> QED
    BY <1>2, <2>1, OpenAgrees
<1>3. \A p \in EveryNParts, n \in Numbers \cup {Blank} : ~TypeInView(p, n)
  BY DEF TypeInView, Editing
<1>4. ~Save /\ ~Leave
  BY DEF Save, Leave, Close, Editing
<1>5. CASE UNCHANGED vars
  <2>1. Editing /\ stored' = stored /\ UNCHANGED <<tab, checked, number, schedule>>
    BY <1>5 DEF vars, guiVars, Editing
  <2>2. \A p \in Parts : Agrees(p)
    BY <2>1 DEF PanelsShowSchedule, Agrees
  <2> QED
    BY <2>1, <2>2, Untouched
<1> QED
  BY <1>1, <1>2, <1>3, <1>4, <1>5 DEF Next, User, Clicks

-----------------------------------------------------------------------------
\* What the panels can show

LEMMA TabTextShowable ==
  ASSUME NEW p \in Parts, NEW t \in {"every", "every-n", "each"}, NEW n,
         t = "every-n" => p \in EveryNParts, NEW boxes \in SUBSET Boxes[p]
  PROVE  Showable(p, TabText(t, boxes, n))
BY DEF Showable, TabText, Star, Step, List, Text

\* A schedule whose fields can be shown leaves a form whose fields can be.
LEMMA StoreShows ==
  ASSUME NEW s, AllShowable(s), AllShowable(form), Store(s)
  PROVE  AllShowable(schedule') /\ AllShowable(form')
<1>1. schedule' = s /\ form' \in {Formatted(s), form}
  BY DEF Store
<1>2. \A p \in Parts : Showable(p, Nothing)
  BY DEF Showable, Nothing, Text
<1>3. AllShowable(Special(s.special))
  BY <1>2 DEF AllShowable, Special
<1>4. AllShowable(Normal(s.parts))
  BY DEF AllShowable, Normal
<1>5. AllShowable(Formatted(s))
  BY <1>3, <1>4 DEF Formatted
<1> QED
  BY <1>1, <1>5

LEMMA PartShows ==
  ASSUME Typed, AllShowable(schedule), AllShowable(form), NEW p \in Parts, NEW text,
         Showable(p, text), UpdatePart(p, text)
  PROVE  AllShowable(schedule') /\ AllShowable(form')
<1> DEFINE s == WithPart(p, text)
<1>1. /\ s.parts[p] = text
      /\ \A q \in Parts : q # p => s.parts[q] = schedule.parts[q]
  BY DEF Typed, Schedules, WithPart
<1>2. Store(s)
  BY DEF UpdatePart
<1> HIDE DEF s
<1>3. AllShowable(s)
  BY <1>1 DEF AllShowable
<1> QED
  BY <1>2, <1>3, StoreShows

LEMMA SpecialShows ==
  ASSUME Typed, AllShowable(schedule), AllShowable(form), NEW x, UpdateSpecial(x)
  PROVE  AllShowable(schedule') /\ AllShowable(form')
<1> DEFINE s == [schedule EXCEPT !.type = "special", !.special = x]
<1>1. s.parts = schedule.parts
  BY DEF Typed, Schedules
<1>2. Store(s)
  BY DEF UpdateSpecial
<1> HIDE DEF s
<1>3. AllShowable(s)
  BY <1>1 DEF AllShowable
<1> QED
  BY <1>2, <1>3, StoreShows

LEMMA ClicksShow ==
  ASSUME TypeOK, Clicks, AllShowable(schedule), AllShowable(form)
  PROVE  AllShowable(schedule') /\ AllShowable(form')
<1> DEFINE Shows == AllShowable(schedule') /\ AllShowable(form')
<1>1. Typed /\ Buttons
  BY TypeParts
<1>2. \A p \in Parts : checked[p] \in SUBSET Boxes[p]
  BY <1>1 DEF Buttons
<1>3. ASSUME NEW p \in Parts, ClickHeader(p) PROVE Shows
  <2>1. /\ tab[p] \in {"every", "every-n", "each"}
        /\ tab[p] = "every-n" => p \in EveryNParts
    BY <1>1 DEF Typed
  <2>2. Showable(p, Shown(p))
    BY <1>2, <2>1, TabTextShowable DEF Shown
  <2>3. UpdatePart(p, Shown(p))
    BY <1>3 DEF ClickHeader
  <2> QED
    BY <1>1, <2>2, <2>3, PartShows
<1>4. ASSUME NEW p \in Parts, NEW t \in {"every", "every-n", "each"}, ClickTab(p, t)
      PROVE  Shows
  <2>1. /\ t = "every-n" => p \in EveryNParts
        /\ UpdatePart(p, TabText(t, checked[p], NumberOf(p)))
    BY <1>4 DEF ClickTab
  <2>2. Showable(p, TabText(t, checked[p], NumberOf(p)))
    BY <1>2, <2>1, TabTextShowable
  <2> QED
    BY <1>1, <2>1, <2>2, PartShows
<1>5. ASSUME NEW p \in Parts, NEW i \in Boxes[p], ClickBox(p, i) PROVE Shows
  <2> DEFINE turned == IF i \in active[p] THEN active[p] \ {i} ELSE active[p] \cup {i}
             boxes == (checked[p] \ {i}) \cup (turned \cap {i})
  <2>1. boxes \in SUBSET Boxes[p]
    BY <1>2
  <2>2. /\ Showable(p, TabText("each", boxes, Blank))
        /\ Showable(p, TabText("each", checked[p], Blank))
    BY <1>2, <2>1, TabTextShowable
  <2>3. \/ UpdatePart(p, TabText("each", boxes, Blank))
        \/ UpdatePart(p, TabText("each", checked[p], Blank))
        \/ UNCHANGED <<schedule, form>>
    BY <1>5 DEF ClickBox
  <2> HIDE DEF boxes
  <2> QED
    BY <1>1, <2>2, <2>3, PartShows
<1>6. ASSUME NEW p \in EveryNParts, NEW n \in Numbers \cup {Blank}, TypeNumber(p, n)
      PROVE  Shows
  <2>1. p \in Parts
    BY EditorAssumption
  <2>2. Showable(p, Step(n))
    BY DEF Showable, Step, Text
  <2>3. UpdatePart(p, Step(n))
    BY <1>6 DEF TypeNumber
  <2> QED
    BY <1>1, <2>1, <2>2, <2>3, PartShows
<1>7. ASSUME ClickSpecial PROVE Shows
  <2>1. UpdateSpecial(Hourly) \/ UpdateSpecial(CHOOSE s \in lit : TRUE)
    BY <1>7 DEF ClickSpecial
  <2> QED
    BY <1>1, <2>1, SpecialShows
<1>8. ASSUME NEW s \in Specials, ClickRadio(s) PROVE Shows
  <2>1. UpdateSpecial(s) \/ UNCHANGED <<schedule, form>>
    BY <1>8 DEF ClickRadio
  <2> QED
    BY <1>1, <2>1, SpecialShows
<1> QED
  BY <1>3, <1>4, <1>5, <1>6, <1>7, <1>8 DEF Clicks

\* A page opens with what is stored or, where that does not parse, with stars.
LEMMA OpenShowable ==
  ASSUME TypeOK, NEW mode \in {"view", "edit"}, Open(mode), AllShowable(stored)
  PROVE  AllShowable(schedule') /\ AllShowable(form')
<1>1. form' = stored /\ schedule' \in {Parsed(stored), DefaultSchedule}
  BY DEF Open
<1>2. \A p \in Parts : Showable(p, Star)
  BY DEF Showable, Star, Text
<1>3. AllShowable(DefaultSchedule)
  BY <1>2 DEF AllShowable, DefaultSchedule
<1>4. Parsed(stored).parts \in {DefaultSchedule.parts, stored.parts}
  BY DEF Parsed, DefaultSchedule
<1>5. AllShowable(Parsed(stored))
  BY <1>3, <1>4 DEF AllShowable
<1> QED
  BY <1>1, <1>3, <1>5

LEMMA ShowableStep ==
  ASSUME TypeOK, Formed, FormIsSchedule, StaysShowable, [Next]_vars
  PROVE  StaysShowable'
<1> SUFFICES ASSUME page' = "edit", AllShowable(stored')
             PROVE  AllShowable(schedule') /\ AllShowable(form')
  BY DEF StaysShowable, AllShowable, Showable, Meaning
<1>1. CASE Clicks
  <2>1. page = "edit" /\ stored' = stored
    BY <1>1, ClicksKeep DEF Keeps, Editing
  <2> QED
    BY <1>1, <2>1, ClicksShow DEF StaysShowable
<1>2. ASSUME NEW mode \in {"view", "edit"}, Open(mode)
      PROVE  AllShowable(schedule') /\ AllShowable(form')
  <2>1. stored' = stored
    BY <1>2 DEF Open
  <2> QED
    BY <1>2, <2>1, OpenShowable
<1>3. \A p \in EveryNParts, n \in Numbers \cup {Blank} : ~TypeInView(p, n)
  BY DEF TypeInView
<1>4. ~Save /\ ~Leave
  BY DEF Save, Leave, Close
<1>5. CASE UNCHANGED vars
  BY <1>5 DEF vars, StaysShowable
<1> QED
  BY <1>1, <1>2, <1>3, <1>4, <1>5 DEF Next, User, Clicks

-----------------------------------------------------------------------------
\* The theorems

LEMMA InitInv == Init => Inv
<1> SUFFICES ASSUME Init PROVE Inv
  OBVIOUS
<1>1. stored \in Expressions /\ WellFormed(stored) /\ form = stored
  BY StoredTyped DEF Init
<1>2. DefaultSchedule \in Schedules
  BY TextTyped, EditorAssumption DEF DefaultSchedule, Schedules, SpecialTexts, Blank
<1>3. Holds /\ Formed
  BY <1>1, <1>2 DEF Init, Holds, Formed
<1>4. Panels
  BY DEF Init, Panels, DefaultNumber
<1>5. Buttons
  BY AtMostOne DEF Init, Buttons
<1>6. FormOpens /\ FormIsSchedule /\ PanelsShowSchedule
  BY DEF Init, FormOpens, FormIsSchedule, PanelsShowSchedule, Editing
<1>7. StaysShowable
  BY DEF Init, StaysShowable
<1> QED
  BY <1>3, <1>4, <1>5, <1>6, <1>7, TypedParts DEF Inv

LEMMA Invariance == Spec => []Inv
<1>1. Inv /\ [Next]_vars => Inv'
  BY TypeStep, FormStep, PanelsStep, ShowableStep DEF Inv
<1> QED
  BY InitInv, <1>1, PTL DEF Spec

\* The editor's variables keep their types; labels and boxes agree and at most one
\* special expression is lit (schedules.js:240-338, bootstrap.js:225-258).
THEOREM EditorTypeCorrect == Spec => []TypeOK
<1> QED
  BY Invariance, PTL DEF Inv

\* After every click and whatever was typed the inputs of the form hold what the
\* editor holds, wherever that parses (schedules.js:450-451).
THEOREM FormsFollowSchedules == Spec => []FormIsSchedule
<1> QED
  BY Invariance, PTL DEF Inv

\* What the active tab of a panel shows fires when its field does, after whatever
\* clicks, if the page was opened for an expression the panels can show: to open a
\* panel then never changes when its field fires (schedules.js:199-223, 419-443).
THEOREM PanelsAlwaysShow == Spec => []PanelsShowSchedule
<1> QED
  BY Invariance, PTL DEF Inv

\* What is saved parses if what was there before did, and the panels can show it if
\* they could show what was there before (schedules.js:450).
THEOREM SavesOpenAgain == Spec => SavedSchedulesOpen
<1> DEFINE Opens == /\ Parses(stored) => Parses(stored')
                    /\ AllShowable(stored) => AllShowable(stored')
<1>1. Inv /\ [Next]_vars => [Opens]_stored
  <2> SUFFICES ASSUME Inv, [Next]_vars, stored' # stored
               PROVE  Opens
    OBVIOUS
  <2>1. CASE Save
    <3>1. page = "edit" /\ stored' = form
      BY <2>1 DEF Save, Close
    <3>2. Parses(stored) => Parses(form)
      BY <3>1 DEF Inv, FormOpens
    <3>3. AllShowable(stored) => AllShowable(form)
      BY <3>1 DEF Inv, StaysShowable
    <3> QED
      BY <3>1, <3>2, <3>3
  <2>2. Clicks => stored' = stored
    BY ClicksKeep DEF Inv, Keeps
  <2> QED
    BY <2>1, <2>2 DEF Next, User, Clicks, Open, Leave, Close, TypeInView, vars
<1> QED
  BY <1>1, Invariance, PTL DEF SavedSchedulesOpen, Spec
=============================================================================
