---------------------------- MODULE TooltipProofs ----------------------------
(***************************************************************************)
(* What the tooltips promise for every sidebar: any labels, lengths and    *)
(* heights of tips, and any number of handlers that wait.                  *)
(***************************************************************************)
EXTENDS Tooltip, WellFoundedInduction, TLAPS

-----------------------------------------------------------------------------
\* Least and greatest numbers

LEMMA LeastNatural ==
  ASSUME NEW S \in SUBSET Nat, S # {}
  PROVE  \E x \in S : \A y \in S : x <= y
<1> DEFINE Less == {p \in Nat \X Nat : p[1] < p[2]}
<1>1. IsWellFoundedOn(Less, Nat)
  BY NatLessThanWellFounded DEF OpToRel
<1> HIDE DEF Less
<1>2. PICK x \in S : \A y \in S : ~(<<y, x>> \in Less)
  BY <1>1, WFMin
<1>3. \A y \in S : ~(y < x)
  BY <1>2 DEF Less
<1> QED
  BY <1>3

LEMMA MinMember ==
  ASSUME NEW S \in SUBSET Nat, S # {}
  PROVE  Min(S) \in S /\ \A i \in S : Min(S) <= i
BY LeastNatural DEF Min

LEMMA MaxMember ==
  ASSUME NEW n \in Nat, NEW S \in SUBSET (1..n), S # {}
  PROVE  Max(S) \in S /\ \A i \in S : i <= Max(S)
<1> DEFINE T == {n - i : i \in S}
<1>0. T \in SUBSET Nat /\ T # {}
  <2>1. \A i \in S : n - i \in Nat
    OBVIOUS
  <2> QED
    BY <2>1
<1>1. PICK x \in T : \A y \in T : x <= y
  BY <1>0, LeastNatural
<1>2. PICK m \in S : x = n - m
  BY <1>1
<1>3. ASSUME NEW i \in S PROVE i <= m
  <2>1. n - m <= n - i
    BY <1>1, <1>2
  <2> QED
    BY <2>1
<1> QED
  BY <1>2, <1>3 DEF Max

LEMMA MaxUpTo ==
  ASSUME NEW k \in Nat \ {0}
  PROVE  Max(1..k) = k /\ (1..k) \ {k} = 1..(k - 1)
<1>2. k \in 1..k /\ 1..k \in SUBSET (1..k) /\ 1..k # {}
  OBVIOUS
<1>1. /\ Max(1..k) \in 1..k /\ \A i \in 1..k : i <= Max(1..k)
  BY <1>2, MaxMember
<1> QED
  BY <1>1, <1>2

-----------------------------------------------------------------------------
\* The handlers of a tip, run one after the other

\* A fold of the handlers up to the k-th, over every set of them.
Folded(it, p, h, k) ==
  it = [s \in SUBSET (1..k) |->
          IF s = {} THEN p ELSE RunHandler(it[s \ {Max(s)}], h[Max(s)])]

LEMMA FoldLonger ==
  ASSUME NEW p, NEW h, NEW k \in Nat, NEW it, Folded(it, p, h, k)
  PROVE  \E longer : Folded(longer, p, h, k + 1)
<1> DEFINE S == SUBSET (1..(k + 1))
           longer == [s \in S |-> IF k + 1 \in s
                                    THEN RunHandler(it[s \ {k + 1}], h[k + 1]) ELSE it[s]]
<1>1. ASSUME NEW s \in S
      PROVE  longer[s] = IF s = {} THEN p ELSE RunHandler(longer[s \ {Max(s)}], h[Max(s)])
  <2>1. CASE k + 1 \in s
    <3>1. Max(s) = k + 1
      <4>1. Max(s) \in s /\ \A i \in s : i <= Max(s)
        <5>1. k + 1 \in Nat /\ s # {} /\ s \in SUBSET (1..(k + 1))
          BY <2>1
        <5> QED
          BY <5>1, MaxMember
      <4>2. Max(s) \in 1..(k + 1) /\ k + 1 <= Max(s)
        BY <2>1, <4>1
      <4> QED
        BY <4>2
    <3>2. s \ {k + 1} \in S /\ k + 1 \notin s \ {k + 1}
      OBVIOUS
    <3>3. longer[s \ {k + 1}] = it[s \ {k + 1}]
      BY <3>2
    <3>4. longer[s] = RunHandler(it[s \ {k + 1}], h[k + 1])
      BY <2>1
    <3> HIDE DEF longer
    <3> QED
      BY <2>1, <3>1, <3>3, <3>4
  <2>2. CASE k + 1 \notin s
    <3>1. s \in SUBSET (1..k)
      BY <2>2
    <3>2. it[s] = IF s = {} THEN p ELSE RunHandler(it[s \ {Max(s)}], h[Max(s)])
      BY <3>1 DEF Folded
    <3>3. longer[s] = it[s]
      BY <2>2
    <3>4. s \ {Max(s)} \in S /\ k + 1 \notin s \ {Max(s)}
      BY <2>2
    <3>5. longer[s \ {Max(s)}] = it[s \ {Max(s)}]
      BY <3>4
    <3> HIDE DEF longer
    <3> QED
      BY <3>2, <3>3, <3>5
  <2> QED
    BY <2>1, <2>2
<1>2. longer = [s \in S |-> longer[s]]
  OBVIOUS
<1> HIDE DEF longer
<1>3. Folded(longer, p, h, k + 1)
  BY <1>1, <1>2 DEF Folded
<1> QED
  BY <1>3

LEMMA FoldExists ==
  ASSUME NEW p, NEW h, NEW n \in Nat
  PROVE  \E it : Folded(it, p, h, n)
<1> DEFINE Bad == {k \in Nat : ~ \E it : Folded(it, p, h, k)}
<1> SUFFICES ASSUME Bad # {} PROVE FALSE
  OBVIOUS
<1>1. PICK k \in Bad : \A j \in Bad : k <= j
  BY LeastNatural
<1>2. k # 0
  <2> DEFINE it == [s \in SUBSET (1..0) |-> p]
  <2>1. \A s \in SUBSET (1..0) : s = {}
    OBVIOUS
  <2>2. Folded(it, p, h, 0)
    BY <2>1 DEF Folded
  <2> HIDE DEF it
  <2> QED
    BY <2>2
<1>3. k - 1 \in Nat /\ k - 1 \notin Bad
  BY <1>1, <1>2
<1>4. \E it : Folded(it, p, h, k - 1)
  BY <1>3
<1>5. \E it : Folded(it, p, h, k - 1 + 1)
  BY <1>3, <1>4, FoldLonger
<1>6. k - 1 + 1 = k
  BY <1>1
<1> QED
  BY <1>1, <1>5, <1>6

RunHandlers(p, h) == FoldLeft(RunHandler, p, h)

\* The end of a transition leaves the tip as the last of its handlers does.
LEMMA HandlersRun ==
  ASSUME NEW H, NEW p, NEW h \in Seq(H)
  PROVE  \E after : /\ after[0] = p
                    /\ \A i \in 1..Len(h) : after[i] = RunHandler(after[i - 1], h[i])
                    /\ RunHandlers(p, h) = after[Len(h)]
<1>1. DOMAIN h = 1..Len(h) /\ Len(h) \in Nat
  OBVIOUS
<1>2. PICK it : /\ Folded(it, p, h, Len(h))
                /\ RunHandlers(p, h) = it[DOMAIN h]
  <2>1. \E it : Folded(it, p, h, Len(h))
    BY <1>1, FoldExists
  <2>2. RunHandlers(p, h) = (CHOOSE it : Folded(it, p, h, Len(h)))[DOMAIN h]
    BY <1>1 DEF RunHandlers, FoldLeft, MapThenFoldSet, Folded
  <2> QED
    BY <2>1, <2>2
<1> DEFINE after == [i \in 0..Len(h) |-> it[1..i]]
<1>3. after[0] = p
  <2>1. 1..0 = {} /\ {} \in SUBSET (1..Len(h)) /\ 0 \in 0..Len(h)
    BY <1>1
  <2>2. it[{}] = p
    BY <1>2, <2>1 DEF Folded
  <2> QED
    BY <2>1, <2>2
<1>4. ASSUME NEW i \in 1..Len(h) PROVE after[i] = RunHandler(after[i - 1], h[i])
  <2>1. i \in Nat \ {0} /\ i \in 0..Len(h) /\ i - 1 \in 0..Len(h)
    BY <1>1
  <2>2. 1..i \in SUBSET (1..Len(h)) /\ 1..i # {}
    <3>1. i \in 1..i
      BY <2>1
    <3>2. \A j \in 1..i : j \in 1..Len(h)
      BY <1>1, <2>1
    <3> QED
      BY <3>1, <3>2
  <2>3. it[1..i] = RunHandler(it[(1..i) \ {Max(1..i)}], h[Max(1..i)])
    BY <1>2, <2>2 DEF Folded
  <2>4. Max(1..i) = i /\ (1..i) \ {i} = 1..(i - 1)
    BY <2>1, MaxUpTo
  <2> QED
    BY <2>1, <2>3, <2>4
<1>5. after[Len(h)] = it[DOMAIN h]
  BY <1>1
<1> HIDE DEF after
<1> QED
  BY <1>2, <1>3, <1>4, <1>5

-----------------------------------------------------------------------------
\* One tip

Places == [top : Int, height : Nat, scroll : Nat, arrow : Int]
Tip == [made : BOOLEAN, hover : BOOLEAN, hoverState : {"null", "in", "out"}, in : BOOLEAN,
        fade : BOOLEAN, attached : BOOLEAN, described : BOOLEAN, place : Places,
        handlers : Seq({"shown", "hidden"})]

\* A place for a tip is at the arrow's end, and in the window if the tip fits.
LEMMA PlaceIs ==
  ASSUME TooltipAssumption, NEW l \in Labels, NEW size \in TipHeights, NEW scroll \in Scrolls
  PROVE  LET p == ApplyPlacement(l, size, scroll)
         IN  /\ p \in Places
             /\ p.top + p.arrow = LabelTop[l] + LabelHeight \div 2
             /\ p.height <= WindowHeight =>
                  p.scroll <= p.top /\ p.top + p.height <= p.scroll + WindowHeight
<1> DEFINE p == ApplyPlacement(l, size, scroll)
           hidden == size.hidden
           shown == size.shown
           middle == LabelTop[l] + LabelHeight \div 2
           top == middle - hidden \div 2
           delta == ViewportDelta(top, shown, scroll)
<1>1. /\ hidden \in Nat /\ shown \in Nat /\ scroll \in Nat /\ WindowHeight \in Nat
      /\ LabelTop[l] \in Nat /\ LabelHeight \in Nat
  BY DEF TooltipAssumption
<1>2. p = [top |-> top + delta, height |-> shown, scroll |-> scroll,
           arrow |-> (shown - (2 * delta - hidden + shown)) \div 2]
  BY DEF ApplyPlacement
<1>3. middle \in Int /\ top \in Int
  BY <1>1
<1>4. delta = IF top - scroll < 0 THEN -(top - scroll)
                ELSE IF top - scroll + shown > WindowHeight
                       THEN WindowHeight - (top - scroll + shown) ELSE 0
  BY DEF ViewportDelta
<1> HIDE DEF p, delta, hidden, shown, middle
<1>5. delta \in Int
  BY <1>1, <1>3, <1>4
<1>6. (shown - (2 * delta - hidden + shown)) \div 2 = hidden \div 2 - delta
  BY <1>1, <1>5
<1>7. /\ p.top = top + delta /\ p.height = shown /\ p.scroll = scroll
      /\ p.arrow = hidden \div 2 - delta
  BY <1>2, <1>6
<1>8. p \in Places
  BY <1>1, <1>2, <1>3, <1>5, <1>6 DEF Places
<1>9. p.top + p.arrow = middle
  BY <1>1, <1>3, <1>5, <1>7
<1>10. shown <= WindowHeight => scroll <= top + delta /\ top + delta + shown <= scroll + WindowHeight
  <2> HIDE DEF top
  <2> QED
    BY <1>1, <1>3, <1>4
<1> QED
  BY <1>7, <1>8, <1>9, <1>10 DEF p, middle

\* What hide does: a tip that has faded in fades out, and one that has not is taken away.
LEMMA HideIs ==
  ASSUME NEW tip \in Tip
  PROVE  LET h == Hide(tip)
         IN  /\ h \in Tip /\ ~h.in /\ h.hoverState = "null"
             /\ h.made = tip.made /\ h.hover = tip.hover /\ h.fade = tip.fade
             /\ h.described => tip.described /\ h.attached = tip.attached
             /\ h.attached => tip.attached /\ h.place = tip.place
<1> DEFINE waits == Append(tip.handlers, "hidden")
           stays == tip.attached /\ tip.hoverState = "in"
           place == IF tip.hoverState = "in" THEN tip.place ELSE NoPlace
           out == [tip EXCEPT !.in = FALSE]
           hiding == IF tip.fade THEN [out EXCEPT !.handlers = Append(@, "hidden")]
                       ELSE Hidden(out)
           h == Hide(tip)
<1>1. /\ waits \in Seq({"shown", "hidden"}) /\ stays \in BOOLEAN /\ place \in Places
      /\ stays => tip.attached /\ place = tip.place
  BY DEF Tip, NoPlace, Places
<1>2. /\ out \in Tip /\ ~out.in /\ out.hoverState = tip.hoverState
      /\ out.made = tip.made /\ out.hover = tip.hover /\ out.fade = tip.fade
      /\ out.described = tip.described /\ out.attached = tip.attached
      /\ out.place = tip.place /\ out.handlers = tip.handlers
  BY DEF Tip
<1>3. h = [hiding EXCEPT !.hoverState = "null"]
  BY DEF Hide
<1> HIDE DEF out, h
<1>4. hiding = IF tip.fade THEN [out EXCEPT !.handlers = waits]
                 ELSE [out EXCEPT !.attached = stays, !.place = place, !.described = FALSE]
  BY <1>2 DEF Hidden, Tip
<1> HIDE DEF waits, stays, place, hiding
<1>5. CASE tip.fade
  <2>1. hiding = [out EXCEPT !.handlers = waits]
    BY <1>4, <1>5
  <2>2. h = [out EXCEPT !.handlers = waits, !.hoverState = "null"]
    BY <1>2, <1>3, <2>1 DEF Tip
  <2>3. h \in Tip
    BY <1>1, <1>2, <2>2 DEF Tip
  <2>4. /\ h.in = out.in /\ h.hoverState = "null" /\ h.made = out.made
        /\ h.hover = out.hover /\ h.fade = out.fade /\ h.described = out.described
        /\ h.attached = out.attached /\ h.place = out.place
    BY <1>2, <2>2 DEF Tip
  <2> QED
    BY <1>2, <2>3, <2>4 DEF h
<1>6. CASE ~tip.fade
  <2>1. hiding = [out EXCEPT !.attached = stays, !.place = place, !.described = FALSE]
    BY <1>4, <1>6
  <2>2. h = [out EXCEPT !.attached = stays, !.place = place, !.described = FALSE,
                        !.hoverState = "null"]
    BY <1>2, <1>3, <2>1 DEF Tip
  <2>3. h \in Tip
    BY <1>1, <1>2, <2>2 DEF Tip
  <2>4. /\ h.in = out.in /\ h.hoverState = "null" /\ h.made = out.made
        /\ h.hover = out.hover /\ h.fade = out.fade /\ h.described = FALSE
        /\ h.attached = stays /\ h.place = place
    BY <1>2, <2>2 DEF Tip
  <2> QED
    BY <1>1, <1>2, <2>3, <2>4 DEF h
<1> QED
  BY <1>5, <1>6

\* The mouse leaves: the tip fades out or is taken away.
LEMMA LeaveIs ==
  ASSUME NEW tip \in Tip
  PROVE  LET h == LeaveSelf([Instance(tip) EXCEPT !.hover = FALSE])
         IN  /\ h \in Tip /\ ~h.in /\ h.hoverState = "null"
             /\ h.made /\ ~h.hover /\ h.fade = tip.fade
             /\ h.described => tip.described /\ h.attached = tip.attached
             /\ h.attached => tip.attached /\ h.place = tip.place
<1> DEFINE left == [Instance(tip) EXCEPT !.hover = FALSE]
           out == [left EXCEPT !.hoverState = "out"]
           h == LeaveSelf(left)
<1>1. /\ left \in Tip /\ left.hover = FALSE
      /\ left = [tip EXCEPT !.made = TRUE, !.hover = FALSE]
  BY DEF Instance, Tip
<1>2. h = Hide(out)
  BY <1>1 DEF LeaveSelf
<1>3. /\ left.made = TRUE /\ left.fade = tip.fade /\ left.described = tip.described
      /\ left.attached = tip.attached /\ left.place = tip.place
  BY <1>1 DEF Tip
<1> HIDE DEF left, h
<1>4. /\ out \in Tip /\ out.made = left.made /\ out.hover = left.hover
      /\ out.fade = left.fade /\ out.described = left.described
      /\ out.attached = left.attached /\ out.place = left.place
  BY <1>1 DEF Tip
<1> HIDE DEF out
<1>5. /\ h \in Tip /\ ~h.in /\ h.hoverState = "null"
      /\ h.made = out.made /\ h.hover = out.hover /\ h.fade = out.fade
      /\ h.described => out.described /\ h.attached = out.attached
      /\ h.attached => out.attached /\ h.place = out.place
  BY <1>2, <1>4, HideIs
<1> QED
  BY <1>1, <1>3, <1>4, <1>5 DEF h, left

\* The mouse comes: a tip that has faded out, or never was there, is put on the page.
LEMMA EnterIs ==
  ASSUME NEW tip \in Tip, ~tip.in, tip.hoverState # "in", NEW place \in Places
  PROVE  LET e == EnterSelf([Instance(tip) EXCEPT !.hover = TRUE], place)
         IN  /\ e \in Tip /\ e.in /\ e.fade /\ e.hoverState = "in"
             /\ e.made /\ e.hover /\ e.described /\ e.attached /\ e.place = place
             /\ e.handlers = Append(tip.handlers, "shown")
<1> DEFINE came == [Instance(tip) EXCEPT !.hover = TRUE]
           entered == [came EXCEPT !.hoverState = "in"]
           e == EnterSelf(came, place)
           waits == Append(tip.handlers, "shown")
<1>1. came = [tip EXCEPT !.made = TRUE, !.hover = TRUE]
  BY DEF Instance, Tip
<1>2. /\ ~came.in /\ came.hoverState # "in" /\ came.handlers = tip.handlers
      /\ came \in Tip /\ came.made = TRUE /\ came.hover = TRUE
  BY <1>1 DEF Tip
<1>3. e = Show(entered, place)
  BY <1>2 DEF EnterSelf
<1> HIDE DEF e, came
<1>4. /\ entered \in Tip /\ entered.made = TRUE /\ entered.hover = TRUE
      /\ entered.hoverState = "in" /\ entered.handlers = tip.handlers
  BY <1>2 DEF Tip
<1> HIDE DEF entered
<1>5. waits \in Seq({"shown", "hidden"})
  BY DEF Tip
<1>6. e = [entered EXCEPT !.fade = TRUE, !.in = TRUE, !.attached = TRUE, !.described = TRUE,
                          !.place = place, !.handlers = waits]
  BY <1>3, <1>4 DEF Show, Tip
<1> HIDE DEF waits
<1>7. e \in Tip
  BY <1>4, <1>5, <1>6 DEF Tip
<1>8. /\ e.in = TRUE /\ e.fade = TRUE /\ e.hoverState = entered.hoverState
      /\ e.made = entered.made /\ e.hover = entered.hover /\ e.described = TRUE
      /\ e.attached = TRUE /\ e.place = place /\ e.handlers = waits
  BY <1>4, <1>6 DEF Tip
<1> QED
  BY <1>4, <1>7, <1>8 DEF e, came, waits

\* What one handler does: that of show keeps the tip where it is, and that of hide
\* takes it from the page or its name from the label, and neither adds another.
LEMMA RunHandlerIs ==
  ASSUME NEW tip \in Tip, tip.hoverState # "out", NEW handler \in {"shown", "hidden"}
  PROVE  LET r == RunHandler(tip, handler)
         IN  /\ r \in Tip /\ r.made = tip.made /\ r.hover = tip.hover
             /\ r.in = tip.in /\ r.fade = tip.fade /\ r.handlers = tip.handlers
             /\ r.hoverState \in {"null", tip.hoverState}
             /\ r.described => tip.described /\ r.attached = tip.attached
             /\ r.attached => tip.attached /\ r.place = tip.place
             /\ handler = "shown" =>
                  r.attached = tip.attached /\ r.described = tip.described
<1> DEFINE r == RunHandler(tip, handler)
           stays == tip.attached /\ tip.hoverState = "in"
           place == IF tip.hoverState = "in" THEN tip.place ELSE NoPlace
<1>1. CASE handler = "shown"
  <2>1. r = [tip EXCEPT !.hoverState = "null"]
    BY <1>1 DEF RunHandler, Shown
  <2> HIDE DEF r
  <2>2. /\ r \in Tip /\ r.hoverState = "null" /\ r.made = tip.made /\ r.hover = tip.hover
        /\ r.in = tip.in /\ r.fade = tip.fade /\ r.handlers = tip.handlers
        /\ r.described = tip.described /\ r.attached = tip.attached /\ r.place = tip.place
    BY <2>1 DEF Tip
  <2> QED
    BY <1>1, <2>2 DEF r
<1>2. CASE handler = "hidden"
  <2>1. /\ place \in Places /\ stays \in BOOLEAN
        /\ stays => tip.attached /\ place = tip.place
    BY DEF Tip, NoPlace, Places
  <2>2. r = [tip EXCEPT !.attached = stays, !.place = place, !.described = FALSE]
    BY <1>2 DEF RunHandler, Hidden, Tip
  <2> HIDE DEF r, stays, place
  <2>3. r \in Tip
    BY <2>1, <2>2 DEF Tip
  <2>4. /\ r.hoverState = tip.hoverState /\ r.made = tip.made /\ r.hover = tip.hover
        /\ r.in = tip.in /\ r.fade = tip.fade /\ r.handlers = tip.handlers
        /\ r.described = FALSE /\ r.attached = stays /\ r.place = place
    BY <2>2 DEF Tip
  <2> QED
    BY <1>2, <2>1, <2>3, <2>4 DEF r
<1> QED
  BY <1>1, <1>2

\* The end of a fade, which runs all handlers of a tip.
LEMMA HandlersLeave ==
  ASSUME NEW tip \in Tip, tip.hoverState # "out", tip.described => tip.attached
  PROVE  LET e == RunHandlers([tip EXCEPT !.handlers = <<>>], tip.handlers)
         IN  /\ e \in Tip /\ e.made = tip.made /\ e.hover = tip.hover
             /\ e.in = tip.in /\ e.fade = tip.fade /\ e.handlers = <<>>
             /\ e.hoverState \in {"null", tip.hoverState}
             /\ e.described => e.attached
             /\ e.attached => tip.attached /\ e.place = tip.place
             /\ (\A i \in DOMAIN tip.handlers : tip.handlers[i] = "shown") =>
                  e.attached = tip.attached /\ e.described = tip.described
<1> DEFINE H == {"shown", "hidden"}
           h == tip.handlers
           start == [tip EXCEPT !.handlers = <<>>]
<1>1. h \in Seq(H) /\ Len(h) \in Nat /\ DOMAIN h = 1..Len(h)
  BY DEF Tip
<1>2. /\ start \in Tip /\ start.made = tip.made /\ start.hover = tip.hover
      /\ start.in = tip.in /\ start.fade = tip.fade /\ start.handlers = <<>>
      /\ start.hoverState = tip.hoverState /\ start.described = tip.described
      /\ start.attached = tip.attached /\ start.place = tip.place
  <2>1. <<>> \in Seq({"shown", "hidden"})
    OBVIOUS
  <2> QED
    BY <2>1 DEF Tip
<1> HIDE DEF h, start
<1>3. PICK after : /\ after[0] = start
                   /\ \A i \in 1..Len(h) : after[i] = RunHandler(after[i - 1], h[i])
                   /\ RunHandlers(start, h) = after[Len(h)]
  <2> HIDE DEF H
  <2>1. h \in Seq(H)
    BY <1>1
  <2> QED
    BY <1>2, <2>1, HandlersRun
<1>4. \A i \in 1..Len(h) : h[i] \in H
  <2> HIDE DEF H
  <2> QED
    BY <1>1
<1> DEFINE Same(t) ==
      /\ t \in Tip /\ t.made = tip.made /\ t.hover = tip.hover
      /\ t.in = tip.in /\ t.fade = tip.fade /\ t.handlers = <<>>
      /\ t.hoverState \in {"null", tip.hoverState}
      /\ t.described => t.attached
      /\ t.attached => tip.attached /\ t.place = tip.place
    Kept(i) == (\A j \in 1..i : h[j] = "shown") =>
      after[i].attached = tip.attached /\ after[i].described = tip.described
    Done(i) == Same(after[i]) /\ Kept(i)
<1>5. Done(0)
  BY <1>2, <1>3
<1>6. ASSUME NEW i \in 1..Len(h), Done(i - 1) PROVE Done(i)
  <2> DEFINE t == after[i - 1]
             r == after[i]
  <2>1. r = RunHandler(t, h[i]) /\ h[i] \in H
    BY <1>3, <1>4
  <2>2. i - 1 \in Nat /\ 1..i = (1..(i - 1)) \cup {i}
    BY <1>1
  <2>3. Same(t) /\ Kept(i - 1)
    BY <1>6
  <2> HIDE DEF r, t
  <2>4. /\ r \in Tip /\ r.made = t.made /\ r.hover = t.hover
        /\ r.in = t.in /\ r.fade = t.fade /\ r.handlers = t.handlers
        /\ r.hoverState \in {"null", t.hoverState}
        /\ r.described => t.described /\ r.attached = t.attached
        /\ r.attached => t.attached /\ r.place = t.place
        /\ h[i] = "shown" => r.attached = t.attached /\ r.described = t.described
    BY <2>1, <2>3, RunHandlerIs
  <2>5. Same(r)
    BY <2>3, <2>4
  <2>6. Kept(i)
    <3>1. ASSUME \A j \in 1..i : h[j] = "shown"
          PROVE  r.attached = tip.attached /\ r.described = tip.described
      <4>1. h[i] = "shown" /\ \A j \in 1..(i - 1) : h[j] = "shown"
        BY <2>2, <3>1
      <4>2. t.attached = tip.attached /\ t.described = tip.described
        BY <2>3, <4>1 DEF t
      <4> QED
        BY <2>4, <4>1, <4>2
    <3> QED
      BY <3>1 DEF r
  <2> QED
    BY <2>5, <2>6 DEF r
<1> HIDE DEF Done
<1>7. Done(Len(h))
  <2> DEFINE Bad == {i \in 0..Len(h) : ~Done(i)}
  <2> SUFFICES ASSUME Bad # {} PROVE FALSE
    BY <1>1
  <2>1. Bad \in SUBSET Nat
    OBVIOUS
  <2>2. PICK i \in Bad : \A j \in Bad : i <= j
    BY <2>1, LeastNatural
  <2>3. i \in 1..Len(h)
    BY <1>1, <1>5, <2>2
  <2>4. i - 1 \in 0..Len(h) /\ i - 1 \notin Bad
    BY <1>1, <2>2, <2>3
  <2> QED
    BY <1>6, <2>2, <2>3, <2>4
<1> DEFINE e == after[Len(h)]
<1>8. Same(e) /\ Kept(Len(h))
  BY <1>7 DEF Done
<1> QED
  BY <1>1, <1>3, <1>8 DEF h, start

-----------------------------------------------------------------------------
\* The inductive invariant

\* Where the arrow and the tip are for a label.
Pointed(l, p) ==
  /\ p.top + p.arrow = LabelTop[l] + LabelHeight \div 2
  /\ p.height <= WindowHeight =>
       p.scroll <= p.top /\ p.top + p.height <= p.scroll + WindowHeight

\* A tip is faded in as long as the mouse is known to be over its label, "out" is never
\* left behind, and what is on the page is where it was put.
Steady(l) ==
  LET tip == tips[l]
  IN  /\ tip \in Tip
      /\ tip.in <=> tip.hover
      /\ ~tip.made => ~tip.hover
      /\ tip.hoverState # "out"
      /\ tip.hoverState = "in" => tip.hover
      /\ tip.attached => Pointed(l, tip.place)

\* For whoever waited, no handler of hide is left to take the tip away.
Patient(l) ==
  l \in calm /\ mouse = l /\ tips[l].made =>
    /\ tips[l].attached /\ tips[l].described
    /\ \A i \in DOMAIN tips[l].handlers : tips[l].handlers[i] = "shown"

Inv == TypeOK /\ \A l \in Labels : Steady(l) /\ Patient(l)

-----------------------------------------------------------------------------
\* The mouse and the fades

LEMMA InitInv == Init => Inv
<1> SUFFICES ASSUME Init PROVE Inv
  OBVIOUS
<1>1. /\ mouse \in Labels \cup {NoLabel} /\ calm = {}
      /\ tips = [l \in Labels |-> NoTip]
  BY DEF Init
<1>2. /\ NoTip \in Tip /\ ~NoTip.made /\ ~NoTip.hover /\ ~NoTip.in
      /\ NoTip.hoverState = "null" /\ ~NoTip.attached /\ ~NoTip.described
  <2>1. NoPlace \in Places /\ <<>> \in Seq({"shown", "hidden"})
    BY DEF NoPlace, Places
  <2> QED
    BY <2>1 DEF NoTip, Tip
<1>3. TypeOK
  BY <1>1, <1>2 DEF TypeOK, Tip, Places
<1>4. \A l \in Labels : Steady(l)
  BY <1>1, <1>2 DEF Steady
<1>5. \A l \in Labels : Patient(l)
  BY <1>1 DEF Patient
<1> QED
  BY <1>3, <1>4, <1>5 DEF Inv

LEMMA StepInv == Inv /\ [Next]_vars => Inv'
<1> SUFFICES ASSUME Inv, [Next]_vars PROVE Inv'
  OBVIOUS
<1>1. /\ mouse \in Labels \cup {NoLabel} /\ calm \subseteq Labels /\ NoLabel \notin Labels
      /\ tips = [k \in Labels |-> tips[k]]
      /\ \A k \in Labels :
           /\ tips[k] \in Tip /\ Steady(k) /\ Patient(k)
           /\ tips[k].in => tips[k].fade
           /\ tips[k].described => tips[k].attached
           /\ tips[k].made => tips[k].hover = (mouse = k)
  BY TooltipAssumption DEF Inv, TypeOK, Steady, TooltipAssumption
<1>2. ASSUME mouse' \in Labels \cup {NoLabel}, calm' \subseteq Labels,
             tips' = [k \in Labels |-> tips'[k]],
             \A k \in Labels : /\ tips'[k] \in Tip
                               /\ tips'[k].in => tips'[k].fade
                               /\ tips'[k].described => tips'[k].attached
                               /\ tips'[k].made => tips'[k].hover = (mouse' = k)
      PROVE  TypeOK'
  BY <1>2 DEF TypeOK, Tip, Places
<1>3. ASSUME NEW l \in Labels, Enter(l) PROVE Inv'
  <2>1. mouse = NoLabel /\ mouse' = l
    BY <1>3 DEF Enter
  <2>2. PICK size \in TipHeights, scroll \in Scrolls :
          tips' = [tips EXCEPT ![l] =
            EnterSelf([Instance(tips[l]) EXCEPT !.hover = TRUE],
                      ApplyPlacement(l, size, scroll))]
    BY <1>3 DEF Enter
  <2>3. calm' = IF tips[l].handlers = <<>> THEN calm \cup {l} ELSE calm \ {l}
    BY <1>3 DEF Enter
  <2> DEFINE place == ApplyPlacement(l, size, scroll)
             e == EnterSelf([Instance(tips[l]) EXCEPT !.hover = TRUE], place)
  <2>4. place \in Places /\ Pointed(l, place)
    BY TooltipAssumption, PlaceIs DEF Pointed
  <2> HIDE DEF place
  <2>5. ~tips[l].in /\ tips[l].hoverState # "in"
    BY <1>1, <2>1 DEF Steady
  <2>6. /\ e \in Tip /\ e.in /\ e.fade /\ e.hoverState = "in"
        /\ e.made /\ e.hover /\ e.described /\ e.attached /\ e.place = place
        /\ e.handlers = Append(tips[l].handlers, "shown")
    BY <1>1, <2>4, <2>5, EnterIs
  <2>7. tips' = [k \in Labels |-> IF k = l THEN e ELSE tips[k]]
    BY <1>1, <2>2 DEF place
  <2> HIDE DEF e
  <2>8. tips'[l] = e /\ \A k \in Labels \ {l} : tips'[k] = tips[k]
    BY <2>7
  <2>9. e.hover = TRUE
    BY <2>6 DEF Tip
  <2>10. TypeOK'
    <3>1. \A k \in Labels \ {l} : tips[k].made => tips[k].hover = (mouse' = k)
      BY <1>1, <2>1
    <3>2. calm' \subseteq Labels
      BY <1>1, <2>3
    <3> QED
      BY <1>1, <1>2, <2>1, <2>6, <2>7, <2>8, <2>9, <3>1, <3>2
  <2>11. ASSUME NEW k \in Labels PROVE Steady(k)'
    BY <1>1, <2>4, <2>6, <2>8 DEF Steady, Pointed
  <2>12. ASSUME NEW k \in Labels PROVE Patient(k)'
    <3> SUFFICES ASSUME k \in calm', k = l
                 PROVE  /\ e.attached /\ e.described
                        /\ \A i \in DOMAIN e.handlers : e.handlers[i] = "shown"
      BY <2>1, <2>8 DEF Patient
    <3>1. tips[l].handlers = <<>>
      BY <2>3
    <3>2. e.handlers = <<"shown">>
      BY <2>6, <3>1
    <3> QED
      BY <2>6, <3>2
  <2> QED
    BY <2>10, <2>11, <2>12 DEF Inv
<1>4. ASSUME NEW l \in Labels, Leave(l) PROVE Inv'
  <2> DEFINE h == LeaveSelf([Instance(tips[l]) EXCEPT !.hover = FALSE])
  <2>1. /\ mouse = l /\ mouse' = NoLabel
        /\ tips' = [tips EXCEPT ![l] = h]
        /\ calm' \subseteq calm
    BY <1>4 DEF Leave
  <2>2. /\ h \in Tip /\ ~h.in /\ h.hoverState = "null"
        /\ h.made /\ ~h.hover /\ h.fade = tips[l].fade
        /\ h.described => tips[l].described /\ h.attached = tips[l].attached
        /\ h.attached => tips[l].attached /\ h.place = tips[l].place
    BY <1>1, LeaveIs
  <2> HIDE DEF h
  <2>3. tips' = [k \in Labels |-> IF k = l THEN h ELSE tips[k]]
    BY <1>1, <2>1
  <2>4. tips'[l] = h /\ \A k \in Labels \ {l} : tips'[k] = tips[k]
    BY <2>3
  <2>5. h.hover = FALSE
    BY <2>2 DEF Tip
  <2>6. TypeOK'
    <3>1. \A k \in Labels \ {l} : tips[k].made => tips[k].hover = (mouse' = k)
      BY <1>1, <2>1
    <3>2. calm' \subseteq Labels
      BY <1>1, <2>1
    <3>3. ASSUME NEW k \in Labels
          PROVE  /\ tips'[k] \in Tip
                 /\ tips'[k].in => tips'[k].fade
                 /\ tips'[k].described => tips'[k].attached
                 /\ tips'[k].made => tips'[k].hover = (mouse' = k)
      <4>1. CASE k = l
        <5>1. mouse' # k
          BY <1>1, <2>1
        <5> QED
          BY <1>1, <2>2, <2>4, <2>5, <4>1, <5>1
      <4>2. CASE k # l
        BY <1>1, <2>4, <3>1, <4>2
      <4> QED
        BY <4>1, <4>2
    <3>4. mouse' \in Labels \cup {NoLabel}
      BY <2>1
    <3> QED
      BY <1>2, <2>3, <3>2, <3>3, <3>4
  <2>7. ASSUME NEW k \in Labels PROVE Steady(k)'
    BY <1>1, <2>2, <2>4 DEF Steady, Pointed
  <2>8. ASSUME NEW k \in Labels PROVE Patient(k)'
    BY <1>1, <2>1 DEF Patient
  <2> QED
    BY <2>6, <2>7, <2>8 DEF Inv
<1>5. ASSUME NEW l \in Labels, TransitionEnd(l) PROVE Inv'
  <2> DEFINE e == RunHandlers([tips[l] EXCEPT !.handlers = <<>>], tips[l].handlers)
  <2>1. /\ mouse' = mouse /\ calm' = calm
        /\ tips' = [tips EXCEPT ![l] = e]
    BY <1>5 DEF TransitionEnd, RunHandlers
  <2>2. /\ e \in Tip /\ e.made = tips[l].made /\ e.hover = tips[l].hover
        /\ e.in = tips[l].in /\ e.fade = tips[l].fade /\ e.handlers = <<>>
        /\ e.hoverState \in {"null", tips[l].hoverState}
        /\ e.described => e.attached
        /\ e.attached => tips[l].attached /\ e.place = tips[l].place
        /\ (\A i \in DOMAIN tips[l].handlers : tips[l].handlers[i] = "shown") =>
             e.attached = tips[l].attached /\ e.described = tips[l].described
    <3>1. tips[l].hoverState # "out"
      BY <1>1 DEF Steady
    <3> QED
      BY <1>1, <3>1, HandlersLeave
  <2> HIDE DEF e
  <2>3. tips' = [k \in Labels |-> IF k = l THEN e ELSE tips[k]]
    BY <1>1, <2>1
  <2>4. tips'[l] = e /\ \A k \in Labels \ {l} : tips'[k] = tips[k]
    BY <2>3
  <2>5. TypeOK'
    BY <1>1, <1>2, <2>1, <2>2, <2>3, <2>4
  <2>6. ASSUME NEW k \in Labels PROVE Steady(k)'
    BY <1>1, <2>2, <2>4 DEF Steady, Pointed
  <2>7. ASSUME NEW k \in Labels PROVE Patient(k)'
    <3>1. CASE k = l
      <4> SUFFICES ASSUME l \in calm, mouse = l, e.made
                   PROVE  /\ e.attached /\ e.described
                          /\ \A i \in DOMAIN e.handlers : e.handlers[i] = "shown"
        BY <2>1, <2>4, <3>1 DEF Patient
      <4>1. /\ tips[l].attached /\ tips[l].described
            /\ \A i \in DOMAIN tips[l].handlers : tips[l].handlers[i] = "shown"
        BY <1>1, <2>2 DEF Patient
      <4>2. DOMAIN e.handlers = {}
        BY <2>2
      <4> QED
        BY <2>2, <4>1, <4>2
    <3>2. CASE k # l
      BY <1>1, <2>1, <2>4, <3>2 DEF Patient
    <3> QED
      BY <3>1, <3>2
  <2> QED
    BY <2>5, <2>6, <2>7 DEF Inv
<1>6. CASE UNCHANGED vars
  BY <1>6 DEF vars, Inv, TypeOK, Steady, Patient
<1> QED
  BY <1>3, <1>4, <1>5, <1>6 DEF Next

LEMMA Invariance == Spec => []Inv
<1> QED
  BY InitInv, StepInv, PTL DEF Spec

-----------------------------------------------------------------------------
\* Theorems

\* For any labels, a tip that is seen fades, an instance knows where the mouse is, and a
\* label that is described by a tip has it on the page, whichever handlers of fades that
\* cross run in whichever order (bootstrap.js:1444, 1574-1582).
THEOREM TipsTypeCorrect == Spec => []TypeOK
BY Invariance, PTL DEF Inv

\* Whoever lets a fade end before the mouse comes or goes sees the tip under the mouse:
\* then no handler of hide is left that could take it from the page, or its name from
\* the label (bootstrap.js:1380, 1492, 1574-1582).
THEOREM TipsStayForThePatient == Spec => []ThePatientSeeTheTip
<1>1. Inv => ThePatientSeeTheTip
  <2> SUFFICES ASSUME Inv, NEW l \in calm, mouse = l, tips[l].made
               PROVE  tips[l].attached /\ tips[l].in /\ tips[l].described
    BY DEF ThePatientSeeTheTip
  <2>1. l \in Labels /\ tips[l].hover
    BY DEF Inv, TypeOK
  <2>2. tips[l].in
    BY <2>1 DEF Inv, Steady
  <2> QED
    BY <2>1, <2>2 DEF Inv, Patient
<1> QED
  BY <1>1, Invariance, PTL

\* Wherever a label is, however far the document is scrolled and whatever height a tip
\* has before and after it grew, its arrow points at the middle of the label; and a tip
\* that fits in the window is inside it (bootstrap.js:1533-1552, 1637-1667).
THEOREM ArrowsPointAtLabels == Spec => []ArrowPointsAtLabel
<1>1. Inv => ArrowPointsAtLabel
  BY DEF Inv, Steady, Pointed, ArrowPointsAtLabel
<1> QED
  BY <1>1, Invariance, PTL
=============================================================================
