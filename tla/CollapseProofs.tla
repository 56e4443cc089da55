---------------------------- MODULE CollapseProofs ----------------------------
(***************************************************************************)
(* What the accordion promises for every number of panels and of handlers  *)
(* that wait.                                                              *)
(***************************************************************************)
EXTENDS Collapse, WellFoundedInduction, TLAPS

-----------------------------------------------------------------------------
\* Least and greatest numbers

LEMMA LeastNatural ==
  ASSUME NEW S \in SUBSET Nat, S # {}
  PROVE  \E x \in S : \A y \in S : x <= y
<1> DEFINE Less == {p \in Nat \X Nat : p[1] < p[2]}
<1>1. IsWellFoundedOn(Less, Nat)
  BY NatLessThanWellFounded DEF OpToRel
<1> HIDE DEF Less
<1>2. PICK x \in S : \A y \in S : ~(<<y, x>> \in Less)
  BY <1>1, WFMin
<1>3. \A y \in S : ~(y < x)
  BY <1>2 DEF Less
<1> QED
  BY <1>3

LEMMA MinMember ==
  ASSUME NEW S \in SUBSET Nat, S # {}
  PROVE  Min(S) \in S /\ \A i \in S : Min(S) <= i
BY LeastNatural DEF Min

LEMMA MaxMember ==
  ASSUME NEW n \in Nat, NEW S \in SUBSET (1..n), S # {}
  PROVE  Max(S) \in S /\ \A i \in S : i <= Max(S)
<1> DEFINE T == {n - i : i \in S}
<1>0. T \in SUBSET Nat /\ T # {}
  <2>1. \A i \in S : n - i \in Nat
    OBVIOUS
  <2> QED
    BY <2>1
<1>1. PICK x \in T : \A y \in T : x <= y
  BY <1>0, LeastNatural
<1>2. PICK m \in S : x = n - m
  BY <1>1
<1>3. ASSUME NEW i \in S PROVE i <= m
  <2>1. n - m <= n - i
    BY <1>1, <1>2
  <2> QED
    BY <2>1
<1> QED
  BY <1>2, <1>3 DEF Max

LEMMA MaxUpTo ==
  ASSUME NEW k \in Nat \ {0}
  PROVE  Max(1..k) = k /\ (1..k) \ {k} = 1..(k - 1)
<1>2. k \in 1..k /\ 1..k \in SUBSET (1..k) /\ 1..k # {}
  OBVIOUS
<1>1. /\ Max(1..k) \in 1..k /\ \A i \in 1..k : i <= Max(1..k)
  BY <1>2, MaxMember
<1> QED
  BY <1>1, <1>2

-----------------------------------------------------------------------------
\* The handlers of a panel, run one after the other

\* A fold of the handlers up to the k-th, over every set of them.
Folded(it, p, h, k) ==
  it = [s \in SUBSET (1..k) |->
          IF s = {} THEN p ELSE Complete(it[s \ {Max(s)}], h[Max(s)])]

LEMMA FoldLonger ==
  ASSUME NEW p, NEW h, NEW k \in Nat, NEW it, Folded(it, p, h, k)
  PROVE  \E longer : Folded(longer, p, h, k + 1)
<1> DEFINE S == SUBSET (1..(k + 1))
           longer == [s \in S |-> IF k + 1 \in s
                                    THEN Complete(it[s \ {k + 1}], h[k + 1]) ELSE it[s]]
<1>1. ASSUME NEW s \in S
      PROVE  longer[s] = IF s = {} THEN p ELSE Complete(longer[s \ {Max(s)}], h[Max(s)])
  <2>1. CASE k + 1 \in s
    <3>1. Max(s) = k + 1
      <4>1. Max(s) \in s /\ \A i \in s : i <= Max(s)
        <5>1. k + 1 \in Nat /\ s # {} /\ s \in SUBSET (1..(k + 1))
          BY <2>1
        <5> QED
          BY <5>1, MaxMember
      <4>2. Max(s) \in 1..(k + 1) /\ k + 1 <= Max(s)
        BY <2>1, <4>1
      <4> QED
        BY <4>2
    <3>2. s \ {k + 1} \in S /\ k + 1 \notin s \ {k + 1}
      OBVIOUS
    <3>3. longer[s \ {k + 1}] = it[s \ {k + 1}]
      BY <3>2
    <3>4. longer[s] = Complete(it[s \ {k + 1}], h[k + 1])
      BY <2>1
    <3> HIDE DEF longer
    <3> QED
      BY <2>1, <3>1, <3>3, <3>4
  <2>2. CASE k + 1 \notin s
    <3>1. s \in SUBSET (1..k)
      BY <2>2
    <3>2. it[s] = IF s = {} THEN p ELSE Complete(it[s \ {Max(s)}], h[Max(s)])
      BY <3>1 DEF Folded
    <3>3. longer[s] = it[s]
      BY <2>2
    <3>4. s \ {Max(s)} \in S /\ k + 1 \notin s \ {Max(s)}
      BY <2>2
    <3>5. longer[s \ {Max(s)}] = it[s \ {Max(s)}]
      BY <3>4
    <3> HIDE DEF longer
    <3> QED
      BY <3>2, <3>3, <3>5
  <2> QED
    BY <2>1, <2>2
<1>2. longer = [s \in S |-> longer[s]]
  OBVIOUS
<1> HIDE DEF longer
<1>3. Folded(longer, p, h, k + 1)
  BY <1>1, <1>2 DEF Folded
<1> QED
  BY <1>3

LEMMA FoldExists ==
  ASSUME NEW p, NEW h, NEW n \in Nat
  PROVE  \E it : Folded(it, p, h, n)
<1> DEFINE Bad == {k \in Nat : ~ \E it : Folded(it, p, h, k)}
<1> SUFFICES ASSUME Bad # {} PROVE FALSE
  OBVIOUS
<1>1. PICK k \in Bad : \A j \in Bad : k <= j
  BY LeastNatural
<1>2. k # 0
  <2> DEFINE it == [s \in SUBSET (1..0) |-> p]
  <2>1. \A s \in SUBSET (1..0) : s = {}
    OBVIOUS
  <2>2. Folded(it, p, h, 0)
    BY <2>1 DEF Folded
  <2> HIDE DEF it
  <2> QED
    BY <2>2
<1>3. k - 1 \in Nat /\ k - 1 \notin Bad
  BY <1>1, <1>2
<1>4. \E it : Folded(it, p, h, k - 1)
  BY <1>3
<1>5. \E it : Folded(it, p, h, k - 1 + 1)
  BY <1>3, <1>4, FoldLonger
<1>6. k - 1 + 1 = k
  BY <1>1
<1> QED
  BY <1>1, <1>5, <1>6

RunHandlers(p, h) == FoldLeft(Complete, p, h)

\* The end of a transition leaves the panel as the last of its handlers does.
LEMMA HandlersRun ==
  ASSUME NEW H, NEW p, NEW h \in Seq(H)
  PROVE  \E after : /\ after[0] = p
                    /\ \A i \in 1..Len(h) : after[i] = Complete(after[i - 1], h[i])
                    /\ RunHandlers(p, h) = after[Len(h)]
<1>1. DOMAIN h = 1..Len(h) /\ Len(h) \in Nat
  OBVIOUS
<1>2. PICK it : /\ Folded(it, p, h, Len(h))
                /\ RunHandlers(p, h) = it[DOMAIN h]
  <2>1. \E it : Folded(it, p, h, Len(h))
    BY <1>1, FoldExists
  <2>2. RunHandlers(p, h) = (CHOOSE it : Folded(it, p, h, Len(h)))[DOMAIN h]
    BY <1>1 DEF RunHandlers, FoldLeft, MapThenFoldSet, Folded
  <2> QED
    BY <2>1, <2>2
<1> DEFINE after == [i \in 0..Len(h) |-> it[1..i]]
<1>3. after[0] = p
  <2>1. 1..0 = {} /\ {} \in SUBSET (1..Len(h)) /\ 0 \in 0..Len(h)
    BY <1>1
  <2>2. it[{}] = p
    BY <1>2, <2>1 DEF Folded
  <2> QED
    BY <2>1, <2>2
<1>4. ASSUME NEW i \in 1..Len(h) PROVE after[i] = Complete(after[i - 1], h[i])
  <2>1. i \in Nat \ {0} /\ i \in 0..Len(h) /\ i - 1 \in 0..Len(h)
    BY <1>1
  <2>2. 1..i \in SUBSET (1..Len(h)) /\ 1..i # {}
    <3>1. i \in 1..i
      BY <2>1
    <3>2. \A j \in 1..i : j \in 1..Len(h)
      BY <1>1, <2>1
    <3> QED
      BY <3>1, <3>2
  <2>3. it[1..i] = Complete(it[(1..i) \ {Max(1..i)}], h[Max(1..i)])
    BY <1>2, <2>2 DEF Folded
  <2>4. Max(1..i) = i /\ (1..i) \ {i} = 1..(i - 1)
    BY <2>1, MaxUpTo
  <2> QED
    BY <2>1, <2>3, <2>4
<1>5. after[Len(h)] = it[DOMAIN h]
  BY <1>1
<1> HIDE DEF after
<1> QED
  BY <1>2, <1>3, <1>4, <1>5

-----------------------------------------------------------------------------
\* One panel

Data == [made : BOOLEAN, transitioning : BOOLEAN, parent : BOOLEAN]
Handlers == Seq([shows : BOOLEAN, mine : BOOLEAN])
Panel == [classes : {{"collapse"}, {"collapse", "in"}, {"collapsing"}},
          data : Data, collapsed : BOOLEAN, handlers : Handlers]

\* A panel that will be open when its transition, if it has one, is over.
WillOpen(panel) ==
  Open(panel) \/ \E i \in DOMAIN panel.handlers : panel.handlers[i].shows

\* A panel moves as long as handlers wait, and an instance that refuses clicks has
\* one of them. Without transitions nothing waits.
Sound(panel) ==
  /\ panel \in Panel
  /\ Moving(panel) <=> panel.handlers # <<>>
  /\ panel.data.transitioning => Moving(panel)
       /\ \E i \in DOMAIN panel.handlers : panel.handlers[i].mine
  /\ ~animates => panel.handlers = <<>>

\* What each operation on a panel does to its columns.
LEMMA CompleteIs ==
  ASSUME NEW panel \in Panel, NEW handler \in [shows : BOOLEAN, mine : BOOLEAN]
  PROVE  LET c == Complete(panel, handler)
         IN  /\ c \in Panel /\ ~Moving(c)
             /\ Open(c) <=> Open(panel) \/ handler.shows
             /\ c.handlers = panel.handlers /\ c.collapsed = panel.collapsed
             /\ c.data.made = panel.data.made /\ c.data.parent = panel.data.parent
             /\ c.data.transitioning <=> panel.data.transitioning /\ ~handler.mine
<1> DEFINE c == Complete(panel, handler)
           classes == (panel.classes \ {"collapsing"}) \cup
                         IF handler.shows THEN {"collapse", "in"} ELSE {"collapse"}
           transitioning == panel.data.transitioning /\ ~handler.mine
           data == [panel.data EXCEPT !.transitioning = transitioning]
<1>1. c = [panel EXCEPT !.classes = classes, !.data = data]
  BY DEF Complete, Panel
<1>2. /\ data \in Data
      /\ data.made = panel.data.made /\ data.parent = panel.data.parent
      /\ data.transitioning = transitioning
  BY DEF Panel, Data
<1>3. /\ classes \in {{"collapse"}, {"collapse", "in"}}
      /\ "in" \in classes <=> "in" \in panel.classes \/ handler.shows
      /\ "collapsing" \notin classes
  <2>1. panel.classes \in {{"collapse"}, {"collapse", "in"}, {"collapsing"}}
    BY DEF Panel
  <2>2. CASE handler.shows
    <3>1. classes = {"collapse", "in"}
      BY <2>1, <2>2
    <3> QED
      BY <2>2, <3>1
  <2>3. CASE ~handler.shows
    <3>1. classes = IF "in" \in panel.classes THEN {"collapse", "in"} ELSE {"collapse"}
      BY <2>1, <2>3
    <3> QED
      BY <2>3, <3>1
  <2> QED
    BY <2>2, <2>3
<1> HIDE DEF classes, data
<1>4. /\ c.classes = classes /\ c.data = data /\ c \in Panel
      /\ c.handlers = panel.handlers /\ c.collapsed = panel.collapsed
  <2>1. c = [classes |-> classes, data |-> data, collapsed |-> panel.collapsed,
             handlers |-> panel.handlers]
    BY <1>1 DEF Panel
  <2> HIDE DEF c
  <2> QED
    BY <1>2, <1>3, <2>1 DEF Panel
<1> HIDE DEF c
<1> QED
  BY <1>2, <1>3, <1>4 DEF c, Open, Moving

\* The end of a transition, which runs all handlers of a panel: a show among them opens
\* it, and one that knows its instance lets that go.
LEMMA HandlersLeave ==
  ASSUME NEW panel \in Panel, panel.handlers # <<>>
  PROVE  LET e == [RunHandlers(panel, panel.handlers) EXCEPT !.handlers = <<>>]
         IN  /\ e \in Panel /\ ~Moving(e) /\ e.handlers = <<>>
             /\ Open(e) <=> WillOpen(panel)
             /\ e.collapsed = panel.collapsed
             /\ e.data.made = panel.data.made /\ e.data.parent = panel.data.parent
             /\ e.data.transitioning <=>
                  /\ panel.data.transitioning
                  /\ ~ \E i \in DOMAIN panel.handlers : panel.handlers[i].mine
<1> DEFINE H == [shows : BOOLEAN, mine : BOOLEAN]
           h == panel.handlers
<1>1. h \in Seq(H) /\ Len(h) \in Nat /\ DOMAIN h = 1..Len(h)
  BY DEF Panel, Handlers
<1>2. Len(h) > 0
  BY <1>1
<1>3. PICK after : /\ after[0] = panel
                   /\ \A i \in 1..Len(h) : after[i] = Complete(after[i - 1], h[i])
                   /\ RunHandlers(panel, h) = after[Len(h)]
  <2> HIDE DEF h, H
  <2> QED
    BY <1>1, HandlersRun
<1>4. \A i \in 1..Len(h) : h[i] \in H
  <2> HIDE DEF h, H
  <2> QED
    BY <1>1
<1> DEFINE Done(i) ==
      /\ after[i] \in Panel /\ (i > 0 => ~Moving(after[i]))
      /\ Open(after[i]) <=> Open(panel) \/ \E j \in 1..i : h[j].shows
      /\ after[i].handlers = h /\ after[i].collapsed = panel.collapsed
      /\ after[i].data.made = panel.data.made /\ after[i].data.parent = panel.data.parent
      /\ after[i].data.transitioning <=>
           panel.data.transitioning /\ ~ \E j \in 1..i : h[j].mine
<1>5. Done(0)
  BY <1>3
<1>6. ASSUME NEW i \in 1..Len(h), Done(i - 1) PROVE Done(i)
  <2>1. after[i] = Complete(after[i - 1], h[i]) /\ h[i] \in H
    BY <1>3, <1>4
  <2>2. i - 1 \in Nat /\ 1..i = (1..(i - 1)) \cup {i}
    BY <1>1
  <2>3. /\ after[i] \in Panel /\ ~Moving(after[i])
        /\ Open(after[i]) <=> Open(after[i - 1]) \/ h[i].shows
        /\ after[i].handlers = after[i - 1].handlers
        /\ after[i].collapsed = after[i - 1].collapsed
        /\ after[i].data.made = after[i - 1].data.made
        /\ after[i].data.parent = after[i - 1].data.parent
        /\ after[i].data.transitioning <=> after[i - 1].data.transitioning /\ ~h[i].mine
    <3>1. after[i - 1] \in Panel
      BY <1>6
    <3> HIDE DEF h
    <3> QED
      BY <2>1, <3>1, CompleteIs
  <2>4. /\ (\E j \in 1..i : h[j].shows) <=> (\E j \in 1..(i - 1) : h[j].shows) \/ h[i].shows
        /\ (\E j \in 1..i : h[j].mine) <=> (\E j \in 1..(i - 1) : h[j].mine) \/ h[i].mine
    BY <2>2
  <2> HIDE DEF h
  <2> QED
    BY <1>6, <2>3, <2>4
<1> HIDE DEF Done
<1>7. Done(Len(h))
  <2> DEFINE Bad == {i \in 0..Len(h) : ~Done(i)}
  <2> SUFFICES ASSUME Bad # {} PROVE FALSE
    BY <1>1
  <2>1. Bad \in SUBSET Nat
    OBVIOUS
  <2>2. PICK i \in Bad : \A j \in Bad : i <= j
    BY <2>1, LeastNatural
  <2>3. i \in 1..Len(h)
    BY <1>1, <1>5, <2>2
  <2>4. i - 1 \in 0..Len(h) /\ i - 1 \notin Bad
    BY <1>1, <2>2, <2>3
  <2> QED
    BY <1>6, <2>2, <2>3, <2>4
<1> DEFINE last == after[Len(h)]
           e == [last EXCEPT !.handlers = <<>>]
<1>8. /\ last \in Panel /\ ~Moving(last)
      /\ Open(last) <=> WillOpen(panel)
      /\ last.collapsed = panel.collapsed
      /\ last.data.made = panel.data.made /\ last.data.parent = panel.data.parent
      /\ last.data.transitioning <=>
           panel.data.transitioning /\ ~ \E j \in DOMAIN h : h[j].mine
  BY <1>1, <1>2, <1>7 DEF Done, WillOpen
<1> HIDE DEF last, h
<1>9. <<>> \in Handlers
  BY DEF Handlers
<1>10. /\ e \in Panel /\ e.handlers = <<>>
       /\ e.classes = last.classes /\ e.data = last.data /\ e.collapsed = last.collapsed
  <2>1. e = [classes |-> last.classes, data |-> last.data, collapsed |-> last.collapsed,
             handlers |-> <<>>]
    BY <1>8 DEF Panel
  <2> HIDE DEF e
  <2> QED
    BY <1>8, <1>9, <2>1 DEF Panel
<1> HIDE DEF e
<1>11. /\ e \in Panel /\ ~Moving(e) /\ e.handlers = <<>>
       /\ Open(e) <=> WillOpen(panel)
       /\ e.collapsed = panel.collapsed
       /\ e.data.made = panel.data.made /\ e.data.parent = panel.data.parent
       /\ e.data.transitioning <=>
            panel.data.transitioning /\ ~ \E j \in DOMAIN h : h[j].mine
  <2>1. (Moving(e) <=> Moving(last)) /\ (Open(e) <=> Open(last))
    BY <1>10 DEF Open, Moving
  <2>2. e.data = last.data /\ e.collapsed = last.collapsed
    BY <1>10
  <2> QED
    BY <1>8, <1>10, <2>1, <2>2, Zenon
<1> QED
  BY <1>3, <1>11 DEF e, last, h

\* A transition that begins, or is over at once.
LEMMA BeginIs ==
  ASSUME animates \in BOOLEAN, NEW panel \in Panel, NEW shows \in BOOLEAN,
         ~animates => panel.handlers = <<>>
  PROVE  LET b == Begin(panel, {"collapsing"}, shows)
         IN  /\ Sound(b) /\ b.collapsed = ~shows
             /\ b.data.made = panel.data.made /\ b.data.parent = panel.data.parent
             /\ panel.handlers = <<>> => (WillOpen(b) <=> shows)
<1> DEFINE handler == [shows |-> shows, mine |-> TRUE]
           H == [shows : BOOLEAN, mine : BOOLEAN]
           data == [panel.data EXCEPT !.transitioning = TRUE]
           begun == [panel EXCEPT !.classes = {"collapsing"}, !.collapsed = ~shows,
                                  !.data.transitioning = TRUE]
           b == Begin(panel, {"collapsing"}, shows)
<1>1. handler \in H /\ handler.shows = shows /\ handler.mine
  OBVIOUS
<1>2. /\ data \in Data /\ data.transitioning
      /\ data.made = panel.data.made /\ data.parent = panel.data.parent
  BY DEF Panel, Data
<1>3. /\ begun = [classes |-> {"collapsing"}, data |-> data, collapsed |-> ~shows,
                  handlers |-> panel.handlers]
      /\ panel.handlers \in Seq(H)
  <2>1. begun = [panel EXCEPT !.classes = {"collapsing"}, !.collapsed = ~shows, !.data = data]
    BY DEF Panel
  <2> HIDE DEF begun, data
  <2> QED
    BY <2>1 DEF Panel, Handlers
<1>4. b = IF animates THEN [begun EXCEPT !.handlers = Append(@, handler)]
            ELSE Complete(begun, handler)
  BY DEF Begin
<1> HIDE DEF handler, data, b
<1>5. begun \in Panel
  <2> HIDE DEF begun
  <2> QED
    BY <1>2, <1>3 DEF Panel, Handlers
<1>6. /\ begun.handlers = panel.handlers /\ begun.collapsed = ~shows
      /\ begun.data = data /\ begun.classes = {"collapsing"}
  <2> HIDE DEF begun
  <2> QED
    BY <1>3
<1> HIDE DEF begun
<1>7. CASE animates
  <2> DEFINE hs == Append(panel.handlers, handler)
  <2> HIDE DEF H
  <2>1. /\ hs \in Seq(H) /\ hs # <<>> /\ DOMAIN hs = 1..(Len(panel.handlers) + 1)
        /\ Len(panel.handlers) \in Nat
        /\ hs[Len(panel.handlers) + 1] = handler
    BY <1>1, <1>3
  <2>2. panel.handlers = <<>> => DOMAIN hs = {1} /\ hs[1] = handler
    BY <2>1
  <2>3. Len(panel.handlers) + 1 \in DOMAIN hs
    BY <2>1
  <2> HIDE DEF hs
  <2>4. b = [begun EXCEPT !.handlers = hs]
    BY <1>4, <1>6, <1>7 DEF hs
  <2>5. /\ b \in Panel /\ b.handlers = hs /\ b.collapsed = ~shows /\ b.data = data
        /\ b.classes = {"collapsing"}
    BY <1>5, <1>6, <2>1, <2>4 DEF Panel, Handlers, H
  <2>6. Moving(b) /\ ~Open(b)
    BY <2>5 DEF Moving, Open
  <2>7. \E i \in DOMAIN hs : hs[i].mine
    BY <1>1, <2>1, <2>3
  <2>8. panel.handlers = <<>> => (WillOpen(b) <=> shows)
    BY <1>1, <2>2, <2>5, <2>6 DEF WillOpen
  <2>9. Sound(b)
    BY <1>7, <2>1, <2>5, <2>6, <2>7 DEF Sound
  <2> QED
    BY <1>2, <2>5, <2>8, <2>9 DEF b
<1>8. CASE ~animates
  <2>1. b = Complete(begun, handler) /\ panel.handlers = <<>>
    BY <1>4, <1>8
  <2>2. /\ b \in Panel /\ ~Moving(b)
        /\ Open(b) <=> Open(begun) \/ handler.shows
        /\ b.handlers = begun.handlers /\ b.collapsed = begun.collapsed
        /\ b.data.made = begun.data.made /\ b.data.parent = begun.data.parent
        /\ b.data.transitioning <=> begun.data.transitioning /\ ~handler.mine
    BY <1>1, <1>5, <2>1, CompleteIs
  <2>3. ~Open(begun)
    BY <1>6 DEF Open
  <2>4. Sound(b)
    BY <1>1, <1>6, <2>1, <2>2 DEF Sound
  <2>5. WillOpen(b) <=> shows
    BY <1>1, <1>6, <2>1, <2>2, <2>3 DEF WillOpen
  <2> QED
    BY <1>2, <1>6, <2>2, <2>4, <2>5 DEF b
<1> QED
  BY <1>7, <1>8

LEMMA HideIs ==
  ASSUME animates \in BOOLEAN, NEW panel, Sound(panel)
  PROVE  LET h == Hide(panel)
         IN  /\ Sound(h)
             /\ h.data.made = panel.data.made /\ h.data.parent = panel.data.parent
             /\ ~Open(panel) => h = panel
             /\ panel.handlers = <<>> =>
                  /\ ~WillOpen(h)
                  /\ h.collapsed = (Open(panel) \/ panel.collapsed)
<1> DEFINE h == Hide(panel)
<1>1. /\ panel \in Panel /\ panel.collapsed \in BOOLEAN
      /\ panel.handlers = <<>> => ~panel.data.transitioning
  BY DEF Sound, Panel
<1>2. CASE panel.data.transitioning \/ ~Open(panel)
  <2>1. h = panel
    BY <1>2 DEF Hide
  <2>2. panel.handlers = <<>> => ~WillOpen(panel) /\ ~Open(panel)
    BY <1>1, <1>2 DEF WillOpen
  <2> HIDE DEF h
  <2> QED
    BY <1>1, <2>1, <2>2 DEF h
<1>3. CASE ~panel.data.transitioning /\ Open(panel)
  <2>1. h = Begin(panel, {"collapsing"}, FALSE)
    BY <1>3 DEF Hide
  <2>2. ~animates => panel.handlers = <<>>
    BY DEF Sound
  <2> HIDE DEF h
  <2>3. /\ Sound(h) /\ h.collapsed = TRUE
        /\ h.data.made = panel.data.made /\ h.data.parent = panel.data.parent
        /\ panel.handlers = <<>> => ~WillOpen(h)
    BY <1>1, <2>1, <2>2, BeginIs
  <2> QED
    BY <1>3, <2>3 DEF h
<1> QED
  BY <1>2, <1>3

LEMMA AddCollapsedClassIs ==
  ASSUME NEW panel, Sound(panel)
  PROVE  LET c == AddCollapsedClass(panel)
         IN  /\ Sound(c) /\ c.collapsed = ~Open(panel)
             /\ c.data = panel.data /\ c.handlers = panel.handlers
             /\ c.classes = panel.classes
<1> DEFINE c == AddCollapsedClass(panel)
<1>1. panel \in Panel /\ Open(panel) \in BOOLEAN
  BY DEF Sound, Open
<1>2. c = [classes |-> panel.classes, data |-> panel.data, collapsed |-> ~Open(panel),
           handlers |-> panel.handlers]
  BY <1>1 DEF AddCollapsedClass, Panel
<1> HIDE DEF c
<1>3. c \in Panel
  BY <1>1, <1>2 DEF Panel
<1>4. /\ c.data = panel.data /\ c.handlers = panel.handlers
      /\ c.classes = panel.classes /\ c.collapsed = ~Open(panel)
  BY <1>2
<1>5. Sound(c)
  BY <1>3, <1>4 DEF Sound, Moving
<1> QED
  BY <1>4, <1>5 DEF c

\* A panel that gets an instance.
LEMMA InstanceIs ==
  ASSUME NEW panel, Sound(panel), NEW parent \in BOOLEAN
  PROVE  LET c == [panel EXCEPT !.data = Instance(parent)]
         IN  /\ Sound(c) /\ c.data = Instance(parent)
             /\ c.handlers = panel.handlers /\ c.classes = panel.classes
             /\ c.collapsed = panel.collapsed
             /\ Instance(parent).made /\ Instance(parent).parent = parent
             /\ ~Instance(parent).transitioning
<1> DEFINE c == [panel EXCEPT !.data = Instance(parent)]
<1>1. panel \in Panel
  BY DEF Sound
<1>2. /\ Instance(parent) \in Data /\ Instance(parent).made
      /\ Instance(parent).parent = parent /\ ~Instance(parent).transitioning
  BY DEF Instance, Data
<1>3. c = [classes |-> panel.classes, data |-> Instance(parent),
           collapsed |-> panel.collapsed, handlers |-> panel.handlers]
  BY <1>1 DEF Panel
<1> HIDE DEF c
<1>4. c \in Panel
  BY <1>1, <1>2, <1>3 DEF Panel
<1>5. /\ c.data = Instance(parent) /\ c.handlers = panel.handlers
      /\ c.classes = panel.classes /\ c.collapsed = panel.collapsed
  BY <1>3
<1>6. Sound(c)
  BY <1>2, <1>4, <1>5 DEF Sound, Moving
<1> QED
  BY <1>2, <1>5, <1>6 DEF c

LEMMA CallHideIs ==
  ASSUME animates \in BOOLEAN, NEW panel, Sound(panel)
  PROVE  LET h == CallHide(panel)
         IN  /\ Sound(h)
             /\ panel.data.made => h.data.made /\ h.data.parent = panel.data.parent
             /\ ~Open(panel) => /\ h.classes = panel.classes
                               /\ h.handlers = panel.handlers
             /\ panel.handlers = <<>> =>
                  /\ ~WillOpen(h)
                  /\ Open(panel) => h.collapsed = TRUE
<1> DEFINE h == CallHide(panel)
           fresh == AddCollapsedClass([panel EXCEPT !.data = Instance(FALSE)])
<1>1. panel.data.made \in BOOLEAN
  BY DEF Sound, Panel, Data
<1>2. CASE panel.data.made
  <2>1. h = Hide(panel)
    BY <1>2 DEF CallHide
  <2> HIDE DEF h
  <2>2. /\ Sound(h) /\ h.data.made = panel.data.made /\ h.data.parent = panel.data.parent
        /\ ~Open(panel) => h = panel
        /\ panel.handlers = <<>> =>
             ~WillOpen(h) /\ h.collapsed = (Open(panel) \/ panel.collapsed)
    BY <2>1, HideIs
  <2> QED
    BY <1>2, <2>2 DEF h
<1>3. CASE ~panel.data.made
  <2>1. h = Hide(fresh)
    BY <1>3 DEF CallHide
  <2>2. /\ Sound(fresh) /\ fresh.handlers = panel.handlers
        /\ fresh.classes = panel.classes
    <3> DEFINE c == [panel EXCEPT !.data = Instance(FALSE)]
    <3>1. /\ Sound(c) /\ c.handlers = panel.handlers /\ c.classes = panel.classes
      BY InstanceIs
    <3> HIDE DEF c
    <3>2. /\ Sound(AddCollapsedClass(c)) /\ AddCollapsedClass(c).handlers = c.handlers
          /\ AddCollapsedClass(c).classes = c.classes
      BY <3>1, AddCollapsedClassIs
    <3> QED
      BY <3>1, <3>2 DEF c
  <2>3. Open(fresh) <=> Open(panel)
    <3> HIDE DEF fresh
    <3> QED
      BY <2>2 DEF Open
  <2> HIDE DEF h, fresh
  <2>4. /\ Sound(h)
        /\ ~Open(fresh) => h = fresh
        /\ fresh.handlers = <<>> =>
             ~WillOpen(h) /\ h.collapsed = (Open(fresh) \/ fresh.collapsed)
    BY <2>1, <2>2, HideIs
  <2> QED
    BY <1>3, <2>2, <2>3, <2>4 DEF h
<1> QED
  BY <1>1, <1>2, <1>3

LEMMA DropIs ==
  ASSUME NEW panel, Sound(panel)
  PROVE  LET d == Drop(panel)
         IN  /\ Sound(d) /\ ~d.data.made
             /\ WillOpen(d) <=> WillOpen(panel)
             /\ d.collapsed = panel.collapsed /\ d.classes = panel.classes
             /\ d.handlers = <<>> <=> panel.handlers = <<>>
<1> DEFINE H == [shows : BOOLEAN, mine : BOOLEAN]
           hs == panel.handlers
           left == [i \in DOMAIN hs |-> [hs[i] EXCEPT !.mine = FALSE]]
           d == Drop(panel)
<1>1. panel \in Panel /\ hs \in Seq(H)
  BY DEF Sound, Panel, Handlers
<1>2. \A i \in DOMAIN hs : hs[i] \in H
  <2> HIDE DEF hs, H
  <2> QED
    BY <1>1
<1>3. \A i \in DOMAIN hs : left[i] \in H /\ left[i].shows = hs[i].shows
  BY <1>2
<1>4. left \in Seq(H) /\ DOMAIN left = DOMAIN hs /\ (left = <<>> <=> hs = <<>>)
  <2>1. DOMAIN hs = 1..Len(hs) /\ Len(hs) \in Nat
    <3> HIDE DEF hs, H
    <3> QED
      BY <1>1
  <2>2. left \in [1..Len(hs) -> H] /\ DOMAIN left = DOMAIN hs
    BY <1>3, <2>1
  <2> HIDE DEF left, hs, H
  <2>3. left \in Seq(H) /\ Len(left) = Len(hs)
    BY <2>1, <2>2
  <2> QED
    BY <1>1, <2>2, <2>3
<1>5. NoInstance \in Data /\ ~NoInstance.made /\ ~NoInstance.transitioning
  BY DEF NoInstance, Data
<1>6. d = [classes |-> panel.classes, data |-> NoInstance, collapsed |-> panel.collapsed,
           handlers |-> left]
  <2>1. d = [panel EXCEPT !.data = NoInstance, !.handlers = left]
    BY DEF Drop
  <2> HIDE DEF left, d, hs
  <2> QED
    BY <1>1, <2>1 DEF Panel
<1> HIDE DEF left, d, hs, H
<1>7. d \in Panel
  BY <1>1, <1>4, <1>5, <1>6 DEF Panel, Handlers, H
<1>8. /\ d.classes = panel.classes /\ d.data = NoInstance
      /\ d.collapsed = panel.collapsed /\ d.handlers = left
  BY <1>6
<1>9. WillOpen(d) <=> WillOpen(panel)
  BY <1>3, <1>4, <1>8 DEF WillOpen, Open, hs
<1>10. Sound(d)
  BY <1>4, <1>5, <1>7, <1>8 DEF Sound, Moving, hs
<1> QED
  BY <1>4, <1>5, <1>8, <1>9, <1>10 DEF d, hs
-----------------------------------------------------------------------------
\* The inductive invariant

\* Before the first click every panel is as it was rendered.
Fresh ==
  ~used => /\ calm
           /\ \A p \in Panels : /\ ~panels[p].data.made /\ panels[p].handlers = <<>>
                                /\ Open(panels[p]) => p = Opened

\* Whoever waits has given every instance its accordion, and has one panel open or
\* opening, which its header says already.
Accordion ==
  calm => /\ \A p \in Panels : panels[p].data.made => panels[p].data.parent
          /\ \A p, q \in Panels : WillOpen(panels[p]) /\ WillOpen(panels[q]) => p = q
          /\ used => \A p \in Panels : panels[p].collapsed = ~WillOpen(panels[p])

Inv == TypeOK /\ (\A p \in Panels : Sound(panels[p])) /\ Fresh /\ Accordion

-----------------------------------------------------------------------------
\* A click

\* Whatever moves, show leaves every panel sound.
LEMMA ShowSound ==
  ASSUME animates \in BOOLEAN, NEW all, all = [q \in Panels |-> all[q]],
         \A q \in Panels : Sound(all[q]), NEW p \in Panels, NEW new
  PROVE  /\ Show(all, p, new) = [q \in Panels |-> Show(all, p, new)[q]]
         /\ \A q \in Panels : Sound(Show(all, p, new)[q])
<1> DEFINE self == all[p]
           actives == IF self.data.parent THEN Actives ELSE {}
           first == Min(actives)
           known == all[first].data.made /\ ~(new /\ first = p)
           hidden == [q \in Panels |-> IF q \in actives THEN CallHide(all[q]) ELSE all[q]]
           left == [q \in Panels |->
                      IF actives # {} /\ ~known /\ q \in actives /\ ~(new /\ q = p)
                        THEN Drop(hidden[q]) ELSE hidden[q]]
           panel == [left[p] EXCEPT !.data = self.data]
           shown == Begin(panel, (left[p].classes \ {"collapse"}) \cup {"collapsing"}, TRUE)
           dropped == actives # {} /\ ~known /\ p \in actives /\ ~new
           refused == \/ self.data.transitioning \/ Open(self)
                      \/ actives # {} /\ known /\ all[first].data.transitioning
<1>1. Show(all, p, new) = IF refused THEN all
                            ELSE [left EXCEPT ![p] = IF dropped THEN Drop(shown) ELSE shown]
  BY DEF Show
<1>2. CASE refused
  BY <1>1, <1>2
<1>3. CASE ~refused
  <2>1. \A q \in Panels : Sound(hidden[q])
    <3> HIDE DEF actives
    <3> QED
      BY CallHideIs
  <2>2. \A q \in Panels : Sound(left[q])
    <3> HIDE DEF actives, hidden, known
    <3> QED
      BY <2>1, DropIs
  <2>3. hidden[p].classes = self.classes
    <3>1. ~Open(self)
      BY <1>3
    <3> HIDE DEF actives
    <3> QED
      BY <3>1, CallHideIs
  <2>4. left[p].classes = self.classes
    <3> HIDE DEF actives, hidden, known, self
    <3> QED
      BY <2>1, <2>3, DropIs
  <2>5. ~Open(self)
    BY <1>3
  <2> HIDE DEF left
  <2>6. left[p] \in Panel /\ (~animates => left[p].handlers = <<>>) /\ self \in Panel
    BY <2>2 DEF Sound
  <2>7. (left[p].classes \ {"collapse"}) \cup {"collapsing"} = {"collapsing"}
    <3>1. self.classes \in {{"collapse"}, {"collapsing"}}
      BY <2>5, <2>6 DEF Panel, Open
    <3> HIDE DEF self
    <3> QED
      BY <2>4, <3>1
  <2> HIDE DEF self
  <2>8. panel \in Panel /\ panel.handlers = left[p].handlers
    <3>1. self.data \in Data
      BY <2>6 DEF Panel
    <3>2. panel = [classes |-> left[p].classes, data |-> self.data,
                   collapsed |-> left[p].collapsed, handlers |-> left[p].handlers]
      BY <2>6 DEF Panel
    <3> HIDE DEF panel
    <3> QED
      BY <2>6, <3>1, <3>2 DEF Panel
  <2> HIDE DEF panel
  <2>9. Sound(shown)
    <3>1. shown = Begin(panel, {"collapsing"}, TRUE)
      BY <2>7
    <3> HIDE DEF shown
    <3> QED
      BY <2>6, <2>8, <3>1, BeginIs
  <2> HIDE DEF shown
  <2>10. Sound(Drop(shown))
    BY <2>9, DropIs
  <2>11. left = [q \in Panels |-> left[q]]
    BY DEF left
  <2> DEFINE end == IF dropped THEN Drop(shown) ELSE shown
  <2>12. Sound(end)
    BY <2>9, <2>10
  <2>13. Show(all, p, new) = [left EXCEPT ![p] = end]
    BY <1>1, <1>3
  <2> HIDE DEF end
  <2> QED
    BY <2>2, <2>11, <2>12, <2>13
<1> QED
  BY <1>2, <1>3

\* At rest, show opens its panel and closes the one that was open.
LEMMA ShowOpens ==
  ASSUME animates \in BOOLEAN, NEW all, all = [q \in Panels |-> all[q]],
         \A q \in Panels : /\ Sound(all[q]) /\ all[q].handlers = <<>>
                           /\ all[q].classes = panels[q].classes
                           /\ all[q].data.made => all[q].data.parent
                           /\ all[q].collapsed = ~Open(all[q]),
         \A q, r \in Panels : Open(all[q]) /\ Open(all[r]) => q = r,
         NEW p \in Panels, ~Open(all[p]), all[p].data.made, NEW new
  PROVE  \A q \in Panels : LET r == Show(all, p, new)
                           IN  /\ WillOpen(r[q]) <=> q = p
                               /\ r[q].collapsed = ~WillOpen(r[q])
                               /\ r[q].data.made => r[q].data.parent
<1> DEFINE self == all[p]
           actives == IF self.data.parent THEN Actives ELSE {}
           first == Min(actives)
           known == all[first].data.made /\ ~(new /\ first = p)
           hidden == [q \in Panels |-> IF q \in actives THEN CallHide(all[q]) ELSE all[q]]
           left == [q \in Panels |->
                      IF actives # {} /\ ~known /\ q \in actives /\ ~(new /\ q = p)
                        THEN Drop(hidden[q]) ELSE hidden[q]]
           panel == [left[p] EXCEPT !.data = self.data]
           shown == Begin(panel, (left[p].classes \ {"collapse"}) \cup {"collapsing"}, TRUE)
           dropped == actives # {} /\ ~known /\ p \in actives /\ ~new
           refused == \/ self.data.transitioning \/ Open(self)
                      \/ actives # {} /\ known /\ all[first].data.transitioning
           r == Show(all, p, new)
<1>1. r = IF refused THEN all
            ELSE [left EXCEPT ![p] = IF dropped THEN Drop(shown) ELSE shown]
  BY DEF Show
<1>2. \A q \in Panels : /\ ~Moving(all[q]) /\ ~all[q].data.transitioning
                        /\ WillOpen(all[q]) <=> Open(all[q])
  BY DEF Sound, WillOpen
<1>3. actives = {q \in Panels : Open(all[q])}
  <2>1. self.data.parent
    OBVIOUS
  <2>2. \A q \in Panels : /\ Open(all[q]) <=> Open(panels[q])
                          /\ Moving(all[q]) <=> Moving(panels[q])
    BY DEF Open, Moving
  <2> QED
    BY <1>2, <2>1, <2>2 DEF Actives
<1>4. \A q \in actives : first = q
  <2> SUFFICES ASSUME NEW q \in actives PROVE first = q
    OBVIOUS
  <2>1. Panels \in SUBSET Nat
    BY CollapseAssumption DEF Panels
  <2> HIDE DEF actives
  <2>3. actives \in SUBSET Nat /\ actives # {}
    BY <1>3, <2>1
  <2>2. first \in actives
    BY <2>3, MinMember
  <2> QED
    BY <1>3, <2>2
<1> HIDE DEF actives
<1>5. ~refused /\ p \notin actives
  <2>1. \A q \in actives : q \in Panels
    BY <1>3
  <2>2. actives # {} => ~all[first].data.transitioning
    BY <1>2, <1>4, <2>1
  <2> HIDE DEF first
  <2> QED
    BY <1>2, <1>3, <2>2
<1>6. left[p] = self
  BY <1>5
<1>7. r = [left EXCEPT ![p] = shown]
  BY <1>1, <1>5
<1>8. shown = Begin(self, {"collapsing"}, TRUE) /\ self \in Panel
  <2>1. self \in Panel
    BY DEF Sound
  <2>2. panel = self
    BY <1>6, <2>1 DEF Panel
  <2>3. self.classes = {"collapse"}
    BY <1>2, <2>1 DEF Panel, Open, Moving
  <2>4. (self.classes \ {"collapse"}) \cup {"collapsing"} = {"collapsing"}
    BY <2>3
  <2> HIDE DEF panel, self, left
  <2> QED
    BY <1>6, <2>1, <2>2, <2>4
<1>9. /\ WillOpen(shown) /\ ~shown.collapsed
      /\ shown.data.made = self.data.made /\ shown.data.parent = self.data.parent
  <2>1. self.handlers = <<>>
    OBVIOUS
  <2> HIDE DEF self, shown
  <2>2. /\ shown.collapsed = ~TRUE
        /\ shown.data.made = self.data.made /\ shown.data.parent = self.data.parent
        /\ WillOpen(shown)
    <3> DEFINE b == Begin(self, {"collapsing"}, TRUE)
    <3>1. /\ b.collapsed = ~TRUE
          /\ b.data.made = self.data.made /\ b.data.parent = self.data.parent
          /\ self.handlers = <<>> => (WillOpen(b) <=> TRUE)
      BY <1>8, <2>1, BeginIs
    <3> HIDE DEF b
    <3>2. shown = b
      BY <1>8 DEF b
    <3> QED
      BY <2>1, <3>1, <3>2
  <2> QED
    BY <2>1, <2>2
<1> HIDE DEF shown
<1>10. ASSUME NEW q \in Panels, q \in actives
       PROVE  /\ ~WillOpen(left[q]) /\ left[q].collapsed = TRUE
              /\ left[q].data.made => left[q].data.parent
  <2>1. first = q /\ q # p /\ Open(all[q]) /\ Sound(all[q]) /\ all[q].handlers = <<>>
    BY <1>3, <1>4, <1>5, <1>10
  <2>2. /\ Sound(CallHide(all[q])) /\ ~WillOpen(CallHide(all[q]))
        /\ CallHide(all[q]).collapsed = TRUE
        /\ all[q].data.made => /\ CallHide(all[q]).data.made
                              /\ CallHide(all[q]).data.parent = all[q].data.parent
    BY <2>1, CallHideIs
  <2>3. hidden[q] = CallHide(all[q])
    BY <1>10
  <2>4. CASE all[q].data.made
    <3>1. known
      BY <2>1, <2>4
    <3>2. left[q] = hidden[q]
      BY <3>1
    <3> HIDE DEF left, hidden, known
    <3> QED
      BY <2>2, <2>3, <2>4, <3>2
  <2>5. CASE ~all[q].data.made
    <3>1. ~known
      BY <2>1, <2>5
    <3>2. left[q] = Drop(hidden[q])
      BY <1>10, <2>1, <3>1
    <3> HIDE DEF left, hidden, known
    <3>3. /\ ~Drop(hidden[q]).data.made
          /\ WillOpen(Drop(hidden[q])) <=> WillOpen(hidden[q])
          /\ Drop(hidden[q]).collapsed = hidden[q].collapsed
      BY <2>2, <2>3, DropIs
    <3> QED
      BY <2>2, <2>3, <3>2, <3>3
  <2> QED
    BY <2>4, <2>5
<1>11. ASSUME NEW q \in Panels, q \notin actives, q # p
       PROVE  /\ ~WillOpen(left[q]) /\ left[q].collapsed = TRUE
              /\ left[q].data.made => left[q].data.parent
  <2>1. left[q] = all[q]
    BY <1>11
  <2> HIDE DEF left
  <2> QED
    BY <1>2, <1>3, <1>11, <2>1
<1>12. ASSUME NEW q \in Panels
       PROVE  /\ WillOpen(r[q]) <=> q = p
              /\ r[q].collapsed = ~WillOpen(r[q])
              /\ r[q].data.made => r[q].data.parent
  <2>1. left = [u \in Panels |-> left[u]]
    OBVIOUS
  <2> HIDE DEF left, r
  <2>2. CASE q = p
    <3>1. r[q] = shown
      BY <1>7, <2>1, <2>2
    <3>2. shown.collapsed \in BOOLEAN /\ self.data.made /\ self.data.parent
      <4>1. Sound(shown)
        BY <1>8, BeginIs
      <4> QED
        BY <4>1 DEF Sound, Panel
    <3> HIDE DEF self
    <3> QED
      BY <1>9, <2>2, <3>1, <3>2
  <2>3. CASE q # p
    <3>1. r[q] = left[q]
      BY <1>7, <2>1, <2>3
    <3>2. /\ ~WillOpen(left[q]) /\ left[q].collapsed = TRUE
          /\ left[q].data.made => left[q].data.parent
      BY <1>10, <1>11, <2>3
    <3> QED
      BY <2>3, <3>1, <3>2
  <2> QED
    BY <2>2, <2>3
<1> QED
  BY <1>12

\* The panels once the one that is clicked has its instance.
Marked(p) ==
  IF panels[p].data.made THEN panels
    ELSE [q \in Panels |-> AddCollapsedClass(
            IF q = p THEN [panels[q] EXCEPT !.data = Instance(TRUE)] ELSE panels[q])]

LEMMA MarkedIs ==
  ASSUME Inv, NEW p \in Panels
  PROVE  LET all == Marked(p)
         IN  /\ all = [q \in Panels |-> all[q]]
             /\ all[p].data.made
             /\ \A q \in Panels :
                  /\ Sound(all[q]) /\ all[q].classes = panels[q].classes
                  /\ all[q].handlers = panels[q].handlers
                  /\ all[q].data = panels[q].data \/ (q = p /\ all[q].data.parent)
                  /\ \/ all[q].collapsed = ~Open(all[q])
                     \/ panels[p].data.made /\ all[q].collapsed = panels[q].collapsed
<1> DEFINE all == Marked(p)
<1>1. panels = [q \in Panels |-> panels[q]] /\ \A q \in Panels : Sound(panels[q])
  BY DEF Inv, TypeOK
<1>2. CASE panels[p].data.made
  <2>1. all = panels
    BY <1>2 DEF Marked
  <2> HIDE DEF all
  <2> QED
    BY <1>1, <1>2, <2>1 DEF all
<1>3. CASE ~panels[p].data.made
  <2> DEFINE given(q) == IF q = p THEN [panels[q] EXCEPT !.data = Instance(TRUE)]
                                  ELSE panels[q]
  <2>1. all = [q \in Panels |-> AddCollapsedClass(given(q))]
    BY <1>3 DEF Marked
  <2>2. ASSUME NEW q \in Panels
        PROVE  /\ Sound(given(q)) /\ given(q).classes = panels[q].classes
               /\ given(q).handlers = panels[q].handlers
               /\ q = p => given(q).data.made /\ given(q).data.parent
               /\ q # p => given(q).data = panels[q].data
    <3>1. CASE q = p
      <4> DEFINE c == [panels[q] EXCEPT !.data = Instance(TRUE)]
      <4>1. /\ Sound(c) /\ c.data = Instance(TRUE)
            /\ c.handlers = panels[q].handlers /\ c.classes = panels[q].classes
            /\ Instance(TRUE).made /\ Instance(TRUE).parent = TRUE
        BY <1>1, InstanceIs
      <4>2. given(q) = c
        BY <3>1
      <4> HIDE DEF c, given
      <4> QED
        BY <3>1, <4>1, <4>2
    <3>2. CASE q # p
      <4>1. given(q) = panels[q]
        BY <3>2
      <4> HIDE DEF given
      <4> QED
        BY <1>1, <3>2, <4>1
    <3> QED
      BY <3>1, <3>2
  <2> HIDE DEF given
  <2>3. ASSUME NEW q \in Panels
        PROVE  /\ Sound(all[q]) /\ all[q].classes = given(q).classes
               /\ all[q].handlers = given(q).handlers /\ all[q].data = given(q).data
               /\ all[q].collapsed = ~Open(given(q))
    <3>1. all[q] = AddCollapsedClass(given(q))
      BY <2>1
    <3> HIDE DEF all
    <3> QED
      BY <2>2, <3>1, AddCollapsedClassIs
  <2>4. all = [q \in Panels |-> all[q]]
    BY <2>1
  <2> HIDE DEF all
  <2>5. ASSUME NEW q \in Panels
        PROVE  all[q].collapsed = ~Open(all[q])
    BY <2>3 DEF Open
  <2>6. all[p].data.made /\ all[p].data.parent
    BY <2>2, <2>3
  <2>7. ASSUME NEW q \in Panels
        PROVE  /\ Sound(all[q]) /\ all[q].classes = panels[q].classes
               /\ all[q].handlers = panels[q].handlers
               /\ all[q].data = panels[q].data \/ (q = p /\ all[q].data.parent)
    BY <2>2, <2>3, <2>6
  <2> QED
    BY <2>4, <2>5, <2>6, <2>7 DEF all
<1> QED
  BY <1>2, <1>3

LEMMA ToggleIs ==
  ASSUME NEW p
  PROVE  Toggle(p) = IF Open(panels[p]) THEN [Marked(p) EXCEPT ![p] = Hide(@)]
                       ELSE Show(Marked(p), p, ~panels[p].data.made)
BY DEF Toggle, Marked

\* Whatever moves, a click leaves every panel sound.
LEMMA ToggleSound ==
  ASSUME Inv, NEW p \in Panels
  PROVE  /\ Toggle(p) = [q \in Panels |-> Toggle(p)[q]]
         /\ \A q \in Panels : Sound(Toggle(p)[q])
<1> DEFINE all == Marked(p)
           t == Toggle(p)
<1>1. /\ all = [q \in Panels |-> all[q]]
      /\ \A q \in Panels : Sound(all[q])
  BY MarkedIs
<1>2. t = IF Open(panels[p]) THEN [all EXCEPT ![p] = Hide(@)]
            ELSE Show(all, p, ~panels[p].data.made)
  BY ToggleIs
<1>3. animates \in BOOLEAN
  BY DEF Inv, TypeOK
<1> HIDE DEF all, t
<1>4. CASE Open(panels[p])
  <2>1. Sound(Hide(all[p]))
    BY <1>1, <1>3, HideIs
  <2>2. t = [q \in Panels |-> IF q = p THEN Hide(all[p]) ELSE all[q]]
    BY <1>1, <1>2, <1>4
  <2> QED
    BY <1>1, <2>1, <2>2 DEF t
<1>5. CASE ~Open(panels[p])
  <2>1. t = Show(all, p, ~panels[p].data.made)
    BY <1>2, <1>5
  <2>2. /\ Show(all, p, ~panels[p].data.made)
             = [q \in Panels |-> Show(all, p, ~panels[p].data.made)[q]]
        /\ \A q \in Panels : Sound(Show(all, p, ~panels[p].data.made)[q])
    BY <1>1, <1>3, ShowSound
  <2> QED
    BY <2>1, <2>2 DEF t
<1> QED
  BY <1>4, <1>5

\* At rest, a click opens its panel alone or closes it.
LEMMA ToggleOpens ==
  ASSUME Inv, calm, \A q \in Panels : ~Moving(panels[q]), NEW p \in Panels
  PROVE  LET t == Toggle(p)
         IN  /\ \A q \in Panels : t[q].data.made => t[q].data.parent
             /\ \A q, r \in Panels : WillOpen(t[q]) /\ WillOpen(t[r]) => q = r
             /\ \A q \in Panels : t[q].collapsed = ~WillOpen(t[q])
<1> DEFINE all == Marked(p)
           t == Toggle(p)
<1>1. /\ all = [q \in Panels |-> all[q]]
      /\ all[p].data.made
      /\ \A q \in Panels :
           /\ Sound(all[q]) /\ all[q].classes = panels[q].classes
           /\ all[q].handlers = panels[q].handlers
           /\ all[q].data = panels[q].data \/ (q = p /\ all[q].data.parent)
           /\ \/ all[q].collapsed = ~Open(all[q])
              \/ panels[p].data.made /\ all[q].collapsed = panels[q].collapsed
  BY MarkedIs
<1>2. t = IF Open(panels[p]) THEN [all EXCEPT ![p] = Hide(@)]
            ELSE Show(all, p, ~panels[p].data.made)
  BY ToggleIs
<1>3. animates \in BOOLEAN /\ used \in BOOLEAN
  BY DEF Inv, TypeOK
<1>4. \A q \in Panels : /\ panels[q].handlers = <<>>
                        /\ WillOpen(panels[q]) <=> Open(panels[q])
  BY DEF Inv, Sound, WillOpen
<1> HIDE DEF all, t
<1>5. \A q \in Panels : /\ all[q].handlers = <<>>
                        /\ Open(all[q]) <=> Open(panels[q])
                        /\ all[q].data.made => all[q].data.parent
  <2>1. \A q \in Panels : panels[q].data.made => panels[q].data.parent
    BY DEF Inv, Accordion
  <2> QED
    BY <1>1, <1>4, <2>1 DEF Open
<1>6. \A q \in Panels : all[q].collapsed = ~Open(all[q])
  <2>1. CASE used
    <3>1. \A q \in Panels : panels[q].collapsed = ~WillOpen(panels[q])
      BY <2>1 DEF Inv, Accordion
    <3> QED
      BY <1>1, <1>4, <1>5, <3>1
  <2>2. CASE ~used
    <3>1. ~panels[p].data.made
      BY <2>2 DEF Inv, Fresh
    <3> QED
      BY <1>1, <3>1
  <2> QED
    BY <1>3, <2>1, <2>2
<1>7. \A q, r \in Panels : Open(all[q]) /\ Open(all[r]) => q = r
  BY <1>4, <1>5 DEF Inv, Accordion
<1>8. CASE Open(panels[p])
  <2> DEFINE h == Hide(all[p])
  <2>1. /\ h.data.made = all[p].data.made /\ h.data.parent = all[p].data.parent
        /\ ~WillOpen(h) /\ h.collapsed = (Open(all[p]) \/ all[p].collapsed)
    BY <1>1, <1>3, <1>5, HideIs
  <2>2. t = [q \in Panels |-> IF q = p THEN h ELSE all[q]]
    BY <1>1, <1>2, <1>8
  <2>3. h.collapsed = TRUE
    BY <1>5, <1>8, <2>1
  <2> HIDE DEF h
  <2>4. ASSUME NEW q \in Panels
        PROVE  /\ t[q].data.made => t[q].data.parent
               /\ ~WillOpen(t[q]) /\ t[q].collapsed = TRUE
    <3>1. CASE q = p
      BY <1>5, <2>1, <2>2, <2>3, <3>1
    <3>2. CASE q # p
      <4>1. t[q] = all[q]
        BY <2>2, <3>2
      <4>2. ~Open(all[q])
        BY <1>5, <1>7, <1>8, <3>2
      <4>3. ~WillOpen(all[q])
        BY <1>5, <4>2 DEF WillOpen
      <4> QED
        BY <1>5, <1>6, <4>1, <4>2, <4>3
    <3> QED
      BY <3>1, <3>2
  <2> QED
    BY <2>4 DEF t
<1>9. CASE ~Open(panels[p])
  <2> DEFINE new == ~panels[p].data.made
  <2>1. t = Show(all, p, new)
    BY <1>2, <1>9
  <2> HIDE DEF new
  <2>2. \A q \in Panels : /\ WillOpen(Show(all, p, new)[q]) <=> q = p
                          /\ Show(all, p, new)[q].collapsed
                               = ~WillOpen(Show(all, p, new)[q])
                          /\ Show(all, p, new)[q].data.made
                               => Show(all, p, new)[q].data.parent
    BY <1>1, <1>3, <1>5, <1>6, <1>7, <1>9, ShowOpens
  <2> QED
    BY <2>1, <2>2 DEF t
<1> QED
  BY <1>8, <1>9

-----------------------------------------------------------------------------
\* The accordion

LEMMA InitInv == Init => Inv
<1> SUFFICES ASSUME Init PROVE Inv
  OBVIOUS
<1> DEFINE rendered(p) == IF p = Opened THEN {"collapse", "in"} ELSE {"collapse"}
           start(p) == [classes |-> rendered(p), data |-> NoInstance, collapsed |-> FALSE,
                        handlers |-> <<>>]
<1>1. /\ panels = [p \in Panels |-> start(p)]
      /\ animates = FALSE /\ used = FALSE /\ calm = TRUE
  BY DEF Init
<1>2. /\ NoInstance \in Data /\ <<>> \in Handlers
      /\ ~NoInstance.made /\ ~NoInstance.transitioning
  BY DEF NoInstance, Data, Handlers
<1>3. ASSUME NEW p \in Panels
      PROVE  /\ start(p) \in Panel /\ start(p).handlers = <<>> /\ ~start(p).data.made
             /\ ~start(p).data.transitioning /\ ~Moving(start(p))
             /\ Open(start(p)) => p = Opened
  <2>1. rendered(p) \in {{"collapse"}, {"collapse", "in"}}
    OBVIOUS
  <2>2. "in" \in rendered(p) => p = Opened
    OBVIOUS
  <2> HIDE DEF rendered
  <2>3. start(p) \in Panel
    BY <1>2, <2>1 DEF Panel
  <2>4. /\ start(p).classes = rendered(p) /\ start(p).data = NoInstance
        /\ start(p).handlers = <<>>
    OBVIOUS
  <2> HIDE DEF start
  <2> QED
    BY <1>2, <2>1, <2>2, <2>3, <2>4 DEF Moving, Open
<1> HIDE DEF start
<1>4. \A p \in Panels : panels[p] = start(p)
  BY <1>1
<1>5. \A p \in Panels : Sound(panels[p])
  BY <1>3, <1>4 DEF Sound
<1>6. TypeOK
  BY <1>1, <1>3 DEF TypeOK, Panel, Data, Handlers
<1>7. Fresh
  BY <1>1, <1>3, <1>4 DEF Fresh
<1>8. Accordion
  <2>1. \A p \in Panels : WillOpen(panels[p]) => p = Opened
    BY <1>3, <1>4 DEF WillOpen
  <2> QED
    BY <1>1, <1>3, <1>4, <2>1 DEF Accordion
<1> QED
  BY <1>5, <1>6, <1>7, <1>8 DEF Inv

LEMMA StepInv == Inv /\ [Next]_vars => Inv'
<1> SUFFICES ASSUME Inv, [Next]_vars PROVE Inv'
  OBVIOUS
<1> DEFINE Resting(panel, moves) ==
      /\ panel \in Panel
      /\ Moving(panel) <=> panel.handlers # <<>>
      /\ panel.data.transitioning => Moving(panel)
           /\ \E i \in DOMAIN panel.handlers : panel.handlers[i].mine
      /\ ~moves => panel.handlers = <<>>
<1>s. /\ \A panel : Sound(panel) <=> Resting(panel, animates)
      /\ (\A q \in Panels : Sound(panels[q]))'
           <=> \A q \in Panels : Resting(panels'[q], animates')
  BY DEF Sound
<1> HIDE DEF Resting
<1>t. /\ panels = [q \in Panels |-> panels[q]]
      /\ animates \in BOOLEAN /\ used \in BOOLEAN /\ calm \in BOOLEAN
      /\ \A q \in Panels : Sound(panels[q])
  BY DEF Inv, TypeOK
<1>u. ASSUME panels' = [q \in Panels |-> panels'[q]],
             \A q \in Panels : panels'[q] \in Panel,
             animates' \in BOOLEAN, used' \in BOOLEAN, calm' \in BOOLEAN
      PROVE  TypeOK'
  BY <1>u DEF TypeOK, Panel, Data, Handlers
<1>1. ASSUME NEW p \in Panels, Click(p) PROVE Inv'
  <2>1. /\ panels' = Toggle(p) /\ used' = TRUE /\ animates' = animates
        /\ calm' = (calm /\ \A q \in Panels : ~Moving(panels[q]))
    BY <1>1 DEF Click
  <2>2. /\ panels' = [q \in Panels |-> panels'[q]]
        /\ \A q \in Panels : Sound(panels'[q])
    BY <2>1, ToggleSound
  <2>3. (\A q \in Panels : Sound(panels[q]))'
    BY <1>s, <2>1, <2>2
  <2>4. TypeOK'
    BY <1>t, <1>u, <2>1, <2>2 DEF Sound
  <2>5. Fresh'
    BY <2>1 DEF Fresh
  <2>6. Accordion'
    <3> SUFFICES ASSUME calm' PROVE Accordion'
      BY DEF Accordion
    <3>1. calm /\ \A q \in Panels : ~Moving(panels[q])
      BY <2>1
    <3>2. /\ \A q \in Panels : panels'[q].data.made => panels'[q].data.parent
          /\ \A q, r \in Panels : WillOpen(panels'[q]) /\ WillOpen(panels'[r]) => q = r
          /\ \A q \in Panels : panels'[q].collapsed = ~WillOpen(panels'[q])
      BY <2>1, <3>1, ToggleOpens
    <3> QED
      BY <3>2 DEF Accordion
  <2> QED
    BY <2>3, <2>4, <2>5, <2>6 DEF Inv
<1>2. ASSUME Ready PROVE Inv'
  <2>1. /\ panels' = panels /\ used' = used /\ calm' = calm /\ animates' = TRUE
    BY <1>2 DEF Ready
  <2>2. (\A q \in Panels : Sound(panels[q]))'
    BY <1>s, <1>t, <2>1 DEF Resting
  <2>3. TypeOK'
    BY <1>t, <2>1, <1>u DEF Sound
  <2>4. Fresh' /\ Accordion'
    BY <2>1 DEF Inv, Fresh, Accordion
  <2> QED
    BY <2>2, <2>3, <2>4 DEF Inv
<1>3. ASSUME NEW p \in Panels, TransitionEnd(p) PROVE Inv'
  <2> DEFINE e == [RunHandlers(panels[p], panels[p].handlers) EXCEPT !.handlers = <<>>]
  <2>1. /\ panels[p].handlers # <<>>
        /\ panels' = [panels EXCEPT ![p] = e]
        /\ used' = used /\ calm' = calm /\ animates' = animates
    BY <1>3 DEF TransitionEnd, RunHandlers
  <2>2. panels[p] \in Panel
    BY <1>t DEF Sound
  <2>3. /\ e \in Panel /\ ~Moving(e) /\ e.handlers = <<>>
        /\ Open(e) <=> WillOpen(panels[p])
        /\ e.collapsed = panels[p].collapsed
        /\ e.data.made = panels[p].data.made /\ e.data.parent = panels[p].data.parent
        /\ e.data.transitioning <=>
             /\ panels[p].data.transitioning
             /\ ~ \E i \in DOMAIN panels[p].handlers : panels[p].handlers[i].mine
    BY <2>1, <2>2, HandlersLeave
  <2> HIDE DEF e
  <2>4. panels' = [q \in Panels |-> IF q = p THEN e ELSE panels[q]]
    BY <1>t, <2>1
  <2>5. ~e.data.transitioning
    BY <1>t, <2>3 DEF Sound
  <2>6. Resting(e, animates)
    BY <2>3, <2>5 DEF Resting
  <2>7. (\A q \in Panels : Sound(panels[q]))'
    BY <1>s, <1>t, <2>1, <2>4, <2>6
  <2>8. TypeOK'
    <3>1. \A q \in Panels : panels'[q] \in Panel
      BY <1>t, <2>3, <2>4 DEF Sound
    <3> QED
      BY <1>t, <1>u, <2>1, <2>4, <3>1
  <2>9. WillOpen(e) <=> WillOpen(panels[p])
    <3>1. WillOpen(e) <=> Open(e)
      BY <2>3 DEF WillOpen
    <3> QED
      BY <2>3, <3>1
  <2>10. Fresh'
    <3>1. used
      BY <2>1 DEF Inv, Fresh
    <3> QED
      BY <2>1, <3>1 DEF Fresh
  <2>11. Accordion'
    <3> SUFFICES ASSUME calm PROVE Accordion'
      BY <2>1 DEF Accordion
    <3>1. \A q \in Panels : /\ WillOpen(panels'[q]) <=> WillOpen(panels[q])
                            /\ panels'[q].collapsed = panels[q].collapsed
                            /\ panels'[q].data.made = panels[q].data.made
                            /\ panels'[q].data.parent = panels[q].data.parent
      BY <2>3, <2>4, <2>9
    <3>2. /\ \A q \in Panels : panels[q].data.made => panels[q].data.parent
          /\ \A q, r \in Panels : WillOpen(panels[q]) /\ WillOpen(panels[r]) => q = r
          /\ used => \A q \in Panels : panels[q].collapsed = ~WillOpen(panels[q])
      BY DEF Inv, Accordion
    <3> QED
      BY <2>1, <3>1, <3>2 DEF Accordion
  <2> QED
    BY <2>7, <2>8, <2>10, <2>11 DEF Inv
<1>4. CASE UNCHANGED vars
  <2>1. panels' = panels /\ used' = used /\ calm' = calm /\ animates' = animates
    BY <1>4 DEF vars
  <2> QED
    BY <2>1, <1>s, <1>t DEF Inv, TypeOK, Fresh, Accordion, Resting
<1> QED
  BY <1>1, <1>2, <1>3, <1>4 DEF Next

LEMMA Invariance == Spec => []Inv
<1> QED
  BY InitInv, StepInv, PTL DEF Spec

-----------------------------------------------------------------------------
\* Theorems

\* For every number of panels, each of them is open, closed or moving and no two of
\* these, whichever handlers its transitions leave and in whichever order these run
\* (bootstrap.js:605-618, 656-661).
THEOREM PanelsTypeCorrect == Spec => []TypeOK
BY Invariance, PTL DEF Inv

\* No header goes dead: whatever is clicked in a hurry, and though show drops instances
\* of panels that still move, an instance that refuses clicks waits for a handler that
\* lets it go (bootstrap.js:584, 598-601, 614-620).
THEOREM NoHeaderGoesDead == Spec => []NoneIsLocked
<1>1. Inv => NoneIsLocked
  BY DEF Inv, Sound, NoneIsLocked
<1> QED
  BY <1>1, Invariance, PTL

\* Whoever waits for a transition before the next click has one panel open at the most,
\* and headers that say which: show looks at the data of the first panel it finds open
\* only, but then there is no other (bootstrap.js:587-600).
THEOREM AccordionHolds == Spec => []OnePanelIsOpen
<1>1. Inv => OnePanelIsOpen
  <2> SUFFICES ASSUME Inv, calm, used, \A p \in Panels : ~Moving(panels[p])
               PROVE  /\ \A p \in Panels : panels[p].collapsed = ~Open(panels[p])
                      /\ \A p, q \in Panels : Open(panels[p]) /\ Open(panels[q]) => p = q
    BY DEF OnePanelIsOpen
  <2>1. \A p \in Panels : WillOpen(panels[p]) <=> Open(panels[p])
    BY DEF Inv, Sound, WillOpen
  <2>2. /\ \A p, q \in Panels : WillOpen(panels[p]) /\ WillOpen(panels[q]) => p = q
        /\ \A p \in Panels : panels[p].collapsed = ~WillOpen(panels[p])
    BY DEF Inv, Accordion
  <2>3. \A p \in Panels : panels[p].collapsed = ~Open(panels[p])
    <3> SUFFICES ASSUME NEW p \in Panels PROVE panels[p].collapsed = ~Open(panels[p])
      OBVIOUS
    <3>1. Open(panels[p]) \in BOOLEAN /\ WillOpen(panels[p]) \in BOOLEAN
      BY DEF Open, WillOpen
    <3>2. WillOpen(panels[p]) = Open(panels[p])
      BY <2>1, <3>1
    <3> QED
      BY <2>2, <3>2
  <2> QED
    BY <2>1, <2>2, <2>3
<1> QED
  BY <1>1, Invariance, PTL
=============================================================================
