-------------------------- MODULE MCScheduleEditor --------------------------
(* Instances of ScheduleEditor for TLC: the minute has a tab "every n minutes",
   the month has not. *)
EXTENDS ScheduleEditor

MCBoxes == [minute |-> 0..2, month |-> 1..2]

\* Texts of every kind that parse and whose boxes can be reached.
MinuteTexts ==
  {Star, Step(2), List({1}), List({0, 2}), Span({1, 2}),
   SpanStep({0, 1, 2}, 2)}

MonthTexts == {Star, List({2}), Names({1, 2})}

Fields(minutes, months) ==
  {Normal([p \in Parts |-> IF p = "minute" THEN m ELSE n]) :
     m \in minutes, n \in months}

\* What the editor writes or a crontab of a showable kind holds, one that does not
\* parse, and some that parse and that the panels cannot show.
MCStored ==
  Fields(MinuteTexts, MonthTexts) \cup {Special("@daily"), Special("@annually")}
    \cup Fields({Star}, {Names({2}), Step(2), NamedSpan({1, 2})})
    \cup Fields({SpanStep({1, 2}, 2)}, {Star})
=============================================================================
