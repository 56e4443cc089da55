# minicron in TLA+

minicron runs the commands of cron jobs under a Go client
(`minicron run COMMAND`) that reports each run to a Ruby hub. The hub keeps
jobs, hosts, schedules and executions in a database, shows them in web pages,
and a monitor thread sends alerts when a scheduled run did not happen. The pages
come with scripts: an editor of schedules and the widgets around it. This
directory holds models of these parts, the TLC runs that check them, and TLAPS
proofs of their safety properties. Paths below are relative to the
repository's `client/` and `server/` (`hub/` is `server/lib/minicron/hub/`).

## Inventory

| Component | State | Operations | Module |
|---|---|---|---|
| Execution API, `hub/controllers/api/executions.rb` | tables | init, start, output, finish, exit | Hub, Minicron |
| Job and schedule pages, `hub/controllers/jobs.rb` | tables | new, edit, status, delete; new, edit, delete | Hub, Monitor |
| Host and execution pages, `hub/controllers/hosts.rb`, `executions.rb` | tables | new, edit, delete; delete | Hub |
| Schema and models, `server/db/schema.rb`, `hub/models/` | unique indexes, cascades, counter caches | | Hub, Monitor |
| Client, `client/run/run.go`, `client/commands/run.go` | two goroutines, a channel, a shared exit status, a terminal and a command | the steps of `run.Command` and of `main` | Client |
| Client API, `client/api/api.go` | one request and its reply | five POSTs, a 15 s timeout, no retry | Client |
| Monitor, `server/lib/minicron/monitor.rb` | start time, the pass under way | start!, pass, check | Monitor |
| Alerts, `server/lib/minicron/alert.rb` | alerts table | send_all, send, sent? | Monitor (miss), Client (fail: only that it raises) |
| Runs and hub together | tables, what has been handled of each run | calls that come late or never among the pages' changes | Minicron, Journal, Progress |
| Server lifecycle, `cli/commands.rb`, `transport/server.rb` | pid file, process | start, stop, restart, status | not modelled |
| Configuration, `lib/minicron.rb`, `cli.rb` | configuration hash | merge of defaults, file and options | not modelled |
| Authentication, `hub/middleware/auth.rb`, `hub/controllers/auth.rb` | session | sign in, up, out; API key | only its result: every handler acts for one user |
| Schedule editor, `hub/assets/js/schedules.js`, tabs and buttons of `bootstrap.js` | expression, form, tabs, boxes, inputs, radio buttons | opening a page, every click and input, saving | ScheduleEditor |
| Accordion, collapse plugin of `bootstrap.js` | classes of the panels, instances, waiting handlers | click, end of a transition | Collapse |
| Tooltips, tooltip plugin of `bootstrap.js`, `init.js` | instances, tips, waiting handlers | mouse in and out, end of a fade | Tooltip |
| Scroll bars, `perfect-scrollbar.js`, `init.js` | sizes measured, bars, drags, touches, the timer of a glide | resize, scroll, wheel, keys, rail, thumb, touch | Scrollbar, ScrollTouch |
| `cron.rb` (no caller), views, vendored packages | | | not modelled |

How they interact: the client calls the API over HTTP, one call at a time, and
goes on only when a call has succeeded (finish excepted). Handlers of the hub
run one after the other, since Thin serves Sinatra from one thread. The monitor
is another thread of the hub's process and meets the handlers in the database.
Users change and delete rows at any time, also those of runs under way. In the
browser each script reacts to events one at a time; what is shared between two
events is the state of the page, and the timers that end transitions, fades and
glides fire between any two of them.

What is hard: the race of the two goroutines for the exit status; a request
that times out and is handled all the same; a hub that fails in the middle of
a run; rows deleted while a client or the monitor works on them; cascades that
must keep the counters and references of other rows right; time windows of the
monitor against the rhythm of its passes; an alert that is delivered but not
stored. `PROJECT.json` lists each of these at its line, under "hazards".

What makes the components correct:

* Hub: no dangling or mixed-up rows, exact counters, no request of one user that
  touches a row of another, execution numbers that grow and never collide, no
  run of a disabled job, no id used twice.
* Client: the hub's record is a prefix of the run; an exit status is recorded
  only of a complete run and is the true one; the process ends once the command
  has and its terminal is free; its exit code is that of the command.
* Monitor: no alert about a run that took place or still can (unless its execution was
  deleted before the check), no overlooked miss,
  one alert for each medium.
* Pages: an execution shows the lines of its own run, in order and once; labels
  turn from running to an end and never back; what is gone stays away.
* Schedule editor: form, panels and expression agree, and what is saved opens and can
  be shown.
* Widgets: bars show where the content is, drags and glides end, one panel is
  open, tips come, point at their label and go.

Bootstrap and perfect-scrollbar are vendored. The parts the pages run on are modelled,
since the editor is built on the one and the panels scroll by the other, but the core
of the program is hub, client and monitor.

## Modules

**Hub.tla.** A table is a function from ids to rows; each handler that writes is
one action, with its queries, its counter caches and the `dependent: :destroy`
cascades. A handler that raises inside its transaction has no effect and is an
action that is not enabled (`InitOutcome` says why an init fails). Ids come from
`lastId`, as autoincrement columns give them. `issued` remembers which user was
told which execution id: from then on `ClientRequest` lets that client send any
request about it in any order, an over-approximation of the real client. A
command stands for its text and its hash.

**Client.tla.** One process. `worker` is the place in `run.Command` and `main`
that in `commands/run.go`; the names of places that wait for the API are those
of the calls. `Publish` is the rendezvous on the unbuffered channel; `Assign`
and `Exit` are the two accesses to `exitStatus` that race. A call puts a
request in `inFlight`; the hub handles or refuses it, or it is lost, and at any
moment before the reply is read the 15 seconds may have passed, so that a
request may be handled after the client has given it up. The command writes,
lets go of its terminal and ends as it likes, and children it leaves in the
background may hold the terminal and write to it after it has ended: `command`
is the shell that `cmd.Wait` waits for, `hungUp` says that nobody holds the
terminal. Assumed of what is outside the source: a terminal whose other side has hung
up reads as end of file, or, on Linux, as EIO (`HangupIsError`); a command killed by a signal has status -1.

**Monitor.tla.** The monitor's loop, one action per schedule checked and per
medium tried, among the handlers that change what it reads. Time is a clock in
fractions of a minute (`Minute` units); a schedule is its period. A pass takes
no time but for deliveries (at most `MaxPass`), sleeps last one minute (59 s in
the code, the rest is the pass). Assumed of the parse-cron gem: `last` starts
its search at the beginning of the current minute and returns an earlier tick
(`CronLast`). `ran`, `judged`, `delivered` and `failures` are history variables.
`alerts` stays empty: `send_all` does not hand `user_id` to `send`, and the
column may not be NULL. The record of an alert keeps, as history, what the check
saw: the `updated_at` of the row and the executions that had been deleted.

**Journal.tla** is what a client promises: the calls of a run that the hub
handles, each once and in an order that `May` gives. Client implements it
(`KeepsJournal`), with the requests the hub has handled as the journal.

**Minicron.tla** puts several runs and the hub's pages together. A run is no
longer a client with its goroutines but its journal: a step handles a call that
`May` allows, at any moment, or never. This is sound because Client keeps the
journal whatever is lost, late or refused. `kept` and `written` are history
variables.

**Progress.tla** is what the sidebar and the page of an execution promise. The
composition implements it (`PagesProgress`), `shown` being read off the rows as
the views read them (`Label`, and the number of lines).

**ScheduleEditor.tla.** A page is opened for an expression, the script parses it
into panels, each click rewrites the expression and the form's inputs, and
saving stores those. The handlers of Bootstrap's tabs and buttons run in the
same event as the editor's and are part of its actions. An exception in `parse`
leaves the rest of its handlers undone: a click on a box that throws is not kept from
the browser, which turns the box back (`ClickBox`). Texts are kept as what they say.

**Collapse.tla** and **Tooltip.tla.** Each panel or tip has a sequence of handlers
that wait for the end of its transition: one event runs all of them, also those
of a plugin instance or of a fade that is no longer the last one. `calm` is a
history variable that picks out the users who wait for a transition to end.

**Scrollbar.tla** and **ScrollTouch.tla.** One element with its two bars; the
browser's part (what it clamps, when it owes a scroll event, which releases of
the mouse never come) is nondeterministic. ScrollTouch adds fingers and the
glide. A glide's speed is counted in the ticks it takes to fall below 0.01.

**MC modules** hold what TLC needs beside the cfg files. The modules that end in
**Proofs** hold the theorems about the module they are named after;
**ScrollbarProofs** those about ScrollTouch as well, **MinicronProofs** also use
those of HubProofs. Definitions whose comment begins with "Faulty variant" are
plausible bugs in the definition that follows; no specification uses them, each
shows that a property notices its bug.

## Runs

Deadlock is not checked for Hub, Minicron and Monitor, whose bounds let a behaviour
run out of steps, nor for the scroll bars, where nothing has to happen. It is
for Client, where `Terminated` is the only good end, for the editor, the accordion
and the tooltips, where the user can always do something.

| Run | Shows | Bounds |
|---|---|---|
| hub_rows | `TypeOK`, `References`, `CountersExact`, `UsersApart` | 2 users, 1 host name, 2 commands, 2 crons; 2 hosts, 2 jobs, 2 executions, 1 schedule and 1 line of output: a cascade meets rows of the other user, of another job or of another host (with 2 schedules, which takes four minutes, the properties hold too) |
| client_eof | `TypeOK`, `RecordedInOrder`, `ExitMeansComplete`, `PrintsBeforeExit`, `RunEnds`, `KeepsJournal` | 3 lines, a terminal of 2: the command blocks and lines queue |
| minicron_runs | `InitNeverCollides`, `PageShowsTheRun`, `OrphansCameLate`, `PagesProgress` | 3 runs, 3 executions, 2 lines, 2 hosts, 1 job; a deleted host can be made again, a deleted job cannot: an execution can be deleted between two others, and a run outlive its execution, its job and its host |
| monitor_misses | `TypeOK`, `MissesAreReal`, `TicksAreJudged`, `MissesAreReported` | a 3 minute schedule, half minutes, 8 minutes, 4 events among start, stop, new, edit, delete, run: the ticks at 3 and 6 minutes come, and the first can be followed until its time is over. One schedule; that a pass goes on with others is left to the proofs |
| editor_form | `TypeOK`, `FormIsSchedule`, `PanelsShowSchedule`, `SavedSchedulesOpen` | two fields, one with a tab "every n" and one without; 3 and 2 boxes; texts of every kind, one that does not parse and some that panels cannot show |
| scroll_bars | `TypeOK`, `BarsAreAccurate`, `DragsEnd`, `EventsScrollOnce`, `ThumbFollowsMouse`, `RailLeadsToMouse` | content that fits, overflows by a pixel, and overflows by more than its thumb has room, so that positions are rounded; 2 presses before a release |
| scroll_swipes | `NoTugOfWar`, `GlobalTouchIsReal`, `ContentFollowsFinger`, `GlidesEnd` | 2 fingers on 2 nodes, 2 places, speeds of 2 ticks |
| collapse_panels | `TypeOK`, `NoneIsLocked`, `OnePanelIsOpen`, `PanelsSettle` | 3 panels, 3 waiting handlers on each: one opens while one closes and another has its instance dropped |
| tooltip_fades | `TypeOK`, `ThePatientSeeTheTip`, `ArrowPointsAtLabel`, `TipsGoAway` | 2 labels, at the top and at the bottom of the window, tips that grow, 4 waiting handlers |
| hub_two_users | finding: init refuses a command that another user's job holds | 2 users, 1 command |
| client_status | finding: the exit code may be 0 for a failed command | 1 line |
| monitor_twice | finding: the same miss is alerted in two passes | a 5 minute schedule |

The last three run into a violation: each refutes what a comment of the code says.

`TicksAreJudged` and `MissesAreReported` speak of schedules for which
`Detectable` holds: the time in which a tick can be judged is longer than the
time between two checks. Every two minutes is enough while deliveries are fast;
every minute is not (see below).

Fairness. Client: the two goroutines are scheduled, and the timer of a call fires;
nothing is assumed of the hub and the network, so `RunEnds` says the client ends
even if the hub never answers. It is about runs whose command has ended and whose
terminal nobody holds any more, or that met an error: no fairness makes a command
end or a background child let go of the terminal, and until then the client waits.
ScrollTouch: the interval of the glide ticks (`setInterval`, perfect-scrollbar.js:1107). Collapse and Tooltip: a
transition ends, since `emulateTransitionEnd` sets a timer that triggers the event
if the browser does not (bootstrap.js:54). Users do as they like everywhere.

There are other ways the exit code differs from the command's, left out of
`ExitsWithCommandStatus` on purpose: any API error, and on Linux the EIO at the
end of the output, make `run.Command` return 0 with an error.

## Proofs

Every invariant, action property and refinement that a passing run checks is also
a theorem, for all values of the constants that the named assumptions allow. A
run shows on a small instance that the interesting cases happen and the property
holds in them; the proof shows that nothing depends on the bounds. In each module
an inductive invariant (`Inv`, unless named) is shown to hold initially and to be
kept by each action, and the properties follow from it. These invariants hold on
the instances of the runs, as TLC finds when they are added to the cfg files.

**HubProofs**, from `ExitStatusesAssumption` and `BoundsAssumption`:

* `TypeCorrect`: TypeOK is inductive by itself; it gives what every other proof
  needs, that ids of rows are at most `lastId` and so the next id is new.
* `ReferencesHold`: References is inductive with TypeOK. The cases that matter
  are the deletions, whose cascades must cover every row that refers to a
  deleted one, and init, whose job and host exist by then and are the user's.
* `NumbersOrdered`: NumbersFollowIds is inductive with TypeOK and References.
  init takes the number of the job's newest execution plus one, and by the
  invariant itself the newest has the highest number. References says that the
  executions of the job are all of the user that init looks at.
* `NoNumberCollision` follows from these three.
* `DisabledIdle`: only init adds executions, and `JobRefused` reads the flag of
  the job it adds to.
* `DeletedStayDeleted`: only init adds rows, under an id above all of `issued`.
* `CountersCorrect`: CountersExact is inductive with TypeOK and References; the
  lemmas are about cardinalities of the sets that are counted as a row comes and
  as rows go.
* `UsersStayApart`: cascades, counters and the clients' updates go by ids alone.
  References says that the rows they reach are of one user, and `OutputsOwned`
  the same of output rows, also of those whose execution is gone.

**ClientProofs**, from `StatusesAssumption` and `ClientAssumption`. The record of
the hub is related to the place of the worker: `Turns` says how many calls have
been handled when the worker is at each place (`Settled`), `Flight` that a request
on its way is the one that may be stored next, `Ends` that an exit status, wherever
it is, is that of a command all of whose lines were scanned, and `Channel` where
each scanned line is. Only finish and exit can be on their way together.
`RecordedInOrder` is stated by index (`Place`: what the i-th call may be), which is
what makes it inductive: appending a call says nothing about the ones before.

* `ClientTypeCorrect`, `RunsAreRecordedInOrder`, `ExitsAreComplete` and
  `LinesArePrinted` are parts of the invariant or follow from it.
* `ClientKeepsJournal`: the refinement. The journal counts the calls in `handled`;
  a step that handles a request counts one more, which `Flight` and
  `RecordedInOrder` show to be one that `May` allows, and every other step is a
  stutter.

**MinicronProofs**, from the assumptions of Hub and `NoIdAssumption` (what stands for
no id is no number). `Told` says that runs learn different ids, `Lines` that the rows
of a run hold its lines, each once and in the order of their ids, `Owned` that they
belong to its execution and are all there as long as that is, `Pending` that what has
not been handled does not show.

* `MinicronIsHub`: each step of the system is a step of Hub or leaves it alone, so
  that all theorems of HubProofs hold of it; `RunsNeverCollide` is one of them.
* `OrphansAreLate` is part of the invariant.
* `PagesShowTheRun`: the n-th row by id (`RowAt`) of an execution is the one of the
  n-th line, because as many rows of its run lie before it.
* `PagesMakeProgress`: the refinement of Progress, call by call. A deletion removes
  whole executions; finish and exit turn a label the way `Turns` allows.

**MonitorProofs**, from `MonitorAssumption` (periods are whole minutes, there is a
medium, enabled ones are among the media).

* `MonitorTypeCorrect`: TypeOK with `Kept` is inductive.
* `AlertsAreJustified`: an alert is right from the moment it is decided on (`Misses`).
  No execution is created in the past, so none can enter a window that is over. An
  execution that was deleted before the check is the exception the property names
  (`erased`).
* `NoTickPassedOver`: `Judging` follows a tick that is not yet judged: it is too
  young for the pass under way, or its schedule is still ahead in the queue and
  will come before the next tick hides it. `Rhythm` bounds passes and sleeps. The
  schedules for which the next pass always comes in time are those that are
  `Detectable`: the proof uses that inequality as it stands.
* `NoMissForgotten`: what has been judged a miss is under way or delivered
  (`Reporting`), and stays so whatever users do to the rows.

**ScheduleEditorProofs**, from `EditorAssumption` and `StoredAssumption` (an expression
in the database is one of fields or a special one alone, as `Schedule.format` writes
it).

* `EditorTypeCorrect`, `FormsFollowSchedules`, `PanelsAlwaysShow`: with `Formed` and
  `FormOpens` these three are inductive together: what a click makes of a field
  depends on what its panel shows. The last is about pages opened for an expression
  that the panels can show, and about what the active tab says: boxes may stay
  checked behind another tab. The arithmetic is in the steps of a range, which
  `Showable` asks to have an end and a positive step; the editor's own texts do.
* `SavesOpenAgain`: `FormOpens` says that what is in the form parses if what was
  opened did, `StaysShowable` that the panels can show what the editor and the form
  hold if they could show what was opened, and saving stores the form.

**ScrollbarProofs**, from `ScrollbarAssumption` and, for ScrollTouch, `TouchAssumption`:

* `BarsStayOnRails`: `Shape` adds to TypeOK that no thumb fills its rail, so that a
  drag never divides by zero.
* `DragsAlwaysEnd`: by an invariant (`DragsInv`) that the handlers of a
  drag and those of its release come and go together: a press adds both, and one
  release takes all of them, as `Unbind` without a handler does.
* `BarsAreAlwaysAccurate`: by an invariant (`BarsInv`) that needs no
  `measured = size`: bars are right for the sizes that were measured, unless an
  event is owed. Every action that scrolls either owes one or draws the bars anew.
* `TurnsAndKeysScrollOnce`, `ThumbStaysUnderMouse`, `ClicksLeadToMouse`: action properties,
  from `Shape` and from `BarsDrawnAsMeasured`, that whatever is owed a bar was drawn
  for what was measured. The lemmas bound what rounding a position does to the
  thumb. `RailLeadsToMouse` says less than it first did: the attempt to prove it
  showed that a click may take the thumb further if the length of the container has
  changed since it was measured, and that a thumb of length zero is no way to tell
  on which side of it the mouse is.
* `GlidesYieldToFingers`, `DeafnessEnds`, `FingerCarriesContent`: by `TouchInv`, that a
  finger that came alone has the touch of the element and the content has followed
  it to where it is.

**CollapseProofs**, from `CollapseAssumption`: `Sound` says of a panel that it moves as
long as handlers wait, and that one of them is the handler of an instance in
transition; it holds whatever is clicked in a hurry. `Accordion` says of those who
wait that one panel is open or opening (`WillOpen`), which its header says already.

* `PanelsTypeCorrect`, `NoHeaderGoesDead`: from `Sound`. Where show drops an instance
  its handlers are no longer `mine`, but neither is there an instance to lock.
* `AccordionHolds`: at rest show finds one open panel at the most, so that it does not
  matter that it asks only the first for its data.

**TooltipProofs**, from `TooltipAssumption` (a tip has a height once it is seen, of which
its arrow gets a share). `Steady` says that a tip has the class "in" just while the
mouse is known to be over its label, and "out" is never left in `hoverState`: the
branch of show's handler for it (bootstrap.js:1494) is dead without delays.

* `TipsTypeCorrect`, and `TipsStayForThePatient`, by `Patient`: no handler of hide is
  left for those who waited.
* `ArrowsPointAtLabels`: arithmetic on `ApplyPlacement`, for all integers.

What handlers that wait for one event leave is a fold over a sequence; that a fold
exists and has the steps one expects (`FoldExists`, `HandlersRun`) is proved in both
modules from the least number for which it fails, for want of induction.

Only model-checked: the liveness properties `RunEnds`, `GlidesEnd`, `PanelsSettle` and
`TipsGoAway`, since fairness is out of this prover's reach; and the three findings,
which are behaviours.

## Where the code differs from what it says

The three findings of `PROJECT.json` have runs. TLC showed these as well, or they
were met while modelling:

* The client ends with the last process that holds the terminal, not with the
  command: after `minicron run "nohup daemon &"` it stays in `scanner.Scan`
  (client/run/run.go:104) until the daemon ends, and reports the exit status of a
  shell that is long gone.
* A tick of `* * * * *` is the last one for the checks from 60 to 120 seconds
  after it and is judged only after 90. The monitor, which sleeps 59 seconds, may
  pass over those 30: the miss is never reported (monitor.rb:84; README.md:45 has
  "Alerts when jobs executions are missed or fail via").
* `updated_at` is compared with the end of the window: a schedule made or edited
  in the 90 seconds after its tick is reported for a tick before it existed
  (monitor.rb:84; the comment at 82 has "i.e we aren't checking for something that
  should have happened earlier in the day").
* A run whose execution a user deletes before the check is reported as missed, since
  the check asks for rows (monitor.rb:87). `MissesAreReal` names these as the only
  false alarms.
* The exception of `Alert.create` leaves the loop over the media, and only the
  first one enabled delivers (alert.rb:67; the comment at 12 has "Send an alert
  using all enabled mediums").
* The editor checks the multiples of a step, so that `1-10/3` shows 3, 6, 9 where
  cron runs at 1, 4, 7, 10, shows nothing for a range of names and has no input for
  `*/n` in a day or month; the next click on that panel stores what it shows
  (schedules.js:310, 237). `PanelsShowSchedule` is about the other texts (`Showable`).
* Radio buttons without a name stay checked when another is chosen, and the button
  plugin announces no change of one that is checked: @hourly, @daily, @hourly
  shows @hourly and saves @daily (bootstrap.js:232, schedules.js:368).
* An empty number makes `parse` throw, the form keeps what it had, which may be a 0
  typed before, and the browser lets it pass: `*/0` is saved (schedules.js:451;
  panels.erb:19 has `min="1" max="59"`).
* The page of an execution sorts its lines and throws the result away
  (hub/controllers/executions.rb:9). They come in the order of the rows, which
  `PageShowsTheRun` shows is the right one; by `seq`, a time in whole seconds,
  they might not.
* The sidebar says "Successful" as soon as finish is handled, before the exit status
  is known, and stays with it for a command that was killed (status -1) or whose
  exit call is lost (sidebar.erb:16-29). `Turns` in Progress has that step.
* If a second finger comes down during a swipe and the first goes, the content jumps by
  the way between them (perfect-scrollbar.js:1077). `ContentFollowsFinger` is about a
  finger that came alone.
* The editor's headers clicked in a hurry can leave two panels open; a tap that
  stops a glide lets it go on when lifted (perfect-scrollbar.js:1102); an edit of a
  schedule does not look for a duplicate, as creating one does (jobs.rb:248).

## Plan

1. Hub with its proofs, Client, Monitor: done.
2. Minicron with Journal and Progress, both refinements: done.
3. ScheduleEditor, Scrollbar with its proofs, ScrollTouch, Collapse, Tooltip: done.
4. Proofs about Client, Monitor, Minicron with both refinements, ScheduleEditor, the
   scroll bars and touch, the accordion and the tooltips: done.
5. `UsersApart` with its proof: done. Left: an abstract specification of the life
   of one execution that Hub implements by itself, whatever its clients send.

## Not modelled

* Server lifecycle: start, stop and restart hand over to the insidious gem and to
  Thin, whose behaviour is not in the repository. When the monitor starts and stops
  is in Monitor.
* Configuration: a merge of hashes at start-up, over once the server runs.
* The text of pages, messages and logs; sign-in and sessions; the services behind
  alert media; the shell and the kernel beyond what Client assumes; two hub
  processes on one database (the code runs one); clocks that jump.
* `cron.rb`, which has no caller, and the plugins of bootstrap.js that no page uses:
  modal, dropdown, carousel, affix, scrollspy, popover and alert.
* Of the scroll bars: the selection handler, which is not enabled; destroy, which
  the hub never calls; right-to-left pages; the ps-* events, which nobody listens
  to; the pointer events of Internet Explorer; when a touch is kept from the page.
* Of the tooltips: focus and click, since labels have neither; browsers without
  transitions. Of the editor: what a browser restores in a form it has seen before.
