# A TLA+ verification of pathfinder-core

`pathfinder-core` is an Ansible collection that configures Telos
PathfinderCore devices over SapV2, a line protocol on TCP. This directory
holds TLA+ modules translated from its Python source, the TLC runs that check
them on small instances, and TLAPS proofs of what matters most for every
instance. Line numbers refer to the source at the commit beside this
directory; `PROJECT.json` maps every definition to the lines it stands for.

## 1. The system

### Components

| component | source | state it keeps | operations |
|---|---|---|---|
| one log writer: read, plan, apply, verify | `module_utils/logs.py` | none between calls; a `WriterActual` read, a list of `Action`s | `read_actual`, `plan`, `apply_plan`, `verify`, `render_state` |
| one device: the logs task | `module_utils/logs.py`, `modules/logs.py` | a `DevicePlan` (a `WriterPlan` per writer, `rotation_actions`), alive for one run | `plan_device`, `find_unmanaged`, `DevicePlan.apply`, `main` |
| SapV2 client session | `module_utils/sapv2.py` | socket, `done_supported`, `check_mode`, guard | `connect`, `_flush`, `_drain`, `execute`, `get`, `tree`, `children`, `set`/`init`/`delete` |
| SapV2 wire format | `module_utils/sapv2.py` | none | `parse_indi`, quoting, top-level splitting, init parameters |
| validation and inheritance | `module_utils/logs.py` | none | `resolve_writers`, `validate_writers`, `validate_rotation` |
| subtree guard | `module_utils/subtrees.py` | the registry of subtrees | `classify`, `assert_writable` |
| startup script | `module_utils/startup.py`, `modules/startup_script.py` | a document on the device, replayed at boot | `parse_script`, `index_by_target`, `boot_vs_live`, `conflicts`; `main`: fetch, compare, save, read back |
| web administration client | `module_utils/webadmin.py` | none | `extract_scripts`, `fetch`, `save` |
| survey | `module_utils/survey.py`, `modules/survey.py` | queue, visited set, seen types, budget | `survey`, `discover_roots`, `_describe`, `unverifiable_properties` |
| stubs `users`, `access`, `devices` | `modules/` | none | none: they fail on every call |

### How they interact

A playbook calls `main()` of the logs module once per host. `main` opens a
session, and `plan_device` reads every named writer, then the unmanaged ones
when they are to be purged, then the rotation settings. From these reads alone
it computes a plan. If any part is blocked, or in check mode, or if there is
nothing to do, the run ends there. Otherwise `DevicePlan.apply` configures every
present writer and the rotation, reads all of it back, and only then deletes
what is to go and reads that back too. Every one of these reads and writes is a
SapV2 command through one `SapV2Client`, and every write passes the subtree
guard. The startup script is a second, independent way into the same settings:
the device replays it at boot, over whatever the logs module has set. Its module
reads and saves it over HTTP, and can compare it with what is live over SapV2; a
play can hand it to the logs module, which then warns of settings a boot would
undo. The survey is a read-only walk that tells which properties can be verified
at all.

### What is hard about it

* Writes are not answered. Whether one took shows only in a later read.
* A read that is not answered within `read_timeout` is an *empty reply*, which
  is also what a read of an absent object looks like.
* Replies carry no command number. Which reply belongs to which command is
  decided by a flush before sending and by the path in the reply.
* The end of a reply is a terminator the firmware may or may not echo, or a gap.
* The session or the controller may die between any two commands. Nothing is
  rolled back and nothing is remembered; the next run starts from reads.
* Some fields are frozen at creation, so changing them means deleting and
  recreating, and some types may not be creatable at all.
* The script is saved as a whole, without a lock, by a post whose answer says
  nothing; the page it is read from shows the factory defaults as well, through
  the same variable, and may be cut off anywhere.
* What the script would change is found by reading one object after another,
  while tasks may go on writing.
* What a survey walks may list an object twice or in a circle, and a listing
  has no field that says whose it is.

`PROJECT.json` lists these as hazards, each at the line where it bites.

### What makes each component correct

* Writer: an empty plan means the writer is as asked; a plan the device takes
  makes it so; the verifier agrees with the planner; nothing unlisted is touched.
* Device: no old writer is deleted before everything that replaces it is in
  place; a run reports success only for a device that is as asked; a blocked or
  check-mode run writes nothing; repeated runs converge.
* Session: a connection that was not authenticated is never usable; a read
  never shows another object's reply; a device that keeps up is read truly.
* Guard: the most specific entry decides, and what is unlisted is refused,
  whatever the verb; check mode lets nothing through.
* Startup script: a run works on the script of the device or not at all; a save
  is what was asked for; what a boot would change is reported, so that none
  reverts a setting silently; runs that agree settle.
* Survey: the walk ends, keeps to its budget and skips nothing within it; what
  it reports is of the objects it met.

## 2. Modules

| module | models | extends |
|---|---|---|
| `Cutover` | the promise: old writers go only while the device is ready without them | |
| `LogWriters` | `logs.py`, the pure half: objects, entries, reads, `_plan_writer` and its helpers, `verify`, the effect of every action | |
| `ReadActual` | `read_actual` over `tree`/`get`/`children`, one action per command | `LogWriters` |
| `DevicePlan` | `plan_device`, `main`, `DevicePlan.apply`: one action per command or per whole read | `LogWriters`; refines `Cutover` |
| `SubtreeGuard` | `subtrees.py`: the registry, `classify`, `assert_writable`; and what governing a path means without them | |
| `SapSession` | one `SapV2Client` session, the guard and check mode in front of its writes, and the device at its other end | `SubtreeGuard` |
| `StartupScript` | the pure half of the script: splitting, parsing, comparing, the page, the loader | |
| `Boot` | managers of the script, logs tasks, the operator and reboots on one device | `StartupScript` |
| `Survey` | the bounded walk over a tree of objects | |
| `LogWritersProofs` | lemmas about the operators of `LogWriters`: reads, verdicts, and what each command of a plan does to the rest of it | `LogWriters`, `TLAPS` |
| `ReadActualProofs` | theorems about `ReadActual` | `LogWritersProofs`, `ReadActual` |
| `DevicePlanProofs`, `OutcomesProofs` | theorems about `DevicePlan`: cutover, refinement, what is deleted and what is left alone; what a run reports and how it ends | `LogWritersProofs`, `DevicePlan` |
| `SapSessionProofs`, `GuardProofs` | theorems about `SapSession`: reads; writes | `SapSession`, `TLAPS` |
| `BootProofs` | theorems about `Boot`, and what the parser makes of a line | `Boot`, `TLAPS` |
| `SurveyProofs` | theorems about `Survey` | `Survey`, `TLAPS` |
| `MCDevicePlan`, `MCReadActual`, `MCSapSession`, `MCBoot`, `MCSurvey` | the instances the runs check | the above |

Every module keeps the source's name where it has one: `_plan_subscriptions`,
`verify`, `in_purge_scope`, `blocked`, `_pick`.

### LogWriters and DevicePlan

**State.** `device` and `rotation` are what the device really holds.
`phase`, `todo`, `plans`, `rotation_plan`, `current`, `pending`, `half`,
`failures` and `verified` are the program counter and the locals of a run; all
of them return to their initial values when the process ends (`EndRun`).
`outcome` is how the last run ended. `ignored`, `lost` and `drops` count
the faults so far against their bounds.

**Actions.** `StartRun`; `PlanWriter`, `FindUnmanaged`, `PlanPurged` and
`PlanRotation` (plan_device); `FailBlocked`, `ExitUnwritten` and `BeginApply`
(main); `TakeWriter`, `SendDelete`, `SendLast` and `ApplyRotation` (phase 1,
and phase 3 for the first three); `VerifyWriter`, `VerifyRotation`; `HoldDeletes`,
`BeginDeletes`; `DeletesSent`, `VerifyDeleted`, `Finish`; and `SessionDies`.
`SendDelete` is the first command of a replace and `half` says that its second
is still to come, so a session can die between them.

**Faults.** Any write may be ignored in silence (`Write`). Any read may come
back with less than there is, in exactly the ways `read_actual` can (see
`ReadActual`), each at its price in unanswered commands (`Lose`). The process
may die at any point. These three are the environment the source describes.

**Abstractions.** One representative stands for each family of scalars that the
code treats alike: one writable property of a writer, one of its
settings, one frozen subscription field, one rotation setting. Two values of
each are enough for every comparison the code makes. Subscriptions are kept
per typeid, with two typeids. Strings are model values; the one place where
their form matters, the normalisation of labels, is the constant `ScalarForm`.
It stands for the case of true and false. That the verifier also collapses runs
of white space, where the planner only strips both ends, is not modelled (see
the remarks of section 5).
The order in which a task lists its writers is any order, since each phase
handles them one by one and no property depends on which comes first. An
action in a plan keeps its kind and typeid; its values are those of the entry.

**Assumed.** A read shows an object as it is when the answer comes, or less of it.
That is `SapSession!PromptReadIsTrue` on a device that keeps up;
`session_late` shows that a reply late by one command can break it. Only this
task writes to the device. Tasks have passed `validate_writers` (`ValidEntry`).

### ReadActual

The six kinds of command of one read, each answered or not. `AtomicReadCovers`
says that whatever comes back is in the set `LogWriters!read_actual` allows, at
no lower price, which is what lets `DevicePlan` take a read as one step.
`LogWriters!read_actual` allows a few reads that the commands cannot produce
(cheaper combinations); this makes the faults of `DevicePlan` only stronger.

### SubtreeGuard and SapSession

A path is the sequence of its segments, so the prefix test of `classify`, which
insists on whole segments, is a prefix of sequences. `SUBTREES` and
`ACTION_PROPERTIES` are the tables of the source. `Governs`, `MayWrite` and
`Live` say what the boundary means without `classify`: an entry governs a path
if no other entry lies between them. `OnlyConfigurationWritten` is stated with
these alone and on the device's side, so it covers the way from the call to the
effect.

The device handles commands in order, in its own time, one reply line per
step, over an ordered stream (`inbox`, `wire`). The client flushes, sends,
receives any prefix of what has arrived and stops at the terminator or at a
timeout. A timeout while the device still has work to do is *late* (nothing of
the reply has come) or *cut* (some of it has), and both are counted. `version`
counts the changes to an object, so a stale line is told from a fresh one.

What firmware there may be and what the client starts with are constants:
`Echoing` says whether it echoes the terminator, `use_done` whether the client
asks for it at first. Each is a set of the truth values an instance allows.

`get`, `tree` and `children` are modelled as calls with their second reads;
`set`, `init`, `del` and a raw `execute` as writes that the guard admits or
refuses, that check mode skips, and that the device takes, ignores or refuses in
a line of text. The device may close the connection at any moment (`Hangup`):
what it has sent can still be read, a read then ends empty, and a command may
find the connection gone (`Break`). An `init` is put to the guard by the path of
its type (`Target`).

### StartupScript and Boot

A line of the script is a record: its verb, its path, the items its author
means, and `sets`, what the device's loader makes of it. From the items follows
how the line is written (`Rest`), as a sequence of the tokens that matter to
splitting: names, `=`, commas, quotes, backslashes, brackets. `Scan`,
`_split_top_level`, `_unquote` and `Pair` translate the client's parser on these
tokens. `LoaderAssumption` ties the two sides together: where every item has a
name, a SET line assigns what its author means. It also says what may be
written: names and bare values hold none of the tokens that matter to splitting,
a value in quotes has its own quotes escaped (`Protected`), and an item without
a name has no `=`. Lines the client cannot read do whatever they do. So `BootChangesAreReported` is a statement about the parser as
well as about the comparison.

A page is a sequence of statements that assign a literal to a variable or a
variable to a text area, in any layout the instance gives. `FirmwareAssumption`
is what every layout has in common: the text area `options` is given the script,
or a variable that has no value there. The same variable may have held the
factory defaults before or be given them later. `Part` is what can be
found in a page cut off after any statement or within any literal.

**State of `Boot`.** `doc` and `live` are the device: its script and the values
of the properties of interest, `None` for those SapV2 does not report. `man` and
`task` hold the locals of a run of either module, and how the last one ended:
with what success, or `none`. In `man`, `left` holds the objects a comparison has
still to read and `seen` what the others showed when they were read.

**Actions.** `Fetch`, `Report`, `Save` and `Verify` (the startup_script module);
  in between, for a manager with `compare_live`, `Connect`, one `Get` for every
  object the script sets a property of (`startup_script.py:258-259`), and
  `Compare`, which sends nothing; `LoseSession` where connecting or one of the
  reads raises; `Begin`, `Set` and `verify_rotation` (the rotation half of the
  logs module, with the script it was given), `Die`; `Edit` by an operator in the
  web page; `Reboot`, which replays the script and cuts every connection. All of
  them interleave; in particular tasks write between two reads of a comparison.

**Faults.** A page cut off; a post lost, ignored, or taken without an answer; a
  session refused or lost during a comparison, or one of its reads not answered; a
  write ignored; a task's session that dies. One bound counts them all. An edit and a reboot have bounds of their
  own.

**Abstractions.** A comparison reads its objects in any order, the code in that of
  their paths. The scan of a JavaScript literal is modelled by whether the
  literal ends. A task is its rotation settings; its writers are `DevicePlan`'s.
  Blank lines and comments are kept, since `normalise` drops the one and keeps
  the other.

### Survey

`queue`, `visited`, `seen_types`, `snapshot` and `commands` are the source's;
`issued` counts what is really sent, so that the budget is checked against the
wire and not against the counter it is kept by. One action per turn of a branch:
`Skip`, `Pop`, `KnownType` or `_describe`, `Descend` or `StayAtDepth`, `Finish`,
and `Break` when a read finds the connection gone. A reply may be missing or
another object's, as `session_late` shows it can be: `children()` and `rfs()` do
not look. `SchemaIsPerType` is the premise of sampling and is assumed.

## 3. Runs

| run | asks | instance |
|---|---|---|
| `cutover` | is a deletion ever early, does anything unlisted change, does a held run write, do repeated runs converge, is all of it an implementation of `Cutover` | 2 writers, 2 typeids, 3 tasks, 1 ignored write, 2 unanswered commands, 1 death; liveness under `FairSpec` |
| `mixed` | do report, diff, plan and verifier agree with the device, and what is deleted | 6 writers of 4 types, one not creatable; 4 tasks, 3 with purges; 1 ignored write, 1 death, every read answered |
| `read_actual` | is the one-step read enough | 1 writer, 2 subscriptions, every object, any number of unanswered commands |
| `session` | what connect proves, what a read can show, what a session can change | 6 objects, the real registry and one entry below another, 5 commands, 1 late and 1 cut reply, a hang-up at any point, both kinds of firmware, check mode or not |
| `survey` | does the walk end within its budget, miss nothing, and report what it met | 7 objects listed twice and in a circle, a quoted dot; 3 kinds of roots, 1 or 2 samples, 3 depths, 3 budgets; 1 lost and 1 misattributed reply; liveness under `WF` |
| `boot` | what is saved, what a boot undoes unannounced, what a comparison leaves out, do agreeing runs settle | 3 properties on 2 objects, 8 lines, 2 scripts beside the managed and the factory one, 2 page layouts; 1 manager, 2 tasks, 1 edit, 1 reboot, 1 fault; liveness under `FairSpec` |
| `session_late` | can a deep read show another object | as `session`, with a firmware that echoes `$DONE`, a client that asks for it, 1 late reply and none cut |
| `verified_delete`, `repoint`, `repoint_diff`, `label`, `read_no_max_depth` | one disagreement each (section 5) | the smallest instance that shows it |

**Why the bounds are enough.** The faults interact with a run in pairs at
most: an ignored write is missed if the read-back is also wrong, and a whole
writer reads as absent after two unanswered commands, so `MaxIgnored = 1` with
`MaxLost = 2` reaches every such combination of one write. A death in one run
followed by a full run reaches every half-done device as the start of a run;
the device's initial contents add the half-done states of longer histories.
Two writers suffice for ordering between a replacement and what it replaces.
For the purge scope, `mixed` has writers of a type the task names and of one it
does not, and a type marked as not creatable: every real type is creatable
today, and the unit tests keep a synthetic one for the same reason
(`tests/unit/test_writer_types.py:156-165`).

In `SapSession`, five commands are connect and probe, a call and its second
read, and one more command, so that a late reply of one call meets the next and
a write meets whatever came before it; the fallback from `$DONE` takes one of
them.

In `Survey`, the tree is the smallest with every shape that matters: two
instances of a type, an object listed by two others, a cycle, a name with a dot
in it. Depth 4 reaches all of it, 1 and 2 cut it; budgets of none, 0 and 4 end
the walk never, at once and in its middle.

In `Boot`, a property is set twice by one script, another shares its line with
one SapV2 does not report, whose value has an escaped quote, a comma and a
bracket in it; the second script has an item and a line the client cannot read.
The two objects of a script are read in two steps, with writes in between.
The scripts differ from the one asked for, in lines or in their order only. One
edit fits between a fetch and a save or a save and its read-back, one reboot
between any two steps, and one fault makes any one step fail. Every fault but an
unanswered comparison leaves its run failed, so a second one would meet a later
run, as the first could.

Deadlock is checked on every `DevicePlan` run and on `boot`, where a run can
always be started again. It is not on `ReadActual`, `SapSession` and `Survey`: a
read or a walk ends, and so does a session whose login failed or whose commands
are used up.

**Fairness.** `WF(Proceed)`: a run that has started goes on, since the
program is sequential and every wait of its client has a timeout.
`SF(StartRun(FALSE))`: the playbook is run again and again, not always in
check mode. The second is an assumption about the operator, and the statement
that depends on it, `Reconciled`, is about repeated runs. `Boot` takes the same
two for each manager and task: `WF(Proceed)`, `WF(ProceedTask)`, and `SF` of
starting outside check mode. `Survey` takes `WF(Next)`: the walk is one loop.
Faults, edits, reboots and check-mode runs are not fair: nothing says
they happen or stop, only their bounds do.

**Properties worth a remark.** `SuccessIsReal` and `DriftIsReal` need every
read to be answered, so they are checked on `mixed` with `MaxLost = 0`;
`verified_delete` shows what happens otherwise. `HonestRunSucceeds` and
`DiffComesTrue` hold on `mixed`, whose tasks avoid the three disagreements
`repoint`, `repoint_diff` and `label` show. `NeedsOperator` is the exception in
`Reconciled`: a plan that is blocked stays blocked until someone changes the task.

`NoSilentRevert` is about a task that was given the script as it still is, and
all of which the client can read; for a script that changed in between, or was
never handed over, the modules promise nothing. `BootChangesAreReported` is about
every comparison of the script as it still is, whatever tasks wrote while it
read, but excepts the properties whose value is no longer what was read
(`Outdated`): there the code promises nothing, and without the exception TLC
finds the task that writes an object after it was read. That such a write leaves
the rest of the comparison right, and that nothing is compared before all of it
is read, is what the property says. `Settles` asks for agreement
(`Agreed`): two tasks with different values fight, as the source says itself,
and nothing in it prevents it. `WithinBudget` allows three commands over: the
budget is looked at before an object is taken, and the root listing is not in
it. `Complete` and `WriteOnlyReported` need every reply to be the right one
(`Clean`); `CountsInstances` and `Terminates` do not.

Every property of a passing run has a mutant in `PROJECT.json`: a plausible bug
in one definition (each is written above the definition it replaces) that
makes the property false.

## 4. Proofs

For every set of writers, types, values and tasks and any number of faults,
`DevicePlanProofs` and `OutcomesProofs` prove of `DevicePlan`:

* `Typing`: `Spec => []TypeOK`.
* `Inductive`: `Spec => []IInv`.
* `CutoverSafety`: `Spec => []CutoverSafe`. A run deletes only while every
  present writer and the rotation are in place.
* `Implementation`: `Spec => CutoverSpec`. `DevicePlan` implements `Cutover`.
* `HeldRuns`: `Spec => HeldRunWritesNothing`. A blocked or check-mode run
  changes nothing.
* `Deletes`: `Spec => OnlyIntendedDeletes`. A writer disappears only because the
  task wants it gone, or allows a replace while it still is elsewhere.
* `Unlisted`: `Spec => UnlistedKept`. What a task does not state survives.
* `RealInvariant`, `SuccessSound`, `DriftSound`: if labels compare as they are
  written (`LabelsDistinct`), then as long as every read was answered (`lost =
  0`) `SuccessIsReal` and `DriftIsReal` hold. Neither condition can go: `label`
  and `verified_delete` are violations without the one and without the other.
* `HonestSound`: `LabelsDistinct /\ SafeMoves => (Spec => []HonestRunSucceeds)`. A
  device that takes every write and answers every read never fails a read-back,
  whatever it held and wherever earlier runs died. `SafeMoves` says that an entry
  whose writer may be moved states no property value but the one a new object
  has; `repoint` is a violation without it, `label` without the other.
* `DiffSound`: `MovesPurge => (Spec /\ [](lost = 0) => DiffComesTrue)`. As long as
  every read is answered, a verified run leaves exactly the subscriptions its
  diff showed. `MovesPurge` says that an entry whose writer may be moved purges;
  `repoint_diff` is a violation without it. Nothing is asked of the labels or of
  the writes.

`ReadActualProofs` proves, for every object and any number of unanswered commands:

* `ReadTyping`: `Spec => []TypeOK`.
* `ReadCovered`: what comes back is among the outcomes of the one-step read.
* `AtomicReadSound`, `AnsweredReadSound`: on a firmware that knows `$MAX_DEPTH`,
  `AtomicReadCovers` and `AnsweredReadIsTrue`. On one that does not, they fail
  (`read_no_max_depth`). So what the theorems about `DevicePlan` take from its
  one-step read is true of the read command by command.

`SapSessionProofs` and `GuardProofs` prove, for every tree of objects, every
registry and every bound:

* `SessionTyping`: `Spec => []TypeOK`.
* `Connected`: `Spec => []ConnectedIsAccepted`. A rejected session is never
  usable, even if the device rejects it in silence.
* `GetsFit`: `Spec => []GetShowsItsObject`. However late replies come, a get
  returns its object or nothing.
* `PromptReads`: `Spec => []PromptReadIsTrue`. As long as no reply is late or cut,
  a get, a listing and a deep read return exactly what there is.
* `DoneKept`: `Spec => SilenceKeepsDone`. Silence does not cost a session the
  terminator.
* `GuardedWrites`: `Spec => OnlyConfigurationWritten`. An object changes only
  outside check mode, under the entry that governs it, and never by a live or
  action property of `set`.

`BootProofs` proves, for every script, every page layout, any number of managers,
tasks, edits, boots and faults:

* `BootTyping`: `Spec => []TypeOK`.
* `ScriptIdentified`: `Spec => WorksOnTheScript`. A run works on the script of the
  device or on none, whatever the layout and wherever the page is cut off.
* `SaveSound`: `Spec => SaveIsAskedFor`. The script changes by hand or to what a
  run outside check mode was given, and is never saved empty.
* `ComparisonComplete`: `Spec => BootChangesAreReported`. A comparison names what
  the next boot would change, but for what was written after it was read.
* `RevertsSound`: `Spec => NoSilentRevert`. Both for scripts of any length, lines
  with any number of items and values of any text.

`SurveyProofs` proves, for every tree, every listing and every set of calls:

* `SurveyTyping`: `Spec => []TypeOK`.
* `Budget`: `Spec => []WithinBudget`.
* `CountsSound`, `WriteOnlySound`: `CountsInstances` and `WriteOnlyReported`, if
  every call samples types at all (`Samples`). `max_instances_per_type` may be 0,
  and then a type is counted that no object was described for.
* `Completeness`: `Spec => []Complete`. A walk that was answered and was not cut
  short by its budget or by `max_children` visited exactly what lies within
  `max_depth` listings of its roots.

**Assumptions.** Those named in the modules: types of the constants, finitely
many typeids, `None` differs from every value, every entry of a task is
valid, a child's path is one segment longer than its parent's. TLC evaluates all
of them on every run. Two say something of the environment: `LoaderAssumption`
and `FirmwareAssumption` of the startup script (section 2). Without the
first, two readers of one line need not agree; without the second, no client
could tell the script from the defaults.

**The argument: `DevicePlan`.** `CutoverSafe` is not inductive: at the gate it
needs that every changed writer was read back and every unchanged one was right,
which was settled several phases earlier. `IInv` says so phase by phase.
`PlansFit`, `AllPlanned` and `WritesFit` tie plans and pending commands to the
task, so that after the read-back only retiring writers are touched.
`ConvergedInPlace` says that a present writer with an empty plan is in place, and
`VerifiedInPlace` the same of one that was read back. Both rest on one
observation, proved in `LogWritersProofs`: a read may show less of an object
than there is, but never something else (`ReadShowsLess`), so an empty plan
(`EmptyPlanHolds`) or a successful verification (`VerifyHolds`) of a *present*
writer is true of the device even if the read lost something. The same
does not hold of deletions, which is why `verified_delete` is a violation.

The action properties each need one more invariant. `Released`: nothing gets
past the decision in check mode or with a blocked plan. `ReplacesFit`: from the
planning of a `writer_replace` to its first command the task and the type allow
it and the writer is where the task does not want it; it holds since a read that
finds the writer always shows its endpoint as it is, and since the replace is
the first action of its plan. `PlansStated`: a plan sets only what its entry
states. `RealInv` adds to `IInv` what an answered read makes true of absence too:
a plan is empty just where the device is as asked (`EmptyPlanIsAsAsked`), until
the run itself touches that writer, and a read-back that passed says so again
(`VerifiedIsAsAsked`).

`HonestSound` needs to know, between any two commands, that what is left of a plan
still does all that is left to do. `Course` says that: its actions are totally
ordered, they fit the entry, and every part of the object that the entry speaks
of is right already or has an action to come, or, while the object has still to
be created again, has one whatever the old object looks like. `PlanSetsCourse`
shows that a plan from an answered read that is not blocked is a course,
`DeleteKeepsCourse`, `OneSubscription` and `LastKeepsCourse` that each command keeps
it for what remains, and `CourseEndVerifies` that one with nothing left passes
`verify`. The order of `Rank` matters here: a writer's recreation comes before
anything that is set on it (`RenewalFirst`). `HonestInv` says that every planned
writer is on course and, between the two commands of a replace, that the object
is gone (`HalfIsCleared`).

`DiffInv` follows the subscriptions an entry does not list. Without a purge they
stay as the planning read found them (`UnlistedShown`), which a `writer_replace`
would break; with one they are gone once the writer is read back (`PurgedGone`),
and the deletes are reached only when all changed writers were
(`ChangedVerified`). Those it lists are there by `CutoverSafe`.

`LabelsDistinct`, `SafeMoves` and `MovesPurge` hold of the instance `mixed`, so the
two theorems are about tasks with moves, purges and creations, not about none.

**The argument: `SapSession`.** For `Connected` the invariant is `Outside`: a
session that was not let in has been told nothing of any object, so its probe,
which has to find one, fails. The others rest on `SInv`: types, versions that
never outrun the commands sent (`Counted`), and which command the client waits
for in which phase of which call (`Flow`). `DoneComes` says that a terminator
asked for is still to be sent, on its way or read, so a reply that ends without
one was cut. `InStep` is the heart of `PromptReads`: without late or cut replies
the queue and the stream are empty whenever the client is not waiting, and while
it waits for a read, what it has read, what is on its way and what the device has
still to send are together just the reply (`Arriving`), every line of it at the
object's version. It is false from the first late reply on, which is what
`session_late` shows.

For `GuardedWrites` the invariant is `Guarded`: every write on its way to the
device was admitted, outside check mode, and a command that is sent a second time
is a read. That `classify` picks the entry that governs a path
(`ClassifyGoverns`) rests on two facts about prefixes: a longest matching entry
exists, since no match is longer than the path (`LongestExists`), and of two
prefixes of one path the shorter is a prefix of the longer (`PrefixesAreOrdered`).

**The argument: `ReadActual` and `Survey`.** `RInv` says which parts of the object
have been read, which are certainly there, and what the commands not answered so
far account for. `SInv` of `SurveyProofs` ties the count of every type to the
objects met (`Counted`), what was sent to the budget (`Spent`), and every entry of
the report to an object it was read from (`Faithful`, `Entered`).

`Completeness` follows the walk level by level: `Level[k]` is what is at most k
listings away from the roots. The queue holds what is left of one level and then
what is known of the next, and an object that was listed has every child visited
or queued, unless it is as deep as the walk may go (`OnLevel`). `Walked` says that
there is such a level for as long as every reply is the right one; a queue that
ran empty leaves nothing of the last level out. `Reach` is a
recursive function over the depth. What it is at each depth is shown by a least
counterexample (`Least`, from the well-foundedness of `<` on the naturals), since
the library's induction theorems take an operator as a parameter.

**The argument: `Boot`.** `BInv` says that what a manager or a task holds comes
from the scripts there are, that live values are in the device's own form, and
that a task which was given a script has warned of exactly what the index of that
script contradicts. With it each of the four action properties is about a single
step. `ScriptIdentified` is about the page: what is found in it is what some
statement shows in `options` (`FetchedIsShown`), and a cut adds no such statement
and changes no value at one (`CutShowsNoMore`).

The last two need that the client and the loader read a script alike
(`ScriptAgrees`). For one line this is `Understood`: outside quotes a plain text
is added to what has been scanned (`PlainScan`), a protected value leads into
quotes and out of them again (`QuotedScan`), so a line is split at the commas its
author put there and nowhere else (`RestScan`, `SplitLine`), and each item is
divided at the `=` after its name (`PairIs`). For a script it is a matter of
which assignment is the last: of two parts that agree with two others, the second
counts unless it has nothing for the target (`EndsConcat`, `AgreeConcat`). Then
a boot does to a property what the index says (`ReplayIs`). What is live is in the
device's form already, and what a comparison has read of a property is in that
form too (`BInv`), so equal values stay, and different ones are reported or, if
the read showed nothing, are unverifiable. That is all for `NoSilentRevert`, where
task and boot speak of one value. A comparison speaks of values read at different
times: of a property that is not `Outdated`, what was read is what is live, or
nothing was shown.

All of it is by induction over sequences of tokens, items and lines. The library
states induction with an operator parameter; `Induction` and `SeqInduction` state
it for sets instead, from the well-foundedness of `<`, so `StartupScript`
has its recursions (`Without`, `Scanned`) as functions, and `FlattenSeq` is one in
the library.

**Only model-checked.** `Reconciled`, `Terminates` and `Settles`: liveness under
fairness is out of TLAPS's reach. Every other property of a passing run has its
theorem.

## 5. Disagreements between the code and what it says

Each is a `violation` run and a finding in `PROJECT.json`.

1. `repoint`: moving a `tcp_client` whose properties are already as wanted
   recreates it without them (`logs.py:620`) and fails the read-back.
2. `repoint_diff`: the diff of a replace shows unlisted subscriptions as
   staying; the run removes them (`logs.py:949`).
3. `label`: planner and verifier compare `CustomName` and `Severity`
   differently (`logs.py:681`, `logs.py:863`), so a label that differs in the
   case of true or false never verifies.
4. `verified_delete`: an ignored delete and an unanswered read-back end as
   verified, against README.md:93.
5. `read_no_max_depth`: without `$MAX_DEPTH` the documented fallback of
   `read_actual` is never reached (`logs.py:470`).
6. `session_late`: a deep read can return the late reply of the previous
   command (`sapv2.py:789`): it carries `$DONE`, so it ends the read before the
   read's own reply has come.

Further remarks, read off the code while modelling it, without a run of their own:

* `execute("set ...")` tells the guard no properties (`sapv2.py:678-679`), so
  the rule on live and action properties does not reach it, although
  `subtrees.py:290-293` names `execute()` among what hits the same rail. The
  rule on paths does. `OnlyConfigurationWritten` says so: its last conjunct is
  about `set` only.
* An `init` is judged by the path of its type, so an entry for one particular
  object does not govern that object's creation.
* `type_of` keeps the instances of an object's parents, so each writer's
  `LogSubscription` is a type of its own, is sampled again, and `children` is
  issued per instance: the cost grows with the device, not with its types.
* With more than one sample per type, a later sample replaces an earlier one, so
  a lost second `rfs` overwrites a good schema with an empty one.
* `compare_live` reads an object whose `get` is not answered as one without
  properties, and reports all its lines as unverifiable because "SapV2 does not
  report this property".
* `conflicts` and `boot_vs_live` compare the script's values as written with
  values in the device's form: `true` against `True` is reported as a difference.
  They compare paths exactly, while the device ignores case.
* A property that is written after `compare_live` has read its object and before
  it has read them all (`startup_script.py:258-259`) may be missing from
  `live_drift`, although the next boot changes it.
* What somebody else saves between a run's fetch and its save is overwritten
  without notice (`startup_script.py:283`): `SaveIsAskedFor` says what a save
  writes, not what it replaces.
* The verifier collapses runs of white space in a label (`normalise_expression`,
  `logs.py:279-287` and 863), the planner only strips both ends
  (`normalise_scalar`, `logs.py:290-305` and 681). On a device that stores runs of
  white space collapsed, a label that has one would be replaced on every run and
  verified every time.
* `modules/survey.py:48-51` says that the roots are "kept explicit rather than
  discovered"; `discover_roots` lists them.
* A command that is sent again without `$DONE` counts once in the survey's budget.
* After a save that reads back differently, the result's `script` is the
  document from before the save; after a save that failed, `changed` is true.
* `webadmin.py` asks for read-modify-write; a run with `lines` saves these alone
  and reads the current document only to tell whether they differ.

## 6. Plan

Done: everything in section 2 and the proofs of section 4.

Left, in this order:

1. **Validation**: `resolve_writers` and the validators in front of the tasks of
   `DevicePlan`, in place of the assumption `ValidEntry`; names that differ
   in case (`logs.py:1360`).
2. **Wire format**: modifiers, encapsulation and the rendering of values and init
   parameters, on token sequences like those of `StartupScript`.
3. **A second writer to the device** beside `DevicePlan`.

## 7. Not modelled, and why

* Layout of diffs and reports, `rotation_diff`, warnings: text, no behaviour.
* `users`, `access`, `devices`: they fail on every call.
* Real time: timeouts are choices, their lengths are not modelled.
* The SapV2 device beyond what the client relies on. Its part in `SapSession`
  and the effect of commands in `LogWriters` come from how the client uses it
  and from the measurements its comments record.
* The rest of the wire format, resolution and validation of tasks: functions on
  strings and dictionaries, called before any of the behaviour here starts
  (section 6, items 1 and 2).
* Of the client: the transcript, `close()` and reads of a single property.
* `allow_all` of the guard, which no module sets, and `boundary_report`.
* HTTP below a request that succeeds, fails or is cut off; authentication of the
  web page.
* Tests, documentation builds and Ansible's own machinery.
