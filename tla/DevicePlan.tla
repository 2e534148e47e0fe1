------------------------------ MODULE DevicePlan ------------------------------
(***************************************************************************)
(* One host's logs task, run again and again against one device: main() of *)
(* plugins/modules/logs.py with plan_device and DevicePlan.apply of        *)
(* plugins/module_utils/logs.py.                                           *)
(*                                                                         *)
(* A run plans from reads alone, stops if the plan is blocked, empty or a  *)
(* check-mode one, then configures every present writer and the rotation   *)
(* (phase "apply"), reads all of that back ("verify"), and only if nothing *)
(* failed ("gate") deletes the absent writers ("delete") and reads those   *)
(* back too ("verify_delete").  A step is one command to the device or one *)
(* whole read.  The device may silently ignore any write, leave a read     *)
(* unanswered until it reads as empty, and the session (or the controller) *)
(* may die between any two commands.                                       *)
(***************************************************************************)
EXTENDS LogWriters

CONSTANTS
    Tasks,        \* the tasks a playbook may hold
    InitObjects,  \* per writer, what the device may hold of it at the start
    InitRotation, \* what rotation may be at the start (None: not exposed)
    MaxIgnored,   \* bound: writes the device silently ignores
    MaxLost,      \* bound: commands left unanswered past read_timeout
    MaxDrops      \* bound: sessions that die during a run

\* `rotation' stands for the five rotation settings; None: not requested.
TaskSet == [entries   : [Writers -> Entries \cup {None}],
            unmanaged : {"ignore", "report", "purge"},
            on_immutable_change : {"fail", "replace"},
            rotation  : Values \cup {None}]

ASSUME TaskAssumption ==
    /\ Tasks \subseteq TaskSet
    /\ \A t \in Tasks : \A w \in Writers :
          t.entries[w] # None => ValidEntry(w, t.entries[w])
    /\ InitObjects \in [Writers -> SUBSET (Objects \cup {None})]
    /\ InitRotation \subseteq Values \cup {None}
    /\ MaxIgnored \in Nat /\ MaxLost \in Nat /\ MaxDrops \in Nat

VARIABLES
    task,          \* the task, the same for every run
    device,        \* the writers the device really holds
    rotation,      \* the rotation setting the device really holds
    phase,         \* where the run is
    check_mode,
    todo,          \* writers the current phase has still to handle
    plans,         \* WriterPlan per planned writer: its entry, read and actions
    rotation_plan, \* rotation_actions: "none", "set" or "blocked"
    current,       \* writer apply_plan is working on, None between writers
    pending,       \* its actions not yet sent
    half,          \* the delete of a replace is sent, its init is not
    failures,      \* phase 2 found something wrong
    verified,      \* writers read back successfully in this run
    outcome,       \* how the last run ended
    ignored, lost, drops   \* how much of the three bounds is used up

runVars == <<check_mode, todo, plans, rotation_plan, current, pending, half,
             failures, verified>>
deviceVars == <<device, rotation>>
faults == <<ignored, lost, drops>>
vars == <<task, deviceVars, phase, runVars, outcome, faults>>

Phases == {"idle", "plan", "purge", "decide", "apply", "verify", "gate",
           "delete", "verify_delete"}
Outcomes == {"none", "running", "session_failed", "blocked", "check",
             "unchanged", "verify_failed", "delete_failed", "verified"}

WriterPlans == [desired : Entries, actual : Reads, actions : SUBSET Actions]

ASSUME NoPlanAssumption == None \notin WriterPlans

(***************************************************************************)
(* What the task names.                                                    *)
(***************************************************************************)
Named == {w \in Writers : task.entries[w] # None}
Present == {w \in Named : task.entries[w].state = "present"}
managed_types == {TypeOf[w] : w \in Named}
\* Mutation of in_purge_scope: a purge is not limited to the types named.
AnyTypeInScope(w) == TRUE

in_purge_scope(w) == TypeOf[w] \in managed_types

\* Writers plan_device would purge if the device holds them.
Purgeable ==
    IF task.unmanaged = "purge"
    THEN {w \in Writers \ Named : in_purge_scope(w) /\ replaceable(w)}
    ELSE {}

(***************************************************************************)
(* What a run has planned.                                                 *)
(***************************************************************************)
NoPlans == [w \in Writers |-> None]
Planned == {w \in Writers : plans[w] # None}
creating == {w \in Planned : plans[w].desired.state = "present"}
deleting == {w \in Planned : plans[w].desired.state = "absent"}
changed(w) == plans[w].actions # {}

blocked ==
    \/ rotation_plan = "blocked"
    \/ \E w \in Planned : \E a \in plans[w].actions : a.kind \in BlockedKinds
plan_changed == rotation_plan # "none" \/ \E w \in Planned : changed(w)

\* Mutation of render_state: unlisted subscriptions are shown as gone.
RendersListedOnly(p) == {t \in Typeids : p.desired.subs[t] # None}

\* Subscriptions that the diff of a present writer shows after the run: those
\* asked for and, without purge, those the planning read found.
render_state(p) ==
    {t \in Typeids : \/ p.desired.subs[t] # None
                     \/ ~p.desired.purge /\ p.actual.obj.subs[t] # None}

(***************************************************************************)
(* Initial states.                                                         *)
(***************************************************************************)
IdleRun ==
    /\ check_mode = FALSE
    /\ todo = {}
    /\ plans = NoPlans
    /\ rotation_plan = "none"
    /\ current = None
    /\ pending = {}
    /\ half = FALSE
    /\ failures = FALSE
    /\ verified = {}

Init ==
    /\ task \in Tasks
    /\ device \in {d \in [Writers -> UNION {InitObjects[w] : w \in Writers}] :
                     \A w \in Writers : d[w] \in InitObjects[w]}
    /\ rotation \in InitRotation
    /\ phase = "idle"
    /\ IdleRun
    /\ outcome = "none"
    /\ ignored = 0 /\ lost = 0 /\ drops = 0

(***************************************************************************)
(* Common parts of the actions.                                            *)
(***************************************************************************)

\* n commands of the step go unanswered.
Lose(n) ==
    /\ lost + n <= MaxLost
    /\ lost' = lost + n

\* One write to the object of `current': taken, or silently ignored.
Write(new) ==
    /\ UNCHANGED rotation
    /\ \/ /\ device' = [device EXCEPT ![current] = new]
          /\ UNCHANGED ignored
       \/ /\ new # device[current]
          /\ ignored < MaxIgnored
          /\ ignored' = ignored + 1
          /\ UNCHANGED device

\* exit_json or fail_json: the process ends and its local state with it.
EndRun(how) ==
    /\ outcome' = how
    /\ phase' = "idle"
    /\ check_mode' = FALSE
    /\ todo' = {}
    /\ plans' = NoPlans
    /\ rotation_plan' = "none"
    /\ current' = None
    /\ pending' = {}
    /\ half' = FALSE
    /\ failures' = FALSE
    /\ verified' = {}
    /\ UNCHANGED <<task, deviceVars>>

(***************************************************************************)
(* plan_device: reads only.                                                *)
(***************************************************************************)
StartRun(mode) ==
    /\ phase = "idle"
    /\ phase' = "plan"
    /\ check_mode' = mode
    /\ todo' = Named
    /\ outcome' = "running"
    /\ UNCHANGED <<task, deviceVars, plans, rotation_plan, current, pending,
                   half, failures, verified, faults>>

PlanWriter(w) ==
    /\ phase = "plan"
    /\ w \in todo
    /\ \E x \in read_actual(device[w]) :
          /\ Lose(x.lost)
          /\ plans' = [plans EXCEPT ![w] =
                [desired |-> task.entries[w],
                 actual |-> x.read,
                 actions |-> _plan_writer(w, task.entries[w], x.read,
                                          task.on_immutable_change)]]
    /\ todo' = todo \ {w}
    /\ UNCHANGED <<task, deviceVars, phase, check_mode, rotation_plan, current,
                   pending, half, failures, verified, outcome, ignored, drops>>

\* list_writers, unless unmanaged is "ignore" or no writer is named: one deep
\* read of Logs#0, which finds nothing if it goes unanswered.
FindUnmanaged ==
    /\ phase = "plan"
    /\ todo = {}
    /\ phase' = "purge"
    /\ \/ /\ todo' = {w \in Purgeable : device[w] # None}
          /\ UNCHANGED lost
       \/ /\ task.unmanaged # "ignore" /\ Named # {}
          /\ todo' = {}
          /\ Lose(1)
    /\ UNCHANGED <<task, deviceVars, check_mode, plans, rotation_plan, current,
                   pending, half, failures, verified, outcome, ignored, drops>>

PlanPurged(w) ==
    /\ phase = "purge"
    /\ w \in todo
    /\ \E x \in read_actual(device[w]) :
          /\ Lose(x.lost)
          /\ plans' = [plans EXCEPT ![w] =
                [desired |-> PurgeEntry,
                 actual |-> x.read,
                 actions |-> _plan_writer(w, PurgeEntry, x.read, "fail")]]
    /\ todo' = todo \ {w}
    /\ UNCHANGED <<task, deviceVars, phase, check_mode, rotation_plan, current,
                   pending, half, failures, verified, outcome, ignored, drops>>

\* A setting that does not show in the read is one the device lacks.
plan_rotation(want, have) ==
    IF want = None \/ have = want THEN "none"
    ELSE IF have = None THEN "blocked" ELSE "set"

ReadRotation(shown) ==
    /\ shown \in {rotation, None}
    /\ Lose(IF shown = rotation THEN 0 ELSE 1)

PlanRotation ==
    /\ phase = "purge"
    /\ todo = {}
    /\ \E shown \in {rotation, None} :
          /\ ReadRotation(shown)
          /\ rotation_plan' = plan_rotation(task.rotation, shown)
    /\ phase' = "decide"
    /\ UNCHANGED <<task, deviceVars, check_mode, todo, plans, current, pending,
                   half, failures, verified, outcome, ignored, drops>>

(***************************************************************************)
(* main() between plan and apply.                                          *)
(***************************************************************************)
FailBlocked ==
    /\ phase = "decide"
    /\ blocked
    /\ EndRun("blocked")
    /\ UNCHANGED faults

ExitUnwritten ==
    /\ phase = "decide"
    /\ ~blocked
    /\ check_mode \/ ~plan_changed
    /\ EndRun(IF plan_changed THEN "check" ELSE "unchanged")
    /\ UNCHANGED faults

\* Mutations of BeginApply: one that forgets check mode, one that applies the
\* whole list in one phase.
AppliesInCheckMode ==
    /\ phase = "decide"
    /\ ~blocked
    /\ plan_changed
    /\ phase' = "apply"
    /\ todo' = {w \in creating : changed(w)}
    /\ UNCHANGED <<task, deviceVars, check_mode, plans, rotation_plan, current,
                   pending, half, failures, verified, outcome, faults>>
AppliesInOnePhase ==
    /\ phase = "decide"
    /\ ~blocked
    /\ ~check_mode
    /\ plan_changed
    /\ phase' = "apply"
    /\ todo' = {w \in Planned : changed(w)}
    /\ UNCHANGED <<task, deviceVars, check_mode, plans, rotation_plan, current,
                   pending, half, failures, verified, outcome, faults>>

BeginApply ==
    /\ phase = "decide"
    /\ ~blocked
    /\ ~check_mode
    /\ plan_changed
    /\ phase' = "apply"
    /\ todo' = {w \in creating : changed(w)}
    /\ UNCHANGED <<task, deviceVars, check_mode, plans, rotation_plan, current,
                   pending, half, failures, verified, outcome, faults>>

(***************************************************************************)
(* DevicePlan.apply.  Phases 1 and 3 run apply_plan for one writer after   *)
(* another, in the order of the task's list, which may be any.             *)
(***************************************************************************)
TakeWriter(w) ==
    /\ phase \in {"apply", "delete"}
    /\ current = None
    /\ w \in todo
    /\ current' = w
    /\ pending' = plans[w].actions
    /\ todo' = todo \ {w}
    /\ UNCHANGED <<task, deviceVars, phase, check_mode, plans, rotation_plan,
                   half, failures, verified, outcome, faults>>

\* client.delete, the first command of a replace.
SendDelete(a) ==
    /\ current # None
    /\ a \in First(pending)
    /\ a.kind \in ReplaceKinds
    /\ ~half
    /\ Write(Deleted(device[current], a))
    /\ half' = TRUE
    /\ UNCHANGED <<task, phase, check_mode, todo, plans, rotation_plan, current,
                   pending, failures, verified, outcome, lost, drops>>

\* The command that completes an action.
SendLast(a) ==
    /\ current # None
    /\ a \in First(pending)
    /\ a.kind \in ReplaceKinds => half
    /\ Write(Applied(current, plans[current].desired, device[current], a))
    /\ half' = FALSE
    /\ pending' = pending \ {a}
    /\ current' = IF pending = {a} THEN None ELSE current
    /\ UNCHANGED <<task, phase, check_mode, todo, plans, rotation_plan,
                   failures, verified, outcome, lost, drops>>

\* apply_rotation, after the last present writer.
ApplyRotation ==
    /\ phase = "apply"
    /\ current = None
    /\ todo = {}
    /\ \/ /\ rotation' = IF rotation_plan = "set" THEN task.rotation ELSE rotation
          /\ UNCHANGED ignored
       \/ /\ rotation_plan = "set"
          /\ ignored < MaxIgnored
          /\ ignored' = ignored + 1
          /\ UNCHANGED rotation
    /\ phase' = "verify"
    /\ todo' = {w \in creating : changed(w)}
    /\ UNCHANGED <<task, device, check_mode, plans, rotation_plan, current,
                   pending, half, failures, verified, outcome, lost, drops>>

VerifyWriter(w) ==
    /\ phase = "verify"
    /\ w \in todo
    /\ \E x \in read_actual(device[w]) :
          /\ Lose(x.lost)
          /\ IF verify(w, plans[w].desired, x.read)
             THEN /\ verified' = verified \cup {w}
                  /\ UNCHANGED failures
             ELSE /\ failures' = TRUE
                  /\ UNCHANGED verified
    /\ todo' = todo \ {w}
    /\ UNCHANGED <<task, deviceVars, phase, check_mode, plans, rotation_plan,
                   current, pending, half, outcome, ignored, drops>>

VerifyRotation ==
    /\ phase = "verify"
    /\ todo = {}
    /\ IF rotation_plan = "set"
       THEN \E shown \in {rotation, None} :
               /\ ReadRotation(shown)
               /\ failures' = (failures \/ shown # task.rotation)
       ELSE UNCHANGED <<failures, lost>>
    /\ phase' = "gate"
    /\ UNCHANGED <<task, deviceVars, check_mode, todo, plans, rotation_plan,
                   current, pending, half, verified, outcome, ignored, drops>>

HoldDeletes ==
    /\ phase = "gate"
    /\ failures
    /\ EndRun("verify_failed")
    /\ UNCHANGED faults

\* Mutation of BeginDeletes: failures are reported at the end instead.
DeletesRegardless ==
    /\ phase = "gate"
    /\ phase' = "delete"
    /\ todo' = {w \in deleting : changed(w)}
    /\ UNCHANGED <<task, deviceVars, check_mode, plans, rotation_plan, current,
                   pending, half, failures, verified, outcome, faults>>

BeginDeletes ==
    /\ phase = "gate"
    /\ ~failures
    /\ phase' = "delete"
    /\ todo' = {w \in deleting : changed(w)}
    /\ UNCHANGED <<task, deviceVars, check_mode, plans, rotation_plan, current,
                   pending, half, failures, verified, outcome, faults>>

DeletesSent ==
    /\ phase = "delete"
    /\ current = None
    /\ todo = {}
    /\ phase' = "verify_delete"
    /\ todo' = {w \in deleting : changed(w)}
    /\ UNCHANGED <<task, deviceVars, check_mode, plans, rotation_plan, current,
                   pending, half, failures, verified, outcome, faults>>

\* A delete that did not take raises: the run ends there.
VerifyDeleted(w) ==
    /\ phase = "verify_delete"
    /\ w \in todo
    /\ \E x \in read_actual(device[w]) :
          /\ Lose(x.lost)
          /\ IF verify(w, plans[w].desired, x.read)
             THEN /\ verified' = verified \cup {w}
                  /\ todo' = todo \ {w}
                  /\ UNCHANGED <<task, deviceVars, phase, check_mode, plans,
                                 rotation_plan, current, pending, half,
                                 failures, outcome>>
             ELSE EndRun("delete_failed")
    /\ UNCHANGED <<ignored, drops>>

Finish ==
    /\ phase = "verify_delete"
    /\ todo = {}
    /\ EndRun("verified")
    /\ UNCHANGED faults

\* A SapV2ConnectionError, or the controller killed: nothing is undone.
SessionDies ==
    /\ phase # "idle"
    /\ drops < MaxDrops
    /\ drops' = drops + 1
    /\ EndRun("session_failed")
    /\ UNCHANGED <<ignored, lost>>

(***************************************************************************)
(* The specification.                                                      *)
(***************************************************************************)
Command == \E a \in pending : SendDelete(a) \/ SendLast(a)

\* What the running task does next of its own accord.
Proceed ==
    \/ \E w \in Writers :
          PlanWriter(w) \/ PlanPurged(w) \/ TakeWriter(w)
             \/ VerifyWriter(w) \/ VerifyDeleted(w)
    \/ FindUnmanaged \/ PlanRotation
    \/ FailBlocked \/ ExitUnwritten \/ BeginApply
    \/ Command
    \/ ApplyRotation \/ VerifyRotation \/ HoldDeletes \/ BeginDeletes
    \/ DeletesSent \/ Finish

Next ==
    \/ \E mode \in BOOLEAN : StartRun(mode)
    \/ Proceed
    \/ SessionDies

Spec == Init /\ [][Next]_vars

\* A run that has started goes on by itself, and an enforcing run is scheduled
\* again and again.  Nothing is assumed of the faults.
Fairness ==
    /\ WF_vars(Proceed)
    /\ SF_vars(StartRun(FALSE))

FairSpec == Spec /\ Fairness

(***************************************************************************)
(* Properties.                                                             *)
(***************************************************************************)

\* Every variable stays in its set; plans hold only actions of the planner.
TypeOK ==
    /\ task \in Tasks
    /\ device \in [Writers -> Objects \cup {None}]
    /\ rotation \in Values \cup {None}
    /\ phase \in Phases
    /\ check_mode \in BOOLEAN
    /\ todo \subseteq Writers
    /\ plans \in [Writers -> WriterPlans \cup {None}]
    /\ rotation_plan \in {"none", "set", "blocked"}
    /\ current \in Writers \cup {None}
    /\ pending \subseteq Actions
    /\ half \in BOOLEAN
    /\ failures \in BOOLEAN
    /\ verified \subseteq Writers
    /\ outcome \in Outcomes
    /\ ignored \in 0..MaxIgnored
    /\ lost \in 0..MaxLost
    /\ drops \in 0..MaxDrops

\* The truth about a writer, as a read that loses nothing shows it.
TrueRead(w) ==
    IF device[w] = None THEN AbsentRead
    ELSE [exists |-> TRUE, obj |-> device[w]]

\* What the task states of a present writer is in place on the device.
InPlace(w) == Holds(w, task.entries[w], device[w])

RotationInPlace == task.rotation # None => rotation = task.rotation

Ready == RotationInPlace /\ \A w \in Present : InPlace(w)

Retiring == (Named \ Present) \cup Purgeable
standing == {w \in Retiring : device[w] # None}

\* An object is all its entry says, in words of neither planner nor verifier.
AsAsked(e, o) ==
    IF e.state = "absent" THEN o = None
    ELSE /\ o # None
         /\ e.endpoint \in {None, o.endpoint}
         /\ e.property \in {None, o.property}
         /\ e.setting \in {None, o.setting}
         /\ \A t \in Typeids :
               IF e.subs[t] = None THEN e.purge => o.subs[t] = None
               ELSE /\ o.subs[t] # None
                    /\ o.subs[t].expr = e.subs[t].expr
                    /\ e.subs[t].label \in {None, o.subs[t].label}

\* Writers the task leaves out of types it names, when it says to purge them.
Unwanted ==
    {w \in Writers \ Named :
       /\ task.unmanaged = "purge"
       /\ replaceable(w)
       /\ \E v \in Named : TypeOf[v] = TypeOf[w]}

\* The device is all the task asks for.
TaskMet ==
    /\ RotationInPlace
    /\ \A w \in Named : AsAsked(task.entries[w], device[w])
    /\ \A w \in Unwanted : device[w] = None

\* A run that has reached its deletes has every present writer and the
\* rotation in place on the device itself, whatever writes were ignored,
\* whatever reads went unanswered and however earlier runs ended
\* (modules/logs.py: "never deleted on a run where its replacement failed to
\* come up").
CutoverSafe == phase \in {"delete", "verify_delete"} => Ready

(***************************************************************************)
(* Why CutoverSafe holds: an inductive invariant, in the order of a run.   *)
(***************************************************************************)
AfterPlanning == {"decide", "apply", "verify", "gate", "delete", "verify_delete"}

\* A plan belongs to the entry of its writer, a retiring writer's plan is its
\* deletion and nothing else, and a subscription is written only if listed.
PlansFit ==
    \A w \in Planned :
       /\ plans[w].desired = IF w \in Named THEN task.entries[w] ELSE PurgeEntry
       /\ w \notin Named => w \in Purgeable
       /\ w \notin Present => plans[w].actions \subseteq {Act("writer_delete")}
       /\ \A a \in plans[w].actions :
             a.kind \in {"subscription_create", "subscription_replace",
                         "subscription_update"}
                => a.typeid \in Wanted(plans[w].desired)

\* Every named writer is planned once planning is over.
AllPlanned ==
    /\ phase = "plan" => todo \subseteq Named /\ Named \ todo \subseteq Planned
    /\ phase = "purge" => todo \subseteq Purgeable
    /\ phase \in AfterPlanning \cup {"purge"} => Named \subseteq Planned

\* Only changed writers are written to, present ones in phase 1 and retiring
\* ones in phase 3, and only with what their plan holds.
WritesFit ==
    /\ current # None =>
          /\ phase \in {"apply", "delete"}
          /\ current \in Planned
          /\ pending \subseteq plans[current].actions
          /\ phase = "apply" <=> current \in Present
    /\ phase \in {"apply", "verify"} => todo \subseteq Present \cap Planned
    /\ phase \in {"delete", "verify_delete"} => todo \subseteq Planned \ Present

\* What needed no change when it was read, and what has been read back since,
\* is in place.
ConvergedInPlace ==
    /\ \A w \in Planned \cap Present : ~changed(w) => InPlace(w)
    /\ phase \in AfterPlanning /\ rotation_plan = "none" => RotationInPlace
    /\ phase \in AfterPlanning \ {"decide"} => rotation_plan # "blocked"
VerifiedInPlace ==
    /\ phase \in {"idle", "plan", "purge", "decide", "apply"} =>
          verified = {} /\ ~failures
    /\ \A w \in verified \cap Present : InPlace(w)
    /\ phase = "verify" /\ ~failures =>
          \A w \in Present : changed(w) => w \in todo \cup verified
    /\ phase = "gate" /\ ~failures =>
          /\ \A w \in Present : changed(w) => w \in verified
          /\ RotationInPlace

IInv == /\ TypeOK /\ PlansFit /\ AllPlanned /\ WritesFit
        /\ ConvergedInPlace /\ VerifiedInPlace /\ CutoverSafe

\* A run that ends as verified, or as having nothing to change, leaves or
\* finds a device that is all the task asks for (README.md: "changed=true
\* always means verified").  It is true of runs whose reads are answered.
SuccessIsReal == outcome \in {"verified", "unchanged"} => TaskMet

\* The same of the verified runs alone, with no condition on the reads.
VerifiedIsReal == outcome = "verified" => TaskMet

\* The drift report: the plan is empty exactly when the device is all the task
\* asks for.
DriftIsReal == phase = "decide" => (plan_changed <=> ~TaskMet)

\* A device that takes every write and answers every read never fails the
\* read-back: the plan brings it from wherever it is to what the task asks
\* for (the docstring of plan: "to bring `actual` to `desired`").
HonestRunSucceeds ==
    ignored = 0 /\ lost = 0 => outcome \notin {"verify_failed", "delete_failed"}

\* When a run ends verified, the device holds the very subscriptions the diff
\* of its plan announced (render_state: "Omitting them would show a deletion
\* the module is not going to perform").
DiffComesTrue ==
    [][outcome' = "verified" /\ phase # "idle" =>
          \A w \in creating : changed(w) =>
             render_state(plans[w]) = {t \in Typeids : device[w].subs[t] # None}]_vars

\* A writer disappears only because the task says absent, or purges its type
\* and does not name it, or allows a replace of a writer it wants elsewhere
\* and that can be recreated; never in check mode.
IntendedDelete(w) ==
    \/ w \in (Named \ Present) \cup Unwanted
    \/ /\ w \in Present
       /\ task.on_immutable_change = "replace"
       /\ replaceable(w)
       /\ device[w].endpoint # task.entries[w].endpoint

OnlyIntendedDeletes ==
    [][\A w \in Writers :
          device[w] # None /\ device'[w] = None
             => IntendedDelete(w) /\ ~check_mode]_vars

\* Whatever the task does not list survives as long as its writer does: the
\* subscriptions it does not name (unless it purges them), and the property
\* and setting it does not state.
UnlistedKept ==
    [][\A w \in Writers :
          device[w] # None /\ device'[w] # None =>
             LET e == task.entries[w]
                 mine == w \in Present
             IN  /\ ~(mine /\ e.property # None) =>
                       device'[w].property = device[w].property
                 /\ ~(mine /\ e.setting # None) =>
                       device'[w].setting = device[w].setting
                 /\ \A t \in Typeids :
                       ~(mine /\ (e.purge \/ e.subs[t] # None)) =>
                          device'[w].subs[t] = device[w].subs[t]]_vars

\* A run whose plan is blocked in one place writes nothing anywhere, and nor
\* does one in check mode.
HeldRunWritesNothing ==
    [][check_mode \/ blocked => UNCHANGED deviceVars]_vars

\* The cut-over as its user sees it.
Abstract == INSTANCE Cutover WITH ready <- Ready
CutoverSpec == Abstract!Spec

\* The task asks for what no run may do: moving a writer it must not replace,
\* creating one of a type that cannot be created, or a rotation setting the
\* device does not have.
NeedsOperator ==
    \/ task.rotation # None /\ rotation = None
    \/ \E w \in Present :
          \/ device[w] = None /\ ~replaceable(w)
          \/ /\ device[w] # None
             /\ Repointed(w, task.entries[w], TrueRead(w))
             /\ ~(task.on_immutable_change = "replace" /\ replaceable(w))

\* Once the faults are used up, repeated runs bring every device to what the
\* task asks for and keep it there, from wherever sessions died.
Reconciled == <>[](TaskMet \/ NeedsOperator)

===============================================================================
