---------------------------- MODULE OutcomesProofs ----------------------------
(***************************************************************************)
(* What a run reports is the truth: on a device that answers every read,   *)
(* the drift report names a drift exactly when there is one, a run that    *)
(* ends verified, or with nothing to change, ends on a device that is all  *)
(* the task asks for, and the diff of a run comes true.  A device that     *)
(* takes every write as well never fails a read-back.                      *)
(*                                                                         *)
(* What is said of verdicts needs labels that the planner can tell apart,  *)
(* since it compares their scalar forms; what is said of absences needs    *)
(* answered reads, since an unanswered one reads as an absence, which is   *)
(* what the deletes and the purge look for; and a replace drops whatever   *)
(* its entry does not state, which each of the last two has to exclude.    *)
(***************************************************************************)
EXTENDS DevicePlanProofs

(***************************************************************************)
(* Plans and verdicts from a read that shows the object as it is.          *)
(***************************************************************************)
\* The planner and AsAsked, written independently of each other, agree: an
\* empty plan is one for an object that is all its entry asks for.
LEMMA EmptyPlanIsAsAsked ==
    ASSUME LabelsDistinct, NEW w \in Writers, NEW e \in Entries,
           NEW o \in MaybeObject, NEW imm, ValidEntry(w, e)
    PROVE  _plan_writer(w, e, Shown(o), imm) = {} <=> AsAsked(e, o)
<1> DEFINE r == Shown(o)
<1> USE NoneAssumption
<1>1. e.state \in {"present", "absent"}
  BY DEF Entries
<1>2. r.exists = (o # None) /\ (o # None => r.obj = o)
  BY DEF Shown, AbsentRead
<1>3. CASE e.state = "absent"
  BY <1>2, <1>3 DEF _plan_writer, AsAsked
<1>4. CASE e.state = "present" /\ o = None
  <2>1. _plan_writer(w, e, r, imm) # {}
    BY <1>2, <1>4 DEF _plan_writer
  <2> QED
    BY <1>4, <2>1 DEF AsAsked
<1>5. CASE e.state = "present" /\ o # None
  <2>1. o \in Objects
    BY <1>5 DEF MaybeObject
  <2>2. ~Repointed(w, e, r) <=> e.endpoint \in {None, o.endpoint}
    BY <1>2, <1>5 DEF Repointed, ValidEntry
  <2>3. _plan_writer(w, e, r, imm) = {} <=>
           /\ ~Repointed(w, e, r)
           /\ _plan_writer_properties(e, r) = {}
           /\ _plan_subscriptions(e, r, FALSE) = {}
           /\ _plan_settings(e, r, FALSE) = {}
    BY <1>2, <1>5 DEF _plan_writer
  <2>4. _plan_writer_properties(e, r) = {} <=> e.property \in {None, o.property}
    BY <1>2, <1>5 DEF _plan_writer_properties
  <2>5. _plan_settings(e, r, FALSE) = {} <=> e.setting \in {None, o.setting}
    BY <1>2, <1>5 DEF _plan_settings
  <2>6. \A t \in Typeids : o.subs[t] # None => o.subs[t] \in Subscriptions
    BY <2>1 DEF Objects
  <2>7. _plan_subscriptions(e, r, FALSE) = {} <=>
           \A t \in Typeids :
              IF e.subs[t] = None THEN e.purge => o.subs[t] = None
              ELSE /\ o.subs[t] # None
                   /\ o.subs[t].expr = e.subs[t].expr
                   /\ ~Frozen(e, o.subs[t], t)
    <3> DEFINE existing == {t \in Wanted(e) : o.subs[t] # None}
               frozen == {t \in existing : Frozen(e, o.subs[t], t)}
               moved == {t \in existing \ frozen :
                           o.subs[t].expr # e.subs[t].expr}
               extra == {t \in Typeids \ Wanted(e) : o.subs[t] # None}
    <3>1. r.obj = o
      BY <1>2, <1>5
    <3>2. _plan_subscriptions(e, r, FALSE) = {} <=>
             /\ Wanted(e) \ existing = {} /\ frozen = {} /\ moved = {}
             /\ e.purge => extra = {}
      BY <3>1 DEF _plan_subscriptions
    <3>3. Wanted(e) \ existing = {} <=>
             \A t \in Typeids : e.subs[t] # None => o.subs[t] # None
      BY DEF Wanted
    <3>4. Wanted(e) \ existing = {} /\ frozen = {} /\ moved = {} <=>
             \A t \in Typeids : e.subs[t] # None =>
                /\ o.subs[t] # None
                /\ o.subs[t].expr = e.subs[t].expr
                /\ ~Frozen(e, o.subs[t], t)
      BY <3>3 DEF Wanted
    <3>5. extra = {} <=>
             \A t \in Typeids : e.subs[t] = None => o.subs[t] = None
      BY DEF Wanted
    <3> HIDE DEF existing, frozen, moved, extra
    <3> QED
      BY <3>2, <3>4, <3>5
  <2>8. \A t \in Typeids : e.subs[t] # None /\ o.subs[t] # None =>
           (~Frozen(e, o.subs[t], t)
               <=> e.subs[t].label \in {None, o.subs[t].label})
    BY <2>6, FrozenDiffers DEF Wanted
  <2>9. _plan_subscriptions(e, r, FALSE) = {} <=>
           \A t \in Typeids :
              IF e.subs[t] = None THEN e.purge => o.subs[t] = None
              ELSE /\ o.subs[t] # None
                   /\ o.subs[t].expr = e.subs[t].expr
                   /\ e.subs[t].label \in {None, o.subs[t].label}
    BY <2>7, <2>8
  <2> QED
    BY <1>5, <2>2, <2>3, <2>4, <2>5, <2>9 DEF AsAsked
<1> QED
  BY <1>1, <1>3, <1>4, <1>5

\* What is verified is as asked, whatever its labels.
LEMMA VerifiedIsAsAsked ==
    ASSUME NEW w \in Writers, NEW e \in Entries, NEW o \in MaybeObject,
           ValidEntry(w, e), verify(w, e, Shown(o))
    PROVE  AsAsked(e, o)
<1> USE NoneAssumption
<1>1. e.state \in {"present", "absent"}
  BY DEF Entries
<1>2. Shown(o).exists = (o # None) /\ (o # None => Shown(o).obj = o)
  BY DEF Shown, AbsentRead
<1>3. CASE e.state = "absent"
  BY <1>2, <1>3 DEF verify, AsAsked
<1>4. CASE e.state = "present"
  <2>1. /\ o # None
        /\ Configured(w, e, o)
        /\ e.purge => \A t \in Typeids \ Wanted(e) : o.subs[t] = None
    BY <1>2, <1>4 DEF verify
  <2>2. /\ e.endpoint \in {None, o.endpoint}
        /\ e.property \in {None, o.property}
        /\ e.setting \in {None, o.setting}
    BY <1>4, <2>1 DEF Configured, ValidEntry
  <2>3. \A t \in Wanted(e) :
           /\ o.subs[t] # None
           /\ o.subs[t].expr = e.subs[t].expr
           /\ e.subs[t].label \in {None, o.subs[t].label}
    BY <2>1 DEF Configured, VerifySub
  <2>4. \A t \in Typeids : e.subs[t] = None => (e.purge => o.subs[t] = None)
    BY <2>1 DEF Wanted
  <2> QED
    BY <1>4, <2>1, <2>2, <2>3, <2>4 DEF AsAsked, Wanted
<1> QED
  BY <1>1, <1>3, <1>4

(***************************************************************************)
(* The invariant.  While every read has been answered, an empty plan and a *)
(* verified writer mean an object that is as asked, and the writers a      *)
(* purge would take are planned or not there.                              *)
(***************************************************************************)
Met(w) == AsAsked(plans[w].desired, device[w])

BeforeWrites == {"idle", "plan", "purge", "decide"}

PlanTrue ==
    /\ \A w \in Planned : ~changed(w) => Met(w)
    /\ phase \in BeforeWrites => \A w \in Planned : Met(w) => ~changed(w)
    /\ phase = "purge" => \A w \in Purgeable \ Planned : device[w] # None => w \in todo
    /\ phase \in AfterPlanning => \A w \in Purgeable \ Planned : device[w] = None
    /\ phase = "decide" => (rotation_plan = "none" <=> RotationInPlace)

ReadBackTrue ==
    /\ verified \subseteq Planned
    /\ \A w \in verified : Met(w)
    /\ phase \in {"verify", "gate", "delete"} => verified \subseteq Present
    /\ phase \in {"delete", "verify_delete"} =>
          \A w \in Present : changed(w) => w \in verified
    /\ phase = "verify_delete" =>
          \A w \in deleting : changed(w) => w \in todo \cup verified

OutcomeTrue == (phase # "idle" => outcome = "running") /\ SuccessIsReal

RealInv == lost = 0 => PlanTrue /\ ReadBackTrue /\ OutcomeTrue

\* The task's own words for the writers a purge takes are the code's.
LEMMA UnwantedIsPurgeable == Unwanted = Purgeable
  BY DEF Unwanted, Purgeable, in_purge_scope, managed_types

\* A step whose reads were all answered follows on runs whose reads were.
LEMMA LostBefore ==
    ASSUME TypeOK, NEW n \in Nat, Lose(n), lost' = 0
    PROVE  lost = 0 /\ n = 0
<1>1. lost \in Nat /\ MaxLost \in Nat
  BY TaskAssumption DEF TypeOK
<1> QED
  BY <1>1 DEF Lose

\* Before the first run nothing is planned and no run has ended.
LEMMA InitReal == Init => RealInv
<1> SUFFICES ASSUME Init PROVE RealInv
  OBVIOUS
<1>1. Planned = {}
  BY DEF Init, IdleRun, Planned, NoPlans
<1> QED
  BY <1>1
  DEF Init, IdleRun, RealInv, PlanTrue, ReadBackTrue, OutcomeTrue,
      SuccessIsReal, AfterPlanning

\* The task and the device decide what the task wants of the device.
LEMMA TaskMetKept ==
    ASSUME UNCHANGED <<task, deviceVars>>
    PROVE  /\ TaskMet' <=> TaskMet
           /\ RotationInPlace' <=> RotationInPlace
<1>1. Named' = Named /\ Unwanted' = Unwanted
  BY DEF Named, Unwanted
<1>2. RotationInPlace' <=> RotationInPlace
  BY DEF RotationInPlace, deviceVars
<1> QED
  BY <1>1, <1>2 DEF TaskMet, deviceVars

\* A step that leaves the device and the plans alone leaves what is said of
\* them.
LEMMA MetKept ==
    ASSUME TInv, UNCHANGED <<task, deviceVars, plans>>
    PROVE  /\ Named' = Named /\ Present' = Present /\ Purgeable' = Purgeable
           /\ Planned' = Planned /\ deleting' = deleting
           /\ \A w \in Writers : Met(w)' <=> Met(w)
           /\ \A w \in Writers : changed(w)' <=> changed(w)
           /\ RotationInPlace' <=> RotationInPlace
           /\ TaskMet' <=> TaskMet
           /\ Planned \subseteq Writers /\ Present \subseteq Writers
           /\ deleting \subseteq Writers
<1>1. /\ Named' = Named /\ Present' = Present /\ Purgeable' = Purgeable
      /\ Planned' = Planned
  BY PlansKept
<1>2. deleting' = deleting
  BY <1>1 DEF deleting
<1>3. \A w \in Writers : (Met(w)' <=> Met(w)) /\ (changed(w)' <=> changed(w))
  BY DEF Met, changed, deviceVars
<1>4. /\ Planned \subseteq Writers /\ Present \subseteq Writers
      /\ deleting \subseteq Writers
  BY DEF Planned, Present, Named, deleting
<1> QED
  BY <1>1, <1>2, <1>3, <1>4, TaskMetKept

\* A run that ends for any reason but success claims nothing.
LEMMA EndRunReal ==
    ASSUME NEW how, EndRun(how), lost' = lost,
           how \in {"verified", "unchanged"} /\ lost = 0 => TaskMet
    PROVE  RealInv'
<1>1. Planned' = {}
  BY DEF EndRun, Planned, NoPlans
<1>2. TaskMet' <=> TaskMet
  BY TaskMetKept DEF EndRun
<1>3. lost' = 0 => SuccessIsReal'
  BY <1>2 DEF SuccessIsReal, EndRun
<1> QED
  BY <1>1, <1>3
  DEF EndRun, RealInv, PlanTrue, ReadBackTrue, OutcomeTrue, AfterPlanning

\* A planned writer has an entry, and each of them is valid for it.
LEMMA PlannedEntries ==
    ASSUME TInv, NEW w \in Planned
    PROVE  /\ w \in Writers
           /\ plans[w].desired \in Entries
           /\ ValidEntry(w, plans[w].desired)
<1>1. w \in Writers
  BY DEF Planned
<1>2. ValidEntry(w, PurgeEntry)
  BY DEF ValidEntry, PurgeEntry, NoSubs
<1> QED
  BY <1>1, <1>2, EntriesTyped DEF TInv, TypeOK, PlansFit

\* Planning a writer from an answered read: the plan is empty exactly when the
\* writer is as its entry asks.
LEMMA PlanningReal ==
    ASSUME LabelsDistinct, TInv, SafeInv, RealInv, NEW w \in Writers,
           PlanWriter(w) \/ PlanPurged(w)
    PROVE  RealInv'
<1> SUFFICES ASSUME lost' = 0
             PROVE  (PlanTrue /\ ReadBackTrue /\ OutcomeTrue)'
  BY DEF RealInv
<1>1. /\ UNCHANGED <<task, deviceVars, phase, rotation_plan, verified, outcome>>
      /\ phase \in {"plan", "purge"} /\ w \in todo /\ todo' = todo \ {w}
  BY DEF PlanWriter, PlanPurged
<1>2. TInv'
  BY PlanningTInv
<1>3. device[w] \in MaybeObject
  BY DEF TInv, TypeOK, MaybeObject
<1>4. PICK x \in read_actual(device[w]), e \in Entries,
               imm \in {task.on_immutable_change, "fail"} :
         /\ ValidEntry(w, e)
         /\ Lose(x.lost)
         /\ plans' = [plans EXCEPT ![w] =
                        [desired |-> e, actual |-> x.read,
                         actions |-> _plan_writer(w, e, x.read, imm)]]
  <2>1. CASE PlanWriter(w)
    <3>1. w \in Named
      BY <2>1 DEF PlanWriter, TInv, AllPlanned
    <3>2. task.entries[w] \in Entries /\ ValidEntry(w, task.entries[w])
      BY <3>1, EntriesTyped DEF TInv, TypeOK
    <3> QED
      BY <2>1, <3>2 DEF PlanWriter
  <2>2. CASE PlanPurged(w)
    <3>1. PurgeEntry \in Entries /\ ValidEntry(w, PurgeEntry)
      BY EntriesTyped DEF TInv, TypeOK, ValidEntry, PurgeEntry, NoSubs
    <3> QED
      BY <2>2, <3>1 DEF PlanPurged
  <2> QED
    BY <2>1, <2>2
<1>5. lost = 0 /\ x.lost = 0
  BY <1>3, <1>4, ReadTyped, LostBefore DEF TInv
<1>6. x.read = Shown(device[w])
  BY <1>3, <1>5, AnsweredReadIsTheObject DEF Shown
<1>7. /\ plans'[w] = [desired |-> e, actual |-> x.read,
                      actions |-> _plan_writer(w, e, x.read, imm)]
      /\ \A v \in Writers : v # w => plans'[v] = plans[v]
  BY <1>4 DEF TInv, TypeOK
<1>8. /\ Named' = Named /\ Present' = Present /\ Purgeable' = Purgeable
      /\ RotationInPlace' <=> RotationInPlace
      /\ TaskMet' <=> TaskMet
  BY <1>1, TaskMetKept
  DEF Named, Present, Purgeable, in_purge_scope, managed_types
<1>9. w \in Planned' /\ Planned' = Planned \cup {w} /\ Planned \subseteq Writers
  <2>1. x.read \in Reads
    BY <1>3, ReadTyped
  <2>2. _plan_writer(w, e, x.read, imm) \subseteq Actions
    BY <2>1, PlanTyped
  <2>3. plans'[w] \in WriterPlans
    BY <1>7, <2>1, <2>2 DEF WriterPlans
  <2> QED
    BY <1>7, <2>3, NoPlanAssumption DEF Planned
<1>10. changed(w)' <=> ~Met(w)'
  <2>1. _plan_writer(w, e, x.read, imm) = {} <=> AsAsked(e, device[w])
    BY <1>3, <1>4, <1>6, EmptyPlanIsAsAsked
  <2> QED
    BY <1>1, <1>7, <2>1 DEF changed, Met, deviceVars
<1>11. \A v \in Planned : v # w =>
          (changed(v)' <=> changed(v)) /\ (Met(v)' <=> Met(v))
  BY <1>1, <1>7, <1>9 DEF changed, Met, deviceVars
<1>12. PlanTrue /\ ReadBackTrue /\ OutcomeTrue
  BY <1>5 DEF RealInv
<1>13. PlanTrue'
  BY <1>1, <1>8, <1>9, <1>10, <1>11, <1>12
  DEF PlanTrue, AfterPlanning, BeforeWrites, deviceVars
<1>14. verified = {}
  BY <1>1 DEF SafeInv, VerifiedInPlace
<1> QED
  BY <1>1, <1>12, <1>13, <1>14 DEF ReadBackTrue, OutcomeTrue, SuccessIsReal

\* A command changes a writer that needed a change and is not yet read back,
\* so it takes nothing from what is known of the others.
LEMMA CommandReal ==
    ASSUME TInv, SafeInv, RealInv, NEW a \in pending, SendDelete(a) \/ SendLast(a)
    PROVE  RealInv'
<1> SUFFICES ASSUME lost' = 0
             PROVE  (PlanTrue /\ ReadBackTrue /\ OutcomeTrue)'
  BY DEF RealInv
<1> USE DEF TInv, SafeInv
<1>1. /\ UNCHANGED <<task, phase, plans, rotation_plan, verified, todo, outcome>>
      /\ UNCHANGED rotation /\ lost = 0
      /\ current # None /\ phase \in {"apply", "delete"}
      /\ (phase = "apply" <=> current \in Present)
      /\ current \in Planned /\ changed(current)
  BY DEF SendDelete, SendLast, Write, WritesFit, changed
<1>2. \A v \in Writers : v # current => device'[v] = device[v]
  BY DEF SendDelete, SendLast, Write, TypeOK
<1>3. /\ Named' = Named /\ Present' = Present /\ Purgeable' = Purgeable
      /\ Planned' = Planned /\ Planned \subseteq Writers
      /\ Purgeable \subseteq Writers /\ Present \subseteq Writers
  BY <1>1, PlansKept DEF Planned, Purgeable, Present, Named
<1>4. \A v \in Writers : v # current => (Met(v)' <=> Met(v))
  BY <1>1, <1>2 DEF Met
<1>5. \A v \in Writers : changed(v)' <=> changed(v)
  BY <1>1 DEF changed
<1>6. PlanTrue /\ ReadBackTrue /\ OutcomeTrue
  BY <1>1 DEF RealInv
<1>7. PlanTrue'
  <2>1. \A w \in Purgeable' \ Planned' : device'[w] = None
    BY <1>1, <1>2, <1>3, <1>6 DEF PlanTrue, AfterPlanning
  <2> QED
    BY <1>1, <1>3, <1>4, <1>5, <1>6, <2>1 DEF PlanTrue, BeforeWrites
<1>8. current \notin verified
  BY <1>1, <1>6 DEF VerifiedInPlace, ReadBackTrue
<1>9. ReadBackTrue'
  BY <1>1, <1>3, <1>4, <1>5, <1>6, <1>8 DEF ReadBackTrue
<1> QED
  BY <1>1, <1>6, <1>7, <1>9 DEF OutcomeTrue, SuccessIsReal

\* What an answered read verifies is as asked.
LEMMA VerifyMeets ==
    ASSUME TInv, NEW w \in Planned, NEW x \in read_actual(device[w]),
           x.lost = 0, verify(w, plans[w].desired, x.read)
    PROVE  Met(w)
<1>1. w \in Writers /\ device[w] \in MaybeObject
  BY DEF TInv, TypeOK, MaybeObject, Planned
<1>2. x.read = Shown(device[w])
  BY <1>1, AnsweredReadIsTheObject DEF Shown
<1>3. plans[w].desired \in Entries /\ ValidEntry(w, plans[w].desired)
  BY PlannedEntries
<1> QED
  BY <1>1, <1>2, <1>3, VerifiedIsAsAsked DEF Met

\* Reading one writer back adds it to the verified ones only if it is met.
LEMMA VerifyingReal ==
    ASSUME TInv, SafeInv, RealInv, NEW w \in Writers,
           VerifyWriter(w) \/ VerifyDeleted(w)
    PROVE  RealInv'
<1>1. CASE VerifyDeleted(w) /\ EndRun("delete_failed")
  <2> SUFFICES ASSUME lost' = 0
               PROVE  (PlanTrue /\ ReadBackTrue /\ OutcomeTrue)'
    BY DEF RealInv
  <2>1. Planned' = {}
    BY <1>1 DEF EndRun, Planned, NoPlans
  <2> QED
    BY <1>1, <2>1
    DEF EndRun, PlanTrue, ReadBackTrue, OutcomeTrue, SuccessIsReal, AfterPlanning
<1>2. CASE ~(VerifyDeleted(w) /\ EndRun("delete_failed"))
  <2> SUFFICES ASSUME lost' = 0
               PROVE  (PlanTrue /\ ReadBackTrue /\ OutcomeTrue)'
    BY DEF RealInv
  <2>1. /\ UNCHANGED <<task, deviceVars, phase, plans, rotation_plan, outcome>>
        /\ phase \in {"verify", "verify_delete"}
        /\ w \in todo /\ todo' = todo \ {w} /\ w \in Planned
        /\ phase = "verify" => w \in Present
    BY <1>2 DEF VerifyWriter, VerifyDeleted, TInv, WritesFit
  <2>2. device[w] \in MaybeObject
    BY DEF TInv, TypeOK, MaybeObject
  <2>3. PICK x \in read_actual(device[w]) :
           /\ Lose(x.lost)
           /\ \/ verify(w, plans[w].desired, x.read) /\ verified' = verified \cup {w}
              \/ phase = "verify" /\ verified' = verified /\ failures' = TRUE
    BY <1>2 DEF VerifyWriter, VerifyDeleted
  <2>4. lost = 0 /\ x.lost = 0
    BY <2>2, <2>3, ReadTyped, LostBefore DEF TInv
  <2>5. \/ verified' = verified \cup {w} /\ Met(w)
        \/ phase = "verify" /\ verified' = verified
    BY <2>1, <2>3, <2>4, VerifyMeets
  <2>6. PlanTrue /\ ReadBackTrue /\ OutcomeTrue
    BY <2>4 DEF RealInv
  <2>7. PlanTrue'
    BY <2>1, <2>6, MetKept DEF PlanTrue, AfterPlanning, BeforeWrites, deviceVars
  <2>8. ReadBackTrue'
    BY <2>1, <2>5, <2>6, MetKept DEF ReadBackTrue
  <2> QED
    BY <2>1, <2>6, <2>7, <2>8 DEF OutcomeTrue, SuccessIsReal
<1> QED
  BY <1>1, <1>2

\* A run with an empty plan ends on a device that is all the task asks for,
\* and the plan is empty on every such device.
LEMMA DecidedTrue ==
    ASSUME TInv, SafeInv, PlanTrue, phase = "decide"
    PROVE  plan_changed <=> ~TaskMet
<1> USE DEF TInv
<1>1. Named \subseteq Planned /\ Unwanted = Purgeable
  BY UnwantedIsPurgeable DEF AllPlanned, AfterPlanning
<1>2. \A w \in Planned : changed(w) <=> ~Met(w)
  BY DEF PlanTrue, BeforeWrites
<1>3. \A w \in Named : Met(w) <=> AsAsked(task.entries[w], device[w])
  BY <1>1 DEF PlansFit, Met
<1>4. \A w \in Planned \ Named : w \in Purgeable /\ (Met(w) <=> device[w] = None)
  BY DEF PlansFit, Met, AsAsked, PurgeEntry
<1>5. \A w \in Purgeable : w \notin Named
  BY DEF Purgeable
<1>6. \A w \in Purgeable \ Planned : device[w] = None
  BY DEF PlanTrue, AfterPlanning
<1>7. rotation_plan = "none" <=> RotationInPlace
  BY DEF PlanTrue
<1>8. TaskMet <=> RotationInPlace /\ \A w \in Planned : Met(w)
  BY <1>1, <1>3, <1>4, <1>5, <1>6 DEF TaskMet
<1> QED
  BY <1>2, <1>7, <1>8 DEF plan_changed

\* A run that has read back everything it changed has brought the device to
\* what the task asks for.
LEMMA FinishedTrue ==
    ASSUME TInv, SafeInv, PlanTrue, ReadBackTrue,
           phase = "verify_delete", todo = {}
    PROVE  TaskMet
<1> USE DEF TInv
<1>1. Named \subseteq Planned /\ Unwanted = Purgeable
  BY UnwantedIsPurgeable DEF AllPlanned, AfterPlanning
<1>2. \A w \in Planned : Met(w)
  <2> SUFFICES ASSUME NEW w \in Planned, changed(w) PROVE Met(w)
    BY DEF PlanTrue
  <2>1. CASE w \in Present
    BY <2>1 DEF ReadBackTrue
  <2>2. CASE w \notin Present
    <3>1. plans[w].desired.state = "absent"
      BY <2>2, EntriesTyped, PlannedEntries
      DEF TypeOK, PlansFit, PurgeEntry, Present, Entries
    <3> QED
      BY <3>1 DEF ReadBackTrue, deleting
  <2> QED
    BY <2>1, <2>2
<1>3. \A w \in Named : AsAsked(task.entries[w], device[w])
  BY <1>1, <1>2 DEF PlansFit, Met
<1>4. \A w \in Purgeable : device[w] = None
  <2>1. \A w \in Purgeable \ Planned : device[w] = None
    BY DEF PlanTrue, AfterPlanning
  <2>2. \A w \in Purgeable \cap Planned : device[w] = None
    BY <1>2 DEF PlansFit, Met, AsAsked, PurgeEntry, Purgeable
  <2> QED
    BY <2>1, <2>2
<1>5. RotationInPlace
  BY DEF SafeInv, CutoverSafe, Ready
<1> QED
  BY <1>1, <1>3, <1>4, <1>5 DEF TaskMet

\* One step for every action of the specification.
LEMMA StepReal ==
    ASSUME LabelsDistinct, TInv, SafeInv, RealInv, [Next]_vars
    PROVE  RealInv'
<1> USE DEF TInv
<1>1. ASSUME UNCHANGED <<task, deviceVars, plans>>, lost' = 0 => lost = 0
      PROVE  lost' = 0 =>
                /\ PlanTrue /\ ReadBackTrue /\ OutcomeTrue
                /\ \A w \in Planned : ~changed(w)' => Met(w)'
                /\ \A w \in verified : Met(w)'
                /\ phase \in BeforeWrites => \A w \in Planned : Met(w)' => ~changed(w)'
  BY <1>1, MetKept DEF RealInv, PlanTrue, ReadBackTrue
<1>2. ASSUME NEW mode \in BOOLEAN, StartRun(mode) PROVE RealInv'
  <2>1. verified = {}
    BY <1>2 DEF StartRun, SafeInv, VerifiedInPlace
  <2> QED
    BY <1>1, <1>2, <2>1, MetKept
    DEF StartRun, faults, RealInv, PlanTrue, ReadBackTrue, OutcomeTrue,
        SuccessIsReal, AfterPlanning, BeforeWrites
<1>3. ASSUME NEW w \in Writers, PlanWriter(w) \/ PlanPurged(w) PROVE RealInv'
  BY <1>3, PlanningReal
<1>4. ASSUME NEW w \in Writers, TakeWriter(w) PROVE RealInv'
  <2>1. /\ UNCHANGED <<task, deviceVars, plans, phase, rotation_plan, verified,
                        outcome, lost>>
        /\ phase \in {"apply", "delete"}
    BY <1>4 DEF TakeWriter, faults
  <2> QED
    BY <1>1, <2>1, MetKept
    DEF RealInv, PlanTrue, ReadBackTrue, OutcomeTrue, SuccessIsReal,
        AfterPlanning, BeforeWrites, deviceVars
<1>5. ASSUME NEW w \in Writers, VerifyWriter(w) \/ VerifyDeleted(w) PROVE RealInv'
  BY <1>5, VerifyingReal
<1>6. CASE FindUnmanaged
  <2>1. lost' = 0 => lost = 0 /\ todo' = {w \in Purgeable : device[w] # None}
    BY <1>6, LostBefore DEF FindUnmanaged
  <2>2. verified = {}
    BY <1>6 DEF FindUnmanaged, SafeInv, VerifiedInPlace
  <2> QED
    BY <1>1, <1>6, <2>1, <2>2, MetKept
    DEF FindUnmanaged, RealInv, PlanTrue, ReadBackTrue, OutcomeTrue,
        SuccessIsReal, AfterPlanning, BeforeWrites, deviceVars
<1>7. CASE PlanRotation
  <2>1. lost' = 0 =>
           lost = 0 /\ rotation_plan' = plan_rotation(task.rotation, rotation)
    BY <1>7, LostBefore DEF PlanRotation, ReadRotation
  <2>2. plan_rotation(task.rotation, rotation) = "none" <=> RotationInPlace
    BY DEF plan_rotation, RotationInPlace
  <2>3. verified = {}
    BY <1>7 DEF PlanRotation, SafeInv, VerifiedInPlace
  <2> QED
    BY <1>1, <1>7, <2>1, <2>2, <2>3, MetKept
    DEF PlanRotation, RealInv, PlanTrue, ReadBackTrue, OutcomeTrue,
        SuccessIsReal, AfterPlanning, BeforeWrites, deviceVars
<1>8. CASE FailBlocked \/ HoldDeletes \/ SessionDies
  BY <1>8, EndRunReal DEF FailBlocked, HoldDeletes, SessionDies, faults
<1>9. CASE ExitUnwritten
  <2>1. lost = 0 /\ ~plan_changed => TaskMet
    BY <1>9, DecidedTrue DEF ExitUnwritten, RealInv
  <2> QED
    BY <1>9, <2>1, EndRunReal DEF ExitUnwritten, faults
<1>10. CASE Finish
  <2>1. lost = 0 => TaskMet
    BY <1>10, FinishedTrue DEF Finish, RealInv
  <2> QED
    BY <1>10, <2>1, EndRunReal DEF Finish, faults
<1>11. CASE BeginApply
  BY <1>1, <1>11, MetKept
  DEF BeginApply, faults, RealInv, PlanTrue, ReadBackTrue, OutcomeTrue,
      SuccessIsReal, AfterPlanning, BeforeWrites, deviceVars
<1>12. ASSUME NEW a \in pending, SendDelete(a) \/ SendLast(a) PROVE RealInv'
  BY <1>12, CommandReal
<1>13. CASE ApplyRotation
  <2>1. /\ UNCHANGED <<task, device, plans, verified, lost, outcome>>
        /\ phase = "apply" /\ phase' = "verify" /\ verified = {}
    BY <1>13 DEF ApplyRotation, SafeInv, VerifiedInPlace
  <2>2. Planned' = Planned /\ Purgeable' = Purgeable /\ Planned \subseteq Writers
        /\ Purgeable \subseteq Writers
    BY <2>1, PlansKept DEF Planned, Purgeable
  <2>3. \A w \in Writers : (Met(w)' <=> Met(w)) /\ (changed(w)' <=> changed(w))
    BY <2>1 DEF Met, changed
  <2> QED
    BY <2>1, <2>2, <2>3
    DEF RealInv, PlanTrue, ReadBackTrue, OutcomeTrue, SuccessIsReal,
        AfterPlanning, BeforeWrites
<1>14. CASE VerifyRotation
  <2>1. lost' = 0 => lost = 0
    BY <1>14, LostBefore DEF VerifyRotation, ReadRotation
  <2> QED
    BY <1>1, <1>14, <2>1, MetKept
    DEF VerifyRotation, RealInv, PlanTrue, ReadBackTrue, OutcomeTrue,
        SuccessIsReal, AfterPlanning, BeforeWrites, deviceVars
<1>15. CASE BeginDeletes
  <2>1. \A w \in Present : changed(w) => w \in verified
    BY <1>15 DEF BeginDeletes, SafeInv, VerifiedInPlace
  <2> QED
    BY <1>1, <1>15, <2>1, MetKept
    DEF BeginDeletes, faults, RealInv, PlanTrue, ReadBackTrue, OutcomeTrue,
        SuccessIsReal, AfterPlanning, BeforeWrites, deviceVars
<1>16. CASE DeletesSent
  BY <1>1, <1>16, MetKept
  DEF DeletesSent, faults, RealInv, PlanTrue, ReadBackTrue, OutcomeTrue,
      SuccessIsReal, AfterPlanning, BeforeWrites, deviceVars
<1>17. CASE UNCHANGED vars
  BY <1>1, <1>17, MetKept
  DEF vars, runVars, faults, RealInv, PlanTrue, ReadBackTrue, OutcomeTrue,
      SuccessIsReal, AfterPlanning, BeforeWrites, deviceVars
<1> QED
  BY <1>2, <1>3, <1>4, <1>5, <1>6, <1>7, <1>8, <1>9, <1>10, <1>11, <1>12, <1>13,
     <1>14, <1>15, <1>16, <1>17
  DEF Next, Proceed, Command

\* With labels that are told apart, the invariant holds of every run of every
\* task, whatever the writes ignored and the sessions lost.
THEOREM RealInvariant == LabelsDistinct => (Spec => [](IInv /\ RealInv))
<1> SUFFICES ASSUME LabelsDistinct PROVE Spec => [](IInv /\ RealInv)
  OBVIOUS
<1>1. Init => IInv /\ RealInv
  BY InitIInv, InitReal
<1>2. IInv /\ RealInv /\ [Next]_vars => (IInv /\ RealInv)'
  BY StepIInv, StepReal DEF IInv, TInv, SafeInv
<1> QED
  BY <1>1, <1>2, PTL DEF Spec

\* "changed=true always means verified" (README.md): as long as every read has
\* been answered, a run that ends verified or with nothing to change ends on a
\* device that is all the task asks for, whatever writes were ignored and
\* wherever earlier sessions died.
THEOREM SuccessSound == LabelsDistinct => (Spec => [](lost = 0 => SuccessIsReal))
<1> SUFFICES ASSUME LabelsDistinct PROVE Spec => [](lost = 0 => SuccessIsReal)
  OBVIOUS
<1>1. RealInv => (lost = 0 => SuccessIsReal)
  BY DEF RealInv, OutcomeTrue
<1> QED
  BY <1>1, RealInvariant, PTL

\* The drift report is exact under the same conditions: a run has something to
\* change exactly when the device is not all the task asks for.
THEOREM DriftSound == LabelsDistinct => (Spec => [](lost = 0 => DriftIsReal))
<1> SUFFICES ASSUME LabelsDistinct PROVE Spec => [](lost = 0 => DriftIsReal)
  OBVIOUS
<1>1. IInv /\ RealInv => (lost = 0 => DriftIsReal)
  BY DecidedTrue DEF RealInv, IInv, TInv, SafeInv, DriftIsReal
<1> QED
  BY <1>1, RealInvariant, PTL

(***************************************************************************)
(* A device that takes every write and answers every read ends every run   *)
(* verified.                                                               *)
(*                                                                         *)
(* The planner puts each writer on course (Course of LogWritersProofs):    *)
(* what its plan holds is all that separates the object from its entry,    *)
(* and stays so after every command for what is left of the plan.          *)
(***************************************************************************)
\* No task moves a writer whose entry states a property value that a recreated
\* object does not start from.
SafeMoves ==
    \A t \in Tasks : \A w \in Writers :
       t.entries[w] # None => MoveIsSafe(w, t.entries[w], t.on_immutable_change)

\* Planned writers apply_plan has not come to yet.
Waiting ==
    CASE phase = "apply" -> todo \cup (Writers \ Present)
      [] phase \in {"verify", "gate"} -> Writers \ Present
      [] phase = "delete" -> todo
      [] phase = "verify_delete" -> {}
      [] OTHER -> Writers

\* What is left of a writer's plan.
Left(w) == IF w = current THEN pending
           ELSE IF w \in Waiting THEN plans[w].actions ELSE {}

OnCourse(w) == Course(w, plans[w].desired, device[w], Left(w))
AllOnCourse == \A w \in Planned : Blocks(plans[w].actions) \/ OnCourse(w)

\* Between the two commands of a replace the object is gone, and the replace
\* is what comes next.
HalfIsCleared ==
    half => /\ current # None
            /\ \A a \in First(pending) :
                  a.kind \in ReplaceKinds /\ Cleared(device[current], a)

Unfailing ==
    /\ ~failures
    /\ outcome \notin {"verify_failed", "delete_failed"}
    /\ phase = "verify" /\ rotation_plan = "set" => rotation = task.rotation

HInv == /\ Unfailing /\ AllOnCourse /\ HalfIsCleared
        /\ current # None => current \notin todo

Honest == ignored = 0 /\ lost = 0

HonestInv == Released /\ (Honest => HInv)

\* Before the first run nothing is planned and nothing has failed.
LEMMA InitHonest == Init => HonestInv
<1> SUFFICES ASSUME Init PROVE HonestInv
  OBVIOUS
<1>1. Planned = {}
  BY DEF Init, IdleRun, Planned, NoPlans
<1> QED
  BY <1>1
  DEF Init, IdleRun, HonestInv, HInv, Unfailing, AllOnCourse, HalfIsCleared,
      Released, AfterPlanning

\* The end of a run that did not fail leaves nothing to say.
LEMMA EndRunHonest ==
    ASSUME NEW how, EndRun(how), how \notin {"verify_failed", "delete_failed"}
    PROVE  HInv'
<1>1. Planned' = {}
  BY DEF EndRun, Planned, NoPlans
<1> QED
  BY <1>1 DEF EndRun, HInv, Unfailing, AllOnCourse, HalfIsCleared

\* A step that leaves the device, the plans and what is left of them alone
\* leaves every writer on its course.
LEMMA CourseKept ==
    ASSUME AllOnCourse, UNCHANGED <<device, plans>>,
           \A w \in Planned : Left(w)' = Left(w)
    PROVE  AllOnCourse'
<1>1. Planned' = Planned
  BY DEF Planned
<1> QED
  BY <1>1 DEF AllOnCourse, OnCourse

\* Between writers, what is left of a plan is all of it or nothing.
LEMMA LeftBetween ==
    ASSUME NEW w \in Planned, current = None
    PROVE  Left(w) = IF w \in Waiting THEN plans[w].actions ELSE {}
<1>1. w # None
  BY TypesAssumption DEF Planned
<1> QED
  BY <1>1 DEF Left

\* A writer that no command is left for verifies when it is read.
LEMMA DoneVerifies ==
    ASSUME TInv, Released, AllOnCourse, NEW w \in Planned,
           phase \in {"verify", "verify_delete"},
           phase = "verify" => w \in Present,
           NEW x \in read_actual(device[w]), x.lost = 0
    PROVE  verify(w, plans[w].desired, x.read)
<1>1. device[w] \in MaybeObject /\ plans[w].desired \in Entries
  BY PlannedEntries DEF TInv, TypeOK, MaybeObject, Planned
<1>2. x.read = Shown(device[w])
  BY <1>1, AnsweredReadIsTheObject DEF Shown
<1>3. current = None
  BY DEF TInv, WritesFit
<1>4. Left(w) = {}
  BY <1>3, LeftBetween DEF Waiting
<1>5. ~Blocks(plans[w].actions)
  BY DEF Released, AfterPlanning, blocked, Blocks
<1>6. OnCourse(w)
  BY <1>5 DEF AllOnCourse
<1> QED
  BY <1>1, <1>2, <1>4, <1>6, CourseEndVerifies DEF OnCourse, Course

\* Planning a writer from an answered read puts it on course.
LEMMA PlanningHonest ==
    ASSUME LabelsDistinct, SafeMoves, TInv, HInv, NEW w \in Writers,
           PlanWriter(w) \/ PlanPurged(w), lost = 0, lost' = 0
    PROVE  HInv'
<1>1. /\ UNCHANGED <<task, deviceVars, phase, rotation_plan, outcome, failures>>
      /\ UNCHANGED <<current, pending, half>>
      /\ phase \in {"plan", "purge"} /\ w \in todo
  BY DEF PlanWriter, PlanPurged
<1>2. current = None
  BY <1>1 DEF TInv, WritesFit
<1>3. device[w] \in MaybeObject
  BY DEF TInv, TypeOK, MaybeObject
<1>4. PICK x \in read_actual(device[w]), e \in Entries,
               imm \in {task.on_immutable_change, "fail"} :
         /\ ValidEntry(w, e)
         /\ MoveIsSafe(w, e, imm)
         /\ Lose(x.lost)
         /\ plans' = [plans EXCEPT ![w] =
                        [desired |-> e, actual |-> x.read,
                         actions |-> _plan_writer(w, e, x.read, imm)]]
  <2>1. CASE PlanWriter(w)
    <3>1. w \in Named
      BY <2>1 DEF PlanWriter, TInv, AllPlanned
    <3>2. task.entries[w] \in Entries /\ ValidEntry(w, task.entries[w])
      BY <3>1, EntriesTyped DEF TInv, TypeOK
    <3>3. MoveIsSafe(w, task.entries[w], task.on_immutable_change)
      BY <3>1 DEF SafeMoves, Named, TInv, TypeOK
    <3> QED
      BY <2>1, <3>2, <3>3 DEF PlanWriter
  <2>2. CASE PlanPurged(w)
    <3>1. PurgeEntry \in Entries /\ ValidEntry(w, PurgeEntry)
      BY EntriesTyped DEF TInv, TypeOK, ValidEntry, PurgeEntry, NoSubs
    <3>2. MoveIsSafe(w, PurgeEntry, "fail")
      BY DEF MoveIsSafe
    <3> QED
      BY <2>2, <3>1, <3>2 DEF PlanPurged
  <2> QED
    BY <2>1, <2>2
<1>5. x.read = Shown(device[w])
  <2>1. x.lost = 0
    BY <1>3, <1>4, ReadTyped, LostBefore DEF TInv
  <2> QED
    BY <1>3, <2>1, AnsweredReadIsTheObject DEF Shown
<1>6. /\ plans'[w] = [desired |-> e, actual |-> x.read,
                      actions |-> _plan_writer(w, e, x.read, imm)]
      /\ \A v \in Writers : v # w => plans'[v] = plans[v]
  BY <1>4 DEF TInv, TypeOK
<1>7. \A v \in Writers : Left(v) = plans[v].actions /\ Left(v)' = plans'[v].actions
  <2>1. \A v \in Writers : v # None
    BY TypesAssumption
  <2> QED
    BY <1>1, <1>2, <2>1 DEF Left, Waiting
<1>8. ASSUME NEW v \in Planned'
      PROVE  Blocks(plans[v].actions)' \/ OnCourse(v)'
  <2>1. CASE v = w
    <3> DEFINE P == _plan_writer(w, e, x.read, imm)
    <3>1. plans'[w].desired = e /\ plans'[w].actions = P /\ Left(w)' = P
      BY <1>6, <1>7
    <3>2. Blocks(P) \/ Course(w, e, device[w], P)
      BY <1>3, <1>4, <1>5, PlanSetsCourse
    <3>3. device'[w] = device[w]
      BY <1>1 DEF deviceVars
    <3> HIDE DEF P
    <3> QED
      BY <2>1, <3>1, <3>2, <3>3 DEF Blocks, OnCourse
  <2>2. CASE v # w
    <3>1. v \in Planned /\ plans'[v] = plans[v] /\ Left(v)' = Left(v)
      BY <1>6, <1>7, <2>2 DEF Planned
    <3>2. device'[v] = device[v]
      BY <1>1 DEF deviceVars
    <3>3. Blocks(plans[v].actions) \/ OnCourse(v)
      BY <3>1 DEF HInv, AllOnCourse
    <3> QED
      BY <3>1, <3>2, <3>3 DEF Blocks, OnCourse
  <2> QED
    BY <2>1, <2>2
<1>9. AllOnCourse'
  BY <1>8 DEF AllOnCourse
<1> QED
  BY <1>1, <1>2, <1>9 DEF HInv, Unfailing, HalfIsCleared

\* A command takes its writer one step along its course, and leaves the others
\* on theirs.
LEMMA CommandHonest ==
    ASSUME TInv, Released, HInv, NEW a \in pending, SendDelete(a) \/ SendLast(a),
           ignored = 0, ignored' = 0
    PROVE  HInv'
<1> DEFINE e == plans[current].desired
           o == device[current]
<1> USE DEF TInv
<1>1. /\ UNCHANGED <<task, rotation, phase, todo, plans, rotation_plan, failures,
                    outcome>>
      /\ current # None /\ current \in Writers /\ current \in Planned
      /\ current \notin todo
      /\ phase \in {"apply", "delete"}
      /\ phase = "apply" <=> current \in Present
      /\ a \in First(pending) /\ a \in plans[current].actions
      /\ pending \in SUBSET Actions
  BY DEF SendDelete, SendLast, Write, WritesFit, TypeOK, HInv
<1>2. /\ e \in Entries /\ o \in MaybeObject /\ ValidEntry(current, e)
  BY <1>1, PlannedEntries DEF TypeOK, MaybeObject
<1>3. ~Blocks(plans[current].actions)
  BY <1>1 DEF Released, AfterPlanning, blocked, Blocks
<1>4. a.kind \notin BlockedKinds
  BY <1>1, <1>3 DEF Blocks
<1>5. Course(current, e, o, pending)
  BY <1>1, <1>3 DEF HInv, AllOnCourse, OnCourse, Left
<1>6. /\ \A v \in Writers : v # None
      /\ Planned' = Planned /\ Present' = Present /\ Planned \subseteq Writers
  BY <1>1, PlansKept, TypesAssumption DEF Planned
<1>7. CASE SendDelete(a)
  <2>1. device' = [device EXCEPT ![current] = Deleted(o, a)] /\ a.kind \in ReplaceKinds
    BY <1>7 DEF SendDelete, Write, TypeOK
  <2>2. /\ device'[current] = Deleted(o, a)
        /\ \A v \in Writers : v # current => device'[v] = device[v]
    BY <1>1, <2>1 DEF TypeOK
  <2>3. UNCHANGED <<current, pending>>
    BY <1>7 DEF SendDelete
  <2>4. \A v \in Writers : Left(v)' = Left(v)
    BY <1>1, <1>6, <2>3 DEF Left, Waiting
  <2>5. Course(current, e, Deleted(o, a), pending) /\ Cleared(Deleted(o, a), a)
    BY <1>1, <1>2, <1>5, <2>1, DeleteKeepsCourse
  <2>6. OnCourse(current)'
    <3>1. Left(current) = pending
      BY DEF Left
    <3> QED
      BY <1>1, <2>2, <2>3, <2>4, <2>5, <3>1 DEF OnCourse
  <2>7. AllOnCourse'
    BY <1>1, <1>6, <2>2, <2>3, <2>4, <2>6 DEF HInv, AllOnCourse, OnCourse
  <2>8. \A b \in First(pending) : b = a
    BY <1>1, <1>5, FirstIsOne DEF Course
  <2>9. HalfIsCleared'
    BY <1>1, <2>1, <2>2, <2>3, <2>5, <2>8 DEF HalfIsCleared
  <2> QED
    BY <1>1, <2>3, <2>7, <2>9 DEF HInv, Unfailing
<1>8. CASE SendLast(a)
  <2> DEFINE new == Applied(current, e, o, a)
  <2>1. PICK c \in Writers : c = current
    BY <1>1
  <2>2. /\ device' = [device EXCEPT ![current] = new]
        /\ a.kind \in ReplaceKinds => half
    BY <1>8 DEF SendLast, Write, TypeOK
  <2>3. /\ device'[current] = new
        /\ \A v \in Writers : v # current => device'[v] = device[v]
    BY <1>1, <2>2 DEF TypeOK
  <2>4. /\ pending' = pending \ {a} /\ ~half'
        /\ current' = IF pending = {a} THEN None ELSE current
    BY <1>8 DEF SendLast
  <2>5. Left(c)' = pending \ {a}
    BY <1>1, <1>6, <2>1, <2>4 DEF Left, Waiting
  <2>6. \A v \in Writers : v # current => Left(v)' = Left(v)
    BY <1>1, <1>6, <2>4 DEF Left, Waiting
  <2>7. a.kind \in ReplaceKinds => Cleared(o, a)
    BY <1>1, <2>2 DEF HInv, HalfIsCleared
  <2>8. Course(current, e, new, pending \ {a})
    BY <1>1, <1>2, <1>4, <1>5, <2>7, LastKeepsCourse
  <2>9. ASSUME NEW v \in Planned
        PROVE  Blocks(plans[v].actions)' \/ OnCourse(v)'
    <3>1. CASE v = current
      <4>1. Course(v, plans'[v].desired, device'[v], Left(v)')
        <5>1. Left(v)' = pending \ {a}
          BY <2>1, <2>5, <3>1
        <5>2. plans'[v].desired = e /\ device'[v] = new
          BY <1>1, <2>3, <3>1
        <5> HIDE DEF new, e
        <5> QED
          BY <2>8, <3>1, <5>1, <5>2
      <4> QED
        BY <4>1 DEF OnCourse
    <3>2. CASE v # current
      BY <1>1, <1>6, <2>3, <2>6, <3>2 DEF HInv, AllOnCourse, OnCourse, Blocks
    <3> QED
      BY <3>1, <3>2
  <2>10. AllOnCourse'
    BY <1>6, <2>9 DEF AllOnCourse
  <2> QED
    BY <1>1, <2>4, <2>10 DEF HInv, Unfailing, HalfIsCleared
<1> QED
  BY <1>7, <1>8

\* The counters of faults never go down.
LEMMA HonestBefore ==
    ASSUME TypeOK, [Next]_vars, Honest'
    PROVE  Honest
<1>1. lost \in Nat /\ ignored \in Nat
  BY TaskAssumption DEF TypeOK
<1>2. \A n \in Nat : Lose(n) => lost = 0
  BY LostBefore DEF Honest
<1>3. \A w \in Writers : \A x \in read_actual(device[w]) : x.lost \in Nat
  BY ReadTyped DEF TypeOK, MaybeObject
<1>4. ASSUME NEW new, Write(new) PROVE ignored = 0
  BY <1>1, <1>4 DEF Write, Honest
<1>5. ASSUME NEW w \in Writers,
             PlanWriter(w) \/ PlanPurged(w) \/ VerifyWriter(w) \/ VerifyDeleted(w)
      PROVE  Honest
  BY <1>2, <1>3, <1>5
  DEF PlanWriter, PlanPurged, VerifyWriter, VerifyDeleted, Honest
<1>6. CASE FindUnmanaged \/ PlanRotation \/ VerifyRotation
  BY <1>2, <1>6 DEF FindUnmanaged, PlanRotation, VerifyRotation, ReadRotation, Honest
<1>7. ASSUME NEW a \in pending, SendDelete(a) \/ SendLast(a) PROVE Honest
  BY <1>4, <1>7 DEF SendDelete, SendLast, Honest
<1>8. CASE ApplyRotation
  BY <1>1, <1>8 DEF ApplyRotation, Honest
<1>9. CASE UNCHANGED <<lost, ignored>>
  BY <1>9 DEF Honest
<1>10. \/ UNCHANGED <<lost, ignored>>
       \/ FindUnmanaged \/ PlanRotation \/ VerifyRotation \/ ApplyRotation
       \/ \E w \in Writers :
             PlanWriter(w) \/ PlanPurged(w) \/ VerifyWriter(w) \/ VerifyDeleted(w)
       \/ \E a \in pending : SendDelete(a) \/ SendLast(a)
  BY DEF Next, Proceed, Command, StartRun, TakeWriter, FailBlocked, ExitUnwritten,
         BeginApply, HoldDeletes, BeginDeletes, DeletesSent, Finish, SessionDies,
         vars, faults
<1> QED
  BY <1>5, <1>6, <1>7, <1>8, <1>9, <1>10

\* A read-back that is answered finds what was asked for.
LEMMA VerifyingHonest ==
    ASSUME TInv, Released, HInv, NEW w \in Writers,
           VerifyWriter(w) \/ VerifyDeleted(w), lost = 0, lost' = 0
    PROVE  HInv'
<1> USE DEF TInv
<1>1. /\ phase \in {"verify", "verify_delete"} /\ w \in Planned
      /\ phase = "verify" => w \in Present
      /\ current = None
  BY DEF VerifyWriter, VerifyDeleted, WritesFit
<1>2. \A x \in read_actual(device[w]) :
         Lose(x.lost) => verify(w, plans[w].desired, x.read)
  <2>1. \A x \in read_actual(device[w]) : Lose(x.lost) => x.lost = 0
    BY LostBefore, ReadTyped DEF TypeOK, MaybeObject
  <2> QED
    BY <1>1, <2>1, DoneVerifies DEF HInv
<1>3. /\ UNCHANGED <<task, deviceVars, phase, plans, rotation_plan, current, pending>>
      /\ UNCHANGED <<half, failures, outcome>>
  BY <1>2 DEF VerifyWriter, VerifyDeleted
<1>4. \A v \in Planned : Left(v)' = Left(v)
  BY <1>1, <1>3, PlansKept DEF Left, Waiting
<1>5. AllOnCourse'
  BY <1>3, <1>4, CourseKept DEF HInv, deviceVars
<1> QED
  BY <1>1, <1>3, <1>5 DEF HInv, Unfailing, HalfIsCleared, deviceVars

\* One step for every action of the specification.
LEMMA StepHonest ==
    ASSUME LabelsDistinct, SafeMoves, TInv, HonestInv, [Next]_vars
    PROVE  HonestInv'
<1> USE DEF TInv
<1>1. Released /\ Released'
  BY StepReleased DEF HonestInv
<1> SUFFICES ASSUME Honest' PROVE HInv'
  BY <1>1 DEF HonestInv
<1>2. Honest /\ HInv
  BY HonestBefore DEF HonestInv
<1>3. lost = 0 /\ lost' = 0 /\ ignored = 0 /\ ignored' = 0
  BY <1>2 DEF Honest
<1>4. ASSUME current = None, current' = None, half' = half,
             UNCHANGED <<device, plans>>, Unfailing',
             \A w \in Planned : Left(w)' = Left(w)
      PROVE  HInv'
  BY <1>2, <1>4, CourseKept DEF HInv, HalfIsCleared
<1>5. \A w \in Planned : w \in Writers /\ w # None
  BY TypesAssumption DEF Planned
<1>6. phase \notin {"apply", "delete"} => current = None
  BY DEF WritesFit
<1>7. Planned \ Present = deleting
  <2>1. ASSUME NEW w \in Planned \ Present
        PROVE  plans[w].desired.state = "absent"
    BY <2>1, EntriesTyped, PlannedEntries
    DEF TypeOK, PlansFit, PurgeEntry, Present, Entries
  <2> QED
    BY <2>1, PhaseWriters DEF deleting
<1>8. \A w \in Planned : w \notin creating \cup deleting => FALSE
  BY PlannedEntries DEF creating, deleting, Entries
<1>9. ASSUME NEW mode \in BOOLEAN, StartRun(mode) PROVE HInv'
  <2>1. \A w \in Planned : Left(w)' = Left(w)
    BY <1>5, <1>6, <1>9 DEF StartRun, Left, Waiting
  <2> QED
    BY <1>2, <1>4, <1>6, <1>9, <2>1 DEF StartRun, Unfailing, deviceVars, HInv
<1>10. ASSUME NEW w \in Writers, PlanWriter(w) \/ PlanPurged(w) PROVE HInv'
  BY <1>2, <1>3, <1>10, PlanningHonest
<1>11. ASSUME NEW w \in Writers, TakeWriter(w) PROVE HInv'
  <2>1. /\ UNCHANGED <<task, deviceVars, phase, plans, rotation_plan>>
        /\ UNCHANGED <<half, failures, outcome>>
        /\ phase \in {"apply", "delete"} /\ current = None /\ w \in todo
        /\ current' = w /\ pending' = plans[w].actions /\ todo' = todo \ {w}
    BY <1>11 DEF TakeWriter
  <2>2. \A v \in Planned : Left(v)' = Left(v)
    BY <1>5, <2>1, PlansKept DEF Left, Waiting
  <2>3. AllOnCourse'
    BY <1>2, <2>1, <2>2, CourseKept DEF HInv, deviceVars
  <2>4. ~half'
    BY <1>2, <2>1 DEF HInv, HalfIsCleared
  <2> QED
    BY <1>2, <2>1, <2>3, <2>4 DEF HInv, Unfailing, HalfIsCleared
<1>12. ASSUME NEW w \in Writers, VerifyWriter(w) \/ VerifyDeleted(w) PROVE HInv'
  BY <1>1, <1>2, <1>3, <1>12, VerifyingHonest
<1>13. ASSUME NEW a \in pending, SendDelete(a) \/ SendLast(a) PROVE HInv'
  BY <1>1, <1>2, <1>3, <1>13, CommandHonest
<1>14. CASE FindUnmanaged \/ PlanRotation
  <2>1. \A w \in Planned : Left(w)' = Left(w)
    BY <1>5, <1>6, <1>14 DEF FindUnmanaged, PlanRotation, Left, Waiting
  <2> QED
    BY <1>2, <1>4, <1>6, <1>14, <2>1
    DEF FindUnmanaged, PlanRotation, Unfailing, deviceVars, HInv
<1>15. CASE FailBlocked \/ ExitUnwritten \/ Finish \/ SessionDies
  BY <1>15, EndRunHonest DEF FailBlocked, ExitUnwritten, Finish, SessionDies
<1>16. CASE HoldDeletes
  BY <1>2, <1>16 DEF HoldDeletes, HInv, Unfailing
<1>17. CASE BeginApply
  <2>1. \A w \in Planned : Left(w)' = Left(w)
    <3> SUFFICES ASSUME NEW w \in Planned PROVE Left(w)' = Left(w)
      OBVIOUS
    <3>1. phase = "decide" /\ phase' = "apply" /\ current = None /\ current' = None
          /\ plans' = plans /\ todo' = {v \in creating : changed(v)}
          /\ Present' = Present
      BY <1>6, <1>17, PlansKept DEF BeginApply
    <3>2. w \in todo' \/ w \notin Present \/ plans[w].actions = {}
      BY <1>8, <3>1, PhaseWriters DEF changed
    <3> QED
      BY <1>5, <3>1, <3>2 DEF Left, Waiting
  <2> QED
    BY <1>2, <1>4, <1>6, <1>17, <2>1 DEF BeginApply, Unfailing, deviceVars, HInv
<1>18. CASE ApplyRotation
  <2>1. /\ UNCHANGED <<task, device, plans, rotation_plan, current, half>>
        /\ UNCHANGED <<failures, outcome>>
        /\ phase = "apply" /\ phase' = "verify" /\ current = None /\ todo = {}
        /\ rotation_plan = "set" => rotation' = task.rotation
    BY <1>3, <1>18 DEF ApplyRotation
  <2>2. \A w \in Planned : Left(w)' = Left(w)
    BY <1>5, <2>1, PlansKept DEF Left, Waiting
  <2> QED
    BY <1>2, <1>4, <2>1, <2>2 DEF Unfailing, HInv
<1>19. CASE VerifyRotation
  <2>1. /\ UNCHANGED <<task, deviceVars, plans, rotation_plan, current, half>>
        /\ UNCHANGED outcome
        /\ phase = "verify" /\ phase' = "gate" /\ todo = {}
    BY <1>19 DEF VerifyRotation
  <2>2. failures' = FALSE
    <3>1. rotation_plan = "set" => rotation = task.rotation
      BY <1>2, <2>1 DEF HInv, Unfailing
    <3>2. ~failures
      BY <1>2 DEF HInv, Unfailing
    <3>3. \A shown : ReadRotation(shown) => shown = rotation
      BY <1>3, LostBefore DEF ReadRotation, Lose
    <3> QED
      BY <1>19, <3>1, <3>2, <3>3 DEF VerifyRotation, TypeOK
  <2>3. \A w \in Planned : Left(w)' = Left(w)
    BY <1>5, <1>6, <2>1, PlansKept DEF Left, Waiting
  <2> QED
    BY <1>2, <1>4, <1>6, <2>1, <2>2, <2>3 DEF Unfailing, HInv, deviceVars
<1>20. CASE BeginDeletes
  <2>1. \A w \in Planned : Left(w)' = Left(w)
    <3> SUFFICES ASSUME NEW w \in Planned PROVE Left(w)' = Left(w)
      OBVIOUS
    <3>1. phase = "gate" /\ phase' = "delete" /\ current = None /\ current' = None
          /\ plans' = plans /\ todo' = {v \in deleting : changed(v)}
      BY <1>6, <1>20 DEF BeginDeletes
    <3>2. IF w \in Present THEN w \notin todo'
          ELSE w \in todo' \/ plans[w].actions = {}
      BY <1>7, <3>1 DEF changed
    <3> QED
      BY <1>5, <3>1, <3>2 DEF Left, Waiting
  <2> QED
    BY <1>2, <1>4, <1>6, <1>20, <2>1 DEF BeginDeletes, Unfailing, deviceVars, HInv
<1>21. CASE DeletesSent
  <2>1. \A w \in Planned : Left(w)' = Left(w)
    BY <1>5, <1>21 DEF DeletesSent, Left, Waiting
  <2> QED
    BY <1>2, <1>4, <1>21, <2>1 DEF DeletesSent, Unfailing, deviceVars, HInv
<1>22. CASE UNCHANGED vars
  <2>1. Planned' = Planned /\ Present' = Present
    BY <1>22, PlansKept DEF vars, runVars, deviceVars
  <2>2. \A w \in Planned : Left(w)' = Left(w)
    BY <1>22, <2>1 DEF vars, runVars, Left, Waiting
  <2>3. AllOnCourse'
    BY <1>2, <1>22, <2>2, CourseKept DEF HInv, vars, runVars, deviceVars
  <2> QED
    BY <1>2, <1>22, <2>3
    DEF vars, runVars, deviceVars, HInv, Unfailing, HalfIsCleared
<1> QED
  BY <1>9, <1>10, <1>11, <1>12, <1>13, <1>14, <1>15, <1>16, <1>17, <1>18, <1>19,
     <1>20, <1>21, <1>22
  DEF Next, Proceed, Command

\* "to bring `actual` to `desired`" (docstring of plan): on a device that takes
\* every write and answers every read, no run of the logs module ever fails its
\* read-back, for any task, whatever the device holds at first and wherever
\* earlier sessions died.
THEOREM HonestSound ==
    LabelsDistinct /\ SafeMoves => (Spec => []HonestRunSucceeds)
<1> SUFFICES ASSUME LabelsDistinct, SafeMoves PROVE Spec => []HonestRunSucceeds
  OBVIOUS
<1>1. IInv /\ HonestInv /\ [Next]_vars => HonestInv'
  BY StepHonest DEF IInv, TInv
<1>2. HonestInv => HonestRunSucceeds
  BY DEF HonestInv, Honest, HInv, Unfailing, HonestRunSucceeds
<1> QED
  BY <1>1, <1>2, InitHonest, Inductive, PTL DEF Spec

(***************************************************************************)
(* What the diff of a run announces is what the device holds afterwards.   *)
(***************************************************************************)
\* A writer that is moved loses what its entry does not list, so a task that
\* allows it should say so by purging.
MovesPurge ==
    \A t \in Tasks : \A w \in Writers :
       t.entries[w] # None /\ t.entries[w].state = "present"
       /\ t.on_immutable_change = "replace" /\ replaceable(w) /\ HasEndpoint(w)
          => t.entries[w].purge

HasSub(o, t) == o # None /\ o.subs[t] # None

\* The unlisted subscriptions the diff shows are those on the device.
UnlistedShown ==
    \A w \in Planned \cap Present : ~plans[w].desired.purge =>
       /\ Act("writer_replace") \notin plans[w].actions
       /\ \A t \in Typeids \ Wanted(plans[w].desired) :
             HasSub(device[w], t) <=> plans[w].actual.obj.subs[t] # None

\* A purge that is read back left nothing unlisted.
PurgedGone ==
    \A w \in verified \cap Present : plans[w].desired.purge =>
       \A t \in Typeids \ Wanted(plans[w].desired) : ~HasSub(device[w], t)

\* A run gets to its deletes by reading every changed writer back.
ChangedVerified ==
    /\ phase \in {"delete", "verify_delete"} =>
          \A w \in Present : changed(w) => w \in verified
    /\ phase # "idle" => outcome = "running"

DiffInv == lost = 0 => UnlistedShown /\ PurgedGone /\ ChangedVerified

\* Before the first run there is nothing to show.
LEMMA InitDiff == Init => DiffInv
<1> SUFFICES ASSUME Init PROVE DiffInv
  OBVIOUS
<1>1. Planned = {}
  BY DEF Init, IdleRun, Planned, NoPlans
<1> QED
  BY <1>1 DEF Init, IdleRun, DiffInv, UnlistedShown, PurgedGone, ChangedVerified

\* Nor is there after a run.
LEMMA EndRunDiff ==
    ASSUME NEW how, EndRun(how)
    PROVE  DiffInv'
<1>1. Planned' = {}
  BY DEF EndRun, Planned, NoPlans
<1> QED
  BY <1>1 DEF EndRun, DiffInv, UnlistedShown, PurgedGone, ChangedVerified

\* A step that leaves the device, the plans and the read-backs alone.
LEMMA DiffKept ==
    ASSUME TInv, UnlistedShown, PurgedGone, UNCHANGED <<task, device, plans>>,
           verified' \cap Present \subseteq verified
    PROVE  UnlistedShown' /\ PurgedGone'
<1>1. Planned' = Planned /\ Present' = Present
  BY PlansKept
<1> QED
  BY <1>1 DEF UnlistedShown, PurgedGone

\* A plan made from an answered read shows the subscriptions that are there.
LEMMA PlanningDiff ==
    ASSUME MovesPurge, TInv, SafeInv, UnlistedShown, PurgedGone, NEW w \in Writers,
           PlanWriter(w) \/ PlanPurged(w), lost = 0, lost' = 0
    PROVE  UnlistedShown' /\ PurgedGone'
<1>1. /\ UNCHANGED <<task, device, phase, verified>>
      /\ phase \in {"plan", "purge"} /\ w \in todo
  BY DEF PlanWriter, PlanPurged, deviceVars
<1>2. verified = {}
  BY <1>1 DEF SafeInv, VerifiedInPlace
<1>3. Present' = Present
  BY <1>1 DEF Present, Named
<1>4. \A v \in Writers : v # w => plans'[v] = plans[v]
  BY DEF PlanWriter, PlanPurged, TInv, TypeOK
<1>5. ASSUME w \in Present, ~plans'[w].desired.purge
      PROVE  /\ Act("writer_replace") \notin plans'[w].actions
             /\ \A t \in Typeids \ Wanted(plans'[w].desired) :
                   HasSub(device'[w], t) <=> plans'[w].actual.obj.subs[t] # None
  <2> DEFINE e == task.entries[w]
  <2>1. w \in Named /\ e.state = "present"
    BY <1>5 DEF Present
  <2>2. PlanWriter(w)
    BY <2>1 DEF PlanPurged, TInv, AllPlanned, Purgeable
  <2>3. e \in Entries
    BY <2>1, EntriesTyped DEF TInv, TypeOK
  <2>4. PICK x \in read_actual(device[w]) :
           /\ Lose(x.lost)
           /\ plans' = [plans EXCEPT ![w] =
                [desired |-> e, actual |-> x.read,
                 actions |-> _plan_writer(w, e, x.read, task.on_immutable_change)]]
    BY <2>2 DEF PlanWriter
  <2>5. plans'[w] = [desired |-> e, actual |-> x.read,
                     actions |-> _plan_writer(w, e, x.read, task.on_immutable_change)]
    BY <2>4 DEF TInv, TypeOK
  <2>6. x.read = Shown(device[w])
    <3>1. device[w] \in MaybeObject
      BY DEF TInv, TypeOK, MaybeObject
    <3>2. x.lost = 0
      BY <2>4, <3>1, ReadTyped, LostBefore DEF TInv
    <3> QED
      BY <3>1, <3>2, AnsweredReadIsTheObject DEF Shown
  <2>7. Act("writer_replace") \notin plans'[w].actions
    <3> SUFFICES ASSUME Act("writer_replace") \in plans'[w].actions PROVE FALSE
      OBVIOUS
    <3>1. /\ Repointed(w, e, x.read)
          /\ task.on_immutable_change = "replace" /\ replaceable(w)
      BY <2>1, <2>3, <2>5, ReplacePlanned
    <3>2. HasEndpoint(w) /\ task \in Tasks /\ e # None
      BY <2>1, <3>1 DEF Repointed, TInv, TypeOK, Named
    <3>3. e.purge
      BY <2>1, <3>1, <3>2 DEF MovesPurge
    <3> QED
      BY <1>5, <2>5, <3>3
  <2>8. \A t \in Typeids : HasSub(device[w], t) <=> x.read.obj.subs[t] # None
    BY <2>6 DEF HasSub, Shown, AbsentRead, NoSubs
  <2> QED
    BY <1>1, <2>5, <2>7, <2>8
<1>6. UnlistedShown'
  BY <1>1, <1>3, <1>4, <1>5 DEF UnlistedShown, Planned
<1> QED
  BY <1>1, <1>2, <1>6 DEF PurgedGone

\* A command on a writer whose plan neither purges nor replaces leaves its
\* unlisted subscriptions alone.
LEMMA CommandShows ==
    ASSUME TInv, PlansStated, ReplacesFit, UnlistedShown, NEW a \in pending,
           SendDelete(a) \/ SendLast(a), NEW w \in Planned \cap Present,
           ~plans[w].desired.purge, NEW t \in Typeids \ Wanted(plans[w].desired)
    PROVE  HasSub(device'[w], t) <=> HasSub(device[w], t)
<1> USE DEF TInv
<1>1. /\ current \in Planned /\ current \in Writers /\ current # None
      /\ a \in plans[current].actions /\ a \in Actions /\ a \in First(pending)
      /\ w \in Writers
  BY DEF SendDelete, SendLast, WritesFit, TypeOK, Planned
<1>2. CASE device'[w] = device[w]
  BY <1>2
<1>3. CASE device[w] # None /\ device'[w] # None /\ device'[w] # device[w]
  <2>1. SameUnlisted(task.entries[w], device[w], device'[w])
    BY <1>1, <1>3, CommandUnlisted
  <2>2. plans[w].desired = task.entries[w]
    BY DEF PlansFit, Present
  <2> QED
    BY <1>3, <2>1, <2>2 DEF SameUnlisted, HasSub, Wanted
<1>4. CASE device'[w] # device[w] /\ (device[w] = None \/ device'[w] = None)
  <2>1. w = current
    BY <1>1, <1>4 DEF SendDelete, SendLast, Write, TypeOK
  <2>2. device[w] \in MaybeObject /\ plans[w].desired \in Entries
    BY <1>1 DEF TypeOK, MaybeObject, Planned, WriterPlans
  <2>3. \/ a.kind \in ReplaceKinds /\ device'[w] = Deleted(device[w], a)
        \/ device'[w] = Applied(w, plans[w].desired, device[w], a)
    BY <1>1, <1>4, <2>1 DEF SendDelete, SendLast, Write, TypeOK
  <2>4. a.kind \notin {"writer_replace", "writer_delete"}
    <3>1. a.kind \in WriterKinds => a = Act(a.kind)
      BY <1>1, ActionForms
    <3>2. Act("writer_replace") \notin plans[w].actions
      BY DEF UnlistedShown
    <3>3. Act("writer_delete") \notin plans[w].actions
      BY DEF ReplacesFit
    <3> QED
      BY <1>1, <2>1, <3>1, <3>2, <3>3 DEF WriterKinds
  <2>5. CASE device[w] = None
    <3>1. device'[w] = Created(w, plans[w].desired)
      BY <1>4, <2>3, <2>4, <2>5
      DEF Deleted, Applied, Initialised, Assigned, ReplaceKinds
    <3> QED
      BY <2>5, <3>1 DEF HasSub, Created, NoSubs
  <2>6. CASE device[w] # None
    <3>1. a.kind \in {"subscription_create", "subscription_replace",
                      "subscription_update"} => a.typeid \in Wanted(plans[w].desired)
      BY <1>1, <2>1 DEF PlansFit
    <3>2. device'[w] # None
      BY <1>1, <2>2, <2>3, <2>4, <2>6, <3>1, CommandKeepsWriter
      DEF MaybeObject, ReplaceKinds
    <3> QED
      BY <1>4, <2>6, <3>2
  <2> QED
    BY <2>5, <2>6
<1> QED
  BY <1>2, <1>3, <1>4

\* So the invariant holds after every command.
LEMMA CommandDiff ==
    ASSUME TInv, SafeInv, PlansStated, ReplacesFit, UnlistedShown, PurgedGone,
           NEW a \in pending, SendDelete(a) \/ SendLast(a)
    PROVE  UnlistedShown' /\ PurgedGone'
<1> USE DEF TInv, SafeInv
<1>1. /\ UNCHANGED <<task, phase, plans, verified>>
      /\ current # None /\ phase \in {"apply", "delete"}
      /\ phase = "apply" <=> current \in Present
  BY DEF SendDelete, SendLast, WritesFit
<1>2. \A v \in Writers : v # current => device'[v] = device[v]
  BY DEF SendDelete, SendLast, Write, TypeOK
<1>3. Planned' = Planned /\ Present' = Present /\ Present \subseteq Writers
  BY <1>1, PlansKept DEF Present, Named
<1>4. UnlistedShown'
  <2> SUFFICES ASSUME NEW w \in Planned \cap Present, ~plans[w].desired.purge
               PROVE  /\ Act("writer_replace") \notin plans[w].actions
                      /\ \A t \in Typeids \ Wanted(plans[w].desired) :
                            HasSub(device'[w], t)
                               <=> plans[w].actual.obj.subs[t] # None
    BY <1>1, <1>3 DEF UnlistedShown
  <2>1. \A t \in Typeids \ Wanted(plans[w].desired) :
           HasSub(device'[w], t) <=> HasSub(device[w], t)
    BY CommandShows
  <2> QED
    BY <2>1 DEF UnlistedShown
<1>5. verified # {} => current \notin Present
  BY <1>1 DEF VerifiedInPlace
<1>6. PurgedGone'
  BY <1>1, <1>2, <1>3, <1>5 DEF PurgedGone
<1> QED
  BY <1>4, <1>6

\* A writer that is read back by an answered read has nothing unlisted left, if
\* its entry purges.
LEMMA VerifyingDiff ==
    ASSUME TInv, UnlistedShown, PurgedGone, NEW w \in Writers,
           VerifyWriter(w) \/ VerifyDeleted(w), lost = 0, lost' = 0,
           UNCHANGED <<task, device, plans>>
    PROVE  UnlistedShown' /\ PurgedGone'
<1>1. Planned' = Planned /\ Present' = Present
  BY PlansKept
<1>2. PICK x \in read_actual(device[w]) :
         /\ Lose(x.lost)
         /\ \/ verified' = verified \cup {w} /\ verify(w, plans[w].desired, x.read)
            \/ verified' \subseteq verified
  BY DEF VerifyWriter, VerifyDeleted, EndRun
<1>3. x.read = Shown(device[w])
  <2>1. device[w] \in MaybeObject
    BY DEF TInv, TypeOK, MaybeObject
  <2>2. x.lost = 0
    BY <1>2, <2>1, ReadTyped, LostBefore DEF TInv
  <2> QED
    BY <2>1, <2>2, AnsweredReadIsTheObject DEF Shown
<1>4. ASSUME w \in Present, plans[w].desired.purge,
             verify(w, plans[w].desired, x.read),
             NEW t \in Typeids \ Wanted(plans[w].desired)
      PROVE  ~HasSub(device[w], t)
  <2>1. w \in Planned
    BY DEF VerifyWriter, VerifyDeleted, TInv, WritesFit
  <2>2. plans[w].desired.state = "present"
    BY <1>4, <2>1 DEF TInv, PlansFit, Present
  <2> QED
    BY <1>3, <1>4, <2>2 DEF verify, Shown, AbsentRead, HasSub
<1>5. PurgedGone'
  BY <1>1, <1>2, <1>4 DEF PurgedGone
<1> QED
  BY <1>1, <1>5 DEF UnlistedShown

\* One step for every action of the specification.
LEMMA StepDiff ==
    ASSUME MovesPurge, TInv, SafeInv, PlansStated, ReplacesFit, DiffInv, [Next]_vars
    PROVE  DiffInv'
<1> USE DEF TInv
<1> SUFFICES ASSUME lost' = 0, ~\E how : EndRun(how) PROVE DiffInv'
  BY EndRunDiff DEF DiffInv
<1>1. lost = 0
  <2>1. \A n \in Nat : Lose(n) => lost = 0
    BY LostBefore
  <2>2. \A w \in Writers : \A x \in read_actual(device[w]) : x.lost \in Nat
    BY ReadTyped DEF TypeOK, MaybeObject
  <2>3. \/ lost' = lost \/ \E n \in {0, 1} : Lose(n)
        \/ \E w \in Writers : \E x \in read_actual(device[w]) : Lose(x.lost)
    BY DEF Next, Proceed, Command, StartRun, PlanWriter, PlanPurged, TakeWriter,
           SendDelete, SendLast, VerifyWriter, VerifyDeleted, FindUnmanaged,
           PlanRotation, ReadRotation, FailBlocked, ExitUnwritten, BeginApply,
           ApplyRotation, VerifyRotation, HoldDeletes, BeginDeletes, DeletesSent,
           Finish, SessionDies, vars, faults
  <2> QED
    BY <2>1, <2>2, <2>3
<1>2. UnlistedShown /\ PurgedGone /\ ChangedVerified
  BY <1>1 DEF DiffInv
<1>3. UnlistedShown' /\ PurgedGone'
  <2>1. ASSUME NEW w \in Writers, PlanWriter(w) \/ PlanPurged(w)
        PROVE  UnlistedShown' /\ PurgedGone'
    BY <1>1, <1>2, <2>1, PlanningDiff
  <2>2. ASSUME NEW a \in pending, SendDelete(a) \/ SendLast(a)
        PROVE  UnlistedShown' /\ PurgedGone'
    BY <1>2, <2>2, CommandDiff
  <2>3. ASSUME NEW w \in Writers, VerifyWriter(w) \/ VerifyDeleted(w)
        PROVE  UnlistedShown' /\ PurgedGone'
    <3>1. UNCHANGED <<task, device, plans>>
      BY <2>3 DEF VerifyWriter, VerifyDeleted, deviceVars
    <3> QED
      BY <1>1, <1>2, <2>3, <3>1, VerifyingDiff
  <2>4. CASE UNCHANGED <<task, device, plans, verified>>
    BY <1>2, <2>4, DiffKept
  <2>5. \/ UNCHANGED <<task, device, plans, verified>>
        \/ \E w \in Writers : PlanWriter(w) \/ PlanPurged(w)
        \/ \E w \in Writers : VerifyWriter(w) \/ VerifyDeleted(w)
        \/ \E a \in pending : SendDelete(a) \/ SendLast(a)
    BY DEF Next, Proceed, Command, StartRun, TakeWriter, FindUnmanaged,
           PlanRotation, FailBlocked, ExitUnwritten, BeginApply, ApplyRotation,
           VerifyRotation, HoldDeletes, BeginDeletes, DeletesSent, Finish,
           SessionDies, vars, runVars, deviceVars
  <2> QED
    BY <2>1, <2>2, <2>3, <2>4, <2>5
<1>4. ChangedVerified'
  <2>1. CASE BeginDeletes
    <3>1. Present' = Present
      BY <2>1, PlansKept DEF BeginDeletes
    <3> QED
      BY <1>2, <2>1, <3>1
      DEF BeginDeletes, ChangedVerified, SafeInv, VerifiedInPlace, changed
  <2>2. CASE /\ phase' \in {"delete", "verify_delete"} => phase \in {"delete", "verify_delete"}
             /\ UNCHANGED <<task, plans>> /\ verified \subseteq verified'
             /\ phase' # "idle" => outcome' = "running" \/ (phase # "idle" /\ outcome' = outcome)
    <3>1. Present' = Present
      BY <2>2, PlansKept
    <3> QED
      BY <1>2, <2>2, <3>1 DEF ChangedVerified, changed
  <2>3. CASE /\ phase' \in {"plan", "purge"}
             /\ outcome' = outcome /\ phase # "idle"
    BY <1>2, <2>3 DEF ChangedVerified
  <2> QED
    BY <2>1, <2>2, <2>3
    DEF Next, Proceed, Command, StartRun, PlanWriter, PlanPurged, TakeWriter,
        SendDelete, SendLast, VerifyWriter, VerifyDeleted, FindUnmanaged,
        PlanRotation, FailBlocked, ExitUnwritten, BeginApply, ApplyRotation,
        VerifyRotation, HoldDeletes, DeletesSent, Finish, SessionDies,
        vars, runVars
<1> QED
  BY <1>3, <1>4 DEF DiffInv

\* A present writer that a verified run has read back holds what the diff of
\* its plan shows, no more and no less.
LEMMA VerifiedShows ==
    ASSUME TInv, SafeInv, DiffInv, lost = 0, phase = "verify_delete",
           NEW w \in creating, changed(w)
    PROVE  render_state(plans[w]) = {t \in Typeids : device[w].subs[t] # None}
<1>1. /\ w \in Planned \cap Present /\ w \in Writers
      /\ plans[w].desired = task.entries[w]
  BY DEF creating, Planned, TInv, PlansFit, Present, PurgeEntry
<1>2. w \in verified
  BY <1>1 DEF DiffInv, ChangedVerified
<1>3. /\ device[w] # None
      /\ \A t \in Wanted(plans[w].desired) : device[w].subs[t] # None
  BY <1>1 DEF SafeInv, CutoverSafe, Ready, InPlace, Holds
<1>4. CASE plans[w].desired.purge
  <2>1. \A t \in Typeids \ Wanted(plans[w].desired) : device[w].subs[t] = None
    BY <1>1, <1>2, <1>3, <1>4 DEF DiffInv, PurgedGone, HasSub
  <2> QED
    BY <1>3, <1>4, <2>1 DEF render_state, Wanted
<1>5. CASE ~plans[w].desired.purge
  <2>1. \A t \in Typeids \ Wanted(plans[w].desired) :
           device[w].subs[t] # None <=> plans[w].actual.obj.subs[t] # None
    BY <1>1, <1>3, <1>5 DEF DiffInv, UnlistedShown, HasSub
  <2> QED
    BY <1>3, <1>5, <2>1 DEF render_state, Wanted
<1> QED
  BY <1>4, <1>5

\* Where every planning read was answered and a replace only ever meets an
\* entry that purges, the subscriptions the diff announces are those the device
\* holds when the run ends verified (render_state, modules/logs.py: the diff).
THEOREM DiffSound == MovesPurge => (Spec /\ [](lost = 0) => DiffComesTrue)
<1> SUFFICES ASSUME MovesPurge PROVE Spec /\ [](lost = 0) => DiffComesTrue
  OBVIOUS
<1>1. Init => DiffInv /\ PlansStated /\ ReplacesFit
  <2> SUFFICES ASSUME Init PROVE PlansStated /\ ReplacesFit
    BY InitDiff
  <2>1. Planned = {}
    BY DEF Init, IdleRun, Planned, NoPlans
  <2> QED
    BY <2>1 DEF Init, IdleRun, PlansStated, ReplacesFit
<1>2. IInv /\ PlansStated /\ ReplacesFit /\ DiffInv /\ [Next]_vars
         => (PlansStated /\ ReplacesFit /\ DiffInv)'
  BY StepDiff, StepStated, StepReplaces DEF IInv, TInv, SafeInv
<1>3. IInv /\ DiffInv /\ lost = 0 /\ [Next]_vars
         => [outcome' = "verified" /\ phase # "idle" =>
               \A w \in creating : changed(w) =>
                  render_state(plans[w])
                     = {t \in Typeids : device[w].subs[t] # None}]_vars
  <2> SUFFICES ASSUME IInv, DiffInv, lost = 0, Next,
                      outcome' = "verified", phase # "idle",
                      NEW w \in creating, changed(w)
               PROVE  render_state(plans[w])
                         = {t \in Typeids : device[w].subs[t] # None}
    OBVIOUS
  <2>1. outcome = "running"
    BY DEF DiffInv, ChangedVerified
  <2>2. phase = "verify_delete"
    BY <2>1
    DEF Next, Proceed, Command, StartRun, PlanWriter, PlanPurged, TakeWriter,
        SendDelete, SendLast, VerifyWriter, VerifyDeleted, FindUnmanaged,
        PlanRotation, FailBlocked, ExitUnwritten, BeginApply, ApplyRotation,
        VerifyRotation, HoldDeletes, BeginDeletes, DeletesSent, Finish,
        SessionDies, EndRun
  <2> QED
    BY <2>2, VerifiedShows DEF IInv, TInv, SafeInv
<1> QED
  BY <1>1, <1>2, <1>3, Inductive, PTL DEF Spec, DiffComesTrue

===============================================================================
