--------------------------- MODULE DevicePlanProofs ---------------------------
(***************************************************************************)
(* DevicePlan for every set of writers, subscriptions and values, every    *)
(* task and every bound on the faults: its variables keep their types, a   *)
(* run reaches its deletes only with every present writer in place, it     *)
(* implements Cutover, and it deletes and overwrites only what the task    *)
(* says.                                                                   *)
(***************************************************************************)
EXTENDS DevicePlan, LogWritersProofs

\* Every entry the task holds, and the one a purge makes up, is an entry.
LEMMA EntriesTyped ==
    ASSUME task \in Tasks
    PROVE  /\ task.rotation \in Values \cup {None}
           /\ PurgeEntry \in Entries
           /\ \A w \in Named : /\ w \in Writers
                               /\ task.entries[w] \in Entries
                               /\ ValidEntry(w, task.entries[w])
<1>1. task \in TaskSet
  BY TaskAssumption
<1>2. task.rotation \in Values \cup {None}
  BY <1>1 DEF TaskSet
<1>3. PurgeEntry \in Entries
  BY DEF PurgeEntry, Entries, NoSubs
<1>4. \A w \in Named : w \in Writers /\ task.entries[w] \in Entries
  BY <1>1 DEF Named, TaskSet
<1>5. \A w \in Named : ValidEntry(w, task.entries[w])
  BY TaskAssumption DEF Named
<1> QED
  BY <1>2, <1>3, <1>4, <1>5

\* The part of the invariant that keeps the types is about types and about
\* plans that fit their entries.
TInv == TypeOK /\ PlansFit /\ AllPlanned /\ WritesFit

\* An initial state is typed: no run is under way.
LEMMA TypedInit == Init => TypeOK
<1> SUFFICES ASSUME Init PROVE TypeOK
  OBVIOUS
<1>1. device \in [Writers -> Objects \cup {None}]
  BY TaskAssumption DEF Init
<1>2. plans \in [Writers -> WriterPlans \cup {None}]
  BY DEF Init, IdleRun, NoPlans
<1>3. rotation \in Values \cup {None}
  BY TaskAssumption DEF Init
<1>4. ignored \in 0..MaxIgnored /\ lost \in 0..MaxLost /\ drops \in 0..MaxDrops
  BY TaskAssumption DEF Init
<1> QED
  BY <1>1, <1>2, <1>3, <1>4
  DEF TypeOK, Init, IdleRun, Phases, Outcomes

\* With no run under way there are no plans to say anything of.
LEMMA InitTInv == Init => TInv
<1> SUFFICES ASSUME Init PROVE TInv
  OBVIOUS
<1>1. Planned = {}
  BY DEF Init, IdleRun, Planned, NoPlans
<1> QED
  BY <1>1, TypedInit
  DEF TInv, PlansFit, AllPlanned, WritesFit, AfterPlanning, Init, IdleRun

\* The end of a run leaves no plans, so nothing is left to say of them.
LEMMA EndRunTInv ==
    ASSUME TInv, NEW how \in Outcomes, EndRun(how),
           ignored' \in 0..MaxIgnored, lost' \in 0..MaxLost, drops' \in 0..MaxDrops
    PROVE  TInv'
<1>1. Planned' = {}
  BY DEF EndRun, Planned, NoPlans
<1>2. plans' \in [Writers -> WriterPlans \cup {None}]
  BY DEF EndRun, NoPlans
<1>3. TypeOK'
  BY <1>2 DEF TInv, TypeOK, EndRun, deviceVars, Phases
<1> QED
  BY <1>1, <1>3
  DEF TInv, PlansFit, AllPlanned, WritesFit, AfterPlanning, EndRun

\* A write of a typed object, taken or ignored, keeps the device typed.
LEMMA WriteTyped ==
    ASSUME TypeOK, NEW new \in MaybeObject, current # None, Write(new)
    PROVE  /\ device' \in [Writers -> Objects \cup {None}]
           /\ rotation' \in Values \cup {None}
           /\ ignored' \in 0..MaxIgnored
           /\ \A w \in Writers : w # current => device'[w] = device[w]
           /\ device'[current] \in {device[current], new}
<1>1. current \in Writers
  BY DEF TypeOK
<1>2. MaxIgnored \in Nat
  BY TaskAssumption
<1> QED
  BY <1>1, <1>2 DEF Write, TypeOK, MaybeObject

\* Unanswered commands stay within their bound.
LEMMA LoseTyped ==
    ASSUME TypeOK, NEW n \in Nat, Lose(n)
    PROVE  lost' \in 0..MaxLost
<1>1. MaxLost \in Nat
  BY TaskAssumption
<1> QED
  BY <1>1 DEF TypeOK, Lose

\* Reading a writer and planning it, for an entry of the task or for a purge.
LEMMA PlanningTInv ==
    ASSUME TInv, NEW w \in Writers, PlanWriter(w) \/ PlanPurged(w)
    PROVE  TInv'
<1> USE DEF TInv
<1>1. device[w] \in MaybeObject
  BY DEF TypeOK, MaybeObject
<1>2. ASSUME NEW e \in Entries, NEW imm, NEW x \in read_actual(device[w]),
             phase \in {"plan", "purge"}, w \in todo,
             e = (IF w \in Named THEN task.entries[w] ELSE PurgeEntry),
             w \notin Named => w \in Purgeable,
             Lose(x.lost),
             plans' = [plans EXCEPT ![w] =
                         [desired |-> e, actual |-> x.read,
                          actions |-> _plan_writer(w, e, x.read, imm)]],
             todo' = todo \ {w},
             UNCHANGED <<task, deviceVars, phase, check_mode, rotation_plan,
                         current, pending, half, failures, verified, outcome,
                         ignored, drops>>
      PROVE  TInv'
  <2> DEFINE p == [desired |-> e, actual |-> x.read,
                   actions |-> _plan_writer(w, e, x.read, imm)]
  <2>1. x.read \in Reads /\ x.lost \in Nat
    BY <1>1, ReadTyped
  <2>2. /\ p.actions \in SUBSET Actions
        /\ \A a \in p.actions :
              a.kind \in {"subscription_create", "subscription_replace",
                          "subscription_update"} => a.typeid \in Wanted(e)
        /\ e.state = "absent" => p.actions \subseteq {Act("writer_delete")}
    BY <2>1, PlanTyped
  <2>3. p \in WriterPlans
    BY <2>1, <2>2 DEF WriterPlans
  <2>4. p # None
    BY <2>3, NoPlanAssumption
  <2>5. plans' \in [Writers -> WriterPlans \cup {None}]
    BY <1>2, <2>3 DEF TypeOK
  <2>6. TypeOK'
    BY <1>2, <2>1, <2>5, LoseTyped DEF TypeOK, deviceVars
  <2>7. /\ plans'[w] = p
        /\ \A v \in Writers : v # w => plans'[v] = plans[v]
        /\ Planned' = Planned \cup {w}
    BY <1>2, <2>4 DEF TypeOK, Planned
  <2>8. Named' = Named /\ Present' = Present /\ Purgeable' = Purgeable
    BY <1>2
    DEF Named, Present, Purgeable, in_purge_scope, managed_types
  <2>9. w \notin Present => e.state = "absent"
    BY <1>2 DEF Present, PurgeEntry, Entries
  <2> HIDE DEF p
  <2>10. PlansFit'
    <3> SUFFICES ASSUME NEW v \in Planned'
                 PROVE  /\ plans'[v].desired =
                             IF v \in Named THEN task.entries[v] ELSE PurgeEntry
                        /\ v \notin Named => v \in Purgeable
                        /\ v \notin Present =>
                              plans'[v].actions \subseteq {Act("writer_delete")}
                        /\ \A a \in plans'[v].actions :
                              a.kind \in {"subscription_create",
                                          "subscription_replace",
                                          "subscription_update"}
                                 => a.typeid \in Wanted(plans'[v].desired)
      BY <1>2, <2>8 DEF PlansFit
    <3>1. CASE v = w
      BY <1>2, <2>2, <2>7, <2>9, <3>1 DEF p
    <3>2. CASE v # w
      BY <2>7, <3>2 DEF PlansFit, Planned
    <3> QED
      BY <3>1, <3>2
  <2>11. AllPlanned'
    BY <1>2, <2>7, <2>8 DEF AllPlanned, AfterPlanning
  <2>12. WritesFit'
    BY <1>2, <2>8 DEF WritesFit
  <2> QED
    BY <2>6, <2>10, <2>11, <2>12
<1>3. CASE PlanWriter(w)
  <2>1. w \in Named
    BY <1>3 DEF PlanWriter, AllPlanned
  <2>2. task.entries[w] \in Entries
    BY <2>1, EntriesTyped DEF TypeOK
  <2> QED
    BY <1>2, <1>3, <2>1, <2>2 DEF PlanWriter
<1>4. CASE PlanPurged(w)
  <2>1. w \in Purgeable /\ w \notin Named
    BY <1>4 DEF PlanPurged, AllPlanned, Purgeable
  <2>2. PurgeEntry \in Entries
    BY EntriesTyped DEF TypeOK
  <2> QED
    BY <1>2, <1>4, <2>1, <2>2 DEF PlanPurged
<1> QED
  BY <1>3, <1>4

\* What is said of plans stays true of plans that stay.
LEMMA PlansKept ==
    ASSUME TInv, UNCHANGED <<task, plans>>
    PROVE  /\ Named' = Named /\ Present' = Present /\ Purgeable' = Purgeable
           /\ Planned' = Planned /\ PlansFit'
<1>1. Named' = Named /\ Present' = Present /\ Purgeable' = Purgeable
  BY DEF Named, Present, Purgeable, in_purge_scope, managed_types
<1>2. Planned' = Planned
  BY DEF Planned
<1> QED
  BY <1>1, <1>2 DEF TInv, PlansFit

\* A present writer that is changed is planned, and so is a retiring one; each
\* is of the kind its phase handles.
LEMMA PhaseWriters ==
    ASSUME TInv
    PROVE  /\ phase \in AfterPlanning => creating = Present
           /\ creating \subseteq Present \cap Planned
           /\ deleting \subseteq Planned \ Present
<1> USE DEF TInv
<1>1. \A w \in Planned \cap Named : plans[w].desired = task.entries[w]
  BY DEF PlansFit
<1>2. \A w \in Planned \ Named : plans[w].desired.state = "absent"
  BY DEF PlansFit, PurgeEntry
<1>3. \A w \in Named : task.entries[w].state \in {"present", "absent"}
  BY EntriesTyped DEF TypeOK, Entries
<1>4. Present \subseteq Named /\ creating \subseteq Planned /\ deleting \subseteq Planned
  BY DEF Present, creating, deleting
<1> QED
  BY <1>1, <1>2, <1>3, <1>4 DEF creating, deleting, AllPlanned, Present

\* The commands of a plan: what is sent is typed, and the rest still fits.
LEMMA CommandTInv ==
    ASSUME TInv, NEW a \in pending, SendDelete(a) \/ SendLast(a)
    PROVE  TInv'
<1> USE DEF TInv
<1>1. /\ current \in Writers /\ current # None /\ current \in Planned
      /\ a \in plans[current].actions /\ a \in Actions
      /\ phase \in {"apply", "delete"}
  BY DEF SendDelete, SendLast, WritesFit, TypeOK
<1>2. plans[current].desired \in Entries
  BY <1>1 DEF TypeOK, Planned, WriterPlans
<1>3. device[current] \in MaybeObject
  BY <1>1 DEF TypeOK, MaybeObject
<1>4. /\ a.kind \in ReplaceKinds => Deleted(device[current], a) \in MaybeObject
      /\ Applied(current, plans[current].desired, device[current], a) \in MaybeObject
  <2>1. a.kind \in {"subscription_create", "subscription_replace",
                    "subscription_update"}
           => a.typeid \in Wanted(plans[current].desired)
    BY <1>1 DEF PlansFit
  <2> QED
    BY <1>1, <1>2, <1>3, <2>1, CommandTyped
<1>5. PICK new \in MaybeObject : Write(new)
  BY <1>4 DEF SendDelete, SendLast
<1>6. /\ device' \in [Writers -> Objects \cup {None}]
      /\ rotation' \in Values \cup {None}
      /\ ignored' \in 0..MaxIgnored
  BY <1>1, <1>5, WriteTyped
<1>7. UNCHANGED <<task, phase, check_mode, todo, plans, rotation_plan, failures,
                  verified, outcome, lost, drops>>
  BY DEF SendDelete, SendLast
<1>8. /\ pending' \subseteq pending /\ half' \in BOOLEAN
      /\ current' \in {current, None}
  <2>1. CASE SendDelete(a)
    BY <2>1 DEF SendDelete
  <2>2. CASE SendLast(a)
    BY <2>2 DEF SendLast
  <2> QED
    BY <2>1, <2>2
<1>9. TypeOK'
  BY <1>6, <1>7, <1>8 DEF TypeOK
<1>10. PlansFit' /\ Named' = Named /\ Present' = Present
       /\ Purgeable' = Purgeable /\ Planned' = Planned
  BY <1>7, PlansKept
<1>11. AllPlanned'
  BY <1>7, <1>10 DEF AllPlanned
<1>12. WritesFit'
  BY <1>7, <1>8, <1>10 DEF WritesFit
<1> QED
  BY <1>9, <1>10, <1>11, <1>12

\* One step for every action of the specification.
LEMMA StepTInv == TInv /\ [Next]_vars => TInv'
<1> SUFFICES ASSUME TInv, [Next]_vars PROVE TInv'
  OBVIOUS
<1> USE DEF TInv
<1>1. MaxIgnored \in Nat /\ MaxLost \in Nat /\ MaxDrops \in Nat
  BY TaskAssumption
<1>2. ASSUME NEW mode \in BOOLEAN, StartRun(mode) PROVE TInv'
  <2>1. PlansFit' /\ Named' = Named /\ Present' = Present /\ Planned' = Planned
    BY <1>2, PlansKept DEF StartRun
  <2>2. current = None
    BY <1>2 DEF StartRun, WritesFit
  <2> QED
    BY <1>2, <2>1, <2>2
    DEF StartRun, TypeOK, AllPlanned, WritesFit, AfterPlanning, deviceVars,
        faults, Named, Phases, Outcomes
<1>3. ASSUME NEW w \in Writers, PlanWriter(w) \/ PlanPurged(w) PROVE TInv'
  BY <1>3, PlanningTInv
<1>4. ASSUME NEW w \in Writers, TakeWriter(w) PROVE TInv'
  <2>1. PlansFit' /\ Named' = Named /\ Present' = Present /\ Planned' = Planned
    BY <1>4, PlansKept DEF TakeWriter
  <2>2. w \in Planned /\ plans[w].actions \subseteq Actions
    BY <1>4 DEF TakeWriter, WritesFit, TypeOK, Planned, WriterPlans
  <2> QED
    BY <1>4, <2>1, <2>2
    DEF TakeWriter, TypeOK, AllPlanned, WritesFit, AfterPlanning, deviceVars, faults
<1>5. ASSUME NEW w \in Writers, VerifyWriter(w) PROVE TInv'
  <2>1. PlansFit' /\ Named' = Named /\ Present' = Present /\ Planned' = Planned
    BY <1>5, PlansKept DEF VerifyWriter
  <2>2. lost' \in 0..MaxLost
    <3>1. device[w] \in MaybeObject
      BY DEF TypeOK, MaybeObject
    <3> QED
      BY <1>5, <3>1, ReadTyped, LoseTyped DEF VerifyWriter
  <2>3. /\ verified' \subseteq Writers /\ failures' \in BOOLEAN
        /\ todo' \subseteq todo
    BY <1>5 DEF VerifyWriter, TypeOK
  <2> QED
    BY <1>5, <2>1, <2>2, <2>3
    DEF VerifyWriter, TypeOK, AllPlanned, WritesFit, AfterPlanning, deviceVars
<1>6. ASSUME NEW w \in Writers, VerifyDeleted(w) PROVE TInv'
  <2>1. lost' \in 0..MaxLost
    <3>1. device[w] \in MaybeObject
      BY DEF TypeOK, MaybeObject
    <3> QED
      BY <1>6, <3>1, ReadTyped, LoseTyped DEF VerifyDeleted
  <2>2. CASE EndRun("delete_failed")
    BY <1>6, <2>1, <2>2, EndRunTInv DEF VerifyDeleted, Outcomes, TypeOK
  <2>3. CASE /\ verified' = verified \cup {w}
             /\ todo' = todo \ {w}
             /\ UNCHANGED <<task, deviceVars, phase, check_mode, plans,
                            rotation_plan, current, pending, half,
                            failures, outcome>>
    <3>1. PlansFit' /\ Named' = Named /\ Present' = Present /\ Planned' = Planned
      BY <2>3, PlansKept
    <3> QED
      BY <1>6, <2>1, <2>3, <3>1
      DEF VerifyDeleted, TypeOK, AllPlanned, WritesFit, AfterPlanning, deviceVars
  <2> QED
    BY <1>6, <2>2, <2>3 DEF VerifyDeleted
<1>7. CASE FindUnmanaged
  <2>1. PlansFit' /\ Named' = Named /\ Present' = Present /\ Planned' = Planned
        /\ Purgeable' = Purgeable
    BY <1>7, PlansKept DEF FindUnmanaged
  <2>2. lost' \in 0..MaxLost
    BY <1>7, LoseTyped DEF FindUnmanaged, TypeOK
  <2>3. todo' \subseteq Purgeable /\ Purgeable \subseteq Writers
    BY <1>7 DEF FindUnmanaged, Purgeable
  <2>4. Named \subseteq Planned /\ current = None
    BY <1>7 DEF FindUnmanaged, AllPlanned, WritesFit
  <2> QED
    BY <1>7, <2>1, <2>2, <2>3, <2>4
    DEF FindUnmanaged, TypeOK, AllPlanned, WritesFit, AfterPlanning, deviceVars,
        Phases
<1>8. CASE PlanRotation
  <2>1. PlansFit' /\ Named' = Named /\ Present' = Present /\ Planned' = Planned
    BY <1>8, PlansKept DEF PlanRotation
  <2>2. lost' \in 0..MaxLost /\ rotation_plan' \in {"none", "set", "blocked"}
    BY <1>8, LoseTyped DEF PlanRotation, ReadRotation, plan_rotation
  <2>3. Named \subseteq Planned /\ current = None
    BY <1>8 DEF PlanRotation, AllPlanned, WritesFit
  <2> QED
    BY <1>8, <2>1, <2>2, <2>3
    DEF PlanRotation, TypeOK, AllPlanned, WritesFit, AfterPlanning, deviceVars,
        Phases
<1>9. CASE FailBlocked \/ ExitUnwritten \/ HoldDeletes \/ Finish
  BY <1>9, EndRunTInv
  DEF FailBlocked, ExitUnwritten, HoldDeletes, Finish, Outcomes, faults, TypeOK
<1>10. CASE SessionDies
  BY <1>1, <1>10, EndRunTInv DEF SessionDies, Outcomes, TypeOK
<1>11. CASE BeginApply \/ ApplyRotation \/ VerifyRotation \/ BeginDeletes
            \/ DeletesSent
  <2>1. PlansFit' /\ Named' = Named /\ Present' = Present /\ Planned' = Planned
    BY <1>11, PlansKept
    DEF BeginApply, ApplyRotation, VerifyRotation, BeginDeletes, DeletesSent
  <2>2. current = None
    BY <1>11
    DEF BeginApply, ApplyRotation, VerifyRotation, BeginDeletes, DeletesSent,
        WritesFit
  <2>3. /\ creating \subseteq Present \cap Planned
        /\ deleting \subseteq Planned \ Present
        /\ Planned \subseteq Writers
    BY PhaseWriters DEF Planned
  <2>4. Named \subseteq Planned
    BY <1>11
    DEF BeginApply, ApplyRotation, VerifyRotation, BeginDeletes, DeletesSent,
        AllPlanned, AfterPlanning
  <2>5. CASE BeginApply \/ BeginDeletes \/ DeletesSent
    BY <2>1, <2>2, <2>3, <2>4, <2>5
    DEF BeginApply, BeginDeletes, DeletesSent, TypeOK, AllPlanned, WritesFit,
        AfterPlanning, deviceVars, faults, Phases
  <2>6. CASE ApplyRotation
    <3>1. rotation' \in Values \cup {None} /\ ignored' \in 0..MaxIgnored
      BY <1>1, <2>6, EntriesTyped DEF ApplyRotation, TypeOK
    <3> QED
      BY <2>1, <2>2, <2>3, <2>4, <2>6, <3>1
      DEF ApplyRotation, TypeOK, AllPlanned, WritesFit, AfterPlanning, Phases
  <2>7. CASE VerifyRotation
    <3>1. lost' \in 0..MaxLost /\ failures' \in BOOLEAN
      BY <2>7, LoseTyped DEF VerifyRotation, ReadRotation, TypeOK
    <3> QED
      BY <2>1, <2>2, <2>3, <2>4, <2>7, <3>1
      DEF VerifyRotation, TypeOK, AllPlanned, WritesFit, AfterPlanning,
          deviceVars, Phases
  <2> QED
    BY <1>11, <2>5, <2>6, <2>7
<1>12. ASSUME NEW a \in pending, SendDelete(a) \/ SendLast(a) PROVE TInv'
  BY <1>12, CommandTInv
<1>13. CASE UNCHANGED vars
  <2>1. PlansFit' /\ Named' = Named /\ Present' = Present /\ Planned' = Planned
        /\ Purgeable' = Purgeable
    BY <1>13, PlansKept DEF vars, runVars
  <2> QED
    BY <1>13, <2>1
    DEF vars, runVars, deviceVars, faults, TypeOK, AllPlanned, WritesFit
<1> QED
  BY <1>2, <1>3, <1>4, <1>5, <1>6, <1>7, <1>8, <1>9, <1>10, <1>11, <1>12, <1>13
  DEF Next, Proceed, Command

(***************************************************************************)
(* The cut-over.                                                           *)
(***************************************************************************)
SafeInv == ConvergedInPlace /\ VerifiedInPlace /\ CutoverSafe

\* A run that has ended holds no plans, so it keeps every promise about them.
LEMMA EndRunSafe ==
    ASSUME NEW how, EndRun(how)
    PROVE  SafeInv'
<1>1. Planned' = {}
  BY DEF EndRun, Planned, NoPlans
<1> QED
  BY <1>1
  DEF EndRun, SafeInv, ConvergedInPlace, VerifiedInPlace, CutoverSafe,
      AfterPlanning

\* A writer nobody touches stays in place.
LEMMA InPlaceKept ==
    ASSUME NEW w, task' = task, device'[w] = device[w]
    PROVE  InPlace(w)' <=> InPlace(w)
  BY DEF InPlace

\* A step that leaves the device and the plans alone keeps what is said of
\* converged writers.
LEMMA ConvergedKept ==
    ASSUME TInv, SafeInv, UNCHANGED <<task, deviceVars, plans>>
    PROVE  /\ Named' = Named /\ Present' = Present /\ Planned' = Planned
           /\ \A w \in Writers : InPlace(w)' <=> InPlace(w)
           /\ \A w \in Writers : changed(w)' <=> changed(w)
           /\ RotationInPlace' <=> RotationInPlace
           /\ Ready' <=> Ready
           /\ \A w \in Planned \cap Present : ~changed(w) => InPlace(w)
           /\ Planned \subseteq Writers /\ Present \subseteq Writers
<1>1. Named' = Named /\ Present' = Present /\ Planned' = Planned
  BY PlansKept
<1>2. \A w \in Writers : InPlace(w)' <=> InPlace(w)
  BY InPlaceKept DEF deviceVars
<1>3. \A w \in Writers : changed(w)' <=> changed(w)
  BY DEF changed
<1>4. RotationInPlace' <=> RotationInPlace
  BY DEF RotationInPlace, deviceVars
<1>5. Planned \subseteq Writers /\ Present \subseteq Writers
  BY DEF Planned, Present, Named
<1>6. \A w \in Planned \cap Present : ~changed(w) => InPlace(w)
  BY DEF SafeInv, ConvergedInPlace
<1> QED
  BY <1>1, <1>2, <1>3, <1>4, <1>5, <1>6 DEF Ready

\* An empty plan made from any read of a named writer: it is in place.
LEMMA PlanningSafe ==
    ASSUME TInv, SafeInv, NEW w \in Writers, PlanWriter(w) \/ PlanPurged(w)
    PROVE  SafeInv'
<1> USE DEF TInv, SafeInv
<1>1. UNCHANGED <<task, deviceVars, phase, rotation_plan, failures, verified>>
      /\ phase \in {"plan", "purge"}
  BY DEF PlanWriter, PlanPurged
<1>2. /\ Named' = Named /\ Present' = Present
      /\ \A v \in Writers : InPlace(v)' <=> InPlace(v)
  BY <1>1, InPlaceKept DEF Named, Present, deviceVars
<1>3. \A v \in Writers : v # w => plans'[v] = plans[v]
  BY DEF PlanWriter, PlanPurged, TypeOK
<1>4. w \in Present /\ plans'[w].actions = {} => InPlace(w)
  <2> SUFFICES ASSUME w \in Present, plans'[w].actions = {} PROVE InPlace(w)
    OBVIOUS
  <2>1. w \in Named /\ task.entries[w].state = "present"
    BY DEF Present
  <2>2. PlanWriter(w)
    BY <2>1 DEF PlanPurged, AllPlanned, Purgeable
  <2>3. task.entries[w] \in Entries /\ ValidEntry(w, task.entries[w])
    BY <2>1, EntriesTyped DEF TypeOK
  <2>4. device[w] \in MaybeObject
    BY DEF TypeOK, MaybeObject
  <2>5. PICK x \in read_actual(device[w]) :
           plans' = [plans EXCEPT ![w] =
              [desired |-> task.entries[w], actual |-> x.read,
               actions |-> _plan_writer(w, task.entries[w], x.read,
                                        task.on_immutable_change)]]
    BY <2>2 DEF PlanWriter
  <2>6. _plan_writer(w, task.entries[w], x.read, task.on_immutable_change) = {}
    BY <2>5 DEF TypeOK
  <2> QED
    BY <2>1, <2>3, <2>4, <2>6, EmptyPlanHolds DEF InPlace
<1>5. \A v \in Planned' \cap Present' : ~changed(v)' => InPlace(v)'
  <2> SUFFICES ASSUME NEW v \in Planned' \cap Present', plans'[v].actions = {}
               PROVE  InPlace(v)
    BY <1>2 DEF changed, Planned
  <2>1. CASE v = w
    BY <1>2, <1>4, <2>1
  <2>2. CASE v # w
    BY <1>2, <1>3, <2>2 DEF ConvergedInPlace, Planned, changed
  <2> QED
    BY <2>1, <2>2
<1> QED
  BY <1>1, <1>2, <1>5
  DEF ConvergedInPlace, VerifiedInPlace, CutoverSafe, AfterPlanning

\* A command touches one writer: a changed present one before the read-back,
\* a retiring one after it.
LEMMA CommandSafe ==
    ASSUME TInv, SafeInv, NEW a \in pending, SendDelete(a) \/ SendLast(a)
    PROVE  SafeInv'
<1> USE DEF TInv, SafeInv
<1>1. /\ UNCHANGED <<task, phase, plans, rotation_plan, failures, verified, todo>>
      /\ UNCHANGED rotation
      /\ current # None /\ phase \in {"apply", "delete"}
      /\ (phase = "apply" <=> current \in Present)
      /\ changed(current)
  BY DEF SendDelete, SendLast, Write, WritesFit, changed
<1>2. \A v \in Writers : v # current => device'[v] = device[v]
  BY DEF SendDelete, SendLast, Write, TypeOK
<1>3. /\ Named' = Named /\ Present' = Present /\ Planned' = Planned
      /\ Present \subseteq Writers
  BY <1>1, PlansKept DEF Present, Named
<1>4. \A v \in Present : v # current => (InPlace(v)' <=> InPlace(v))
  BY <1>1, <1>2, <1>3, InPlaceKept
<1>5. RotationInPlace' <=> RotationInPlace
  BY <1>1 DEF RotationInPlace
<1>6. ConvergedInPlace'
  BY <1>1, <1>3, <1>4, <1>5 DEF ConvergedInPlace, changed
<1>7. CASE phase = "apply"
  BY <1>1, <1>6, <1>7 DEF VerifiedInPlace, CutoverSafe
<1>8. CASE phase = "delete"
  <2>1. current \notin Present
    BY <1>1, <1>8
  <2> QED
    BY <1>1, <1>3, <1>4, <1>5, <1>6, <1>8, <2>1
    DEF VerifiedInPlace, CutoverSafe, Ready
<1> QED
  BY <1>1, <1>7, <1>8

\* Reading a present writer back as asked for: it is in place.
LEMMA VerifyingSafe ==
    ASSUME TInv, SafeInv, NEW w \in Writers, VerifyWriter(w)
    PROVE  SafeInv'
<1> USE DEF TInv, SafeInv
<1>1. /\ UNCHANGED <<task, deviceVars, plans, phase, rotation_plan>>
      /\ phase = "verify" /\ w \in todo /\ todo' = todo \ {w}
  BY DEF VerifyWriter
<1>2. /\ Named' = Named /\ Present' = Present /\ Planned' = Planned
      /\ \A v \in Writers : InPlace(v)' <=> InPlace(v)
      /\ \A v \in Writers : changed(v)' <=> changed(v)
      /\ RotationInPlace' <=> RotationInPlace
      /\ Planned \subseteq Writers /\ Present \subseteq Writers
  BY <1>1, ConvergedKept
<1>3. \/ failures' = TRUE /\ verified' = verified
      \/ failures' = failures /\ verified' = verified \cup {w} /\ InPlace(w)
  <2>1. w \in Present \cap Planned
    BY <1>1 DEF WritesFit
  <2>2. w \in Named /\ task.entries[w].state = "present"
    BY <2>1 DEF Present
  <2>3. task.entries[w] \in Entries /\ ValidEntry(w, task.entries[w])
        /\ plans[w].desired = task.entries[w]
    BY <2>1, <2>2, EntriesTyped DEF TypeOK, PlansFit
  <2>4. device[w] \in MaybeObject
    BY DEF TypeOK, MaybeObject
  <2>5. PICK x \in read_actual(device[w]) :
           IF verify(w, task.entries[w], x.read)
           THEN verified' = verified \cup {w} /\ UNCHANGED failures
           ELSE failures' = TRUE /\ UNCHANGED verified
    BY <2>3 DEF VerifyWriter
  <2>6. verify(w, task.entries[w], x.read) => InPlace(w)
    BY <2>2, <2>3, <2>4, VerifyHolds DEF InPlace
  <2> QED
    BY <2>5, <2>6
<1>4. ConvergedInPlace'
  BY <1>1, <1>2 DEF ConvergedInPlace
<1>5. VerifiedInPlace'
  BY <1>1, <1>2, <1>3 DEF VerifiedInPlace
<1> QED
  BY <1>1, <1>4, <1>5 DEF CutoverSafe

\* One step for every action of the specification.
LEMMA StepSafe == TInv /\ SafeInv /\ [Next]_vars => SafeInv'
<1> SUFFICES ASSUME TInv, SafeInv, [Next]_vars PROVE SafeInv'
  OBVIOUS
<1> USE DEF SafeInv
<1>1. ASSUME NEW mode \in BOOLEAN, StartRun(mode) PROVE SafeInv'
  BY <1>1, ConvergedKept
  DEF StartRun, ConvergedInPlace, VerifiedInPlace, CutoverSafe, AfterPlanning
<1>2. ASSUME NEW w \in Writers, PlanWriter(w) \/ PlanPurged(w) PROVE SafeInv'
  BY <1>2, PlanningSafe
<1>3. ASSUME NEW w \in Writers, TakeWriter(w) PROVE SafeInv'
  BY <1>3, ConvergedKept
  DEF TakeWriter, ConvergedInPlace, VerifiedInPlace, CutoverSafe
<1>4. ASSUME NEW w \in Writers, VerifyWriter(w) PROVE SafeInv'
  BY <1>4, VerifyingSafe
<1>5. ASSUME NEW w \in Writers, VerifyDeleted(w) PROVE SafeInv'
  <2>1. CASE EndRun("delete_failed")
    BY <2>1, EndRunSafe
  <2>2. CASE /\ verified' = verified \cup {w}
             /\ UNCHANGED <<task, deviceVars, phase, plans, rotation_plan, failures>>
    <3>1. w \notin Present /\ phase = "verify_delete"
      BY <1>5 DEF VerifyDeleted, TInv, WritesFit
    <3> QED
      BY <2>2, <3>1, ConvergedKept
      DEF ConvergedInPlace, VerifiedInPlace, CutoverSafe
  <2> QED
    BY <1>5, <2>1, <2>2 DEF VerifyDeleted
<1>6. CASE FindUnmanaged
  BY <1>6, ConvergedKept
  DEF FindUnmanaged, ConvergedInPlace, VerifiedInPlace, CutoverSafe, AfterPlanning
<1>7. CASE PlanRotation
  <2>1. rotation_plan' = "none" => RotationInPlace
    BY <1>7 DEF PlanRotation, plan_rotation, RotationInPlace
  <2> QED
    BY <1>7, <2>1, ConvergedKept
    DEF PlanRotation, ConvergedInPlace, VerifiedInPlace, CutoverSafe
<1>8. CASE FailBlocked \/ ExitUnwritten \/ HoldDeletes \/ Finish \/ SessionDies
  BY <1>8, EndRunSafe
  DEF FailBlocked, ExitUnwritten, HoldDeletes, Finish, SessionDies
<1>9. CASE BeginApply
  BY <1>9, ConvergedKept
  DEF BeginApply, ConvergedInPlace, VerifiedInPlace, CutoverSafe, AfterPlanning,
      blocked
<1>10. ASSUME NEW a \in pending, SendDelete(a) \/ SendLast(a) PROVE SafeInv'
  BY <1>10, CommandSafe
<1>11. CASE ApplyRotation
  <2>1. /\ Named' = Named /\ Present' = Present /\ Planned' = Planned
        /\ \A v \in Writers : InPlace(v)' <=> InPlace(v)
        /\ \A v \in Writers : changed(v)' <=> changed(v)
        /\ Present \subseteq Writers
    BY <1>11, PlansKept, InPlaceKept DEF ApplyRotation, changed, Present, Named
  <2>2. phase = "apply" /\ phase' = "verify" /\ verified' = {} /\ failures' = FALSE
        /\ rotation_plan' = rotation_plan
    BY <1>11 DEF ApplyRotation, VerifiedInPlace, TInv, TypeOK
  <2>3. rotation_plan = "none" => rotation' = rotation /\ task' = task
    BY <1>11 DEF ApplyRotation
  <2>4. ConvergedInPlace'
    BY <2>1, <2>2, <2>3 DEF ConvergedInPlace, AfterPlanning, RotationInPlace
  <2>5. todo' = {w \in Present : changed(w)}
    BY <1>11, <2>2, PhaseWriters DEF ApplyRotation, AfterPlanning
  <2> QED
    BY <2>1, <2>2, <2>4, <2>5 DEF VerifiedInPlace, CutoverSafe
<1>12. CASE VerifyRotation
  <2>1. failures' = FALSE => RotationInPlace /\ failures = FALSE
    BY <1>12
    DEF VerifyRotation, ReadRotation, RotationInPlace, ConvergedInPlace,
        AfterPlanning, TInv, TypeOK
  <2> QED
    BY <1>12, <2>1, ConvergedKept
    DEF VerifyRotation, ConvergedInPlace, VerifiedInPlace, CutoverSafe,
        AfterPlanning, TInv, TypeOK
<1>13. CASE BeginDeletes
  <2>1. Ready
    <3>1. Present \subseteq Planned
      BY <1>13 DEF BeginDeletes, TInv, AllPlanned, AfterPlanning, Present
    <3> QED
      BY <1>13, <3>1
      DEF BeginDeletes, Ready, VerifiedInPlace, ConvergedInPlace
  <2> QED
    BY <1>13, <2>1, ConvergedKept
    DEF BeginDeletes, ConvergedInPlace, VerifiedInPlace, CutoverSafe, AfterPlanning
<1>14. CASE DeletesSent
  BY <1>14, ConvergedKept
  DEF DeletesSent, ConvergedInPlace, VerifiedInPlace, CutoverSafe, AfterPlanning
<1>15. CASE UNCHANGED vars
  BY <1>15, ConvergedKept
  DEF vars, runVars, ConvergedInPlace, VerifiedInPlace, CutoverSafe
<1> QED
  BY <1>1, <1>2, <1>3, <1>4, <1>5, <1>6, <1>7, <1>8, <1>9, <1>10, <1>11, <1>12,
     <1>13, <1>14, <1>15
  DEF Next, Proceed, Command

\* The inductive invariant holds before the first run.
LEMMA InitIInv == Init => IInv
<1> SUFFICES ASSUME Init PROVE IInv
  OBVIOUS
<1>1. Planned = {}
  BY DEF Init, IdleRun, Planned, NoPlans
<1> QED
  BY <1>1, InitTInv
  DEF IInv, TInv, Init, IdleRun, ConvergedInPlace, VerifiedInPlace, CutoverSafe,
      AfterPlanning

\* It is inductive: the two halves of it keep each other.
LEMMA StepIInv == IInv /\ [Next]_vars => IInv'
  BY StepTInv, StepSafe DEF IInv, TInv, SafeInv

\* The inductive invariant, which is why the next theorem holds.
THEOREM Inductive == Spec => []IInv
  BY InitIInv, StepIInv, PTL DEF Spec

\* Types, for every instance of the constants.
THEOREM Typing == Spec => []TypeOK
<1>1. IInv => TypeOK
  BY DEF IInv
<1> QED
  BY <1>1, Inductive, PTL

\* No device is left without its replacements: whatever the task, the faults
\* and their number, a run that deletes has every present writer in place.
THEOREM CutoverSafety == Spec => []CutoverSafe
<1>1. IInv => CutoverSafe
  BY DEF IInv
<1> QED
  BY <1>1, Inductive, PTL

(***************************************************************************)
(* DevicePlan implements Cutover.                                          *)
(***************************************************************************)
\* Cutover's `ready' takes the values it may.
LEMMA ReadyBoolean == Ready \in BOOLEAN /\ Ready' \in BOOLEAN
  BY DEF Ready

\* A step that deletes no retiring writer is at most a change of configuration.
LEMMA ConfigureStep ==
    ASSUME standing' = standing
    PROVE  [Abstract!Next]_<<Ready, standing>>
  BY ReadyBoolean DEF Abstract!Next, Abstract!Configure

\* A command before the read-back leaves every retiring writer alone, and one
\* after it takes away the writer it is about, or nothing.
LEMMA CommandImplements ==
    ASSUME TInv, SafeInv, NEW a \in pending, SendDelete(a) \/ SendLast(a)
    PROVE  [Abstract!Next]_<<Ready, standing>>
<1> USE DEF TInv, SafeInv
<1>1. /\ UNCHANGED <<task, phase, plans>> /\ UNCHANGED rotation
      /\ current # None /\ phase \in {"apply", "delete"}
      /\ (phase = "apply" <=> current \in Present)
      /\ current \in Writers /\ current \in Planned
      /\ a \in plans[current].actions
  BY DEF SendDelete, SendLast, Write, WritesFit, TypeOK
<1>2. \A v \in Writers : v # current => device'[v] = device[v]
  BY DEF SendDelete, SendLast, Write, TypeOK
<1>3. /\ Named' = Named /\ Present' = Present /\ Purgeable' = Purgeable
      /\ Retiring' = Retiring /\ Retiring \subseteq Writers
  BY <1>1, PlansKept DEF Retiring, Named, Purgeable
<1>4. CASE phase = "apply"
  <2>1. current \notin Retiring
    BY <1>1, <1>4 DEF Retiring, Present, Purgeable
  <2>2. standing' = standing
    BY <1>2, <1>3, <2>1 DEF standing
  <2> QED
    BY <2>2, ConfigureStep
<1>5. CASE phase = "delete"
  <2>1. current \notin Present /\ current \in Retiring
    BY <1>1, <1>5 DEF Retiring, PlansFit
  <2>2. a.kind = "writer_delete"
    BY <1>1, <2>1 DEF PlansFit, Act
  <2>3. device'[current] \in {device[current], None}
    BY <1>1, <2>2 DEF SendDelete, SendLast, Write, Applied, ReplaceKinds, TypeOK
  <2>4. CASE device'[current] = device[current]
    <3>1. standing' = standing
      BY <1>2, <1>3, <2>4 DEF standing
    <3> QED
      BY <3>1, ConfigureStep
  <2>5. CASE device'[current] = None /\ device[current] # None
    <3>1. Ready
      BY <1>5 DEF CutoverSafe
    <3>2. \A v \in Present : InPlace(v)' <=> InPlace(v)
      BY <1>1, <1>2, <2>1, InPlaceKept DEF Present, Named
    <3>3. Ready' = Ready
      BY <1>1, <1>3, <3>2, ReadyBoolean DEF Ready, RotationInPlace
    <3>4. current \in standing /\ standing' = standing \ {current}
      BY <1>2, <1>3, <2>1, <2>5 DEF standing
    <3>5. Abstract!Retire(current)
      BY <3>1, <3>3, <3>4 DEF Abstract!Retire
    <3> QED
      BY <1>1, <3>5 DEF Abstract!Next
  <2> QED
    BY <2>3, <2>4, <2>5
<1> QED
  BY <1>1, <1>4, <1>5

\* Every step is one of Cutover's, or leaves what Cutover sees as it is.
LEMMA StepImplements ==
    TInv /\ SafeInv /\ [Next]_vars => [Abstract!Next]_<<Ready, standing>>
<1> SUFFICES ASSUME TInv, SafeInv, [Next]_vars
             PROVE  [Abstract!Next]_<<Ready, standing>>
  OBVIOUS
<1>1. CASE UNCHANGED <<task, device>>
  <2>1. standing' = standing
    BY <1>1
    DEF standing, Retiring, Named, Present, Purgeable, in_purge_scope,
        managed_types
  <2> QED
    BY <2>1, ConfigureStep
<1>2. ASSUME NEW a \in pending, SendDelete(a) \/ SendLast(a)
      PROVE  [Abstract!Next]_<<Ready, standing>>
  BY <1>2, CommandImplements
<1>3. \/ UNCHANGED <<task, device>>
      \/ \E a \in pending : SendDelete(a) \/ SendLast(a)
  BY DEF Next, Proceed, Command, StartRun, PlanWriter, PlanPurged, TakeWriter,
         VerifyWriter, VerifyDeleted, FindUnmanaged, PlanRotation, FailBlocked,
         ExitUnwritten, BeginApply, ApplyRotation, VerifyRotation, HoldDeletes,
         BeginDeletes, DeletesSent, Finish, SessionDies, EndRun, deviceVars,
         vars
<1> QED
  BY <1>1, <1>2, <1>3

\* Seen from outside, a device goes from old writers to new ones as Cutover
\* says: an old one is retired only while all that replaces it is in place.
THEOREM Implementation == Spec => CutoverSpec
<1>1. Init => Abstract!Init
  BY ReadyBoolean DEF Abstract!Init, standing, Retiring, Named, Purgeable
<1>2. IInv /\ [Next]_vars => [Abstract!Next]_<<Ready, standing>>
  BY StepImplements DEF IInv, TInv, SafeInv
<1> QED
  BY <1>1, <1>2, InitIInv, StepIInv, PTL DEF Spec, CutoverSpec, Abstract!Spec

(***************************************************************************)
(* Runs that are held back.                                                *)
(***************************************************************************)
\* Only a run that is neither in check mode nor blocked gets past the decision.
Released == phase \in AfterPlanning \ {"decide"} => ~check_mode /\ ~blocked

\* A run that is being decided on, and one that is past it, keeps its plans.
LEMMA StepReleased ==
    ASSUME Released, [Next]_vars
    PROVE  Released'
<1>1. CASE BeginApply
  BY <1>1 DEF BeginApply, Released, blocked, Planned
<1>2. CASE phase \notin AfterPlanning \ {"decide"} /\ ~BeginApply
  <2>1. phase' \notin AfterPlanning \ {"decide"}
    BY <1>2
    DEF AfterPlanning, Next, Proceed, Command, StartRun, PlanWriter, PlanPurged,
        TakeWriter, SendDelete, SendLast, VerifyWriter, VerifyDeleted,
        FindUnmanaged, PlanRotation, FailBlocked, ExitUnwritten, ApplyRotation,
        VerifyRotation, HoldDeletes, BeginDeletes, DeletesSent, Finish,
        SessionDies, EndRun, vars
  <2> QED
    BY <2>1 DEF Released, AfterPlanning
<1>3. CASE phase \in AfterPlanning \ {"decide"}
  <2>1. phase' = "idle" \/ UNCHANGED <<check_mode, plans, rotation_plan>>
    BY <1>3
    DEF AfterPlanning, Next, Proceed, Command, StartRun, PlanWriter, PlanPurged,
        TakeWriter, SendDelete, SendLast, VerifyWriter, VerifyDeleted,
        FindUnmanaged, PlanRotation, FailBlocked, ExitUnwritten, BeginApply,
        ApplyRotation, VerifyRotation, HoldDeletes, BeginDeletes, DeletesSent,
        Finish, SessionDies, EndRun, vars, runVars
  <2>2. CASE phase' = "idle"
    BY <2>2 DEF Released, AfterPlanning
  <2>3. CASE UNCHANGED <<check_mode, plans, rotation_plan>>
    BY <1>3, <2>3 DEF Released, blocked, Planned
  <2> QED
    BY <2>1, <2>2, <2>3
<1> QED
  BY <1>1, <1>2, <1>3

\* Whatever writes to the device does so past the decision.
LEMMA WritesReleased ==
    ASSUME WritesFit, Released, [Next]_vars
    PROVE  check_mode \/ blocked => UNCHANGED deviceVars
<1>1. CASE UNCHANGED deviceVars
  BY <1>1
<1>2. CASE ApplyRotation \/ \E a \in pending : SendDelete(a) \/ SendLast(a)
  <2>1. phase \in AfterPlanning \ {"decide"}
    BY <1>2 DEF ApplyRotation, SendDelete, SendLast, WritesFit, AfterPlanning
  <2> QED
    BY <2>1 DEF Released
<1>3. \/ UNCHANGED deviceVars
      \/ ApplyRotation \/ \E a \in pending : SendDelete(a) \/ SendLast(a)
  BY DEF Next, Proceed, Command, StartRun, PlanWriter, PlanPurged, TakeWriter,
         VerifyWriter, VerifyDeleted, FindUnmanaged, PlanRotation, FailBlocked,
         ExitUnwritten, BeginApply, VerifyRotation, HoldDeletes, BeginDeletes,
         DeletesSent, Finish, SessionDies, EndRun, vars
<1> QED
  BY <1>1, <1>2, <1>3

\* A run whose plan is blocked anywhere, or that is in check mode, writes
\* nothing: main() of the logs module stops it before DevicePlan.apply.
THEOREM HeldRuns == Spec => HeldRunWritesNothing
<1>1. Init => Released
  BY DEF Init, Released, AfterPlanning
<1>2. Released /\ [Next]_vars => Released'
  BY StepReleased
<1>3. IInv /\ Released /\ [Next]_vars
        => [check_mode \/ blocked => UNCHANGED deviceVars]_vars
  BY WritesReleased DEF IInv
<1> QED
  BY <1>1, <1>2, <1>3, Inductive, PTL DEF Spec, HeldRunWritesNothing

(***************************************************************************)
(* Which writers DevicePlan deletes: those the task says are to go, and    *)
(* those it allows to be replaced while they still are where it does not   *)
(* want them.  And what it leaves alone of those that stay: everything the *)
(* task does not state.                                                    *)
(***************************************************************************)

(***************************************************************************)
(* Plans and single commands.                                              *)
(***************************************************************************)

\* The plan of a present writer deletes it only to replace it, and replaces it
\* only if it is at another endpoint and the task and its type allow that.
LEMMA ReplacePlanned ==
    ASSUME NEW w \in Writers, NEW e \in Entries, NEW r, NEW imm,
           e.state = "present"
    PROVE  LET p == _plan_writer(w, e, r, imm)
           IN  /\ Act("writer_delete") \notin p
               /\ Act("writer_replace") \in p =>
                     /\ Act("writer_create") \notin p
                     /\ r.exists
                     /\ Repointed(w, e, r)
                     /\ imm = "replace"
                     /\ replaceable(w)
<1> DEFINE top == {Act("writer_delete"), Act("writer_replace"), Act("writer_create")}
<1>1. _plan_writer_properties(e, r) \cap top = {}
  BY DEF _plan_writer_properties, Act
<1>2. \A c : _plan_subscriptions(e, r, c) \cap top = {}
  BY DEF _plan_subscriptions, Act, SubAct
<1>3. \A c : _plan_settings(e, r, c) \cap top = {}
  BY DEF _plan_settings, Act
<1>4. /\ Act("writer_delete") # Act("writer_replace")
      /\ Act("writer_delete") # Act("writer_create")
      /\ Act("writer_replace") # Act("writer_create")
      /\ {Act("blocked_immutable"), Act("blocked_uncreatable")} \cap top = {}
  BY DEF Act
<1> QED
  BY <1>1, <1>2, <1>3, <1>4 DEF _plan_writer

\* Only the end of a writer_delete and the start of a writer_replace make a
\* writer disappear.
LEMMA CommandKeepsWriter ==
    ASSUME NEW w \in Writers, NEW e \in Entries, NEW o \in Objects,
           NEW a \in Actions,
           a.kind \in {"subscription_create", "subscription_replace",
                       "subscription_update"} => a.typeid \in Wanted(e)
    PROVE  /\ a.kind = "subscription_replace" => Deleted(o, a) # None
           /\ a.kind # "writer_delete" => Applied(w, e, o, a) # None
<1> USE NoneAssumption
<1>1. a.kind \in SubscriptionKinds => a.typeid \in Typeids
  BY DEF Actions, SubscriptionKinds, WriterKinds, BlockedKinds
<1>2. ASSUME NEW t \in Typeids, NEW s \in Subscriptions \cup {None}
      PROVE  [o EXCEPT !.subs[t] = s] # None
  <2>1. [o EXCEPT !.subs[t] = s] \in Objects
    BY DEF Objects
  <2> QED
    BY <2>1
<1>3. a.kind \in {"subscription_replace", "subscription_delete"}
         => Deleted(o, a) # None
  BY <1>1, <1>2 DEF Deleted, SubscriptionKinds
<1>4. a.kind \in {"writer_create", "writer_replace", "subscription_create",
                  "subscription_replace"} => Initialised(w, e, o, a) # None
  <2>1. \A t \in Typeids : e.subs[t] \in Subscriptions \cup {None}
    BY DEF Entries
  <2> QED
    BY <1>1, <1>2, <2>1 DEF Initialised, SubscriptionKinds
<1>5. a.kind \notin {"writer_delete"} => Assigned(e, o, a) # None
  <2>1. CASE a.kind \in {"writer_properties_set", "settings_set"}
    <3>1. Assigned(e, o, a) \in Objects
      BY <2>1 DEF Assigned, Objects, Entries
    <3> QED
      BY <3>1
  <2>2. CASE a.kind = "subscription_update" /\ o.subs[a.typeid] # None
    <3>1. a.typeid \in Typeids
      BY <1>1, <2>2 DEF SubscriptionKinds
    <3>2. o.subs[a.typeid] \in Subscriptions /\ e.subs[a.typeid] \in Subscriptions
      BY <2>2, <3>1 DEF Objects, Wanted, Entries
    <3>3. [o.subs[a.typeid] EXCEPT !.expr = e.subs[a.typeid].expr] \in Subscriptions
      BY <3>2 DEF Subscriptions
    <3>4. Assigned(e, o, a) =
            [o EXCEPT !.subs[a.typeid] =
               [o.subs[a.typeid] EXCEPT !.expr = e.subs[a.typeid].expr]]
      BY <2>2, <3>1, <3>2 DEF Assigned, Objects
    <3> QED
      BY <1>2, <3>1, <3>3, <3>4
  <2>3. CASE /\ a.kind \notin {"writer_properties_set", "settings_set"}
             /\ ~(a.kind = "subscription_update" /\ o.subs[a.typeid] # None)
    BY <2>3 DEF Assigned
  <2> QED
    BY <2>1, <2>2, <2>3
<1> QED
  BY <1>3, <1>4, <1>5 DEF Applied

(***************************************************************************)
(* What is said of a replace from its planning to its first command.       *)
(***************************************************************************)

\* The replace of w, if it is planned, has not begun.
ReplaceWaits(w) ==
    \/ phase \in {"idle", "plan", "purge", "decide"}
    \/ phase = "apply" /\ w \in todo
    \/ current = w /\ Act("writer_replace") \in pending /\ ~half

\* The task and its type allow the replace, and the writer is still elsewhere.
ReplacesFit ==
    /\ current # None => current \notin todo
    /\ \A w \in Planned \cap Present :
          /\ Act("writer_delete") \notin plans[w].actions
          /\ Act("writer_replace") \in plans[w].actions =>
                /\ Act("writer_create") \notin plans[w].actions
                /\ task.on_immutable_change = "replace"
                /\ replaceable(w)
                /\ ReplaceWaits(w) /\ device[w] # None
                      => device[w].endpoint # task.entries[w].endpoint

\* A writer planned now is read now.
LEMMA PlanningReplaces ==
    ASSUME TInv, ReplacesFit, NEW w \in Writers, PlanWriter(w) \/ PlanPurged(w)
    PROVE  ReplacesFit'
<1> USE DEF TInv
<1>1. /\ UNCHANGED <<task, deviceVars, phase, current>>
      /\ phase \in {"plan", "purge"}
      /\ current = None
  BY DEF PlanWriter, PlanPurged, WritesFit
<1>2. Named' = Named /\ Present' = Present /\ Present \subseteq Named
  BY <1>1 DEF Named, Present
<1>3. \A v \in Writers : v # w => plans'[v] = plans[v]
  BY DEF PlanWriter, PlanPurged, TypeOK
<1>4. ASSUME w \in Present
      PROVE  /\ Act("writer_delete") \notin plans'[w].actions
             /\ Act("writer_replace") \in plans'[w].actions =>
                   /\ Act("writer_create") \notin plans'[w].actions
                   /\ task.on_immutable_change = "replace"
                   /\ replaceable(w)
                   /\ device[w] # None
                         => device[w].endpoint # task.entries[w].endpoint
  <2> DEFINE e == task.entries[w]
  <2>1. w \in Named /\ e.state = "present"
    BY <1>4 DEF Present
  <2>2. PlanWriter(w)
    BY <2>1 DEF PlanPurged, AllPlanned, Purgeable
  <2>3. e \in Entries
    BY <2>1, EntriesTyped DEF TypeOK
  <2>4. device[w] \in MaybeObject
    BY DEF TypeOK, MaybeObject
  <2>5. PICK x \in read_actual(device[w]) :
           plans' = [plans EXCEPT ![w] =
              [desired |-> e, actual |-> x.read,
               actions |-> _plan_writer(w, e, x.read, task.on_immutable_change)]]
    BY <2>2 DEF PlanWriter
  <2>6. plans'[w].actions = _plan_writer(w, e, x.read, task.on_immutable_change)
    BY <2>5 DEF TypeOK
  <2>7. x.read.exists => x.read.obj.endpoint = device[w].endpoint
    BY <2>4, ReadShowsLess
  <2> HIDE DEF e
  <2>8. /\ Act("writer_delete") \notin plans'[w].actions
        /\ Act("writer_replace") \in plans'[w].actions =>
              /\ Act("writer_create") \notin plans'[w].actions
              /\ x.read.exists /\ Repointed(w, e, x.read)
              /\ task.on_immutable_change = "replace" /\ replaceable(w)
    BY <2>1, <2>3, <2>6, ReplacePlanned DEF e
  <2> QED
    BY <2>7, <2>8 DEF Repointed, e
<1> QED
  <2> SUFFICES ASSUME NEW v \in Planned' \cap Present
               PROVE  /\ Act("writer_delete") \notin plans'[v].actions
                      /\ Act("writer_replace") \in plans'[v].actions =>
                            /\ Act("writer_create") \notin plans'[v].actions
                            /\ task.on_immutable_change = "replace"
                            /\ replaceable(v)
                            /\ device[v] # None
                                  => device[v].endpoint # task.entries[v].endpoint
    BY <1>1, <1>2 DEF ReplacesFit, deviceVars
  <2>1. CASE v = w
    BY <1>4, <2>1
  <2>2. CASE v # w
    BY <1>1, <1>3, <2>2 DEF ReplacesFit, ReplaceWaits, Planned
  <2> QED
    BY <2>1, <2>2

\* A writer_replace is the first action of its plan.
LEMMA ReplaceFirst ==
    ASSUME TInv, ReplacesFit, current # None, current \in Present,
           Act("writer_replace") \in pending, NEW a \in First(pending)
    PROVE  a = Act("writer_replace")
<1> DEFINE b == Act("writer_replace")
<1>1. /\ a \in Actions /\ current \in Planned /\ b \in plans[current].actions
      /\ a \in plans[current].actions
  BY DEF TInv, TypeOK, WritesFit, First, Present, Named
<1>2. ~Precedes(b, a)
  BY DEF First
<1>3. b.kind = "writer_replace" /\ Rank(b.kind) = 1
  BY DEF Act, Rank, SubscriptionKinds
<1>4. Rank(a.kind) \in 1..5
  BY DEF Rank, SubscriptionKinds
<1>5. Rank(a.kind) = 1
  BY <1>2, <1>3, <1>4 DEF Precedes
<1>6. a.kind \in {"writer_delete", "writer_create", "writer_replace"}
  BY <1>5 DEF Rank, SubscriptionKinds
<1>7. a = Act(a.kind)
  BY <1>1, <1>6 DEF Actions, Act, WriterKinds, BlockedKinds, SubscriptionKinds
<1>8. Act("writer_delete") \notin plans[current].actions
      /\ Act("writer_create") \notin plans[current].actions
  BY <1>1 DEF ReplacesFit
<1> QED
  BY <1>1, <1>6, <1>7, <1>8

\* Once its first command is sent nothing more is said of a replace, and the
\* other writers are left alone.
LEMMA CommandReplaces ==
    ASSUME TInv, ReplacesFit, NEW a \in pending, SendDelete(a) \/ SendLast(a)
    PROVE  ReplacesFit'
<1> USE DEF TInv
<1>1. /\ UNCHANGED <<task, phase, plans, todo>>
      /\ current # None /\ phase \in {"apply", "delete"}
      /\ current \in Writers /\ current \notin todo
      /\ phase = "apply" <=> current \in Present
      /\ a \in First(pending)
  BY DEF SendDelete, SendLast, WritesFit, TypeOK, ReplacesFit
<1>2. \A v \in Writers : v # current => device'[v] = device[v]
  BY DEF SendDelete, SendLast, Write, TypeOK
<1>3. Planned' = Planned /\ Present' = Present /\ Present \subseteq Writers
  BY <1>1, PlansKept DEF Present, Named
<1>4. current' = current \/ (current' = None /\ pending' = {})
  <2>1. CASE SendDelete(a)
    BY <2>1 DEF SendDelete
  <2>2. CASE SendLast(a)
    BY <2>2 DEF SendLast
  <2> QED
    BY <2>1, <2>2
<1>5. current \in Present => ~(Act("writer_replace") \in pending' /\ ~half')
  <2>1. CASE SendDelete(a)
    BY <2>1 DEF SendDelete
  <2>2. CASE SendLast(a)
    BY <1>1, <2>2, ReplaceFirst DEF SendLast
  <2> QED
    BY <2>1, <2>2
<1>6. ASSUME NEW v \in Present, ReplaceWaits(v)'
      PROVE  v # current /\ ReplaceWaits(v)
  <2>1. phase = "apply" /\ v \in todo
    BY <1>1, <1>4, <1>5, <1>6 DEF ReplaceWaits
  <2> QED
    BY <1>1, <2>1 DEF ReplaceWaits
<1> QED
  BY <1>1, <1>2, <1>3, <1>4, <1>6 DEF ReplacesFit

\* A step that leaves device and plans alone, and lets no replace wait that did
\* not wait before.
LEMMA ReplacesKept ==
    ASSUME TInv, ReplacesFit, UNCHANGED <<task, device, plans>>,
           current' # None => current' \notin todo',
           \A w \in Present : ReplaceWaits(w)' => ReplaceWaits(w)
    PROVE  ReplacesFit'
<1>1. Planned' = Planned /\ Present' = Present
  BY PlansKept
<1> QED
  BY <1>1 DEF ReplacesFit

\* One step for every action of the specification.
LEMMA StepReplaces == TInv /\ ReplacesFit /\ [Next]_vars => ReplacesFit'
<1> SUFFICES ASSUME TInv, ReplacesFit, [Next]_vars PROVE ReplacesFit'
  OBVIOUS
<1>1. ASSUME NEW how, EndRun(how) PROVE ReplacesFit'
  <2>1. Planned' = {}
    BY <1>1 DEF EndRun, Planned, NoPlans
  <2> QED
    BY <1>1, <2>1 DEF EndRun, ReplacesFit
<1>2. ASSUME NEW w \in Writers, PlanWriter(w) \/ PlanPurged(w) PROVE ReplacesFit'
  BY <1>2, PlanningReplaces
<1>3. ASSUME NEW w \in Writers, TakeWriter(w) PROVE ReplacesFit'
  <2>1. w \in Present /\ phase = "delete" => FALSE
    BY <1>3 DEF TInv, TakeWriter, WritesFit
  <2>2. \A v \in Present : ReplaceWaits(v)' => ReplaceWaits(v)
    BY <1>3, <2>1 DEF TakeWriter, ReplaceWaits
  <2> QED
    BY <1>3, <2>2, ReplacesKept DEF TakeWriter, deviceVars
<1>4. ASSUME NEW w \in Writers, VerifyWriter(w) PROVE ReplacesFit'
  <2>1. current = None
    BY <1>4 DEF TInv, WritesFit, VerifyWriter
  <2> QED
    BY <1>4, <2>1, ReplacesKept DEF VerifyWriter, ReplaceWaits, deviceVars
<1>5. ASSUME NEW w \in Writers, VerifyDeleted(w) PROVE ReplacesFit'
  <2>1. current = None
    BY <1>5 DEF TInv, WritesFit, VerifyDeleted
  <2>2. CASE EndRun("delete_failed")
    BY <1>1, <2>2
  <2>3. CASE ~EndRun("delete_failed")
    BY <1>5, <2>1, <2>3, ReplacesKept
    DEF VerifyDeleted, ReplaceWaits, deviceVars
  <2> QED
    BY <2>2, <2>3
<1>6. ASSUME NEW a \in pending, SendDelete(a) \/ SendLast(a) PROVE ReplacesFit'
  BY <1>6, CommandReplaces
<1>7. CASE \/ \E mode \in BOOLEAN : StartRun(mode)
           \/ FindUnmanaged \/ PlanRotation \/ BeginApply \/ ApplyRotation
           \/ VerifyRotation \/ BeginDeletes \/ DeletesSent
  <2>1. current = None
    BY <1>7
    DEF TInv, WritesFit, StartRun, FindUnmanaged, PlanRotation, BeginApply,
        ApplyRotation, VerifyRotation, BeginDeletes, DeletesSent
  <2> QED
    BY <1>7, <2>1, ReplacesKept
    DEF StartRun, FindUnmanaged, PlanRotation, BeginApply, ApplyRotation,
        VerifyRotation, BeginDeletes, DeletesSent, ReplaceWaits, deviceVars
<1>8. CASE FailBlocked \/ ExitUnwritten \/ HoldDeletes \/ Finish \/ SessionDies
  BY <1>1, <1>8 DEF FailBlocked, ExitUnwritten, HoldDeletes, Finish, SessionDies
<1>9. CASE UNCHANGED vars
  BY <1>9, ReplacesKept
  DEF vars, runVars, deviceVars, ReplaceWaits, ReplacesFit
<1> QED
  BY <1>2, <1>3, <1>4, <1>5, <1>6, <1>7, <1>8, <1>9
  DEF Next, Proceed, Command

(***************************************************************************)
(* The theorem.                                                            *)
(***************************************************************************)

\* A writer that disappears is one the task wants gone, or one whose replace
\* begins.
LEMMA CommandIntended ==
    ASSUME TInv, ReplacesFit, NEW a \in pending, SendDelete(a) \/ SendLast(a),
           NEW w \in Writers, device[w] # None, device'[w] = None
    PROVE  IntendedDelete(w)
<1> USE DEF TInv
<1>1. /\ current \in Planned /\ current \in Writers /\ current # None
      /\ a \in plans[current].actions /\ a \in Actions
      /\ phase \in {"apply", "delete"}
      /\ phase = "apply" <=> current \in Present
      /\ a \in First(pending)
  BY DEF SendDelete, SendLast, WritesFit, TypeOK
<1>2. w = current
  BY DEF SendDelete, SendLast, Write, TypeOK
<1>3. device[w] \in Objects /\ plans[w].desired \in Entries
  BY <1>1, <1>2 DEF TypeOK, Planned, WriterPlans
<1>4. a.kind \in {"subscription_create", "subscription_replace",
                  "subscription_update"} => a.typeid \in Wanted(plans[w].desired)
  BY <1>1, <1>2 DEF PlansFit
<1>5. CASE w \notin Present
  <2>1. w \in (Named \ Present) \cup Purgeable
    BY <1>1, <1>2, <1>5 DEF PlansFit
  <2>2. Purgeable \subseteq Unwanted
    BY DEF Purgeable, Unwanted, in_purge_scope, managed_types
  <2> QED
    BY <2>1, <2>2 DEF IntendedDelete
<1>6. CASE w \in Present
  <2>1. a.kind # "writer_delete"
    <3>1. a.kind = "writer_delete" => a = Act("writer_delete")
      BY <1>1 DEF Actions, Act, WriterKinds, BlockedKinds, SubscriptionKinds
    <3> QED
      BY <1>1, <1>2, <1>6, <3>1 DEF ReplacesFit
  <2>2. /\ a.kind = "subscription_replace" => Deleted(device[w], a) # None
        /\ Applied(w, plans[w].desired, device[w], a) # None
    BY <1>1, <1>3, <1>4, <2>1, CommandKeepsWriter
  <2>3. SendDelete(a) /\ a.kind = "writer_replace"
    <3>1. ~SendLast(a)
      BY <1>1, <1>2, <2>2 DEF SendLast, Write, TypeOK
    <3>2. SendDelete(a)
      BY <3>1
    <3>3. device'[w] \in {device[w], Deleted(device[w], a)}
      BY <1>1, <1>2, <3>2 DEF SendDelete, Write, TypeOK
    <3> QED
      BY <2>2, <3>2, <3>3 DEF SendDelete, ReplaceKinds
  <2>4. a = Act("writer_replace")
    BY <1>1, <2>3 DEF Actions, Act, WriterKinds, BlockedKinds, SubscriptionKinds
  <2>5. ReplaceWaits(w)
    BY <1>2, <2>3, <2>4 DEF ReplaceWaits, SendDelete
  <2> QED
    BY <1>1, <1>2, <1>6, <2>4, <2>5 DEF ReplacesFit, IntendedDelete
<1> QED
  BY <1>5, <1>6

\* A writer disappears only because the task says absent, purges its type, or
\* allows it to be replaced while it is elsewhere; never in check mode.
THEOREM Deletes == Spec => OnlyIntendedDeletes
<1>1. Init => ReplacesFit /\ Released
  BY DEF Init, IdleRun, ReplacesFit, Released, AfterPlanning, Planned, NoPlans
<1>2. TInv /\ ReplacesFit /\ Released /\ [Next]_vars => (ReplacesFit /\ Released)'
  BY StepReplaces, StepReleased
<1>3. TInv /\ ReplacesFit /\ Released /\ [Next]_vars
         => [\A w \in Writers : device[w] # None /\ device'[w] = None
               => IntendedDelete(w) /\ ~check_mode]_vars
  <2> SUFFICES ASSUME TInv, ReplacesFit, Released, [Next]_vars,
                      NEW w \in Writers, device[w] # None, device'[w] = None
               PROVE  IntendedDelete(w) /\ ~check_mode
    OBVIOUS
  <2>1. ~check_mode
    BY WritesReleased DEF TInv, deviceVars
  <2>2. PICK a \in pending : SendDelete(a) \/ SendLast(a)
    BY DEF Next, Proceed, Command, StartRun, PlanWriter, PlanPurged, TakeWriter,
           VerifyWriter, VerifyDeleted, FindUnmanaged, PlanRotation, FailBlocked,
           ExitUnwritten, BeginApply, ApplyRotation, VerifyRotation, HoldDeletes,
           BeginDeletes, DeletesSent, Finish, SessionDies, EndRun, deviceVars,
           vars
  <2> QED
    BY <2>1, <2>2, CommandIntended
<1>4. IInv => TInv
  BY DEF IInv, TInv
<1> QED
  BY <1>1, <1>2, <1>3, <1>4, Inductive, PTL DEF Spec, OnlyIntendedDeletes

(***************************************************************************)
(* What is left alone.                                                     *)
(***************************************************************************)

\* A plan sets only what its entry states and, without purge, deletes no
\* subscription.
LEMMA StatedPlanned ==
    ASSUME NEW w \in Writers, NEW e \in Entries, NEW r, NEW imm
    PROVE  LET p == _plan_writer(w, e, r, imm)
           IN  \A a \in p :
                  /\ a.kind = "writer_properties_set" => e.property # None
                  /\ a.kind = "settings_set" => e.setting # None
                  /\ a.kind = "subscription_delete" => e.purge
<1> DEFINE Stated(S) ==
      \A a \in S :
         /\ a.kind = "writer_properties_set" => e.property # None
         /\ a.kind = "settings_set" => e.setting # None
         /\ a.kind = "subscription_delete" => e.purge
<1>1. Stated(_plan_writer_properties(e, r))
  BY DEF _plan_writer_properties, Act
<1>2. \A c : Stated(_plan_subscriptions(e, r, c))
  BY DEF _plan_subscriptions, SubAct
<1>3. \A c : Stated(_plan_settings(e, r, c))
  BY DEF _plan_settings, Act
<1>4. \A k \in {"writer_delete", "writer_create", "writer_replace"} \cup BlockedKinds :
         Stated({Act(k)})
  BY DEF Act, BlockedKinds
<1>5. Stated({}) /\ \A S, T : Stated(S) /\ Stated(T) => Stated(S \cup T)
  OBVIOUS
<1>6. Stated({Act("blocked_uncreatable")}) /\ Stated({Act("blocked_immutable")})
  BY <1>4 DEF BlockedKinds
<1>7. /\ Stated({Act("writer_delete")}) /\ Stated({Act("writer_create")})
      /\ Stated({Act("writer_replace")})
  BY <1>4
<1> HIDE DEF Stated
<1>8. Stated(_plan_writer(w, e, r, imm))
  BY <1>1, <1>2, <1>3, <1>5, <1>6, <1>7 DEF _plan_writer
<1> QED
  BY <1>8 DEF Stated

\* That is so of every plan a run holds.
PlansStated ==
    \A w \in Planned : \A a \in plans[w].actions :
       /\ a.kind = "writer_properties_set" => plans[w].desired.property # None
       /\ a.kind = "settings_set" => plans[w].desired.setting # None
       /\ a.kind = "subscription_delete" => plans[w].desired.purge

\* Plans are made by the planner and go with the run.
LEMMA StepStated == TInv /\ PlansStated /\ [Next]_vars => PlansStated'
<1> SUFFICES ASSUME TInv, PlansStated, [Next]_vars PROVE PlansStated'
  OBVIOUS
<1>1. CASE plans' = plans \/ plans' = NoPlans
  BY <1>1 DEF PlansStated, Planned, NoPlans
<1>2. ASSUME NEW w \in Writers, NEW e \in Entries, NEW r, NEW imm,
             plans' = [plans EXCEPT ![w] =
                         [desired |-> e, actual |-> r,
                          actions |-> _plan_writer(w, e, r, imm)]]
      PROVE  PlansStated'
  <2>1. /\ plans'[w].desired = e
        /\ plans'[w].actions = _plan_writer(w, e, r, imm)
        /\ \A v \in Writers : v # w => plans'[v] = plans[v]
    BY <1>2 DEF TInv, TypeOK
  <2>2. \A a \in plans'[w].actions :
           /\ a.kind = "writer_properties_set" => plans'[w].desired.property # None
           /\ a.kind = "settings_set" => plans'[w].desired.setting # None
           /\ a.kind = "subscription_delete" => plans'[w].desired.purge
    BY <2>1, StatedPlanned
  <2> QED
    BY <2>1, <2>2 DEF PlansStated, Planned
<1>3. ASSUME NEW w \in Writers, PlanWriter(w) PROVE PlansStated'
  <2>1. task.entries[w] \in Entries
    BY <1>3, EntriesTyped DEF TInv, TypeOK, AllPlanned, PlanWriter
  <2> QED
    BY <1>2, <1>3, <2>1 DEF PlanWriter
<1>4. ASSUME NEW w \in Writers, PlanPurged(w) PROVE PlansStated'
  <2>1. PurgeEntry \in Entries
    BY EntriesTyped DEF TInv, TypeOK
  <2> QED
    BY <1>2, <1>4, <2>1 DEF PlanPurged
<1>5. \/ plans' = plans \/ plans' = NoPlans
      \/ \E w \in Writers : PlanWriter(w) \/ PlanPurged(w)
  BY DEF Next, Proceed, Command, StartRun, TakeWriter, SendDelete, SendLast,
         VerifyWriter, VerifyDeleted, FindUnmanaged, PlanRotation, FailBlocked,
         ExitUnwritten, BeginApply, ApplyRotation, VerifyRotation, HoldDeletes,
         BeginDeletes, DeletesSent, Finish, SessionDies, EndRun, vars, runVars
<1> QED
  BY <1>1, <1>3, <1>4, <1>5

\* `new' is `o' in all that entry e does not state.
SameUnlisted(e, o, new) ==
    /\ e.property = None => new.property = o.property
    /\ e.setting = None => new.setting = o.setting
    /\ \A t \in Typeids :
          ~(e.purge \/ e.subs[t] # None) => new.subs[t] = o.subs[t]

\* A command of an action that its entry states, on a writer that is there.
LEMMA CommandKeepsUnlisted ==
    ASSUME NEW w \in Writers, NEW e \in Entries, NEW o \in Objects,
           NEW a \in Actions,
           a.kind \in {"subscription_create", "subscription_replace",
                       "subscription_update"} => a.typeid \in Wanted(e),
           a.kind = "writer_properties_set" => e.property # None,
           a.kind = "settings_set" => e.setting # None,
           a.kind = "subscription_delete" => e.purge
    PROVE  /\ a.kind \in ReplaceKinds /\ Deleted(o, a) # None
                 => SameUnlisted(e, o, Deleted(o, a))
           /\ Applied(w, e, o, a) # None => SameUnlisted(e, o, Applied(w, e, o, a))
<1> USE NoneAssumption
<1>1. a.kind \in SubscriptionKinds => a.typeid \in Typeids
  BY DEF Actions, SubscriptionKinds, WriterKinds, BlockedKinds
<1>2. SameUnlisted(e, o, o)
  BY DEF SameUnlisted
<1>3. ASSUME NEW t \in Typeids, NEW s, e.purge \/ t \in Wanted(e)
      PROVE  SameUnlisted(e, o, [o EXCEPT !.subs[t] = s])
  <2> DEFINE n == [o EXCEPT !.subs[t] = s]
  <2>1. /\ n.property = o.property /\ n.setting = o.setting
        /\ \A u \in Typeids : u # t => n.subs[u] = o.subs[u]
    BY DEF Objects
  <2> QED
    BY <1>3, <2>1 DEF SameUnlisted, Wanted
<1>4. a.kind \in {"subscription_replace", "subscription_delete"}
         => SameUnlisted(e, o, Deleted(o, a))
  BY <1>1, <1>3 DEF Deleted, SubscriptionKinds
<1>5. a.kind \in {"writer_create", "writer_replace", "subscription_create",
                  "subscription_replace"}
         => SameUnlisted(e, o, Initialised(w, e, o, a))
  BY <1>1, <1>2, <1>3 DEF Initialised, SubscriptionKinds
<1>6. a.kind \notin {"writer_delete"} => SameUnlisted(e, o, Assigned(e, o, a))
  <2>1. CASE a.kind = "writer_properties_set"
    <3>1. Assigned(e, o, a) = [o EXCEPT !.property = e.property]
      BY <2>1 DEF Assigned
    <3> QED
      BY <2>1, <3>1 DEF SameUnlisted, Objects
  <2>2. CASE a.kind = "settings_set"
    <3>1. Assigned(e, o, a) = [o EXCEPT !.setting = e.setting]
      BY <2>2 DEF Assigned
    <3> QED
      BY <2>2, <3>1 DEF SameUnlisted, Objects
  <2>3. CASE a.kind = "subscription_update" /\ o.subs[a.typeid] # None
    <3>1. a.typeid \in Typeids
      BY <1>1, <2>3 DEF SubscriptionKinds
    <3>2. Assigned(e, o, a) =
            [o EXCEPT !.subs[a.typeid] =
               [o.subs[a.typeid] EXCEPT !.expr = e.subs[a.typeid].expr]]
      BY <2>3, <3>1 DEF Assigned, Objects
    <3> QED
      BY <1>3, <2>3, <3>1, <3>2
  <2>4. CASE /\ a.kind \notin {"writer_properties_set", "settings_set"}
             /\ ~(a.kind = "subscription_update" /\ o.subs[a.typeid] # None)
    BY <1>2, <2>4 DEF Assigned
  <2> QED
    BY <2>1, <2>2, <2>3, <2>4
<1> QED
  BY <1>4, <1>5, <1>6 DEF Applied, Deleted, ReplaceKinds

\* The one writer a command is about keeps what the task does not state of it,
\* and is deleted or left as it is if the task wants it gone.
LEMMA CommandUnlisted ==
    ASSUME TInv, PlansStated, NEW a \in pending, SendDelete(a) \/ SendLast(a),
           NEW w \in Writers, device[w] # None, device'[w] # None
    PROVE  \/ device'[w] = device[w]
           \/ w \in Present /\ SameUnlisted(task.entries[w], device[w], device'[w])
<1> USE DEF TInv
<1>1. /\ current \in Planned /\ current \in Writers /\ current # None
      /\ a \in plans[current].actions /\ a \in Actions
  BY DEF SendDelete, SendLast, WritesFit, TypeOK
<1>2. CASE w # current
  BY <1>2 DEF SendDelete, SendLast, Write, TypeOK
<1>3. CASE w = current /\ w \notin Present
  <2>1. a = Act("writer_delete")
    BY <1>1, <1>3 DEF PlansFit
  <2>2. ~SendDelete(a) /\ \A e : Applied(w, e, device[w], a) = None
    BY <2>1 DEF SendDelete, Act, ReplaceKinds, Applied
  <2> QED
    BY <1>1, <1>3, <2>2 DEF SendLast, Write, TypeOK
<1>4. CASE w = current /\ w \in Present
  <2>1. plans[w].desired = task.entries[w]
    BY <1>1, <1>4 DEF PlansFit, Present
  <2>2. device[w] \in Objects /\ plans[w].desired \in Entries
    BY <1>1, <1>4 DEF TypeOK, Planned, WriterPlans
  <2>3. /\ a.kind \in {"subscription_create", "subscription_replace",
                        "subscription_update"}
              => a.typeid \in Wanted(plans[w].desired)
        /\ a.kind = "writer_properties_set" => plans[w].desired.property # None
        /\ a.kind = "settings_set" => plans[w].desired.setting # None
        /\ a.kind = "subscription_delete" => plans[w].desired.purge
    BY <1>1, <1>4 DEF PlansFit, PlansStated
  <2>4. /\ a.kind \in ReplaceKinds /\ Deleted(device[w], a) # None
              => SameUnlisted(plans[w].desired, device[w], Deleted(device[w], a))
        /\ Applied(w, plans[w].desired, device[w], a) # None
              => SameUnlisted(plans[w].desired, device[w],
                              Applied(w, plans[w].desired, device[w], a))
    BY <1>1, <2>2, <2>3, CommandKeepsUnlisted
  <2>5. \/ device'[w] = device[w]
        \/ a.kind \in ReplaceKinds /\ device'[w] = Deleted(device[w], a)
        \/ device'[w] = Applied(w, plans[w].desired, device[w], a)
    BY <1>1, <1>4 DEF SendDelete, SendLast, Write, TypeOK
  <2> QED
    BY <1>4, <2>1, <2>4, <2>5
<1> QED
  BY <1>2, <1>3, <1>4

\* Whatever the task does not list survives as long as its writer does.
THEOREM Unlisted == Spec => UnlistedKept
<1> DEFINE Kept == \A w \in Writers :
      device[w] # None /\ device'[w] # None =>
         LET e == task.entries[w]
             mine == w \in Present
         IN  /\ ~(mine /\ e.property # None) =>
                   device'[w].property = device[w].property
             /\ ~(mine /\ e.setting # None) =>
                   device'[w].setting = device[w].setting
             /\ \A t \in Typeids :
                   ~(mine /\ (e.purge \/ e.subs[t] # None)) =>
                      device'[w].subs[t] = device[w].subs[t]
<1>1. Init => PlansStated
  BY DEF Init, IdleRun, PlansStated, Planned, NoPlans
<1>2. TInv /\ PlansStated /\ [Next]_vars => Kept
  <2> SUFFICES ASSUME TInv, PlansStated, [Next]_vars PROVE Kept
    OBVIOUS
  <2>1. CASE device' = device
    BY <2>1
  <2>2. CASE \E a \in pending : SendDelete(a) \/ SendLast(a)
    BY <2>2, CommandUnlisted DEF SameUnlisted
  <2>3. device' = device \/ \E a \in pending : SendDelete(a) \/ SendLast(a)
    BY DEF Next, Proceed, Command, StartRun, PlanWriter, PlanPurged, TakeWriter,
           VerifyWriter, VerifyDeleted, FindUnmanaged, PlanRotation, FailBlocked,
           ExitUnwritten, BeginApply, ApplyRotation, VerifyRotation, HoldDeletes,
           BeginDeletes, DeletesSent, Finish, SessionDies, EndRun, deviceVars,
           vars
  <2> QED
    BY <2>1, <2>2, <2>3
<1>3. IInv => TInv
  BY DEF IInv, TInv
<1>4. TInv /\ PlansStated /\ [Next]_vars => [Kept]_vars
  BY <1>2
<1> QED
  BY <1>1, <1>3, <1>4, StepStated, Inductive, PTL DEF Spec, UnlistedKept

===============================================================================
