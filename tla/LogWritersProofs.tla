--------------------------- MODULE LogWritersProofs ---------------------------
(***************************************************************************)
(* Lemmas about the pure half of the reconciler: what reads, plans and     *)
(* commands yield, and what a positive verdict of the planner or the       *)
(* verifier says of the real object even when the read lost something.     *)
(* Last, what one answered read, its plan and its commands come to when    *)
(* nothing is lost.                                                        *)
(***************************************************************************)
EXTENDS LogWriters, FiniteSetTheorems, TLAPS

MaybeObject == Objects \cup {None}

\* Every read is a read, and loses a natural number of commands.
LEMMA ReadTyped ==
    ASSUME NEW o \in MaybeObject, NEW x \in read_actual(o)
    PROVE  x.read \in Reads /\ x.lost \in Nat
<1> USE TypesAssumption, NoneAssumption
<1>1. NoSubs \in [Typeids -> Subscriptions \cup {None}]
  BY DEF NoSubs
<1>2. BlankSub \in Subscriptions
  BY DEF BlankSub, Subscriptions
<1>3. AbsentRead \in Reads
  BY <1>1 DEF AbsentRead, Reads, Objects
<1>4. CASE o = None
  BY <1>3, <1>4 DEF read_actual
<1>5. CASE o # None
  <2>1. o \in Objects
    BY <1>5 DEF MaybeObject
  <2>2. Answered(o).read \in Reads /\ Answered(o).lost \in Nat
    BY <2>1 DEF Answered, Reads
  <2>3. ChildrenLost(o).read \in Reads /\ ChildrenLost(o).lost \in Nat
    BY <2>1, <1>1 DEF ChildrenLost, Reads, Objects
  <2>4. ASSUME NEW a \in SUBSET Typeids, NEW s \in BOOLEAN
        PROVE  PerChild(o, a, s).read \in Reads /\ PerChild(o, a, s).lost \in Nat
    <3> DEFINE gone == {t \in Typeids : o.subs[t] # None} \ a
               subs == [t \in Typeids |-> IF t \in gone THEN BlankSub
                                                        ELSE o.subs[t]]
               kept == IF s THEN o.setting ELSE None
    <3>1. Cardinality(gone) \in Nat
      BY FS_Subset, FS_CardinalityType
    <3>2. subs \in [Typeids -> Subscriptions \cup {None}]
      <4>1. \A t \in Typeids : o.subs[t] \in Subscriptions \cup {None}
        BY <2>1 DEF Objects
      <4> QED
        BY <1>2, <4>1
    <3>3. kept \in Values \cup {None}
      BY <2>1 DEF Objects
    <3>4. PerChild(o, a, s) =
            [lost |-> 1 + Cardinality(gone) + (IF s THEN 0 ELSE 1),
             read |-> [exists |-> TRUE,
                       obj |-> [o EXCEPT !.setting = kept, !.subs = subs]]]
      BY DEF PerChild
    <3> HIDE DEF gone, subs, kept
    <3>5. [o EXCEPT !.setting = kept, !.subs = subs] \in Objects
      BY <2>1, <3>2, <3>3 DEF Objects
    <3> QED
      BY <3>1, <3>4, <3>5 DEF Reads
  <2>5. ASSUME NEW s \in BOOLEAN
        PROVE  ListingLost(o, s).read \in Reads /\ ListingLost(o, s).lost \in Nat
    <3> DEFINE kept == IF s THEN o.setting ELSE None
    <3>1. kept \in Values \cup {None}
      BY <2>1 DEF Objects
    <3>2. ListingLost(o, s) =
            [lost |-> 2 + (IF s THEN 0 ELSE 1),
             read |-> [exists |-> TRUE,
                       obj |-> [o EXCEPT !.setting = kept, !.subs = NoSubs]]]
      BY DEF ListingLost
    <3> HIDE DEF kept
    <3>3. [o EXCEPT !.setting = kept, !.subs = NoSubs] \in Objects
      BY <1>1, <2>1, <3>1 DEF Objects
    <3> QED
      BY <3>2, <3>3 DEF Reads
  <2> QED
    BY <1>3, <1>5, <2>2, <2>3, <2>4, <2>5 DEF read_actual
<1> QED
  BY <1>4, <1>5

\* A plan holds planner actions only, and writes only listed subscriptions.
LEMMA PlanTyped ==
    ASSUME NEW w \in Writers, NEW e \in Entries, NEW r \in Reads, NEW imm
    PROVE  /\ _plan_writer(w, e, r, imm) \in SUBSET Actions
           /\ \A a \in _plan_writer(w, e, r, imm) :
                 a.kind \in {"subscription_create", "subscription_replace",
                             "subscription_update"} => a.typeid \in Wanted(e)
           /\ e.state = "absent" =>
                 _plan_writer(w, e, r, imm) \subseteq {Act("writer_delete")}
<1> DEFINE Fits(S) == /\ S \subseteq Actions
                      /\ \A a \in S :
                            a.kind \in {"subscription_create",
                                        "subscription_replace",
                                        "subscription_update"}
                               => a.typeid \in Wanted(e)
<1>1. \A k \in WriterKinds \cup BlockedKinds : Fits({Act(k)})
  BY DEF Act, Actions, WriterKinds, BlockedKinds
<1>2. Fits({})
  OBVIOUS
<1>3. \A S, T : Fits(S) /\ Fits(T) => Fits(S \cup T)
  OBVIOUS
<1>4. Fits(_plan_writer_properties(e, r))
  BY <1>1, <1>2 DEF _plan_writer_properties, WriterKinds
<1>5. \A c \in BOOLEAN : Fits(_plan_settings(e, r, c))
  BY <1>1, <1>2 DEF _plan_settings, WriterKinds
<1>6. ASSUME NEW c \in BOOLEAN
      PROVE  Fits(_plan_subscriptions(e, r, c))
  <2>1. ASSUME NEW T \in SUBSET Wanted(e),
               NEW k \in {"subscription_create", "subscription_replace",
                          "subscription_update"}
        PROVE  Fits({SubAct(k, t) : t \in T})
    BY DEF SubAct, Actions, SubscriptionKinds, Wanted
  <2>2. ASSUME NEW T \in SUBSET Typeids
        PROVE  Fits({SubAct("subscription_delete", t) : t \in T})
    BY DEF SubAct, Actions, SubscriptionKinds
  <2> HIDE DEF Fits
  <2> QED
    BY <1>2, <1>3, <2>1, <2>2 DEF _plan_subscriptions
<1>7. ASSUME e.state # "absent"
      PROVE  Fits(_plan_writer(w, e, r, imm))
  <2> HIDE DEF Fits
  <2> DEFINE recreate == ~r.exists \/ Repointed(w, e, r)
  <2>1. recreate \in BOOLEAN
    OBVIOUS
  <2>2. Fits(IF ~r.exists THEN {Act("writer_create")}
             ELSE IF recreate THEN {Act("writer_replace")} ELSE {})
    BY <1>1, <1>2 DEF WriterKinds
  <2>3. Fits(_plan_subscriptions(e, r, recreate))
        /\ Fits(_plan_settings(e, r, recreate))
    BY <1>5, <1>6, <2>1
  <2>4. Fits({Act("blocked_uncreatable")}) /\ Fits({Act("blocked_immutable")})
    BY <1>1 DEF BlockedKinds
  <2> QED
    BY <1>3, <1>4, <1>7, <2>2, <2>3, <2>4 DEF _plan_writer
<1>8. ASSUME e.state = "absent"
      PROVE  _plan_writer(w, e, r, imm) \subseteq {Act("writer_delete")}
  BY <1>8 DEF _plan_writer
<1> QED
  BY <1>1, <1>7, <1>8 DEF WriterKinds

\* A command of an action that fits its entry leaves a writer object or none.
LEMMA CommandTyped ==
    ASSUME NEW w \in Writers, NEW e \in Entries, NEW o \in MaybeObject,
           NEW a \in Actions,
           a.kind \in {"subscription_create", "subscription_replace",
                       "subscription_update"} => a.typeid \in Wanted(e)
    PROVE  /\ a.kind \in ReplaceKinds => Deleted(o, a) \in MaybeObject
           /\ Applied(w, e, o, a) \in MaybeObject
<1> USE TypesAssumption, NoneAssumption
<1>1. a.kind \in SubscriptionKinds => a.typeid \in Typeids
  BY DEF Actions, SubscriptionKinds, WriterKinds, BlockedKinds
<1>2. NoSubs \in [Typeids -> Subscriptions \cup {None}]
  BY DEF NoSubs
<1>3. ASSUME NEW t \in Typeids, NEW s \in Subscriptions \cup {None},
             NEW p \in Objects
      PROVE  [p EXCEPT !.subs[t] = s] \in Objects
  BY <1>3 DEF Objects
<1>4. a.kind \in ReplaceKinds \cup {"subscription_delete"} =>
         Deleted(o, a) \in MaybeObject
  BY <1>1, <1>3 DEF Deleted, MaybeObject, ReplaceKinds, SubscriptionKinds
<1>5. Created(w, e) \in Objects
  BY <1>2 DEF Created, Objects, Entries
<1>6. a.kind \in {"writer_create", "writer_replace", "subscription_create",
                  "subscription_replace"} =>
         Initialised(w, e, o, a) \in MaybeObject
  <2>1. \A t \in Typeids : e.subs[t] \in Subscriptions \cup {None}
    BY DEF Entries
  <2> QED
    BY <1>1, <1>3, <1>5, <2>1
    DEF Initialised, MaybeObject, SubscriptionKinds
<1>7. Assigned(e, o, a) \in MaybeObject
  <2>1. CASE o = None
    BY <2>1 DEF Assigned, MaybeObject
  <2>2. CASE o # None /\ a.kind = "writer_properties_set"
    BY <2>2 DEF Assigned, MaybeObject, Objects, Entries
  <2>3. CASE o # None /\ a.kind = "settings_set"
    BY <2>3 DEF Assigned, MaybeObject, Objects, Entries
  <2>4. CASE o # None /\ a.kind = "subscription_update" /\ o.subs[a.typeid] # None
    <3>1. a.typeid \in Typeids /\ o \in Objects
      BY <1>1, <2>4 DEF SubscriptionKinds, MaybeObject
    <3>2. o.subs[a.typeid] \in Subscriptions
      BY <2>4, <3>1 DEF Objects
    <3>3. e.subs[a.typeid] \in Subscriptions
      BY <2>4 DEF Wanted, Entries
    <3>4. [o.subs[a.typeid] EXCEPT !.expr = e.subs[a.typeid].expr] \in Subscriptions
      BY <3>2, <3>3 DEF Subscriptions
    <3>5. Assigned(e, o, a) =
            [o EXCEPT !.subs[a.typeid] =
               [o.subs[a.typeid] EXCEPT !.expr = e.subs[a.typeid].expr]]
      BY <2>4, <3>1, <3>2 DEF Assigned, Objects
    <3> QED
      BY <1>3, <3>1, <3>4, <3>5 DEF MaybeObject
  <2>5. CASE /\ o # None
             /\ a.kind \notin {"writer_properties_set", "settings_set"}
             /\ ~(a.kind = "subscription_update" /\ o.subs[a.typeid] # None)
    BY <2>5 DEF Assigned
  <2> QED
    BY <2>1, <2>2, <2>3, <2>4, <2>5
<1> QED
  BY <1>4, <1>6, <1>7 DEF Applied, MaybeObject

\* A read may show less of an object than there is, never something else.
LEMMA ReadShowsLess ==
    ASSUME NEW o \in MaybeObject, NEW x \in read_actual(o), x.read.exists
    PROVE  /\ o \in Objects
           /\ x.read.obj.endpoint = o.endpoint
           /\ x.read.obj.property = o.property
           /\ x.read.obj.setting \in {o.setting, None}
           /\ \A t \in Typeids :
                 x.read.obj.subs[t] \in {o.subs[t], None, BlankSub}
<1>1. o # None
  BY DEF read_actual, AbsentRead
<1>2. o \in Objects
  BY <1>1 DEF MaybeObject
<1>3. CASE x = Answered(o)
  BY <1>2, <1>3 DEF Answered, Objects
<1>4. CASE x = ChildrenLost(o)
  BY <1>2, <1>4 DEF ChildrenLost, Objects, NoSubs
<1>5. ASSUME NEW a \in SUBSET Typeids, NEW s \in BOOLEAN, x = PerChild(o, a, s)
      PROVE  /\ x.read.obj.endpoint = o.endpoint
             /\ x.read.obj.property = o.property
             /\ x.read.obj.setting \in {o.setting, None}
             /\ \A t \in Typeids :
                   x.read.obj.subs[t] \in {o.subs[t], None, BlankSub}
  <2> DEFINE gone == {t \in Typeids : o.subs[t] # None} \ a
             subs == [t \in Typeids |-> IF t \in gone THEN BlankSub
                                                      ELSE o.subs[t]]
             kept == IF s THEN o.setting ELSE None
  <2>1. x.read.obj = [o EXCEPT !.setting = kept, !.subs = subs]
    BY <1>5 DEF PerChild
  <2>2. kept \in {o.setting, None}
    OBVIOUS
  <2>3. \A t \in Typeids : subs[t] \in {o.subs[t], None, BlankSub}
    OBVIOUS
  <2> HIDE DEF subs, kept, gone
  <2> QED
    BY <1>2, <2>1, <2>2, <2>3 DEF Objects
<1>6. ASSUME NEW s \in BOOLEAN, x = ListingLost(o, s)
      PROVE  /\ x.read.obj.endpoint = o.endpoint
             /\ x.read.obj.property = o.property
             /\ x.read.obj.setting \in {o.setting, None}
             /\ \A t \in Typeids :
                   x.read.obj.subs[t] \in {o.subs[t], None, BlankSub}
  <2> DEFINE kept == IF s THEN o.setting ELSE None
  <2>1. x.read.obj = [o EXCEPT !.setting = kept, !.subs = NoSubs]
    BY <1>6 DEF ListingLost
  <2>2. kept \in {o.setting, None}
    OBVIOUS
  <2> HIDE DEF kept
  <2> QED
    BY <1>2, <2>1, <2>2 DEF Objects, NoSubs
<1>7. x # [lost |-> 2, read |-> AbsentRead]
  BY DEF AbsentRead
<1> QED
  BY <1>1, <1>2, <1>3, <1>4, <1>5, <1>6, <1>7 DEF read_actual

\* An empty plan for a present writer means that what the task states of it is
\* in place, even if the read it was computed from lost something.
LEMMA EmptyPlanHolds ==
    ASSUME NEW w \in Writers, NEW e \in Entries, NEW imm,
           NEW o \in MaybeObject, NEW x \in read_actual(o),
           ValidEntry(w, e), e.state = "present",
           _plan_writer(w, e, x.read, imm) = {}
    PROVE  Holds(w, e, o)
<1> DEFINE r == x.read
<1>1. r.exists /\ ~Repointed(w, e, r)
  BY DEF _plan_writer
<1>2. /\ _plan_writer_properties(e, r) = {}
      /\ _plan_subscriptions(e, r, FALSE) = {}
      /\ _plan_settings(e, r, FALSE) = {}
  BY <1>1 DEF _plan_writer
<1>3. /\ o \in Objects
      /\ r.obj.endpoint = o.endpoint
      /\ r.obj.property = o.property
      /\ r.obj.setting \in {o.setting, None}
      /\ \A t \in Typeids : r.obj.subs[t] \in {o.subs[t], None, BlankSub}
  BY <1>1, ReadShowsLess
<1>4. HasEndpoint(w) /\ e.endpoint # None => o.endpoint = e.endpoint
  BY <1>1, <1>3 DEF Repointed
<1>5. e.property # None => o.property = e.property
  BY <1>2, <1>3 DEF _plan_writer_properties
<1>6. e.setting # None => o.setting = e.setting
  BY <1>2, <1>3 DEF _plan_settings
<1>7. ASSUME NEW t \in Wanted(e)
      PROVE  /\ o.subs[t] # None
             /\ o.subs[t].expr = e.subs[t].expr
             /\ ~Frozen(e, o.subs[t], t)
  <2> DEFINE have == r.obj.subs[t]
  <2>1. have # None
    BY <1>2 DEF _plan_subscriptions
  <2>2. ~Frozen(e, have, t)
    BY <1>2, <2>1 DEF _plan_subscriptions
  <2>3. have.expr = e.subs[t].expr
    BY <1>2, <2>1, <2>2 DEF _plan_subscriptions
  <2>4. e.subs[t].expr # None /\ t \in Typeids
    BY DEF ValidEntry, Wanted
  <2>5. have # BlankSub
    BY <2>3, <2>4 DEF BlankSub
  <2> QED
    BY <1>3, <2>1, <2>2, <2>3, <2>4, <2>5
<1> QED
  BY <1>3, <1>4, <1>5, <1>6, <1>7, NoneAssumption DEF Holds

\* So does a successful verification of a present writer.
LEMMA VerifyHolds ==
    ASSUME NEW w \in Writers, NEW e \in Entries,
           NEW o \in MaybeObject, NEW x \in read_actual(o),
           ValidEntry(w, e), e.state = "present", verify(w, e, x.read)
    PROVE  Holds(w, e, o)
<1> DEFINE r == x.read
<1>1. r.exists /\ Configured(w, e, r.obj)
  BY DEF verify
<1>2. /\ o \in Objects
      /\ r.obj.endpoint = o.endpoint
      /\ r.obj.property = o.property
      /\ r.obj.setting \in {o.setting, None}
      /\ \A t \in Typeids : r.obj.subs[t] \in {o.subs[t], None, BlankSub}
  BY <1>1, ReadShowsLess
<1>3. ASSUME NEW t \in Wanted(e)
      PROVE  /\ o.subs[t] # None
             /\ o.subs[t].expr = e.subs[t].expr
             /\ ~Frozen(e, o.subs[t], t)
  <2>1. VerifySub(e.subs[t], r.obj.subs[t])
    BY <1>1 DEF Configured
  <2>2. e.subs[t].expr # None /\ t \in Typeids
    BY DEF ValidEntry, Wanted
  <2>3. r.obj.subs[t] # None /\ r.obj.subs[t] # BlankSub
    BY <2>1, <2>2 DEF VerifySub, BlankSub
  <2> QED
    BY <1>2, <2>1, <2>2, <2>3 DEF VerifySub, Frozen
<1> QED
  BY <1>1, <1>2, <1>3, NoneAssumption DEF Holds, Configured

\* A read all of whose commands were answered shows the object as it is.
LEMMA AnsweredReadIsTheObject ==
    ASSUME NEW o \in MaybeObject, NEW x \in read_actual(o), x.lost = 0
    PROVE  x.read = IF o = None THEN AbsentRead
                    ELSE [exists |-> TRUE, obj |-> o]
<1>1. ASSUME NEW a \in SUBSET Typeids, NEW s \in BOOLEAN, o # None
      PROVE  PerChild(o, a, s).lost # 0 /\ ListingLost(o, s).lost # 0
  <2> DEFINE gone == {t \in Typeids : o.subs[t] # None} \ a
  <2>1. Cardinality(gone) \in Nat
    BY TypesAssumption, FS_Subset, FS_CardinalityType
  <2>2. PerChild(o, a, s).lost = 1 + Cardinality(gone) + (IF s THEN 0 ELSE 1)
    BY DEF PerChild
  <2> HIDE DEF gone
  <2> QED
    BY <2>1, <2>2 DEF ListingLost
<1>2. CASE o = None
  BY <1>2 DEF read_actual
<1>3. CASE o # None
  <2>1. x # ChildrenLost(o) /\ x # [lost |-> 2, read |-> AbsentRead]
    BY DEF ChildrenLost
  <2>2. x = Answered(o)
    BY <1>1, <1>3, <2>1 DEF read_actual
  <2> QED
    BY <1>3, <2>2 DEF Answered
<1> QED
  BY <1>2, <1>3

\* A read that shows the object as it is.
Shown(o) == IF o = None THEN AbsentRead ELSE [exists |-> TRUE, obj |-> o]

(***************************************************************************)
(* A writer on course: what the planner has put into a plan, and what is   *)
(* left of it after each command, is what still separates the object from  *)
(* its entry.                                                              *)
(***************************************************************************)
\* The planner compares labels in their scalar form and the verifier as they
\* are, so both agree only on labels the form tells apart.
LabelsDistinct ==
    \A a, b \in Labels : ScalarForm[a] = ScalarForm[b] => a = b

\* The object is still to be created, or created again.
Renews(P) == Act("writer_create") \in P \/ Act("writer_replace") \in P

Blocks(P) == \E a \in P : a.kind \in BlockedKinds

\* No two actions of a plan are of equal rank, so its order is total.
Distinct(P) ==
    \A a, b \in P : Rank(a.kind) = Rank(b.kind) /\ a.typeid = b.typeid => a = b

\* A deletion is all there is to an absent entry's plan, and only unlisted
\* subscriptions are deleted.
Fits(e, P) ==
    /\ \A a \in P : a.kind = "writer_delete" <=> e.state = "absent"
    /\ \A a \in P : a.kind \in SubscriptionKinds =>
          (a.typeid \in Wanted(e) <=> a.kind # "subscription_delete")

\* One subscription of an object that stays is right, or on its way.
SubToward(e, o, P, t) ==
    IF t \in Wanted(e)
    THEN \/ VerifySub(e.subs[t], o.subs[t])
         \/ SubAct("subscription_create", t) \in P /\ o.subs[t] = None
         \/ SubAct("subscription_replace", t) \in P
         \/ /\ SubAct("subscription_update", t) \in P
            /\ o.subs[t] # None
            /\ e.subs[t].label \in {None, o.subs[t].label}
    ELSE e.purge => o.subs[t] = None \/ SubAct("subscription_delete", t) \in P

\* The actions P take the object o to all that e asks of it: every part is
\* right already or has its action in P, and a new object needs all of them.
Toward(w, e, o, P) ==
    IF e.state = "absent" THEN o = None \/ Act("writer_delete") \in P
    ELSE /\ \/ e.property = None
            \/ Act("writer_properties_set") \in P
            \/ e.property = IF Renews(P) THEN Fresh ELSE o.property
         /\ \/ e.setting = None
            \/ Act("settings_set") \in P
            \/ ~Renews(P) /\ e.setting = o.setting
         /\ IF Renews(P)
            THEN /\ Act("writer_create") \in P => o = None
                 /\ \A t \in Wanted(e) : SubAct("subscription_create", t) \in P
            ELSE /\ o # None
                 /\ HasEndpoint(w) /\ e.endpoint # None => o.endpoint = e.endpoint
                 /\ \A t \in Typeids : SubToward(e, o, P, t)

Course(w, e, o, P) == Distinct(P) /\ Fits(e, P) /\ Toward(w, e, o, P)

\* A recreated object reads as fresh, so moving one needs an entry that states
\* no other value for a property the old object may already have.
MoveIsSafe(w, e, imm) ==
    e.state = "present" /\ imm = "replace" /\ replaceable(w) /\ HasEndpoint(w)
       => e.property \in {None, Fresh}

\* Labels that are told apart are frozen exactly when they differ.
LEMMA FrozenDiffers ==
    ASSUME LabelsDistinct, NEW e \in Entries, NEW t \in Wanted(e),
           NEW s \in Subscriptions
    PROVE  Frozen(e, s, t) <=> e.subs[t].label \notin {None, s.label}
<1>1. e.subs[t] \in Subscriptions
  BY DEF Wanted, Entries
<1>2. e.subs[t].label \in Labels \cup {None} /\ s.label \in Labels \cup {None}
  BY <1>1 DEF Subscriptions
<1>3. \A l \in Labels : ScalarForm[l] \in Labels /\ l # None
  BY TypesAssumption
<1> QED
  BY <1>2, <1>3 DEF Frozen, normalise_scalar, LabelsDistinct

\* The subscription part of a plan, kind by kind.
SubscriptionsPlanned(e, have, P) ==
    /\ \A a \in P : \E k \in SubscriptionKinds, t \in Typeids : a = SubAct(k, t)
    /\ \A t \in Typeids :
          /\ SubAct("subscription_create", t) \in P
                <=> t \in Wanted(e) /\ have[t] = None
          /\ SubAct("subscription_replace", t) \in P
                <=> t \in Wanted(e) /\ have[t] # None /\ Frozen(e, have[t], t)
          /\ SubAct("subscription_update", t) \in P
                <=> /\ t \in Wanted(e) /\ have[t] # None
                    /\ ~Frozen(e, have[t], t)
                    /\ have[t].expr # e.subs[t].expr
          /\ SubAct("subscription_delete", t) \in P
                <=> t \notin Wanted(e) /\ have[t] # None /\ e.purge

\* _plan_subscriptions plans just that.
LEMMA SubscriptionPlan ==
    ASSUME NEW e \in Entries, NEW r, NEW recreate \in BOOLEAN
    PROVE  SubscriptionsPlanned(e, IF recreate THEN NoSubs ELSE r.obj.subs,
                                _plan_subscriptions(e, r, recreate))
<1> DEFINE have == IF recreate THEN NoSubs ELSE r.obj.subs
           P == _plan_subscriptions(e, r, recreate)
           existing == {t \in Wanted(e) : have[t] # None}
           frozen == {t \in existing : Frozen(e, have[t], t)}
           moved == {t \in existing \ frozen : have[t].expr # e.subs[t].expr}
           extra == {t \in Typeids \ Wanted(e) : have[t] # None}
           purged == IF e.purge THEN extra ELSE {}
<1>1. P = {SubAct("subscription_create", t) : t \in Wanted(e) \ existing}
          \cup {SubAct("subscription_replace", t) : t \in frozen}
          \cup {SubAct("subscription_update", t) : t \in moved}
          \cup {SubAct("subscription_delete", t) : t \in purged}
  BY DEF _plan_subscriptions
<1>2. /\ frozen \subseteq Typeids /\ moved \subseteq Typeids
      /\ purged \subseteq Typeids /\ Wanted(e) \subseteq Typeids
  BY DEF Wanted
<1> HIDE DEF have, P
<1>3. \A t \in Typeids :
         /\ t \in Wanted(e) \ existing <=> t \in Wanted(e) /\ have[t] = None
         /\ t \in frozen
               <=> t \in Wanted(e) /\ have[t] # None /\ Frozen(e, have[t], t)
         /\ t \in moved
               <=> /\ t \in Wanted(e) /\ have[t] # None
                   /\ ~Frozen(e, have[t], t)
                   /\ have[t].expr # e.subs[t].expr
         /\ t \in purged <=> t \notin Wanted(e) /\ have[t] # None /\ e.purge
  OBVIOUS
<1>4. \A k, l, s, t : SubAct(k, s) = SubAct(l, t) <=> k = l /\ s = t
  BY DEF SubAct
<1> HIDE DEF existing, frozen, moved, purged
<1>5. ASSUME NEW a \in P
      PROVE  \E k \in SubscriptionKinds, t \in Typeids : a = SubAct(k, t)
  BY <1>1, <1>2 DEF SubscriptionKinds
<1>6. \A t \in Typeids :
         /\ SubAct("subscription_create", t) \in P <=> t \in Wanted(e) \ existing
         /\ SubAct("subscription_replace", t) \in P <=> t \in frozen
         /\ SubAct("subscription_update", t) \in P <=> t \in moved
         /\ SubAct("subscription_delete", t) \in P <=> t \in purged
  BY <1>1, <1>4
<1>7. SubscriptionsPlanned(e, have, P)
  BY <1>3, <1>5, <1>6 DEF SubscriptionsPlanned
<1> QED
  BY <1>7 DEF have, P

\* The plan of a present writer that is not blocked, part by part.
LEMMA PlanParts ==
    ASSUME NEW w, NEW e \in Entries, NEW r \in Reads, NEW imm,
           e.state = "present",
           NEW P, P = _plan_writer(w, e, r, imm), ~Blocks(P),
           NEW recreate, recreate = (~r.exists \/ Repointed(w, e, r)),
           NEW S, S = _plan_subscriptions(e, r, recreate)
    PROVE  /\ Repointed(w, e, r) => imm = "replace" /\ replaceable(w)
           /\ \A a \in P : \/ a \in S
                           \/ a \in {Act("writer_create"), Act("writer_replace"),
                                     Act("writer_properties_set"),
                                     Act("settings_set")}
           /\ S \subseteq P
           /\ Act("writer_create") \in P <=> ~r.exists
           /\ Act("writer_replace") \in P <=> Repointed(w, e, r)
           /\ Act("writer_properties_set") \in P
                 <=> e.property # None /\ r.obj.property # e.property
           /\ Act("settings_set") \in P
                 <=> /\ e.setting # None
                     /\ ~r.exists \/ Repointed(w, e, r) \/ r.obj.setting # e.setting
<1> DEFINE head == IF ~r.exists THEN {Act("writer_create")}
                   ELSE IF recreate THEN {Act("writer_replace")} ELSE {}
           props == _plan_writer_properties(e, r)
           settings == _plan_settings(e, r, recreate)
<1>1. /\ r.exists \/ replaceable(w)
      /\ Repointed(w, e, r) => imm = "replace" /\ replaceable(w)
  <2>1. \A k \in BlockedKinds : Act(k) \notin P
    BY DEF Blocks, Act
  <2> QED
    BY <2>1 DEF _plan_writer, BlockedKinds
<1>2. P = head \cup props \cup S \cup settings
  BY <1>1 DEF _plan_writer
<1>3. recreate \in BOOLEAN /\ (Repointed(w, e, r) => r.exists)
  BY DEF Repointed, Reads
<1>4. \A a \in S : \E k \in SubscriptionKinds, t \in Typeids : a = SubAct(k, t)
  BY <1>3, SubscriptionPlan DEF SubscriptionsPlanned
<1>5. \A k \in WriterKinds : Act(k) \notin S
  BY <1>4 DEF SubAct, Act, WriterKinds, SubscriptionKinds
<1>6. \A k, l : Act(k) = Act(l) <=> k = l
  BY DEF Act
<1>7. props = IF e.property # None /\ r.obj.property # e.property
              THEN {Act("writer_properties_set")} ELSE {}
  BY DEF _plan_writer_properties
<1>8. settings = IF e.setting # None /\ (recreate \/ r.obj.setting # e.setting)
                 THEN {Act("settings_set")} ELSE {}
  BY DEF _plan_settings
<1>9. head = IF ~r.exists THEN {Act("writer_create")}
             ELSE IF Repointed(w, e, r) THEN {Act("writer_replace")} ELSE {}
  OBVIOUS
<1> HIDE DEF head, props, settings
<1>10. /\ \A a \in P : a \in S \/ a \in {Act("writer_create"), Act("writer_replace"),
                           Act("writer_properties_set"), Act("settings_set")}
       /\ S \subseteq P
  BY <1>2, <1>7, <1>8, <1>9
<1>11. /\ Act("writer_create") \in P <=> Act("writer_create") \in head
       /\ Act("writer_replace") \in P <=> Act("writer_replace") \in head
       /\ Act("writer_properties_set") \in P <=> Act("writer_properties_set") \in props
       /\ Act("settings_set") \in P <=> Act("settings_set") \in settings
  BY <1>2, <1>5, <1>6, <1>7, <1>8, <1>9 DEF WriterKinds
<1>12. /\ Act("writer_create") \in head <=> ~r.exists
       /\ Act("writer_replace") \in head <=> Repointed(w, e, r)
  BY <1>3, <1>6, <1>9
<1> QED
  BY <1>1, <1>7, <1>8, <1>10, <1>11, <1>12

\* A plan made from an answered read that is not blocked puts the writer on
\* course.
LEMMA PlanSetsCourse ==
    ASSUME LabelsDistinct, NEW w \in Writers, NEW e \in Entries,
           NEW o \in MaybeObject, NEW imm, ValidEntry(w, e),
           MoveIsSafe(w, e, imm),
           NEW P, P = _plan_writer(w, e, Shown(o), imm), ~Blocks(P)
    PROVE  Course(w, e, o, P)
<1> DEFINE r == Shown(o)
<1>1. e.state \in {"present", "absent"}
  BY DEF Entries
<1>2. r \in Reads /\ r.exists = (o # None) /\ (o # None => r.obj = o)
  <2>1. AbsentRead \in Reads
    BY DEF AbsentRead, Reads, Objects, NoSubs
  <2> QED
    BY <2>1 DEF Shown, AbsentRead, Reads, MaybeObject
<1>3. CASE e.state = "absent"
  <2>1. P = IF o # None THEN {Act("writer_delete")} ELSE {}
    BY <1>2, <1>3 DEF _plan_writer
  <2> QED
    BY <1>3, <2>1 DEF Course, Distinct, Fits, Toward, Act, SubscriptionKinds
<1>4. CASE e.state = "present"
  <2> DEFINE recreate == ~r.exists \/ Repointed(w, e, r)
             have == IF recreate THEN NoSubs ELSE r.obj.subs
             S == _plan_subscriptions(e, r, recreate)
  <2>1. /\ Repointed(w, e, r) => imm = "replace" /\ replaceable(w)
        /\ \A a \in P : a \in S \/ a \in {Act("writer_create"), Act("writer_replace"),
                            Act("writer_properties_set"), Act("settings_set")}
        /\ S \subseteq P
        /\ Act("writer_create") \in P <=> ~r.exists
        /\ Act("writer_replace") \in P <=> Repointed(w, e, r)
        /\ Act("writer_properties_set") \in P
              <=> e.property # None /\ r.obj.property # e.property
        /\ Act("settings_set") \in P
              <=> /\ e.setting # None
                  /\ ~r.exists \/ Repointed(w, e, r) \/ r.obj.setting # e.setting
    BY <1>2, <1>4, PlanParts
  <2>2. recreate \in BOOLEAN /\ (Repointed(w, e, r) => r.exists /\ HasEndpoint(w))
    BY <1>2 DEF Repointed, Reads
  <2>3. SubscriptionsPlanned(e, have, S)
    BY <2>2, SubscriptionPlan
  <2>4. Renews(P) <=> recreate
    BY <2>1 DEF Renews
  <2> HIDE DEF r, S, have, recreate
  <2>5. ASSUME NEW a \in P
        PROVE  \/ \E k \in SubscriptionKinds, t \in Typeids :
                     a = SubAct(k, t) /\ SubAct(k, t) \in S
               \/ \E k \in {"writer_create", "writer_replace",
                            "writer_properties_set", "settings_set"} :
                     a = Act(k) /\ Act(k) \in P
    BY <2>1, <2>3 DEF SubscriptionsPlanned
  <2>6. \A k, l \in SubscriptionKinds, t \in Typeids :
           /\ SubAct(k, t) \in S /\ SubAct(l, t) \in S /\ Rank(k) = Rank(l) => k = l
           /\ SubAct(k, t) \in S => (t \in Wanted(e) <=> k # "subscription_delete")
    BY <2>3 DEF SubscriptionsPlanned, SubscriptionKinds, Rank
  <2>7. Distinct(P)
    <3> SUFFICES ASSUME NEW a \in P, NEW b \in P,
                        Rank(a.kind) = Rank(b.kind), a.typeid = b.typeid
                 PROVE  a = b
      BY DEF Distinct
    <3>1. /\ \A k \in SubscriptionKinds : Rank(k) \in {3, 4}
          /\ \A k \in {"writer_create", "writer_replace",
                      "writer_properties_set", "settings_set"} : Rank(k) \in {1, 2, 5}
          /\ \A k, t : SubAct(k, t).kind = k /\ SubAct(k, t).typeid = t
          /\ \A k : Act(k).kind = k
      BY DEF Rank, SubscriptionKinds, Act, SubAct
    <3>2. ASSUME NEW k \in SubscriptionKinds, NEW t \in Typeids, a = SubAct(k, t),
                 SubAct(k, t) \in S
          PROVE  a = b
      <4>1. PICK l \in SubscriptionKinds, u \in Typeids :
               b = SubAct(l, u) /\ SubAct(l, u) \in S
        BY <2>5, <3>1, <3>2
      <4>2. t = u /\ Rank(k) = Rank(l)
        BY <3>2, <4>1 DEF SubAct
      <4> QED
        BY <2>6, <3>2, <4>1, <4>2
    <3>3. ASSUME NEW k \in {"writer_create", "writer_replace",
                            "writer_properties_set", "settings_set"},
                 a = Act(k), Act(k) \in P
          PROVE  a = b
      <4>1. PICK l \in {"writer_create", "writer_replace",
                        "writer_properties_set", "settings_set"} :
               b = Act(l) /\ Act(l) \in P
        BY <2>5, <3>1, <3>3
      <4>2. Rank(k) = Rank(l)
        BY <3>3, <4>1 DEF Act
      <4>3. k = l \/ {k, l} = {"writer_create", "writer_replace"}
        BY <4>2 DEF Rank, SubscriptionKinds
      <4> QED
        BY <2>1, <2>2, <3>3, <4>1, <4>3
    <3> QED
      BY <2>5, <3>2, <3>3
  <2>8. Fits(e, P)
    <3>1. ASSUME NEW a \in P
          PROVE  /\ a.kind # "writer_delete"
                 /\ a.kind \in SubscriptionKinds =>
                       (a.typeid \in Wanted(e) <=> a.kind # "subscription_delete")
      <4>1. ASSUME NEW k \in SubscriptionKinds, NEW t \in Typeids,
                   a = SubAct(k, t), SubAct(k, t) \in S
            PROVE  a.kind = k /\ a.typeid = t /\ k # "writer_delete"
        BY <4>1 DEF SubAct, SubscriptionKinds
      <4>2. ASSUME NEW k \in {"writer_create", "writer_replace",
                              "writer_properties_set", "settings_set"}, a = Act(k)
            PROVE  a.kind = k /\ k \notin SubscriptionKinds /\ k # "writer_delete"
        BY <4>2 DEF Act, SubscriptionKinds
      <4> QED
        BY <2>5, <2>6, <4>1, <4>2
    <3> QED
      BY <1>4, <3>1 DEF Fits
  <2>9. Toward(w, e, o, P)
    <3>1. CASE recreate
      <4>1. e.property \in {None, Fresh} \/ Act("writer_properties_set") \in P
        <5>1. CASE o = None
          <6>1. r.obj.property = None
            BY <5>1 DEF r, Shown, AbsentRead
          <6> QED
            BY <2>1, <6>1
        <5>2. CASE o # None
          BY <1>2, <1>4, <2>1, <2>2, <3>1, <5>2 DEF recreate, MoveIsSafe
        <5> QED
          BY <5>1, <5>2
      <4>2. \A t \in Wanted(e) : SubAct("subscription_create", t) \in P
        BY <2>1, <2>3, <3>1 DEF SubscriptionsPlanned, have, NoSubs, Wanted
      <4>3. e.setting = None \/ Act("settings_set") \in P
        BY <2>1, <3>1 DEF recreate
      <4> QED
        BY <1>2, <1>4, <2>1, <2>4, <3>1, <4>1, <4>2, <4>3 DEF Toward
    <3>2. CASE ~recreate
      <4>1. o # None /\ r.obj = o /\ have = o.subs /\ o \in Objects
        BY <1>2, <3>2 DEF recreate, have, MaybeObject
      <4>2. HasEndpoint(w) /\ e.endpoint # None => o.endpoint = e.endpoint
        BY <1>2, <3>2, <4>1 DEF recreate, Repointed
      <4>3. ASSUME NEW t \in Typeids PROVE SubToward(e, o, P, t)
        <5>1. CASE t \notin Wanted(e)
          BY <2>1, <2>3, <4>1, <5>1 DEF SubscriptionsPlanned, SubToward
        <5>2. CASE t \in Wanted(e) /\ o.subs[t] = None
          BY <2>1, <2>3, <4>1, <5>2 DEF SubscriptionsPlanned, SubToward
        <5>3. CASE t \in Wanted(e) /\ o.subs[t] # None /\ Frozen(e, o.subs[t], t)
          BY <2>1, <2>3, <4>1, <5>3 DEF SubscriptionsPlanned, SubToward
        <5>4. CASE t \in Wanted(e) /\ o.subs[t] # None /\ ~Frozen(e, o.subs[t], t)
          <6>1. o.subs[t] \in Subscriptions
            BY <4>1, <5>4 DEF Objects
          <6>2. e.subs[t].label \in {None, o.subs[t].label}
            BY <5>4, <6>1, FrozenDiffers
          <6>3. \/ o.subs[t].expr = e.subs[t].expr
                \/ SubAct("subscription_update", t) \in P
            BY <2>1, <2>3, <4>1, <5>4 DEF SubscriptionsPlanned
          <6> QED
            BY <5>4, <6>2, <6>3 DEF SubToward, VerifySub
        <5> QED
          BY <5>1, <5>2, <5>3, <5>4
      <4>4. /\ e.property = None \/ Act("writer_properties_set") \in P
                  \/ e.property = o.property
            /\ e.setting = None \/ Act("settings_set") \in P
                  \/ e.setting = o.setting
        BY <2>1, <4>1
      <4> QED
        BY <1>4, <2>4, <3>2, <4>1, <4>2, <4>3, <4>4 DEF Toward
    <3> QED
      BY <3>1, <3>2
  <2> QED
    BY <2>7, <2>8, <2>9 DEF Course
<1> QED
  BY <1>1, <1>3, <1>4

\* A writer that has come to the end of its course verifies.
LEMMA CourseEndVerifies ==
    ASSUME NEW w, NEW e \in Entries, NEW o, Toward(w, e, o, {})
    PROVE  verify(w, e, Shown(o))
<1>1. e.state \in {"present", "absent"} /\ ~Renews({})
  BY DEF Entries, Renews
<1>2. Shown(o).exists = (o # None) /\ (o # None => Shown(o).obj = o)
  BY DEF Shown, AbsentRead
<1>3. CASE e.state = "absent"
  BY <1>2, <1>3 DEF Toward, verify
<1>4. CASE e.state = "present"
  <2>1. /\ o # None
        /\ e.property = None \/ e.property = o.property
        /\ e.setting = None \/ e.setting = o.setting
        /\ HasEndpoint(w) /\ e.endpoint # None => o.endpoint = e.endpoint
        /\ \A t \in Typeids : SubToward(e, o, {}, t)
    BY <1>1, <1>4 DEF Toward
  <2>2. \A t \in Wanted(e) : VerifySub(e.subs[t], o.subs[t])
    BY <2>1 DEF SubToward, Wanted
  <2>3. e.purge => \A t \in Typeids \ Wanted(e) : o.subs[t] = None
    BY <2>1 DEF SubToward
  <2> QED
    BY <1>2, <1>4, <2>1, <2>2, <2>3 DEF verify, Configured
<1> QED
  BY <1>1, <1>3, <1>4

\* Two actions neither of which precedes the other are of equal rank.
LEMMA FirstOfEqualRank ==
    ASSUME NEW P \in SUBSET Actions, NEW a \in First(P), NEW b \in P,
           ~Precedes(a, b)
    PROVE  Rank(a.kind) = Rank(b.kind) /\ a.typeid = b.typeid
<1>1. a \in Actions /\ b \in Actions /\ ~Precedes(b, a)
  BY DEF First
<1>2. a.typeid \in Nat /\ b.typeid \in Nat
  <2>1. Typeids \subseteq Nat
    BY TypesAssumption
  <2>2. ASSUME NEW c \in Actions PROVE c.typeid \in Nat
    <3>1. CASE c \in [kind : WriterKinds \cup BlockedKinds, typeid : {0}]
      <4>1. c.typeid = 0
        BY <3>1
      <4> QED
        BY <4>1
    <3>2. CASE c \in [kind : SubscriptionKinds, typeid : Typeids]
      <4>1. c.typeid \in Typeids
        BY <3>2
      <4> QED
        BY <2>1, <4>1
    <3> QED
      BY <3>1, <3>2 DEF Actions
  <2> QED
    BY <1>1, <2>2
<1>3. Rank(a.kind) \in Nat /\ Rank(b.kind) \in Nat
  BY DEF Rank
<1> QED
  BY <1>1, <1>2, <1>3 DEF Precedes

\* A plan in which no two actions are of equal rank has one first action.
LEMMA FirstIsOne ==
    ASSUME NEW P \in SUBSET Actions, Distinct(P), NEW a \in First(P),
           NEW b \in First(P)
    PROVE  a = b
<1>1. a \in P /\ b \in P /\ ~Precedes(a, b)
  BY DEF First
<1> QED
  BY <1>1, FirstOfEqualRank DEF Distinct

\* While the object is still to be created, that comes first, and once.
LEMMA RenewalFirst ==
    ASSUME NEW P \in SUBSET Actions, Distinct(P), NEW e, Fits(e, P),
           e.state = "present", Renews(P), NEW a \in First(P)
    PROVE  a \in {Act("writer_create"), Act("writer_replace")} /\ ~Renews(P \ {a})
<1>1. PICK b \in P : b \in {Act("writer_create"), Act("writer_replace")}
  BY DEF Renews
<1>2. b.kind \in {"writer_create", "writer_replace"} /\ b.typeid = 0 /\ Rank(b.kind) = 1
  BY <1>1 DEF Act, Rank, SubscriptionKinds
<1>3. a \in P /\ a \in Actions /\ ~Precedes(b, a)
  BY DEF First
<1>4. Rank(a.kind) \in 1..5
  BY DEF Rank
<1>5. Rank(a.kind) = 1
  BY <1>2, <1>3, <1>4 DEF Precedes
<1>6. a.kind \in {"writer_delete", "writer_create", "writer_replace"}
  BY <1>5 DEF Rank, SubscriptionKinds
<1>7. a.typeid = 0
  BY <1>3, <1>6 DEF Actions, SubscriptionKinds
<1>8. a = b
  BY <1>2, <1>3, <1>5, <1>7 DEF Distinct
<1>9. ASSUME NEW c \in P \ {a}
      PROVE  c \notin {Act("writer_create"), Act("writer_replace")}
  <2> SUFFICES ASSUME c \in {Act("writer_create"), Act("writer_replace")}
               PROVE  FALSE
    OBVIOUS
  <2>1. c.typeid = 0 /\ Rank(c.kind) = 1
    BY DEF Act, Rank, SubscriptionKinds
  <2> QED
    BY <1>3, <1>5, <1>7, <2>1 DEF Distinct
<1> QED
  BY <1>1, <1>8, <1>9 DEF Renews

\* What the delete of a replace was to remove is gone.
Cleared(o, a) ==
    \/ o = None
    \/ a.kind = "subscription_replace" /\ o.subs[a.typeid] = None

\* An action is its kind and, for a subscription, the typeid.
LEMMA ActionForms ==
    ASSUME NEW a \in Actions
    PROVE  /\ a.kind \in SubscriptionKinds =>
                 a.typeid \in Typeids /\ a = SubAct(a.kind, a.typeid)
           /\ a.kind \in WriterKinds => a = Act(a.kind)
           /\ a.kind \in WriterKinds \cup BlockedKinds \cup SubscriptionKinds
  BY DEF Actions, SubscriptionKinds, WriterKinds, BlockedKinds, Act, SubAct

\* The first command of a replace keeps the writer on course.
LEMMA DeleteKeepsCourse ==
    ASSUME NEW w, NEW e \in Entries, NEW o \in MaybeObject,
           NEW P \in SUBSET Actions, Course(w, e, o, P),
           NEW a \in First(P), a.kind \in ReplaceKinds
    PROVE  Course(w, e, Deleted(o, a), P) /\ Cleared(Deleted(o, a), a)
<1>1. a \in P /\ a \in Actions /\ Distinct(P) /\ Fits(e, P) /\ Toward(w, e, o, P)
  BY DEF First, Course
<1>2. e.state = "present"
  BY <1>1 DEF Fits, ReplaceKinds, Entries
<1>3. CASE a.kind = "writer_replace"
  <2>1. a = Act("writer_replace")
    BY <1>1, <1>3, ActionForms DEF WriterKinds
  <2>2. Renews(P) /\ Deleted(o, a) = None
    BY <1>1, <1>3, <2>1 DEF Renews, Deleted
  <2> QED
    BY <1>1, <1>2, <2>2 DEF Course, Toward, Cleared
<1>4. CASE a.kind = "subscription_replace"
  <2> DEFINE t == a.typeid
             new == Deleted(o, a)
  <2>1. t \in Typeids /\ a = SubAct("subscription_replace", t) /\ t \in Wanted(e)
    BY <1>1, <1>4, ActionForms DEF SubscriptionKinds, Fits
  <2>2. ~Renews(P)
    <3>1. a \notin {Act("writer_create"), Act("writer_replace")}
      BY <1>4 DEF Act
    <3> QED
      BY <1>1, <1>2, <3>1, RenewalFirst
  <2>3. o # None /\ o \in Objects
    BY <1>1, <1>2, <2>2 DEF Toward, MaybeObject
  <2>4. new = [o EXCEPT !.subs[t] = None]
    BY <1>4, <2>3 DEF Deleted
  <2>5. /\ new \in Objects /\ new.endpoint = o.endpoint
        /\ new.property = o.property /\ new.setting = o.setting
        /\ new.subs[t] = None
        /\ \A u \in Typeids : u # t => new.subs[u] = o.subs[u]
    BY <2>1, <2>3, <2>4 DEF Objects
  <2>6. new # None
    BY <2>5, NoneAssumption
  <2> HIDE DEF new, t
  <2>7. ASSUME NEW u \in Typeids PROVE SubToward(e, new, P, u)
    <3>1. SubToward(e, o, P, u)
      BY <1>1, <1>2, <2>2 DEF Toward
    <3>2. CASE u = t
      BY <1>1, <2>1, <3>2 DEF SubToward
    <3>3. CASE u # t
      BY <2>5, <3>1, <3>3 DEF SubToward
    <3> QED
      BY <3>2, <3>3
  <2>8. Toward(w, e, new, P)
    BY <1>1, <1>2, <2>2, <2>5, <2>6, <2>7 DEF Toward
  <2>9. Course(w, e, new, P) /\ Cleared(new, a)
    BY <1>1, <1>4, <2>5, <2>8 DEF Course, Cleared, t
  <2> QED
    BY <2>9 DEF new
<1> QED
  BY <1>3, <1>4 DEF ReplaceKinds

\* A course is kept part by part: each part of the object is as it was and its
\* actions still to come, or it is right by now.
LEMMA PartsKeepCourse ==
    ASSUME NEW w, NEW e, NEW o, NEW P, Course(w, e, o, P), e.state # "absent",
           ~Renews(P), NEW a \in P, NEW new, new # None,
           new.endpoint = o.endpoint,
           \/ new.property = o.property /\ a # Act("writer_properties_set")
           \/ new.property = e.property,
           \/ new.setting = o.setting /\ a # Act("settings_set")
           \/ new.setting = e.setting,
           \A t \in Typeids :
              \/ /\ new.subs[t] = o.subs[t]
                 /\ \A k \in SubscriptionKinds : a # SubAct(k, t)
              \/ SubToward(e, new, P \ {a}, t)
    PROVE  Course(w, e, new, P \ {a})
<1> DEFINE Q == P \ {a}
<1>1. Distinct(Q) /\ Fits(e, Q) /\ ~Renews(Q)
  BY DEF Course, Distinct, Fits, Renews
<1>2. /\ \/ e.property = None
         \/ Act("writer_properties_set") \in P
         \/ e.property = o.property
      /\ \/ e.setting = None
         \/ Act("settings_set") \in P
         \/ e.setting = o.setting
      /\ HasEndpoint(w) /\ e.endpoint # None => o.endpoint = e.endpoint
      /\ \A t \in Typeids : SubToward(e, o, P, t)
  BY DEF Course, Toward
<1>3. ASSUME NEW t \in Typeids PROVE SubToward(e, new, Q, t)
  <2>1. CASE SubToward(e, new, Q, t)
    BY <2>1
  <2>2. CASE /\ new.subs[t] = o.subs[t]
             /\ \A k \in SubscriptionKinds : a # SubAct(k, t)
    <3>1. \A k \in SubscriptionKinds : SubAct(k, t) \in P => SubAct(k, t) \in Q
      BY <2>2
    <3>2. SubToward(e, o, P, t)
      BY <1>2
    <3> HIDE DEF Q
    <3> QED
      BY <2>2, <3>1, <3>2 DEF SubToward, SubscriptionKinds
  <2> QED
    BY <2>1, <2>2
<1>4. Toward(w, e, new, Q)
  BY <1>1, <1>2, <1>3 DEF Toward
<1> QED
  BY <1>1, <1>4 DEF Course

\* An object with one subscription changed.
LEMMA OneSubscription ==
    ASSUME NEW o \in Objects, NEW t \in Typeids,
           NEW s \in Subscriptions \cup {None}
    PROVE  LET new == [o EXCEPT !.subs[t] = s]
           IN  /\ new # None /\ new.endpoint = o.endpoint
               /\ new.property = o.property /\ new.setting = o.setting
               /\ new.subs[t] = s
               /\ \A u \in Typeids : u # t => new.subs[u] = o.subs[u]
<1> DEFINE new == [o EXCEPT !.subs[t] = s]
<1>1. new \in Objects
  BY DEF Objects
<1>2. new # None
  BY <1>1, NoneAssumption
<1> QED
  BY <1>2 DEF Objects

\* So does a command on one subscription of an object that stays.
LEMMA SubscriptionKeepsCourse ==
    ASSUME NEW w, NEW e \in Entries, NEW o \in Objects,
           NEW P \in SUBSET Actions, Course(w, e, o, P), e.state # "absent",
           ~Renews(P), NEW a \in P, a.kind \in SubscriptionKinds,
           a.kind = "subscription_replace" => Cleared(o, a)
    PROVE  Course(w, e, Applied(w, e, o, a), P \ {a})
<1> DEFINE t == a.typeid
           Q == P \ {a}
<1> USE NoneAssumption
<1>1. t \in Typeids /\ a = SubAct(a.kind, t)
  BY ActionForms
<1>2. /\ t \in Wanted(e) <=> a.kind # "subscription_delete"
      /\ \A u \in Typeids : SubToward(e, o, P, u)
  BY DEF Course, Fits, Toward
<1>3. \A k \in SubscriptionKinds : k # a.kind /\ SubAct(k, t) \in P => SubAct(k, t) \in Q
  BY DEF SubAct
<1>4. \A k \in SubscriptionKinds, u \in Typeids : u # t => a # SubAct(k, u)
  BY DEF SubAct
<1>5. a # Act("writer_properties_set") /\ a # Act("settings_set")
  BY DEF Act, SubscriptionKinds
<1>6. t \in Wanted(e) => e.subs[t] \in Subscriptions
  BY DEF Wanted, Entries
<1>7. ASSUME NEW s \in Subscriptions \cup {None},
             Applied(w, e, o, a) = [o EXCEPT !.subs[t] = s],
             \A new : new.subs[t] = s => SubToward(e, new, Q, t)
      PROVE  Course(w, e, Applied(w, e, o, a), Q)
  <2> DEFINE new == Applied(w, e, o, a)
  <2>1. t \in Typeids /\ new = [o EXCEPT !.subs[t] = s]
    BY <1>1, <1>7
  <2> HIDE DEF new, t
  <2>2. /\ new # None /\ new.endpoint = o.endpoint
        /\ new.property = o.property /\ new.setting = o.setting
        /\ new.subs[t] = s
        /\ \A u \in Typeids : u # t => new.subs[u] = o.subs[u]
    BY <2>1, OneSubscription
  <2>3. SubToward(e, new, Q, t)
    BY <1>7, <2>2
  <2> HIDE DEF Q
  <2>4. Course(w, e, new, P \ {a})
    BY <1>4, <1>5, <2>2, <2>3, PartsKeepCourse DEF Q
  <2> QED
    BY <2>4 DEF new, Q
<1>8. ASSUME Applied(w, e, o, a) = o, SubToward(e, o, Q, t)
      PROVE  Course(w, e, Applied(w, e, o, a), Q)
  <2>1. o # None
    OBVIOUS
  <2> HIDE DEF t
  <2> QED
    BY <1>4, <1>5, <1>8, <2>1, PartsKeepCourse
<1>9. ASSUME t \in Wanted(e), NEW new, new.subs[t] = e.subs[t]
      PROVE  SubToward(e, new, Q, t)
  BY <1>6, <1>9 DEF SubToward, VerifySub
<1>10. CASE a.kind = "subscription_create"
  <2>1. CASE o.subs[t] = None
    <3>1. Applied(w, e, o, a) = [o EXCEPT !.subs[t] = e.subs[t]]
      BY <1>10, <2>1 DEF Applied, Initialised
    <3> QED
      BY <1>2, <1>6, <1>7, <1>9, <1>10, <3>1
  <2>2. CASE o.subs[t] # None
    <3>1. Applied(w, e, o, a) = o
      BY <1>10, <2>2 DEF Applied, Initialised
    <3>2. SubToward(e, o, Q, t)
      BY <1>1, <1>2, <1>3, <1>10, <2>2 DEF SubToward, SubscriptionKinds
    <3> QED
      BY <1>8, <3>1, <3>2
  <2> QED
    BY <2>1, <2>2
<1>11. CASE a.kind = "subscription_replace"
  <2>1. o.subs[t] = None
    BY <1>11 DEF Cleared
  <2>2. Applied(w, e, o, a) = [o EXCEPT !.subs[t] = e.subs[t]]
    BY <1>11, <2>1 DEF Applied, Initialised
  <2> QED
    BY <1>2, <1>6, <1>7, <1>9, <1>11, <2>2
<1>12. CASE a.kind = "subscription_update"
  <2>1. CASE o.subs[t] = None
    <3>1. Applied(w, e, o, a) = o
      BY <1>12, <2>1 DEF Applied, Assigned
    <3>2. SubToward(e, o, Q, t)
      BY <1>1, <1>2, <1>3, <1>12, <2>1 DEF SubToward, SubscriptionKinds, VerifySub
    <3> QED
      BY <1>8, <3>1, <3>2
  <2>2. CASE o.subs[t] # None
    <3> DEFINE s == [o.subs[t] EXCEPT !.expr = e.subs[t].expr]
    <3>1. o.subs[t] \in Subscriptions /\ e.subs[t] \in Subscriptions
      BY <1>1, <1>2, <1>6, <1>12, <2>2 DEF Objects
    <3>2. s \in Subscriptions /\ s.expr = e.subs[t].expr /\ s.label = o.subs[t].label
      BY <3>1 DEF Subscriptions
    <3>3. Applied(w, e, o, a) = [o EXCEPT !.subs[t].expr = e.subs[t].expr]
      BY <1>12, <2>2 DEF Applied, Assigned
    <3>4. Applied(w, e, o, a) = [o EXCEPT !.subs[t] = s]
      BY <1>1, <3>1, <3>3 DEF Objects
    <3>5. \/ SubAct("subscription_replace", t) \in Q
          \/ e.subs[t].label \in {None, s.label}
      BY <1>1, <1>2, <1>3, <1>12, <2>2, <3>2
      DEF SubToward, VerifySub, SubscriptionKinds
    <3>6. ASSUME NEW new, new.subs[t] = s PROVE SubToward(e, new, Q, t)
      BY <1>2, <1>12, <3>2, <3>5, <3>6 DEF SubToward, VerifySub
    <3> HIDE DEF s
    <3> QED
      BY <1>7, <3>2, <3>4, <3>6
  <2> QED
    BY <2>1, <2>2
<1>13. CASE a.kind = "subscription_delete"
  <2>1. Applied(w, e, o, a) = [o EXCEPT !.subs[t] = None]
    BY <1>13 DEF Applied, Deleted
  <2>2. ASSUME NEW new, new.subs[t] = None PROVE SubToward(e, new, Q, t)
    BY <1>2, <1>13, <2>2 DEF SubToward
  <2> QED
    BY <1>7, <2>1, <2>2
<1> QED
  BY <1>10, <1>11, <1>12, <1>13 DEF SubscriptionKinds

\* The command that completes an action keeps the writer on course for what is
\* left.
LEMMA LastKeepsCourse ==
    ASSUME NEW w \in Writers, NEW e \in Entries, NEW o \in MaybeObject,
           ValidEntry(w, e), NEW P \in SUBSET Actions, Course(w, e, o, P),
           NEW a \in First(P), a.kind \notin BlockedKinds,
           a.kind \in ReplaceKinds => Cleared(o, a)
    PROVE  Course(w, e, Applied(w, e, o, a), P \ {a})
<1> USE NoneAssumption
<1>1. a \in P /\ a \in Actions /\ Distinct(P) /\ Fits(e, P) /\ Toward(w, e, o, P)
  BY DEF First, Course
<1>2. Distinct(P \ {a}) /\ Fits(e, P \ {a})
  BY <1>1 DEF Distinct, Fits
<1>3. CASE e.state = "absent"
  <2>1. Applied(w, e, o, a) = None
    BY <1>1, <1>3 DEF Fits, Applied
  <2> QED
    BY <1>2, <1>3, <2>1 DEF Course, Toward
<1>4. CASE e.state # "absent" /\ Renews(P)
  <2>1. a \in {Act("writer_create"), Act("writer_replace")} /\ ~Renews(P \ {a})
    BY <1>1, <1>4, RenewalFirst DEF Entries
  <2>2. a.kind \in {"writer_create", "writer_replace"}
    BY <2>1 DEF Act
  <2>3. o = None
    <3>1. CASE a.kind = "writer_create"
      <4>1. a = Act("writer_create")
        BY <1>1, <3>1, ActionForms DEF WriterKinds
      <4> QED
        BY <1>1, <1>4, <4>1 DEF Toward
    <3>2. CASE a.kind = "writer_replace"
      BY <3>2 DEF Cleared, ReplaceKinds
    <3> QED
      BY <2>2, <3>1, <3>2
  <2> DEFINE new == Applied(w, e, o, a)
             Q == P \ {a}
  <2>4. new = Created(w, e)
    BY <2>2, <2>3 DEF Applied, Initialised
  <2>5. new # None
    <3>1. Created(w, e) \in Objects
      BY TypesAssumption DEF Created, Objects, Entries, NoSubs
    <3> QED
      BY <2>4, <3>1
  <2>6. /\ new.endpoint = e.endpoint
        /\ e.property # None => new.property = Fresh
        /\ \A t \in Typeids : new.subs[t] = None
    BY <2>4 DEF Created, NoSubs, ValidEntry
  <2>7. /\ e.property = None \/ Act("writer_properties_set") \in Q
              \/ e.property = Fresh
        /\ e.setting = None \/ Act("settings_set") \in Q
        /\ \A t \in Wanted(e) : SubAct("subscription_create", t) \in Q
    BY <1>1, <1>4, <2>2 DEF Toward, Act, SubAct
  <2> HIDE DEF new
  <2>8. \A t \in Typeids : SubToward(e, new, Q, t)
    BY <2>6, <2>7 DEF SubToward
  <2>9. Toward(w, e, new, Q)
    BY <1>4, <2>1, <2>5, <2>6, <2>7, <2>8 DEF Toward
  <2> QED
    BY <1>2, <2>9 DEF Course, new
<1>5. CASE e.state # "absent" /\ ~Renews(P)
  <2>1. o \in Objects
    BY <1>1, <1>5 DEF Toward, MaybeObject
  <2>2. a.kind \in SubscriptionKinds \cup {"writer_properties_set", "settings_set"}
    <3>1. a.kind \in WriterKinds => a = Act(a.kind)
      BY <1>1, ActionForms
    <3>2. a.kind \notin {"writer_create", "writer_replace", "writer_delete"}
      BY <1>1, <1>5, <3>1 DEF Renews, Fits, WriterKinds
    <3> QED
      BY <1>1, <3>2, ActionForms DEF WriterKinds
  <2>3. CASE a.kind \in SubscriptionKinds
    BY <1>1, <1>5, <2>1, <2>3, SubscriptionKeepsCourse DEF ReplaceKinds
  <2> DEFINE new == Applied(w, e, o, a)
  <2>4. \A k \in SubscriptionKinds, t \in Typeids :
           a.kind \notin SubscriptionKinds => a # SubAct(k, t)
    BY DEF SubAct
  <2>5. CASE a.kind = "writer_properties_set"
    <3>1. new = [o EXCEPT !.property = e.property]
      BY <2>1, <2>5 DEF Applied, Assigned
    <3>2. new \in Objects
      BY <2>1, <3>1 DEF Objects, Entries
    <3>3. /\ new # None /\ new.endpoint = o.endpoint /\ new.setting = o.setting
          /\ new.subs = o.subs /\ new.property = e.property
      BY <2>1, <3>1, <3>2 DEF Objects
    <3>4. a # Act("settings_set") /\ a.kind \notin SubscriptionKinds
      BY <2>5 DEF Act, SubscriptionKinds
    <3> HIDE DEF new
    <3> QED
      BY <1>1, <1>5, <2>4, <3>3, <3>4, PartsKeepCourse DEF new
  <2>6. CASE a.kind = "settings_set"
    <3>1. new = [o EXCEPT !.setting = e.setting]
      BY <2>1, <2>6 DEF Applied, Assigned
    <3>2. new \in Objects
      BY <2>1, <3>1 DEF Objects, Entries
    <3>3. /\ new # None /\ new.endpoint = o.endpoint /\ new.property = o.property
          /\ new.subs = o.subs /\ new.setting = e.setting
      BY <2>1, <3>1, <3>2 DEF Objects
    <3>4. a # Act("writer_properties_set") /\ a.kind \notin SubscriptionKinds
      BY <2>6 DEF Act, SubscriptionKinds
    <3> QED
      BY <1>1, <1>5, <2>4, <3>3, <3>4, PartsKeepCourse
  <2> QED
    BY <2>2, <2>3, <2>5, <2>6
<1> QED
  BY <1>3, <1>4, <1>5

===============================================================================
