------------------------------ MODULE LogWriters ------------------------------
(***************************************************************************)
(* The pure half of the logs reconciler (plugins/module_utils/logs.py):    *)
(* what a log writer is, what a task asks of one, what a read of one can   *)
(* come back with, which actions the planner derives from a read, what the *)
(* verifier accepts, and what each action does to the device when the      *)
(* device really takes it.                                                 *)
(*                                                                         *)
(* One representative stands for each family of scalars the code treats    *)
(* alike: `property' for a writer's own writable properties, `setting' for *)
(* its MessageLogSettings, `label' for the two fields of a subscription    *)
(* that are frozen at creation (Severity and CustomName).                  *)
(***************************************************************************)
EXTENDS Integers, FiniteSets

CONSTANTS
    Writers,     \* writer identities, a (type, name) pair each
    TypeOf,      \* the type of every identity
    Creatable,   \* the types a delete-and-recreate is possible for
    Typeids,     \* SubscriptionTypeIds
    Endpoints,   \* values of RemoteEndpointUri or EndpointId
    Values,      \* values of properties, settings and rotation
    Labels,      \* values of the frozen subscription fields
    Exprs,       \* subscription expressions, whitespace already collapsed
    ScalarForm,  \* normalise_scalar on labels
    Fresh,       \* what a scalar of a newly created object reads as
    None         \* Python's None, a missing key, an object that is not there

WriterTypes == {"udp_syslog", "tcp_client", "tcp_listener", "log_file"}

ASSUME TypesAssumption ==
    /\ TypeOf \in [Writers -> WriterTypes]
    /\ Creatable \subseteq WriterTypes
    /\ Typeids \subseteq Nat /\ IsFiniteSet(Typeids)
    /\ ScalarForm \in [Labels -> Labels]
    /\ Fresh \in Values
    /\ None \notin Writers \cup Endpoints \cup Values \cup Labels \cup Exprs

\* log_file has no endpoint property; only the two TCP types have properties
\* that can be written after creation.
HasEndpoint(w) == TypeOf[w] # "log_file"
HasProperties(w) == TypeOf[w] \in {"tcp_client", "tcp_listener"}
replaceable(w) == TypeOf[w] \in Creatable

(***************************************************************************)
(* State of the device, of a task entry and of a read.                     *)
(***************************************************************************)
Subscriptions == [label : Labels \cup {None}, expr : Exprs \cup {None}]

Objects == [endpoint : Endpoints \cup {None},
            property : Values \cup {None},
            setting  : Values \cup {None},
            subs     : [Typeids -> Subscriptions \cup {None}]]

\* One validated entry of the task: None in `property', `setting' or a label
\* says that the task does not state it.
Entries == [state    : {"present", "absent"},
            endpoint : Endpoints \cup {None},
            property : Values \cup {None},
            setting  : Values \cup {None},
            purge    : BOOLEAN,
            subs     : [Typeids -> Subscriptions \cup {None}]]

ASSUME NoneAssumption ==
    /\ None \notin Objects
    /\ None \notin Entries
    /\ None \notin Subscriptions

NoSubs == [t \in Typeids |-> None]

\* What validate_writers lets through: a present writer states its endpoint
\* exactly when its type has one, properties only where the type has writable
\* ones, and an expression for every subscription.
ValidEntry(w, e) ==
    /\ e.state = "present" => (e.endpoint # None) = HasEndpoint(w)
    /\ e.property # None => HasProperties(w)
    /\ \A t \in Typeids : e.subs[t] # None => e.subs[t].expr # None

\* The entry plan_device makes up for a writer it purges.
PurgeEntry == [state |-> "absent", endpoint |-> None, property |-> None,
               setting |-> None, purge |-> FALSE, subs |-> NoSubs]

(***************************************************************************)
(* read_actual.  A command the device has not answered within read_timeout *)
(* reads as the empty reply, so a read of an existing writer can lose its  *)
(* children (the deep read went unanswered), single children (the          *)
(* per-object fallback), or the whole writer (both reads of the writer     *)
(* itself went unanswered).  `lost' counts the unanswered commands.        *)
(***************************************************************************)
Reads == [exists : BOOLEAN, obj : Objects]

AbsentRead == [exists |-> FALSE,
               obj |-> [endpoint |-> None, property |-> None,
                        setting |-> None, subs |-> NoSubs]]

BlankSub == [label |-> None, expr |-> None]

Answered(o) == [lost |-> 0, read |-> [exists |-> TRUE, obj |-> o]]

\* get $MAX_DEPTH unanswered, get of the writer answered.
ChildrenLost(o) ==
    [lost |-> 1,
     read |-> [exists |-> TRUE,
               obj |-> [o EXCEPT !.setting = None, !.subs = NoSubs]]]

\* The first get of the writer unanswered, the second answered: the deep read
\* is dropped and every child is read on its own, those in `answered'
\* successfully; the settings are one more read.
PerChild(o, answered, settings) ==
    LET live == {t \in Typeids : o.subs[t] # None}
    IN  [lost |-> 1 + Cardinality(live \ answered) + (IF settings THEN 0 ELSE 1),
         read |-> [exists |-> TRUE,
                   obj |-> [o EXCEPT
                              !.setting = IF settings THEN @ ELSE None,
                              !.subs = [t \in Typeids |->
                                          IF t \in live \ answered
                                          THEN BlankSub ELSE o.subs[t]]]]]

\* The same, with the listing of the children unanswered too.
ListingLost(o, settings) ==
    [lost |-> 2 + (IF settings THEN 0 ELSE 1),
     read |-> [exists |-> TRUE,
               obj |-> [o EXCEPT !.setting = IF settings THEN @ ELSE None,
                                 !.subs = NoSubs]]]

read_actual(o) ==
    IF o = None
    THEN {[lost |-> 0, read |-> AbsentRead]}
    ELSE {Answered(o), ChildrenLost(o), [lost |-> 2, read |-> AbsentRead]}
         \cup {PerChild(o, a, s) : a \in SUBSET Typeids, s \in BOOLEAN}
         \cup {ListingLost(o, s) : s \in BOOLEAN}

(***************************************************************************)
(* plan.  An action of a writer's plan is its kind and, for the four kinds *)
(* that concern one subscription, the typeid (0 otherwise).                *)
(***************************************************************************)
WriterKinds == {"writer_delete", "writer_replace", "writer_create",
                "writer_properties_set", "settings_set"}
SubscriptionKinds == {"subscription_create", "subscription_replace",
                      "subscription_update", "subscription_delete"}
BlockedKinds == {"blocked_uncreatable", "blocked_immutable"}

Actions == [kind : WriterKinds \cup BlockedKinds, typeid : {0}]
           \cup [kind : SubscriptionKinds, typeid : Typeids]

Act(kind) == [kind |-> kind, typeid |-> 0]
SubAct(kind, t) == [kind |-> kind, typeid |-> t]

normalise_scalar(v) == IF v \in Labels THEN ScalarForm[v] ELSE v

Wanted(e) == {t \in Typeids : e.subs[t] # None}

\* Mutation of Frozen: the frozen fields are not looked at.
FrozenNever(e, sub, t) == FALSE

\* Frozen fields that differ: the planner compares scalars, and an unstated
\* label is never compared.
Frozen(e, sub, t) ==
    /\ e.subs[t].label # None
    /\ normalise_scalar(e.subs[t].label) # normalise_scalar(sub.label)

_plan_writer_properties(e, r) ==
    IF e.property # None /\ r.obj.property # e.property
    THEN {Act("writer_properties_set")} ELSE {}

\* Mutation of _plan_subscriptions: deletes what is unlisted, purge or not.
PurgesAlways(e, r, recreate) ==
    LET current == IF recreate THEN NoSubs ELSE r.obj.subs
        existing == {t \in Wanted(e) : current[t] # None}
        frozen == {t \in existing : Frozen(e, current[t], t)}
        moved == {t \in existing \ frozen : current[t].expr # e.subs[t].expr}
    IN  {SubAct("subscription_create", t) : t \in Wanted(e) \ existing}
        \cup {SubAct("subscription_replace", t) : t \in frozen}
        \cup {SubAct("subscription_update", t) : t \in moved}
        \cup {SubAct("subscription_delete", t) :
                t \in {t \in Typeids \ Wanted(e) : current[t] # None}}

_plan_subscriptions(e, r, recreate) ==
    LET current == IF recreate THEN NoSubs ELSE r.obj.subs
        existing == {t \in Wanted(e) : current[t] # None}
        frozen == {t \in existing : Frozen(e, current[t], t)}
        moved == {t \in existing \ frozen : current[t].expr # e.subs[t].expr}
        extra == {t \in Typeids \ Wanted(e) : current[t] # None}
    IN  {SubAct("subscription_create", t) : t \in Wanted(e) \ existing}
        \cup {SubAct("subscription_replace", t) : t \in frozen}
        \cup {SubAct("subscription_update", t) : t \in moved}
        \cup (IF e.purge THEN {SubAct("subscription_delete", t) : t \in extra}
                         ELSE {})

\* Mutations of _plan_settings: the settings of the object about to be deleted
\* are taken for those of the new one; settings are set on creation only.
SettingsOfTheOld(e, r, recreate) ==
    IF e.setting # None /\ r.obj.setting # e.setting
    THEN {Act("settings_set")} ELSE {}
SettingsOnceOnly(e, r, recreate) ==
    IF e.setting # None /\ recreate THEN {Act("settings_set")} ELSE {}

\* A created writer's settings are off, so every stated one is a change.
_plan_settings(e, r, recreate) ==
    IF e.setting # None /\ (recreate \/ r.obj.setting # e.setting)
    THEN {Act("settings_set")} ELSE {}

\* The endpoint is read-only, so a different one means delete and recreate.
Repointed(w, e, r) ==
    r.exists /\ HasEndpoint(w) /\ e.endpoint # None
             /\ r.obj.endpoint # e.endpoint

\* Mutation of _plan_writer: no rail for types that cannot be recreated.
ReplacesAnyType(w, e, r, on_immutable_change) ==
    IF e.state = "absent"
    THEN IF r.exists THEN {Act("writer_delete")} ELSE {}
    ELSE IF Repointed(w, e, r) /\ on_immutable_change # "replace"
    THEN {Act("blocked_immutable")}
    ELSE (IF ~r.exists THEN {Act("writer_create")}
          ELSE IF Repointed(w, e, r) THEN {Act("writer_replace")} ELSE {})
         \cup _plan_subscriptions(e, r, ~r.exists \/ Repointed(w, e, r))

_plan_writer(w, e, r, on_immutable_change) ==
    LET recreate == ~r.exists \/ Repointed(w, e, r)
    IN  IF e.state = "absent"
        THEN IF r.exists THEN {Act("writer_delete")} ELSE {}
        ELSE IF ~r.exists /\ ~replaceable(w)
        THEN {Act("blocked_uncreatable")}
        ELSE IF Repointed(w, e, r)
                /\ ~(on_immutable_change = "replace" /\ replaceable(w))
        THEN {Act("blocked_immutable")}
        ELSE (IF ~r.exists THEN {Act("writer_create")}
              ELSE IF recreate THEN {Act("writer_replace")} ELSE {})
             \cup _plan_writer_properties(e, r)
             \cup _plan_subscriptions(e, r, recreate)
             \cup _plan_settings(e, r, recreate)

\* The order in which _plan_writer lists, and apply_plan runs, the actions.
Rank(kind) ==
    CASE kind \in {"writer_delete", "writer_create", "writer_replace"} -> 1
      [] kind = "writer_properties_set" -> 2
      [] kind \in SubscriptionKinds \ {"subscription_delete"} -> 3
      [] kind = "subscription_delete" -> 4
      [] OTHER -> 5

Precedes(a, b) ==
    \/ Rank(a.kind) < Rank(b.kind)
    \/ Rank(a.kind) = Rank(b.kind) /\ a.typeid < b.typeid

First(actions) == {a \in actions : \A b \in actions : ~Precedes(b, a)}

(***************************************************************************)
(* verify.  A label is compared as an expression here, not as a scalar.    *)
(***************************************************************************)
VerifySub(want, have) ==
    /\ have # None
    /\ have.expr = want.expr
    /\ want.label # None => have.label = want.label

\* Everything of a present entry that a read can show positively.
Configured(w, e, obj) ==
    /\ HasEndpoint(w) /\ e.endpoint # None => obj.endpoint = e.endpoint
    /\ e.property # None => obj.property = e.property
    /\ e.setting # None => obj.setting = e.setting
    /\ \A t \in Wanted(e) : VerifySub(e.subs[t], obj.subs[t])

\* Mutation of verify: what a purge left behind is not looked for.
VerifiesNoPurge(w, e, r) ==
    IF e.state = "absent" THEN ~r.exists
    ELSE r.exists /\ Configured(w, e, r.obj)

verify(w, e, r) ==
    IF e.state = "absent" THEN ~r.exists
    ELSE /\ r.exists
         /\ Configured(w, e, r.obj)
         /\ e.purge => \A t \in Typeids \ Wanted(e) : r.obj.subs[t] = None

(***************************************************************************)
(* apply_plan: what one command does to the object `o' when the device     *)
(* takes it.  A replace is two commands, a delete and an init.  An init of *)
(* an object that is still there, and a set of one that is not, change     *)
(* nothing.                                                                *)
(***************************************************************************)
ReplaceKinds == {"writer_replace", "subscription_replace"}

Created(w, e) ==
    [endpoint |-> e.endpoint,
     property |-> IF HasProperties(w) THEN Fresh ELSE None,
     setting  |-> Fresh,
     subs     |-> NoSubs]

\* Mutation of Deleted: the typeid is lost from the path of the delete.
DeletesWholeFamily(o, a) ==
    IF a.kind = "writer_replace" \/ o = None THEN None
    ELSE [o EXCEPT !.subs = None]

\* The delete that opens a replace.
Deleted(o, a) ==
    IF a.kind = "writer_replace" \/ o = None THEN None
    ELSE [o EXCEPT !.subs[a.typeid] = None]

\* init of a writer, or of a subscription under it.
Initialised(w, e, o, a) ==
    IF a.kind \in {"writer_create", "writer_replace"}
    THEN IF o = None THEN Created(w, e) ELSE o
    ELSE IF o = None \/ o.subs[a.typeid] # None THEN o
    ELSE [o EXCEPT !.subs[a.typeid] = e.subs[a.typeid]]

\* set of the writer, of its settings or of one subscription.
Assigned(e, o, a) ==
    IF o = None THEN o
    ELSE CASE a.kind = "writer_properties_set" -> [o EXCEPT !.property = e.property]
           [] a.kind = "settings_set" -> [o EXCEPT !.setting = e.setting]
           [] a.kind = "subscription_update" /\ o.subs[a.typeid] # None ->
                [o EXCEPT !.subs[a.typeid].expr = e.subs[a.typeid].expr]
           [] OTHER -> o

\* The last (or only) command of an action; a blocked action sends nothing.
Applied(w, e, o, a) ==
    CASE a.kind = "writer_delete" -> None
      [] a.kind = "subscription_delete" -> Deleted(o, a)
      [] a.kind \in {"writer_create", "writer_replace",
                     "subscription_create", "subscription_replace"}
           -> Initialised(w, e, o, a)
      [] OTHER -> Assigned(e, o, a)

\* What a present entry states is in place on an object, labels compared the
\* way the planner compares them.
Holds(w, e, o) ==
    /\ o # None
    /\ HasEndpoint(w) /\ e.endpoint # None => o.endpoint = e.endpoint
    /\ e.property # None => o.property = e.property
    /\ e.setting # None => o.setting = e.setting
    /\ \A t \in Wanted(e) : /\ o.subs[t] # None
                            /\ o.subs[t].expr = e.subs[t].expr
                            /\ ~Frozen(e, o.subs[t], t)

===============================================================================
