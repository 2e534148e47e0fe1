------------------------------ MODULE ReadActual ------------------------------
(***************************************************************************)
(* read_actual of plugins/module_utils/logs.py command by command, over    *)
(* SapV2Client.tree, get and children: what one read of a writer comes     *)
(* back with when the device leaves some of its commands unanswered past   *)
(* read_timeout, or does not know $MAX_DEPTH.  LogWriters!read_actual is   *)
(* the same read as one step.                                              *)
(***************************************************************************)
EXTENDS LogWriters

CONSTANTS
    Stored,       \* what the device may hold at the path
    KnowsMaxDepth \* whether a deep read returns the descendants at all

ASSUME StoredAssumption ==
    Stored \subseteq Objects \cup {None} /\ KnowsMaxDepth \in BOOLEAN

VARIABLES
    object,    \* what the device holds
    pc,        \* the next command
    deep,      \* the deep read returned the descendants
    found,     \* the read as far as it has come
    unread,    \* children listed but not read yet
    lost       \* commands left unanswered so far

vars == <<object, pc, deep, found, unread, lost>>

Commands == {"tree", "get_self", "get", "children", "get_child", "get_settings"}

Init ==
    /\ object \in Stored
    /\ pc = "tree"
    /\ deep = FALSE
    /\ found = AbsentRead
    /\ unread = {}
    /\ lost = 0

\* The writer's own properties, with no children yet.
Own(o) == [exists |-> TRUE, obj |-> [o EXCEPT !.setting = None, !.subs = NoSubs]]

\* The command got its reply, or the empty one.
Reply(answered) == lost' = IF answered THEN lost ELSE lost + 1

\* get $MAX_DEPTH=-1: the descendants, without the object itself.  A device
\* that does not know the modifier returns the object alone.
GetTree(answered) ==
    /\ pc = "tree"
    /\ Reply(answered)
    /\ IF answered /\ object # None /\ ~KnowsMaxDepth
       THEN found' = Own(object) /\ pc' = "done" /\ UNCHANGED deep
       ELSE /\ deep' = (answered /\ object # None)
            /\ pc' = "get_self"
            /\ UNCHANGED found
    /\ UNCHANGED <<object, unread>>

\* Mutation of GetSelf: the second reply replaces the first.
ForgetsDescendants(answered) ==
    /\ pc = "get_self"
    /\ Reply(answered)
    /\ IF answered /\ object # None
       THEN found' = Own(object) /\ pc' = "done"
       ELSE UNCHANGED found /\ pc' = "get"
    /\ UNCHANGED <<object, deep, unread>>

\* tree() adds the object itself by a second read; the writer then is all that
\* the two replies hold.
GetSelf(answered) ==
    /\ pc = "get_self"
    /\ Reply(answered)
    /\ IF answered /\ object # None
       THEN /\ found' = IF deep THEN [exists |-> TRUE, obj |-> object]
                                ELSE Own(object)
            /\ pc' = "done"
       ELSE /\ UNCHANGED found
            /\ pc' = "get"
    /\ UNCHANGED <<object, deep, unread>>

\* No properties so far: one more read of the object, and if that is not empty
\* the per-object reads, whatever the deep read has found.
Get(answered) ==
    /\ pc = "get"
    /\ Reply(answered)
    /\ IF answered /\ object # None
       THEN found' = Own(object) /\ pc' = "children"
       ELSE found' = AbsentRead /\ pc' = "done"
    /\ deep' = FALSE
    /\ UNCHANGED <<object, unread>>

\* Mutation of Children: the settings object is taken for a subscription.
ListsEveryChild(answered) ==
    /\ pc = "children"
    /\ Reply(answered)
    /\ unread' = IF answered
                 THEN {0} \cup {t \in Typeids : object.subs[t] # None} ELSE {}
    /\ pc' = IF unread' = {} THEN "get_settings" ELSE "get_child"
    /\ UNCHANGED <<object, deep, found>>

\* The listing gives paths; those of subscriptions are kept.
Children(answered) ==
    /\ pc = "children"
    /\ Reply(answered)
    /\ unread' = IF answered THEN {t \in Typeids : object.subs[t] # None} ELSE {}
    /\ pc' = IF unread' = {} THEN "get_settings" ELSE "get_child"
    /\ UNCHANGED <<object, deep, found>>

\* Mutation of GetChild: a child that reads as empty is left out.
SkipsSilentChild(t, answered) ==
    /\ pc = "get_child"
    /\ t \in unread
    /\ Reply(answered)
    /\ found' = [found EXCEPT !.obj.subs[t] =
                   IF answered THEN object.subs[t] ELSE None]
    /\ unread' = unread \ {t}
    /\ pc' = IF unread' = {} THEN "get_settings" ELSE "get_child"
    /\ UNCHANGED <<object, deep>>

\* An unanswered child is one without any properties.
GetChild(t, answered) ==
    /\ pc = "get_child"
    /\ t \in unread
    /\ Reply(answered)
    /\ found' = [found EXCEPT !.obj.subs[t] =
                   IF answered THEN object.subs[t] ELSE BlankSub]
    /\ unread' = unread \ {t}
    /\ pc' = IF unread' = {} THEN "get_settings" ELSE "get_child"
    /\ UNCHANGED <<object, deep>>

GetSettings(answered) ==
    /\ pc = "get_settings"
    /\ Reply(answered)
    /\ found' = [found EXCEPT !.obj.setting =
                   IF answered THEN object.setting ELSE None]
    /\ pc' = "done"
    /\ UNCHANGED <<object, deep, unread>>

Next ==
    \E answered \in BOOLEAN :
        \/ GetTree(answered) \/ GetSelf(answered) \/ Get(answered)
        \/ Children(answered) \/ GetSettings(answered)
        \/ \E t \in Typeids : GetChild(t, answered)

Spec == Init /\ [][Next]_vars

(***************************************************************************)
(* Properties.                                                             *)
(***************************************************************************)

\* Every variable stays in its set; `unread' holds subscriptions only.
TypeOK ==
    /\ object \in Stored
    /\ pc \in Commands \cup {"done"}
    /\ deep \in BOOLEAN
    /\ found \in Reads
    /\ unread \subseteq Typeids
    /\ lost \in Nat

\* The read as one step covers the read command by command: whatever comes
\* back can come back there, at no higher price in unanswered commands.
AtomicReadCovers ==
    pc = "done" =>
       \E x \in read_actual(object) : x.read = found /\ x.lost <= lost

\* With every command answered a read shows the writer as it is (docstring of
\* read_actual: falls back to the per-object reads "if the deep read comes back
\* with only the writer itself").
AnsweredReadIsTrue ==
    pc = "done" /\ lost = 0 =>
       found = IF object = None THEN AbsentRead
               ELSE [exists |-> TRUE, obj |-> object]

===============================================================================
