-------------------------------- MODULE Survey --------------------------------
(***************************************************************************)
(* The read-only walk of plugins/module_utils/survey.py over the object    *)
(* tree of a device, as modules/survey.py runs it: breadth first from the  *)
(* roots, a schema read of some instances of every type, a listing of      *)
(* every object above the deepest level.                                   *)
(*                                                                         *)
(* What a listing shows is the device's business: an object may be listed  *)
(* under several others, and under itself.  A reply may not come, or be    *)
(* that of another object (SapSession!TreeShowsItsObjects): neither        *)
(* children() nor rfs() has a way to tell.                                 *)
(***************************************************************************)
EXTENDS SequencesExt, Naturals

CONSTANTS
    None,
    Objects,     \* paths: sequences of [base, instance], the pieces between dots
    Rank,        \* their place in the order of strings
    Root,        \* what `get .' lists, in the order of the reply
    Children,    \* per object, what it lists
    Schema,      \* per object, the access of each of its properties
    FALLBACK_ROOTS,
    Calls,       \* the arguments survey() may be called with
    MaxLost,     \* bound: replies that do not come
    MaxStray     \* bound: replies that are another object's

ASSUME SurveyAssumption ==
    /\ None \notin Objects /\ IsFiniteSet(Objects)
    /\ Rank \in [Objects -> Nat]
    /\ \A p, q \in Objects : Rank[p] = Rank[q] => p = q
    /\ Root \in Seq(Objects) /\ FALLBACK_ROOTS \in Seq(Objects)
    /\ Children \in [Objects -> Seq(Objects)]
    /\ MaxLost \in Nat /\ MaxStray \in Nat

\* What the arguments may be, negative numbers left out.
ASSUME CallsAssumption ==
    \A call \in Calls :
       /\ call.roots # None => call.roots \in Seq(Objects)
       /\ call.max_instances_per_type \in Nat
       /\ call.probe_constructor \in BOOLEAN
       /\ call.max_children # None => call.max_children \in Nat
       /\ call.max_depth \in Nat
       /\ call.max_commands # None => call.max_commands \in Nat

VARIABLES
    args,        \* roots, max_instances_per_type, probe_constructor, max_children,
                 \* max_depth, max_commands
    queue, visited, seen_types, snapshot, commands,
    phase,       \* where the walk is
    current,     \* the object popped, with its depth
    issued,      \* commands really sent
    lost, stray  \* how much of the two bounds is used up

vars == <<args, queue, visited, seen_types, snapshot, commands, phase, current,
          issued, lost, stray>>

\* The path without the instance of its last piece; with a dot in a quoted name
\* the last piece may have none, and the path is then a type of its own.
type_of(path) ==
    IF Last(path).instance = None THEN path
    ELSE Append(Front(path), [Last(path) EXCEPT !.instance = None])

Types == {type_of(p) : p \in Objects}

\* The premise of sampling: objects of a type have the same properties.
ASSUME SchemaIsPerType ==
    \A p, q \in Objects : type_of(p) = type_of(q) => Schema[p] = Schema[q]

summarise_access(schema) ==
    [a \in {"RW", "RO", "WO"} |-> {q \in DOMAIN schema : schema[q] = a}]

\* What a type is reported with, which is never None.
Properties == UNION {DOMAIN Schema[p] : p \in Objects}
Entries == [sampled_instance : Objects, depth : Nat,
            access : [{"RW", "RO", "WO"} -> SUBSET Properties],
            instances_seen : Nat]

ASSUME NoEntryAssumption == None \notin Entries

\* Each path at the place that the number of those before it gives it.
Sorted(paths) ==
    [i \in 1..Cardinality(paths) |->
        CHOOSE p \in paths : Cardinality({q \in paths : Rank[q] < Rank[p]}) = i - 1]

AtDepth(paths, depth) == [i \in DOMAIN paths |-> <<paths[i], depth>>]

\* A reply is the right one, none, or a stray one.
Reply(r, own, none, strays) ==
    \/ r = own /\ UNCHANGED <<lost, stray>>
    \/ r = none /\ lost < MaxLost /\ lost' = lost + 1 /\ UNCHANGED stray
    \/ r \in strays /\ stray < MaxStray /\ stray' = stray + 1 /\ UNCHANGED lost

\* client.children(path), if what comes is the listing of p: a dict, in which an
\* object listed twice has its first place, without the object itself.
Lines(p) == <<p>> \o Children[p]
Place(p, c) ==
    CHOOSE i \in DOMAIN Lines(p) : Lines(p)[i] = c /\ \A j \in 1..i - 1 : Lines(p)[j] # c
Listing(p, path) == ToSet(Lines(p)) \ {path}

\* The first n of them, or all.
FirstOf(n, p, path) ==
    {c \in Listing(p, path) :
        \/ n = None
        \/ Cardinality({d \in Listing(p, path) : Place(p, d) < Place(p, c)}) < n}

Strays(n, path) == {FirstOf(n, p, path) : p \in Objects \ {path}}

Init ==
    /\ args \in Calls
    /\ queue = IF args.roots = None THEN <<>> ELSE AtDepth(args.roots, 0)
    /\ visited = {}
    /\ seen_types = [t \in Types |-> 0]
    /\ snapshot = [t \in Types |-> None]
    /\ commands = 0
    /\ phase = IF args.roots = None THEN "discover" ELSE "walk"
    /\ current = None
    /\ issued = 0
    /\ lost = 0
    /\ stray = 0

discover_roots ==
    /\ phase = "discover"
    /\ \E roots \in {ToSet(Root), {}} \cup Strays(None, None) :
          /\ Reply(roots, ToSet(Root), {}, Strays(None, None))
          /\ queue' = AtDepth(IF roots = {} THEN FALLBACK_ROOTS ELSE Sorted(roots), 0)
    /\ phase' = "walk"
    /\ issued' = issued + 1
    /\ UNCHANGED <<args, visited, seen_types, snapshot, commands, current>>

\* Mutation of Skip: the object looked at stays in the queue.
PeeksOnly ==
    /\ phase = "walk" /\ queue # <<>>
    /\ Head(queue)[1] \in visited
    /\ UNCHANGED vars

Skip ==
    /\ phase = "walk" /\ queue # <<>>
    /\ Head(queue)[1] \in visited
    /\ queue' = Tail(queue)
    /\ UNCHANGED <<args, visited, seen_types, snapshot, commands, phase, current,
                   issued, lost, stray>>

OverBudget == args.max_commands # None /\ commands >= args.max_commands

\* Mutation of Pop: the last object of the queue is taken, depth first.
PopsLast ==
    /\ phase = "walk" /\ queue # <<>>
    /\ Last(queue)[1] \notin visited
    /\ ~OverBudget
    /\ current' = Last(queue)
    /\ queue' = Front(queue)
    /\ visited' = visited \cup {Last(queue)[1]}
    /\ phase' = "describe"
    /\ UNCHANGED <<args, seen_types, snapshot, commands, issued, lost, stray>>

Pop ==
    /\ phase = "walk" /\ queue # <<>>
    /\ Head(queue)[1] \notin visited
    /\ ~OverBudget
    /\ current' = Head(queue)
    /\ queue' = Tail(queue)
    /\ visited' = visited \cup {Head(queue)[1]}
    /\ phase' = "describe"
    /\ UNCHANGED <<args, seen_types, snapshot, commands, issued, lost, stray>>

Count(t) == seen_types' = [seen_types EXCEPT ![t] = @ + 1]

\* Mutation of KnownType: an instance that is not sampled is not counted.
CountsSampledOnly ==
    /\ phase = "describe"
    /\ seen_types[type_of(current[1])] >= args.max_instances_per_type
    /\ phase' = "children"
    /\ UNCHANGED <<args, queue, visited, seen_types, snapshot, commands, current,
                   issued, lost, stray>>

KnownType ==
    /\ phase = "describe"
    /\ seen_types[type_of(current[1])] >= args.max_instances_per_type
    /\ Count(type_of(current[1]))
    /\ phase' = "children"
    /\ UNCHANGED <<args, queue, visited, snapshot, commands, current,
                   issued, lost, stray>>

\* Mutation of DescribeCost: a probe is not counted.
CountsRfsOnly == 1

\* Mutation of DescribeCost: a probe is counted whether it is asked for or not.
CountsProbeAlways == 2

DescribeCost == IF args.probe_constructor THEN 2 ELSE 1

\* rfs and, if asked for, a get of the Constructor property, whose value is left
\* out.  A later sample of a type replaces an earlier one.
_describe ==
    /\ phase = "describe"
    /\ LET path == current[1]
           t == type_of(path)
           strays == {Schema[p] : p \in Objects \ {path}}
       IN  /\ seen_types[t] < args.max_instances_per_type
           /\ Count(t)
           /\ \E schema \in {Schema[path], <<>>} \cup strays :
                 /\ Reply(schema, Schema[path], <<>>, strays)
                 /\ snapshot' = [snapshot EXCEPT ![t] =
                       [sampled_instance |-> path, depth |-> current[2],
                        access |-> summarise_access(schema), instances_seen |-> 0]]
    /\ commands' = commands + DescribeCost
    /\ issued' = issued + (IF args.probe_constructor THEN 2 ELSE 1)
    /\ phase' = "children"
    /\ UNCHANGED <<args, queue, visited, current>>

Descend ==
    /\ phase = "children"
    /\ current[2] < args.max_depth
    /\ LET path == current[1]
           own == FirstOf(args.max_children, path, path)
           strays == Strays(args.max_children, path)
       IN  \E children \in {own, {}} \cup strays :
              /\ Reply(children, own, {}, strays)
              /\ queue' = queue \o AtDepth(Sorted(children), current[2] + 1)
    /\ commands' = commands + 1
    /\ issued' = issued + 1
    /\ phase' = "walk"
    /\ UNCHANGED <<args, visited, seen_types, snapshot, current>>

StayAtDepth ==
    /\ phase = "children"
    /\ current[2] >= args.max_depth
    /\ phase' = "walk"
    /\ UNCHANGED <<args, queue, visited, seen_types, snapshot, commands, current,
                   issued, lost, stray>>

\* Nothing left, or nothing left to spend.
Finish ==
    /\ phase = "walk"
    /\ queue # <<>> => Head(queue)[1] \notin visited /\ OverBudget
    /\ snapshot' = [t \in Types |->
          IF snapshot[t] = None THEN None
          ELSE [snapshot[t] EXCEPT !.instances_seen = seen_types[t]]]
    /\ phase' = "done"
    /\ UNCHANGED <<args, queue, visited, seen_types, commands, current, issued,
                   lost, stray>>

\* Any read may find the connection gone; the module then reports nothing.
Break ==
    /\ phase \in {"discover", "describe", "children"}
    /\ phase' = "failed"
    /\ UNCHANGED <<args, queue, visited, seen_types, snapshot, commands, current,
                   issued, lost, stray>>

Next ==
    \/ discover_roots \/ Skip \/ Pop \/ KnownType \/ _describe
    \/ Descend \/ StayAtDepth \/ Finish \/ Break

Spec == Init /\ [][Next]_vars /\ WF_vars(Next)

Sampled == {t \in Types : snapshot[t] # None}

\* Mutation of unverifiable_properties: the properties not known are listed.
ListsReadOnly == UNION {{t} \X snapshot[t].access["RO"] : t \in Sampled}

unverifiable_properties == UNION {{t} \X snapshot[t].access["WO"] : t \in Sampled}

(***************************************************************************)
(* Properties.                                                             *)
(***************************************************************************)

\* The objects no more than n listings away from the roots.
Roots == IF args.roots # None THEN args.roots
         ELSE IF Root # <<>> THEN Root ELSE FALLBACK_ROOTS
Reach(n) ==
    LET f[i \in 0..n] ==
            IF i = 0 THEN ToSet(Roots)
            ELSE f[i - 1] \cup UNION {ToSet(Children[p]) : p \in f[i - 1]}
    IN  f[n]

Clean == lost = 0 /\ stray = 0

\* Every variable stays in its set.
TypeOK ==
    /\ args \in Calls
    /\ \A i \in DOMAIN queue : queue[i] \in Objects \X (0..args.max_depth)
    /\ visited \subseteq Objects
    /\ seen_types \in [Types -> 0..Cardinality(Objects)]
    /\ \A t \in Types : snapshot[t] # None => snapshot[t].sampled_instance \in visited
    /\ commands <= issued
    /\ phase \in {"discover", "walk", "describe", "children", "done", "failed"}
    /\ current = None \/ current \in Objects \X (0..args.max_depth)
    /\ lost \in 0..MaxLost /\ stray \in 0..MaxStray

\* The brakes hold: what is sent stays within the budget, the root listing and
\* what the last object may cost apart (survey: "max_depth and max_commands are
\* the brakes").
WithinBudget == args.max_commands # None => issued <= args.max_commands + 3

\* A walk that is answered, not cut short and not out of budget has been at every
\* object within max_depth of a root, however often it is listed and in whatever
\* order the roots come.
Complete ==
    phase = "done" /\ Clean /\ args.max_children = None /\ ~OverBudget =>
       visited = Reach(args.max_depth)

\* Whatever is lost or misdirected, every type met has an entry, made from an
\* object of that type, and instances_seen is the number of its objects met.
CountsInstances ==
    phase = "done" =>
       \A t \in Types :
          LET met == {p \in visited : type_of(p) = t}
          IN  IF met = {} THEN snapshot[t] = None
              ELSE /\ snapshot[t].sampled_instance \in met
                   /\ snapshot[t].instances_seen = Cardinality(met)

\* A write-only property of any object met is reported, so that no reconciler
\* claims to have set it.
WriteOnlyReported ==
    phase = "done" /\ Clean =>
       unverifiable_properties =
          UNION {{type_of(p)} \X {q \in DOMAIN Schema[p] : Schema[p][q] = "WO"} :
                    p \in visited}

\* The walk ends, though objects list each other in a circle and replies go
\* astray, and without any budget.
Terminates == <>(phase \in {"done", "failed"})

================================================================================
