----------------------------- MODULE SurveyProofs -----------------------------
(***************************************************************************)
(* Survey for every tree, every way it lists its objects, every call and   *)
(* any number of lost and misattributed replies: the walk keeps its types  *)
(* and its budget, counts what it meets, reports every write-only property *)
(* of it, and misses nothing within reach.                                 *)
(***************************************************************************)
EXTENDS Survey, FiniteSetTheorems, FunctionTheorems, TLAPS

(***************************************************************************)
(* Sorting.                                                                *)
(***************************************************************************)

\* The number of paths before a path tells it from the others, so every place
\* in the order is taken, and by one path only.
LEMMA SortedTyped ==
    ASSUME NEW paths \in SUBSET Objects
    PROVE  Sorted(paths) \in Seq(paths) /\ ToSet(Sorted(paths)) = paths
<1> DEFINE n == Cardinality(paths)
           Before(p) == {q \in paths : Rank[q] < Rank[p]}
           place == [p \in paths |-> Cardinality(Before(p))]
<1>1. IsFiniteSet(paths) /\ n \in Nat
  BY SurveyAssumption, FS_Subset, FS_CardinalityType
<1>2. \A p \in paths : IsFiniteSet(Before(p)) /\ Cardinality(Before(p)) \in Nat
  BY <1>1, FS_Subset, FS_CardinalityType
<1>3. \A p \in paths : Rank[p] \in Nat
  BY SurveyAssumption
<1>4. ASSUME NEW p \in paths, NEW q \in paths, Rank[p] < Rank[q]
      PROVE  Cardinality(Before(p)) < Cardinality(Before(q))
  <2>1. p \in Before(q) /\ Before(p) \subseteq Before(q) \ {p}
    BY <1>3, <1>4
  <2>2. /\ IsFiniteSet(Before(q) \ {p})
        /\ Cardinality(Before(q) \ {p}) = Cardinality(Before(q)) - 1
    BY <1>2, <2>1, FS_RemoveElement
  <2>3. Cardinality(Before(p)) <= Cardinality(Before(q) \ {p})
    BY <2>1, <2>2, FS_Subset
  <2> HIDE DEF Before
  <2> QED
    BY <1>2, <2>2, <2>3
<1>5. \A p \in paths : Cardinality(Before(p)) \in 0..n - 1
  <2> SUFFICES ASSUME NEW p \in paths PROVE Cardinality(Before(p)) \in 0..n - 1
    OBVIOUS
  <2>1. Before(p) \subseteq paths \ {p}
    BY <1>3
  <2>2. IsFiniteSet(paths \ {p}) /\ Cardinality(paths \ {p}) = n - 1
    BY <1>1, FS_RemoveElement
  <2>3. Cardinality(Before(p)) <= n - 1
    BY <2>1, <2>2, FS_Subset
  <2> HIDE DEF Before
  <2> QED
    BY <1>1, <1>2, <2>3
<1> HIDE DEF Before, n
<1>6. place \in Injection(paths, 0..n - 1)
  <2>1. place \in [paths -> 0..n - 1]
    BY <1>5
  <2>2. ASSUME NEW p \in paths, NEW q \in paths, place[p] = place[q]
        PROVE  p = q
    <3>1. ~(Rank[p] < Rank[q]) /\ ~(Rank[q] < Rank[p])
      BY <1>2, <1>4, <2>2
    <3>2. Rank[p] = Rank[q]
      BY <1>3, <3>1
    <3> QED
      BY <3>2, SurveyAssumption
  <2> QED
    BY <2>1, <2>2 DEF Injection, IsInjective
<1>7. IsFiniteSet(0..n - 1) /\ Cardinality(0..n - 1) = n
  BY <1>1, FS_Interval
<1>8. place \in Surjection(paths, 0..n - 1)
  BY <1>6, <1>7, FS_Injection DEF n
<1>9. ASSUME NEW i \in 1..n
      PROVE  \E p \in paths : Cardinality(Before(p)) = i - 1
  <2>1. i - 1 \in 0..n - 1
    BY <1>1, <1>9
  <2>2. \A k \in 0..n - 1 : \E p \in paths : place[p] = k
    <3> HIDE DEF place
    <3> QED
      BY <1>8 DEF Surjection
  <2>3. \A k \in 0..n - 1 : \E p \in paths : Cardinality(Before(p)) = k
    BY <2>2
  <2> QED
    BY <2>1, <2>3
<1>10. Sorted(paths) \in [1..n -> paths]
  BY <1>9 DEF Sorted, n, Before
<1>11. ASSUME NEW p \in paths
       PROVE  \E i \in 1..n : Sorted(paths)[i] = p
  <2> DEFINE i == Cardinality(Before(p)) + 1
             q == Sorted(paths)[i]
  <2>1. i \in 1..n /\ i - 1 = Cardinality(Before(p))
    BY <1>1, <1>2, <1>5
  <2>2. q = CHOOSE r \in paths : Cardinality(Before(r)) = i - 1
    BY <2>1 DEF Sorted, n, Before
  <2>3. q \in paths /\ Cardinality(Before(q)) = i - 1
    <3> HIDE DEF i, q
    <3> QED
      BY <1>9, <2>1, <2>2
  <2>4. place[q] = place[p]
    <3> HIDE DEF i, q
    <3> QED
      BY <2>1, <2>3
  <2>5. q = p
    <3> HIDE DEF i, q, place
    <3> QED
      BY <1>6, <2>3, <2>4 DEF Injection, IsInjective
  <2> HIDE DEF i
  <2> QED
    BY <2>1, <2>5
<1>12. DOMAIN Sorted(paths) = 1..n
  BY <1>10
<1> QED
  BY <1>1, <1>10, <1>11, <1>12 DEF ToSet

(***************************************************************************)
(* The invariant.                                                          *)
(***************************************************************************)

Steps == Objects \X (0..args.max_depth)

Typed ==
    /\ args \in Calls
    /\ queue \in Seq(Steps)
    /\ visited \in SUBSET Objects
    /\ seen_types \in [Types -> Nat]
    /\ snapshot \in [Types -> Entries \cup {None}]
    /\ phase \in {"discover", "walk", "describe", "children", "done", "failed"}
    /\ current = None \/ current \in Steps
    /\ phase \in {"describe", "children"} => current \in Steps /\ current[1] \in visited
    /\ lost \in 0..MaxLost /\ stray \in 0..MaxStray

Met(t) == {p \in visited : type_of(p) = t}

\* The object being described is met and not yet counted.
Counting(t) == phase = "describe" /\ type_of(current[1]) = t

Counted ==
    \A t \in Types :
       /\ seen_types[t] <= Cardinality(Met(t))
       /\ Counting(t) => seen_types[t] + 1 = Cardinality(Met(t))
       /\ phase # "failed" /\ ~Counting(t) => seen_types[t] = Cardinality(Met(t))
       /\ phase = "done" /\ snapshot[t] # None =>
             snapshot[t].instances_seen = seen_types[t]

\* Before the walk nothing is counted; an object is taken within the budget and
\* costs three commands at most; the root listing is never counted.
Spent ==
    /\ commands \in Nat /\ issued \in Nat
    /\ commands <= issued /\ issued <= commands + 1
    /\ phase = "discover" => issued = 0
    /\ args.max_commands # None =>
          /\ commands <= args.max_commands + 2
          /\ phase = "describe" => commands <= args.max_commands - 1
          /\ phase = "children" => commands <= args.max_commands + 1

\* An entry is that of an object of its type, and says of its properties what
\* the device says, unless a reply went astray.
Faithful ==
    \A t \in Types : snapshot[t] # None =>
       /\ snapshot[t].sampled_instance \in Met(t)
       /\ Clean => snapshot[t].access = summarise_access(Schema[snapshot[t].sampled_instance])

\* A type that is counted has an entry, if any instance of it is to be sampled:
\* the argument may be zero.
Samples == \A call \in Calls : call.max_instances_per_type > 0

Entered == Samples => \A t \in Types : seen_types[t] > 0 => snapshot[t] # None

SInv == Typed /\ Counted /\ Spent /\ Faithful /\ Entered

(***************************************************************************)
(* The operators.                                                          *)
(***************************************************************************)

\* The arguments are what survey() may be called with.
LEMMA ArgsTyped ==
    ASSUME args \in Calls
    PROVE  /\ args.roots # None => args.roots \in Seq(Objects)
           /\ args.max_instances_per_type \in Nat
           /\ args.max_depth \in Nat
           /\ args.max_commands # None => args.max_commands \in Nat
           /\ DescribeCost \in {1, 2}
BY CallsAssumption DEF DescribeCost

\* Every object has a type, and the objects of a type that are met are finitely
\* many.
LEMMA MetFinite ==
    ASSUME Typed
    PROVE  /\ \A p \in Objects : type_of(p) \in Types
           /\ \A t \in Types : /\ IsFiniteSet(Met(t))
                               /\ Cardinality(Met(t)) \in 0..Cardinality(Objects)
<1>1. \A p \in Objects : type_of(p) \in Types
  BY DEF Types
<1>2. \A t : Met(t) \in SUBSET Objects
  BY DEF Typed, Met
<1> QED
  BY <1>1, <1>2, SurveyAssumption, FS_Subset, FS_CardinalityType

\* Objects put in the queue at a depth of the walk are steps of it.
LEMMA AtDepthTyped ==
    ASSUME NEW paths \in Seq(Objects), NEW depth \in 0..args.max_depth
    PROVE  AtDepth(paths, depth) \in Seq(Steps)
BY DEF AtDepth, Steps

\* What is listed are objects, whichever listing comes.
LEMMA ListingTyped ==
    ASSUME NEW n, NEW path
    PROVE  /\ path \in Objects => FirstOf(n, path, path) \in SUBSET Objects
           /\ Strays(n, path) \subseteq SUBSET Objects
           /\ ToSet(Root) \in SUBSET Objects
<1>1. ASSUME NEW p \in Objects
      PROVE  FirstOf(n, p, path) \in SUBSET Objects
  <2>1. Children[p] \in Seq(Objects)
    BY SurveyAssumption
  <2>2. Lines(p) \in Seq(Objects)
    BY <2>1 DEF Lines
  <2>3. ToSet(Lines(p)) \in SUBSET Objects
    BY <2>2 DEF ToSet
  <2> QED
    BY <2>3 DEF FirstOf, Listing
<1>2. Strays(n, path) \subseteq SUBSET Objects
  BY <1>1 DEF Strays
<1>3. ToSet(Root) \in SUBSET Objects
  BY SurveyAssumption DEF ToSet
<1> QED
  BY <1>1, <1>2, <1>3

\* Counting an object of a type leaves the other types alone.
LEMMA CountTyped ==
    ASSUME Typed, NEW t \in Types, Count(t)
    PROVE  /\ seen_types' \in [Types -> Nat]
           /\ seen_types'[t] = seen_types[t] + 1
           /\ \A u \in Types \ {t} : seen_types'[u] = seen_types[u]
<1>1. seen_types \in [Types -> Nat] /\ seen_types' = [seen_types EXCEPT ![t] = @ + 1]
  BY DEF Typed, Count
<1> QED
  BY <1>1

\* A schema that comes, right, empty or another object's, makes an access.
LEMMA AccessTyped ==
    ASSUME NEW schema, \/ \E p \in Objects : schema = Schema[p]
                       \/ schema = <<>>
    PROVE  summarise_access(schema) \in [{"RW", "RO", "WO"} -> SUBSET Properties]
<1>1. DOMAIN schema \subseteq Properties
  BY DEF Properties
<1> QED
  BY <1>1 DEF summarise_access

\* Describing an object makes the entry of its type and leaves the others.
LEMMA DescribeTyped ==
    ASSUME Typed, _describe
    PROVE  /\ type_of(current[1]) \in Types
           /\ snapshot'[type_of(current[1])] \in Entries
           /\ \A u \in Types \ {type_of(current[1])} : snapshot'[u] = snapshot[u]
           /\ snapshot' \in [Types -> Entries \cup {None}]
           /\ lost' \in 0..MaxLost /\ stray' \in 0..MaxStray
<1> DEFINE path == current[1]
           t == type_of(path)
           entry(schema) ==
              [sampled_instance |-> path, depth |-> current[2],
               access |-> summarise_access(schema), instances_seen |-> 0]
<1>1. PICK schema \in {Schema[path], <<>>} \cup {Schema[p] : p \in Objects \ {path}} :
         /\ Reply(schema, Schema[path], <<>>, {Schema[p] : p \in Objects \ {path}})
         /\ snapshot' = [snapshot EXCEPT ![t] = entry(schema)]
  BY DEF _describe
<1>2. path \in Objects /\ current[2] \in Nat
  BY ArgsTyped DEF Typed, _describe, Steps
<1>3. summarise_access(schema) \in [{"RW", "RO", "WO"} -> SUBSET Properties]
  BY <1>1, <1>2, AccessTyped
<1>4. entry(schema) \in Entries
  BY <1>2, <1>3 DEF Entries
<1>5. lost' \in 0..MaxLost /\ stray' \in 0..MaxStray
  BY <1>1, SurveyAssumption DEF Reply, Typed
<1>6. t \in Types
  BY <1>2, MetFinite
<1> HIDE DEF t, entry
<1>7. /\ snapshot' \in [Types -> Entries \cup {None}]
      /\ snapshot'[t] = entry(schema)
      /\ \A u \in Types \ {t} : snapshot'[u] = snapshot[u]
  BY <1>1, <1>4, <1>6 DEF Typed
<1> QED
  BY <1>4, <1>5, <1>6, <1>7 DEF t

(***************************************************************************)
(* The steps.                                                              *)
(***************************************************************************)

\* A run starts with nothing seen.
LEMMA StartSafe == Init => SInv
<1> SUFFICES ASSUME Init PROVE SInv
  OBVIOUS
<1>1. Typed
  <2>1. args.roots # None => AtDepth(args.roots, 0) \in Seq(Steps)
    BY ArgsTyped, AtDepthTyped DEF Init
  <2>2. queue \in Seq(Steps)
    BY <2>1 DEF Init
  <2> QED
    BY <2>2, SurveyAssumption DEF Init, Typed
<1>2. Counted
  <2>1. \A t : Met(t) = {}
    BY DEF Init, Met
  <2>2. \A t : Cardinality(Met(t)) = 0
    BY <2>1, FS_EmptySet, Zenon
  <2>3. \A t \in Types : seen_types[t] = 0 /\ snapshot[t] = None /\ ~Counting(t)
    BY DEF Init, Counting
  <2> QED
    BY <2>2, <2>3 DEF Init, Counted
<1>3. Spent
  BY ArgsTyped DEF Init, Spent
<1>4. Faithful /\ Entered
  BY DEF Init, Faithful, Entered
<1> QED
  BY <1>1, <1>2, <1>3, <1>4 DEF SInv

\* What is put in the queue are steps of the walk, and what is made of a reply
\* is an entry.
LEMMA StepTyped ==
    ASSUME Typed, Next
    PROVE  Typed'
<1> USE DEF Typed
<1>1. args' = args /\ Steps' = Steps
  BY DEF Next, discover_roots, Skip, Pop, KnownType, _describe, Descend,
         StayAtDepth, Finish, Break, Steps
<1>2. CASE discover_roots
  <2>1. PICK roots \in {ToSet(Root), {}} \cup Strays(None, None) :
           /\ Reply(roots, ToSet(Root), {}, Strays(None, None))
           /\ queue' = AtDepth(IF roots = {} THEN FALLBACK_ROOTS ELSE Sorted(roots), 0)
    BY <1>2 DEF discover_roots
  <2>2. roots \in SUBSET Objects
    BY ListingTyped
  <2>3. Sorted(roots) \in Seq(Objects)
    BY <2>2, SortedTyped
  <2>4. (IF roots = {} THEN FALLBACK_ROOTS ELSE Sorted(roots)) \in Seq(Objects)
    BY <2>3, SurveyAssumption
  <2>5. queue' \in Seq(Steps)
    BY <2>1, <2>4, AtDepthTyped, ArgsTyped
  <2>6. lost' \in 0..MaxLost /\ stray' \in 0..MaxStray
    BY <2>1, SurveyAssumption DEF Reply
  <2> QED
    BY <1>1, <1>2, <2>5, <2>6 DEF discover_roots
<1>3. CASE Skip
  BY <1>1, <1>3 DEF Skip
<1>4. CASE Pop
  <2>1. Head(queue) \in Steps /\ Tail(queue) \in Seq(Steps)
    BY <1>4 DEF Pop
  <2>2. Head(queue)[1] \in Objects
    BY <2>1 DEF Steps
  <2> QED
    BY <1>1, <1>4, <2>1, <2>2 DEF Pop
<1>5. CASE KnownType
  <2>1. seen_types' \in [Types -> Nat]
    BY <1>5, MetFinite, CountTyped DEF KnownType, Steps
  <2> QED
    BY <1>1, <1>5, <2>1 DEF KnownType
<1>6. CASE _describe
  <2>1. /\ snapshot' \in [Types -> Entries \cup {None}]
        /\ lost' \in 0..MaxLost /\ stray' \in 0..MaxStray
    BY <1>6, DescribeTyped
  <2>2. seen_types' \in [Types -> Nat]
    BY <1>6, MetFinite, CountTyped DEF _describe, Steps
  <2>3. UNCHANGED <<args, queue, visited, current>> /\ phase' = "children" /\ phase = "describe"
    BY <1>6 DEF _describe
  <2> QED
    BY <1>1, <2>1, <2>2, <2>3
<1>7. CASE Descend
  <2> DEFINE path == current[1]
             own == FirstOf(args.max_children, path, path)
             strays == Strays(args.max_children, path)
  <2>1. PICK children \in {own, {}} \cup strays :
           /\ Reply(children, own, {}, strays)
           /\ queue' = queue \o AtDepth(Sorted(children), current[2] + 1)
    BY <1>7 DEF Descend
  <2>2. path \in Objects /\ current[2] + 1 \in 0..args.max_depth
    BY <1>7, ArgsTyped DEF Descend, Steps
  <2>3. children \in SUBSET Objects
    BY <2>1, <2>2, ListingTyped
  <2>4. Sorted(children) \in Seq(Objects)
    BY <2>3, SortedTyped
  <2>5. AtDepth(Sorted(children), current[2] + 1) \in Seq(Steps)
    BY <2>2, <2>4, AtDepthTyped
  <2>6. queue' \in Seq(Steps)
    BY <2>1, <2>5
  <2>7. lost' \in 0..MaxLost /\ stray' \in 0..MaxStray
    BY <2>1, SurveyAssumption DEF Reply
  <2> QED
    BY <1>1, <1>7, <2>6, <2>7 DEF Descend
<1>8. CASE StayAtDepth
  BY <1>1, <1>8 DEF StayAtDepth
<1>9. CASE Finish
  <2>1. ASSUME NEW t \in Types, snapshot[t] # None
        PROVE  [snapshot[t] EXCEPT !.instances_seen = seen_types[t]] \in Entries
    BY <2>1 DEF Entries
  <2>2. snapshot' \in [Types -> Entries \cup {None}]
    BY <1>9, <2>1 DEF Finish
  <2> QED
    BY <1>1, <1>9, <2>2 DEF Finish
<1>10. CASE Break
  BY <1>1, <1>10 DEF Break
<1> QED
  BY <1>2, <1>3, <1>4, <1>5, <1>6, <1>7, <1>8, <1>9, <1>10 DEF Next

\* Three commands for the last object, and the root listing, are all that is
\* sent over the budget.
LEMMA StepSpent ==
    ASSUME Typed, Spent, Next
    PROVE  Spent'
<1>1. args' = args /\ args.max_commands # None => args.max_commands \in Nat
  BY ArgsTyped DEF Next, discover_roots, Skip, Pop, KnownType, _describe, Descend,
         StayAtDepth, Finish, Break, Typed
<1>2. CASE discover_roots
  BY <1>1, <1>2 DEF Spent, discover_roots
<1>3. CASE Pop
  BY <1>1, <1>3 DEF Spent, Pop, OverBudget
<1>4. CASE _describe
  BY <1>1, <1>4 DEF Spent, _describe, DescribeCost
<1>5. CASE Descend
  BY <1>1, <1>5 DEF Spent, Descend
<1>6. CASE Skip \/ KnownType \/ StayAtDepth \/ Finish \/ Break
  BY <1>1, <1>6 DEF Spent, Skip, KnownType, StayAtDepth, Finish, Break
<1> QED
  BY <1>2, <1>3, <1>4, <1>5, <1>6 DEF Next

\* What is met of a type is what is counted, but for the object in hand.
LEMMA StepCounted ==
    ASSUME Typed, Counted, Next
    PROVE  Counted'
<1>1. \A t \in Types : /\ seen_types[t] \in Nat /\ Cardinality(Met(t)) \in Nat
                       /\ IsFiniteSet(Met(t))
  BY MetFinite DEF Typed
<1>2. CASE Pop
  <2>1. PICK p \in Objects \ visited : current'[1] = p /\ visited' = visited \cup {p}
    BY <1>2 DEF Pop, Typed, Steps
  <2>2. \A t \in Types : ~Counting(t) /\ (Counting(t)' <=> type_of(p) = t)
    BY <1>2, <2>1 DEF Pop, Counting
  <2>3. \A t \in Types \ {type_of(p)} : Met(t)' = Met(t)
    BY <2>1 DEF Met
  <2>4. Met(type_of(p))' = Met(type_of(p)) \cup {p} /\ p \notin Met(type_of(p))
    BY <2>1 DEF Met
  <2>5. type_of(p) \in Types
    BY <2>1, MetFinite
  <2>6. Cardinality(Met(type_of(p))') = Cardinality(Met(type_of(p))) + 1
    BY <1>1, <2>4, <2>5, FS_AddElement
  <2>7. \A t \in Types : seen_types[t] = Cardinality(Met(t))
    BY <1>2, <2>2 DEF Pop, Counted
  <2>8. UNCHANGED seen_types /\ phase' = "describe"
    BY <1>2 DEF Pop
  <2>9. ASSUME NEW t \in Types
        PROVE  /\ seen_types'[t] <= Cardinality(Met(t)')
               /\ Counting(t)' => seen_types'[t] + 1 = Cardinality(Met(t)')
               /\ ~Counting(t)' => seen_types'[t] = Cardinality(Met(t)')
    <3>1. CASE t = type_of(p)
      <4>1. Cardinality(Met(t)') = Cardinality(Met(t)) + 1 /\ Counting(t)'
        BY <2>2, <2>6, <3>1, Zenon
      <4>2. seen_types'[t] = Cardinality(Met(t)) /\ Cardinality(Met(t)) \in Nat
        BY <1>1, <2>7, <2>8
      <4> QED
        BY <4>1, <4>2
    <3>2. CASE t # type_of(p)
      <4>1. Met(t)' = Met(t) /\ ~Counting(t)'
        BY <2>2, <2>3, <3>2, Zenon
      <4>2. seen_types'[t] = Cardinality(Met(t)) /\ Cardinality(Met(t)) \in Nat
        BY <1>1, <2>7, <2>8
      <4> QED
        BY <4>1, <4>2
    <3> QED
      BY <3>1, <3>2
  <2> QED
    BY <2>8, <2>9 DEF Counted
<1>3. CASE KnownType \/ _describe
  <2> DEFINE k == type_of(current[1])
  <2>1. phase = "describe" /\ phase' = "children" /\ Count(k)
    BY <1>3 DEF KnownType, _describe
  <2>2. k \in Types
    BY <2>1, MetFinite DEF Typed, Steps
  <2>3. \A t \in Types : ~Counting(t)' /\ (Counting(t) <=> t = k)
    BY <2>1 DEF Counting
  <2>4. \A t \in Types : Met(t)' = Met(t)
    BY <1>3 DEF KnownType, _describe, Met
  <2>5. /\ seen_types'[k] = seen_types[k] + 1
        /\ \A u \in Types \ {k} : seen_types'[u] = seen_types[u]
    BY <2>1, <2>2, CountTyped
  <2> HIDE DEF k
  <2>6. ASSUME NEW t \in Types PROVE seen_types'[t] = Cardinality(Met(t))
    BY <2>1, <2>2, <2>3, <2>5 DEF Counted
  <2> QED
    BY <1>1, <2>1, <2>3, <2>4, <2>6 DEF Counted
<1>4. CASE discover_roots \/ Skip \/ Descend \/ StayAtDepth
  <2>1. /\ UNCHANGED <<visited, seen_types>>
        /\ phase \notin {"describe", "failed"} /\ phase' = "walk"
    BY <1>4 DEF discover_roots, Skip, Descend, StayAtDepth
  <2>2. \A t \in Types : Met(t)' = Met(t) /\ ~Counting(t) /\ ~Counting(t)'
    BY <2>1 DEF Met, Counting
  <2> QED
    BY <2>1, <2>2 DEF Counted
<1>5. CASE Finish
  <2>1. UNCHANGED <<visited, seen_types>> /\ phase = "walk" /\ phase' = "done"
    BY <1>5 DEF Finish
  <2>2. \A t \in Types : Met(t)' = Met(t) /\ ~Counting(t) /\ ~Counting(t)'
    BY <2>1 DEF Met, Counting
  <2>3. ASSUME NEW t \in Types, snapshot'[t] # None
        PROVE  snapshot'[t].instances_seen = seen_types[t]
    <3>1. /\ snapshot[t] # None
          /\ snapshot'[t] = [snapshot[t] EXCEPT !.instances_seen = seen_types[t]]
      BY <1>5, <2>3 DEF Finish
    <3>2. snapshot[t] \in Entries
      BY <3>1 DEF Typed
    <3> QED
      BY <3>1, <3>2 DEF Entries
  <2> QED
    BY <2>1, <2>2, <2>3 DEF Counted
<1>6. CASE Break
  <2>1. UNCHANGED <<visited, seen_types>> /\ phase' = "failed"
    BY <1>6 DEF Break
  <2>2. \A t \in Types : Met(t)' = Met(t) /\ ~Counting(t)'
    BY <2>1 DEF Met, Counting
  <2> QED
    BY <2>1, <2>2 DEF Counted
<1> QED
  BY <1>2, <1>3, <1>4, <1>5, <1>6 DEF Next

\* An entry is made from the object in hand, which is met, and what is met
\* stays met.
LEMMA StepFaithful ==
    ASSUME Typed, Faithful, Next
    PROVE  Faithful'
<1>1. CASE _describe
  <2> DEFINE path == current[1]
             k == type_of(path)
             strays == {Schema[p] : p \in Objects \ {path}}
             entry(schema) ==
                [sampled_instance |-> path, depth |-> current[2],
                 access |-> summarise_access(schema), instances_seen |-> 0]
  <2>1. PICK schema : /\ Reply(schema, Schema[path], <<>>, strays)
                      /\ snapshot' = [snapshot EXCEPT ![k] = entry(schema)]
    BY <1>1 DEF _describe
  <2>2. k \in Types /\ path \in Met(k)
    BY <1>1, MetFinite DEF _describe, Typed, Steps, Met
  <2>3. snapshot'[k] = entry(schema) /\ \A t \in Types \ {k} : snapshot'[t] = snapshot[t]
    BY <2>1, <2>2 DEF Typed
  <2>4. Clean' => Clean /\ schema = Schema[path]
    BY <2>1 DEF Reply, Clean, Typed
  <2>5. \A t : Met(t)' = Met(t)
    BY <1>1 DEF _describe, Met
  <2>6. /\ entry(schema).sampled_instance = path
        /\ Clean' => entry(schema).access = summarise_access(Schema[path])
    BY <2>4
  <2> HIDE DEF entry
  <2> QED
    BY <2>2, <2>3, <2>4, <2>5, <2>6 DEF Faithful
<1>2. CASE Finish
  <2>1. ASSUME NEW t \in Types, snapshot'[t] # None
        PROVE  /\ snapshot[t] # None
               /\ snapshot'[t].sampled_instance = snapshot[t].sampled_instance
               /\ snapshot'[t].access = snapshot[t].access
    <3>1. /\ snapshot[t] # None
          /\ snapshot'[t] = [snapshot[t] EXCEPT !.instances_seen = seen_types[t]]
      BY <1>2, <2>1 DEF Finish
    <3>2. snapshot[t] \in Entries
      BY <3>1 DEF Typed
    <3> QED
      BY <3>1, <3>2 DEF Entries
  <2>2. /\ \A t : Met(t)' = Met(t)
        /\ Clean' => Clean
    BY <1>2 DEF Finish, Met, Clean
  <2> QED
    BY <2>1, <2>2 DEF Faithful
<1>3. CASE discover_roots \/ Descend
  <2>1. UNCHANGED <<snapshot, visited>>
    BY <1>3 DEF discover_roots, Descend
  <2>2. PICK r, own, none, strays : Reply(r, own, none, strays)
    BY <1>3 DEF discover_roots, Descend
  <2>3. Clean' => Clean
    BY <2>2 DEF Reply, Clean, Typed
  <2> QED
    BY <2>1, <2>3 DEF Faithful, Met
<1>4. CASE Skip \/ Pop \/ KnownType \/ StayAtDepth \/ Break
  <2>1. UNCHANGED <<snapshot, lost, stray>> /\ visited \subseteq visited'
    BY <1>4 DEF Skip, Pop, KnownType, StayAtDepth, Break
  <2> QED
    BY <2>1 DEF Faithful, Met, Clean
<1> QED
  BY <1>1, <1>2, <1>3, <1>4 DEF Next

\* The first object of a type is sampled.
LEMMA StepEntered ==
    ASSUME Typed, Entered, Next
    PROVE  Entered'
<1> SUFFICES ASSUME Samples, \A t \in Types : seen_types[t] > 0 => snapshot[t] # None
             PROVE  \A t \in Types : seen_types'[t] > 0 => snapshot'[t] # None
  BY DEF Entered, Samples
<1>1. args \in Calls /\ args.max_instances_per_type \in Nat \ {0}
  BY ArgsTyped DEF Typed, Samples
<1>2. CASE KnownType
  <2> DEFINE k == type_of(current[1])
  <2>1. k \in Types /\ Count(k) /\ seen_types[k] > 0 /\ UNCHANGED snapshot
    BY <1>1, <1>2, MetFinite DEF KnownType, Typed, Steps
  <2>2. \A u \in Types \ {k} : seen_types'[u] = seen_types[u]
    BY <2>1, CountTyped
  <2> QED
    BY <2>1, <2>2
<1>3. CASE _describe
  <2> DEFINE k == type_of(current[1])
  <2>1. k \in Types /\ Count(k)
    BY <1>3, MetFinite DEF _describe, Typed, Steps
  <2>2. \A u \in Types \ {k} : seen_types'[u] = seen_types[u]
    BY <2>1, CountTyped
  <2>3. snapshot'[k] \in Entries /\ \A u \in Types \ {k} : snapshot'[u] = snapshot[u]
    BY <1>3, DescribeTyped
  <2> QED
    BY <2>2, <2>3, NoEntryAssumption
<1>4. CASE Finish
  <2>1. ASSUME NEW t \in Types, snapshot[t] # None PROVE snapshot'[t] # None
    <3>1. [snapshot[t] EXCEPT !.instances_seen = seen_types[t]] \in Entries
      BY <2>1 DEF Typed, Entries
    <3> QED
      BY <1>4, <2>1, <3>1, NoEntryAssumption DEF Finish
  <2> QED
    BY <1>4, <2>1 DEF Finish
<1>5. CASE discover_roots \/ Skip \/ Pop \/ Descend \/ StayAtDepth \/ Break
  BY <1>5 DEF discover_roots, Skip, Pop, Descend, StayAtDepth, Break
<1> QED
  BY <1>2, <1>3, <1>4, <1>5 DEF Next

\* The invariant is kept by every step.
LEMMA StepSafe == SInv /\ [Next]_vars => SInv'
<1> SUFFICES ASSUME SInv, [Next]_vars PROVE SInv'
  OBVIOUS
<1>1. CASE Next
  BY <1>1, StepTyped, StepCounted, StepSpent, StepFaithful, StepEntered DEF SInv
<1>2. CASE UNCHANGED vars
  <2>1. Typed' /\ Spent'
    BY <1>2 DEF SInv, vars, Typed, Spent, Steps
  <2>2. Counted' /\ Faithful' /\ Entered'
    BY <1>2 DEF SInv, vars, Counted, Counting, Faithful, Entered, Met, Clean, Samples
  <2> QED
    BY <2>1, <2>2 DEF SInv
<1> QED
  BY <1>1, <1>2

\* The walk keeps the invariant.
LEMMA SurveyInvariant == Spec => []SInv
BY StartSafe, StepSafe, PTL DEF Spec

(***************************************************************************)
(* Nothing is skipped.  The objects within reach are taken level by level, *)
(* a level being those no more than so many listings away from the roots.  *)
(***************************************************************************)
D == args.max_depth

Grown(S) == S \cup UNION {ToSet(Children[p]) : p \in S}

IsLevels(f, n) ==
    f = [i \in 0..n |-> IF i = 0 THEN ToSet(Roots)
                        ELSE f[i - 1] \cup UNION {ToSet(Children[p]) : p \in f[i - 1]}]

\* The levels of the walk, down to its depth.
Levels(L) ==
    /\ L[0] = ToSet(Roots)
    /\ \A i \in 0..D - 1 : L[i + 1] = Grown(L[i])
    /\ Reach(D) = L[D]

Level == CHOOSE L : Levels(L)

\* Level k is being walked with q in the queue, v visited and, of these, d
\* listed: q holds what is left of level k and after it what is known of the
\* next, and no object of level k is missed.
OnLevel(k, q, v, d) ==
    /\ k \in 0..D /\ q \in Seq(Steps)
    /\ \A i \in DOMAIN q : /\ q[i][2] \in {k, k + 1}
                           /\ q[i][1] \in Level[q[i][2]]
                           /\ \A j \in 1..i - 1 : q[j][2] <= q[i][2]
    /\ v \subseteq Level[k]
    /\ \A p \in Level[k] : p \in v \/ \E i \in DOMAIN q : q[i] = <<p, k>>
    /\ k < D => \A p \in d : \A c \in ToSet(Children[p]) :
                   c \in v \/ \E i \in DOMAIN q : q[i][1] = c

\* The least of some numbers.
LEMMA Least ==
    ASSUME NEW T, T \subseteq Nat, T # {}
    PROVE  \E n \in T : \A m \in T : n <= m
<1>1. PICK n \in T : \A m \in T : <<m, n>> \notin OpToRel(<, Nat)
  BY NatLessThanWellFounded, WFMin
<1>2. \A m \in T : <<m, n>> \in OpToRel(<, Nat) <=> m < n
  BY DEF OpToRel
<1>3. \A m \in T : ~(m < n)
  BY <1>1, <1>2
<1> QED
  BY <1>3

\* The levels are well defined: were they not, there would be a least depth to
\* which they are not, and it is neither zero nor one more than another.
LEMMA LevelsExist ==
    ASSUME NEW n \in Nat
    PROVE  \E f : IsLevels(f, n)
<1> DEFINE Bad == {m \in Nat : ~\E f : IsLevels(f, m)}
<1> SUFFICES ASSUME n \in Bad PROVE FALSE
  OBVIOUS
<1>1. PICK m \in Bad : \A l \in Bad : m <= l
  <2> HIDE DEF Bad
  <2>1. Bad \subseteq Nat
    BY DEF Bad
  <2> QED
    BY <2>1, Least
<1>2. m # 0
  <2> DEFINE f == [i \in 0..0 |-> ToSet(Roots)]
  <2>1. IsLevels(f, 0)
    BY DEF IsLevels
  <2> QED
    BY <2>1
<1>3. m - 1 \in Nat /\ m - 1 \notin Bad
  BY <1>1, <1>2
<1>4. PICK g : IsLevels(g, m - 1)
  BY <1>3
<1> DEFINE f == [i \in 0..m |-> IF i < m THEN g[i] ELSE Grown(g[m - 1])]
<1>5. ASSUME NEW i \in 0..m
      PROVE  f[i] = IF i = 0 THEN ToSet(Roots)
                    ELSE f[i - 1] \cup UNION {ToSet(Children[p]) : p \in f[i - 1]}
  <2>1. CASE i = m
    <3>1. f[i] = Grown(g[m - 1]) /\ f[i - 1] = g[m - 1]
      BY <1>2, <1>3, <2>1
    <3> QED
      BY <1>2, <2>1, <3>1 DEF Grown
  <2>2. CASE i # m
    <3>1. i \in 0..m - 1 /\ f[i] = g[i] /\ (i # 0 => f[i - 1] = g[i - 1])
      BY <2>2
    <3>2. g[i] = IF i = 0 THEN ToSet(Roots)
                 ELSE g[i - 1] \cup UNION {ToSet(Children[p]) : p \in g[i - 1]}
      BY <1>4, <3>1 DEF IsLevels
    <3> HIDE DEF f
    <3> QED
      BY <3>1, <3>2
  <2> QED
    BY <2>1, <2>2
<1>6. IsLevels(f, m)
  <2>1. f = [i \in 0..m |-> f[i]]
    OBVIOUS
  <2> HIDE DEF f
  <2> QED
    BY <1>5, <2>1 DEF IsLevels
<1> QED
  BY <1>1, <1>6

\* So Level is what its definition says.
LEMMA LevelsOfWalk ==
    ASSUME args \in Calls
    PROVE  D \in Nat /\ Levels(Level)
<1>1. D \in Nat
  BY ArgsTyped DEF D
<1>2. \E f : IsLevels(f, D)
  BY <1>1, LevelsExist
<1>3. PICK f : f = (CHOOSE g : IsLevels(g, D)) /\ IsLevels(f, D)
  BY <1>2
<1>4. Reach(D) = f[D]
  BY <1>3 DEF Reach, IsLevels
<1>5. Levels(f)
  <2>1. f[0] = ToSet(Roots)
    BY <1>1, <1>3 DEF IsLevels
  <2>2. ASSUME NEW i \in 0..D - 1 PROVE f[i + 1] = Grown(f[i])
    <3>1. PICK j : j = i + 1 /\ j \in 0..D /\ j # 0 /\ j - 1 = i
      BY <1>1
    <3>2. f[j] = f[j - 1] \cup UNION {ToSet(Children[p]) : p \in f[j - 1]}
      BY <1>3, <3>1 DEF IsLevels
    <3> QED
      BY <3>1, <3>2 DEF Grown
  <2> QED
    BY <1>4, <2>1, <2>2 DEF Levels
<1> QED
  BY <1>1, <1>5 DEF Level

\* No level loses an object of the one before it, nor does any after that.
LEMMA LevelsGrow ==
    ASSUME args \in Calls, NEW k \in 0..D
    PROVE  Level[k] \subseteq Level[D]
<1>1. D \in Nat /\ \A i \in 0..D - 1 : Level[i] \subseteq Level[i + 1]
  BY LevelsOfWalk DEF Levels, Grown
<1> DEFINE Bad == {m \in Nat : m <= D /\ k <= m /\ ~(Level[k] \subseteq Level[m])}
<1> SUFFICES ASSUME D \in Bad PROVE FALSE
  BY <1>1
<1>2. PICK m \in Bad : \A l \in Bad : m <= l
  <2> HIDE DEF Bad
  <2>1. Bad \subseteq Nat
    BY DEF Bad
  <2> QED
    BY <2>1, Least
<1>3. m # k /\ m - 1 \in 0..D - 1 /\ k <= m - 1
  BY <1>1, <1>2
<1>4. Level[k] \subseteq Level[m - 1]
  BY <1>1, <1>2, <1>3
<1> QED
  BY <1>1, <1>2, <1>3, <1>4

\* What holds a level and all its objects list holds the last level.
LEMMA ClosedHoldsAll ==
    ASSUME args \in Calls, NEW k \in 0..D, NEW v, Level[k] \subseteq v,
           \A p \in v : ToSet(Children[p]) \subseteq v
    PROVE  Level[D] \subseteq v
<1>1. D \in Nat /\ \A i \in 0..D - 1 : Level[i + 1] = Grown(Level[i])
  BY LevelsOfWalk DEF Levels
<1>2. \A i \in 0..D - 1 : Level[i] \subseteq v => Level[i + 1] \subseteq v
  BY <1>1 DEF Grown
<1> DEFINE Bad == {m \in Nat : m <= D /\ k <= m /\ ~(Level[m] \subseteq v)}
<1> SUFFICES ASSUME D \in Bad PROVE FALSE
  BY <1>1
<1>3. PICK m \in Bad : \A l \in Bad : m <= l
  <2> HIDE DEF Bad
  <2>1. Bad \subseteq Nat
    BY DEF Bad
  <2> QED
    BY <2>1, Least
<1>4. m # k /\ m - 1 \in 0..D - 1 /\ k <= m - 1
  BY <1>1, <1>3
<1>5. Level[m - 1] \subseteq v
  BY <1>1, <1>3, <1>4
<1> QED
  BY <1>1, <1>2, <1>3, <1>4, <1>5

\* A listing that comes is what the object lists, without itself.
LEMMA OwnListing ==
    ASSUME NEW p \in Objects
    PROVE  FirstOf(None, p, p) = ToSet(Children[p]) \ {p}
<1>1. Children[p] \in Seq(Objects)
  BY SurveyAssumption
<1>2. ToSet(Lines(p)) = {p} \cup ToSet(Children[p])
  <2>1. Lines(p) \in Seq(Objects) /\ Len(Lines(p)) = 1 + Len(Children[p])
    BY <1>1 DEF Lines
  <2>2. Lines(p)[1] = p /\ \A i \in 1..Len(Children[p]) : Lines(p)[i + 1] = Children[p][i]
    BY <1>1 DEF Lines
  <2>3. ASSUME NEW i \in 1..Len(Lines(p)), i # 1
        PROVE  Lines(p)[i] \in ToSet(Children[p])
    <3>1. PICK j \in 1..Len(Children[p]) : j + 1 = i
      BY <1>1, <2>1, <2>3
    <3>2. Lines(p)[i] = Children[p][j]
      BY <2>2, <3>1
    <3>3. j \in DOMAIN Children[p]
      BY <1>1, <3>1
    <3> QED
      BY <3>2, <3>3 DEF ToSet
  <2>4. ASSUME NEW i \in 1..Len(Children[p])
        PROVE  Children[p][i] \in ToSet(Lines(p))
    <3>1. i + 1 \in 1..Len(Lines(p))
      BY <1>1, <2>1
    <3> QED
      BY <2>1, <2>2, <3>1 DEF ToSet
  <2>5. 1 \in 1..Len(Lines(p))
    BY <1>1, <2>1
  <2>6. \A x \in ToSet(Lines(p)) : \E i \in 1..Len(Lines(p)) : x = Lines(p)[i]
    BY <2>1 DEF ToSet
  <2>7. \A x \in ToSet(Children[p]) : \E i \in 1..Len(Children[p]) : x = Children[p][i]
    BY <1>1 DEF ToSet
  <2>8. p \in ToSet(Lines(p))
    BY <2>1, <2>2, <2>5 DEF ToSet
  <2> QED
    BY <2>2, <2>3, <2>4, <2>6, <2>7, <2>8
<1> QED
  BY <1>2 DEF FirstOf, Listing

(***************************************************************************)
(* The turns of the walk, as they are seen from the level being walked.    *)
(***************************************************************************)
\* The roots are level 0.
LEMMA RootsQueued ==
    ASSUME args \in Calls, NEW s \in Seq(Objects), ToSet(s) = ToSet(Roots)
    PROVE  OnLevel(0, AtDepth(s, 0), {}, {})
<1> DEFINE q == AtDepth(s, 0)
<1>1. D \in Nat /\ Level[0] = ToSet(s)
  BY LevelsOfWalk DEF Levels
<1>2. q \in Seq(Steps)
  BY <1>1, AtDepthTyped DEF D
<1>3. DOMAIN q = DOMAIN s /\ \A i \in DOMAIN s : q[i] = <<s[i], 0>>
  BY DEF AtDepth
<1>4. \A p \in Level[0] : \E i \in DOMAIN s : s[i] = p
  BY <1>1 DEF ToSet
<1>5. \A i \in DOMAIN s : s[i] \in Level[0]
  BY <1>1 DEF ToSet
<1> HIDE DEF q
<1>6. ASSUME NEW i \in DOMAIN q
      PROVE  /\ q[i][2] \in {0, 0 + 1}
             /\ q[i][1] \in Level[q[i][2]]
             /\ \A j \in 1..i - 1 : q[j][2] <= q[i][2]
  <2>1. \A j \in 1..i - 1 : j \in DOMAIN s
    BY <1>3
  <2> QED
    BY <1>3, <1>5, <2>1
<1>7. \A p \in Level[0] : \E i \in DOMAIN q : q[i] = <<p, 0>>
  BY <1>3, <1>4
<1>8. OnLevel(0, q, {}, {})
  BY <1>1, <1>2, <1>6, <1>7 DEF OnLevel
<1> QED
  BY <1>8 DEF q

\* What an entry of the tail of a queue is in the queue.
LEMMA TailEntries ==
    ASSUME NEW S, NEW q \in Seq(S), q # <<>>
    PROVE  /\ Tail(q) \in Seq(S) /\ Head(q) = q[1] /\ 1 \in DOMAIN q
           /\ \A i \in DOMAIN Tail(q) : i + 1 \in DOMAIN q /\ Tail(q)[i] = q[i + 1]
           /\ \A i \in DOMAIN q : i # 1 => i - 1 \in DOMAIN Tail(q) /\ q[i] = Tail(q)[i - 1]
OBVIOUS

\* An object that has been visited may go from the head of the queue.
LEMMA SkippedStays ==
    ASSUME NEW k, NEW q, NEW v, NEW d, OnLevel(k, q, v, d), q # <<>>,
           Head(q)[1] \in v
    PROVE  OnLevel(k, Tail(q), v, d)
<1> DEFINE r == Tail(q)
<1>1. q \in Seq(Steps)
  BY DEF OnLevel
<1>2. /\ r \in Seq(Steps) /\ Head(q) = q[1] /\ 1 \in DOMAIN q
      /\ \A i \in DOMAIN r : i + 1 \in DOMAIN q /\ r[i] = q[i + 1]
      /\ \A i \in DOMAIN q : i # 1 => i - 1 \in DOMAIN r /\ q[i] = r[i - 1]
  BY <1>1, TailEntries
<1>3. DOMAIN q = 1..Len(q) /\ DOMAIN r = 1..Len(r)
  BY <1>1, <1>2
<1> HIDE DEF r
<1>4. ASSUME NEW i \in DOMAIN r
      PROVE  /\ r[i][2] \in {k, k + 1}
             /\ r[i][1] \in Level[r[i][2]]
             /\ \A j \in 1..i - 1 : r[j][2] <= r[i][2]
  <2>1. PICK n \in DOMAIN q : n = i + 1 /\ r[i] = q[n]
    BY <1>2
  <2>2. ASSUME NEW j \in 1..i - 1 PROVE r[j][2] <= r[i][2]
    <3>1. j \in DOMAIN r
      BY <1>3
    <3>2. PICK m \in 1..n - 1 : m = j + 1 /\ r[j] = q[m]
      BY <1>2, <1>3, <2>1, <3>1
    <3> QED
      BY <2>1, <3>2 DEF OnLevel
  <2> QED
    BY <2>1, <2>2 DEF OnLevel
<1>5. ASSUME NEW p, p \notin v, NEW i \in DOMAIN q, q[i][1] = p
      PROVE  \E n \in DOMAIN r : r[n] = q[i]
  BY <1>2, <1>5
<1>6. \A p \in Level[k] : p \in v \/ \E i \in DOMAIN r : r[i] = <<p, k>>
  BY <1>5 DEF OnLevel
<1>7. k < D => \A p \in d : \A c \in ToSet(Children[p]) :
                  c \in v \/ \E i \in DOMAIN r : r[i][1] = c
  BY <1>5 DEF OnLevel
<1>8. OnLevel(k, r, v, d)
  BY <1>2, <1>4, <1>6, <1>7 DEF OnLevel
<1> QED
  BY <1>8 DEF r


\* The object at the head is visited, and if it is of the next level there is
\* nothing left of this one.
LEMMA PoppedGoesOn ==
    ASSUME args \in Calls, NEW k, NEW q, NEW v, OnLevel(k, q, v, v), q # <<>>,
           Head(q)[1] \notin v
    PROVE  OnLevel(Head(q)[2], Tail(q), v \cup {Head(q)[1]}, v)
<1> DEFINE h == q[1]
           w == v \cup {h[1]}
<1>1. q \in Seq(Steps) /\ D \in Nat
  BY LevelsOfWalk DEF OnLevel
<1>2. Head(q) = h /\ 1 \in DOMAIN q /\ DOMAIN q = 1..Len(q)
  BY <1>1, TailEntries
<1>3. /\ h \in Steps /\ h = <<h[1], h[2]>> /\ h[2] \in 0..D
      /\ h[2] \in {k, k + 1} /\ h[1] \in Level[h[2]] /\ k \in 0..D
  BY <1>1, <1>2 DEF Steps, D, OnLevel
<1>4. ASSUME OnLevel(h[2], q, w, v)
      PROVE  OnLevel(Head(q)[2], Tail(q), w, v)
  BY <1>2, <1>4, SkippedStays
<1>5. CASE h[2] = k
  <2>1. OnLevel(h[2], q, w, v)
    BY <1>3, <1>5 DEF OnLevel
  <2> QED
    BY <1>2, <1>4, <2>1
<1>6. CASE h[2] = k + 1
  <2>1. ASSUME NEW i \in DOMAIN q
        PROVE  q[i][2] = k + 1 /\ q[i] = <<q[i][1], k + 1>>
    <3>1. q[i][2] \in {k, k + 1} /\ \A j \in 1..i - 1 : q[j][2] <= q[i][2]
      BY DEF OnLevel
    <3>2. i = 1 \/ 1 \in 1..i - 1
      BY <1>2
    <3>3. q[i][2] = k + 1
      BY <1>3, <1>6, <3>1, <3>2
    <3>4. q[i] \in Steps
      BY <1>1
    <3> QED
      BY <3>3, <3>4 DEF Steps
  <2>2. k < D /\ k + 1 \in 0..D
    BY <1>1, <1>3, <1>6
  <2>3. Level[k + 1] = Grown(Level[k])
    BY <1>1, <1>3, <2>2, LevelsOfWalk DEF Levels
  <2>4. Level[k] \subseteq v /\ v \subseteq Level[k]
    <3>1. \A i \in DOMAIN q : \A p : q[i] # <<p, k>>
      BY <1>3, <2>1
    <3> QED
      BY <3>1 DEF OnLevel
  <2>5. \A p \in v : \A c \in ToSet(Children[p]) :
           c \in v \/ \E i \in DOMAIN q : q[i] = <<c, k + 1>>
    BY <2>1, <2>2 DEF OnLevel
  <2>6. \A p \in Level[k + 1] : p \in w \/ \E i \in DOMAIN q : q[i] = <<p, k + 1>>
    BY <2>3, <2>4, <2>5 DEF Grown
  <2>7. \A p \in v : \A c \in ToSet(Children[p]) :
           c \in w \/ \E i \in DOMAIN q : q[i][1] = c
    BY <2>2 DEF OnLevel
  <2>8. w \subseteq Level[k + 1]
    BY <1>3, <1>6, <2>3, <2>4 DEF Grown
  <2>9. \A i \in DOMAIN q : /\ q[i][2] \in {k + 1, k + 1 + 1}
                            /\ q[i][1] \in Level[q[i][2]]
                            /\ \A j \in 1..i - 1 : q[j][2] <= q[i][2]
    BY <2>1 DEF OnLevel
  <2>10. OnLevel(k + 1, q, w, v)
    BY <1>1, <2>2, <2>6, <2>7, <2>8, <2>9 DEF OnLevel
  <2> QED
    BY <1>2, <1>4, <1>6, <2>10
<1> QED
  BY <1>2, <1>3, <1>5, <1>6


\* An object of this level is listed, which makes part of the next.
LEMMA ListedGoesOn ==
    ASSUME args \in Calls, NEW k, NEW q, NEW v, NEW p \in v, k < D,
           OnLevel(k, q, v, v \ {p}), NEW s \in Seq(Objects),
           ToSet(s) = ToSet(Children[p]) \ {p}
    PROVE  OnLevel(k, q \o AtDepth(s, k + 1), v, v)
<1> DEFINE a == AtDepth(s, k + 1)
           r == q \o a
<1>1. q \in Seq(Steps) /\ D \in Nat /\ k \in 0..D /\ k + 1 \in 0..D
  BY LevelsOfWalk DEF OnLevel
<1>2. a \in Seq(Steps)
  BY <1>1, AtDepthTyped DEF D
<1>3. DOMAIN a = DOMAIN s /\ \A i \in DOMAIN s : a[i] = <<s[i], k + 1>>
  BY DEF AtDepth
<1>4. Level[k + 1] = Grown(Level[k]) /\ p \in Level[k]
  BY <1>1, LevelsOfWalk DEF Levels, OnLevel
<1>5. \A i \in DOMAIN s : s[i] \in ToSet(Children[p])
  BY DEF ToSet
<1>6. \A i \in DOMAIN a : a[i][2] = k + 1 /\ a[i][1] \in Level[k + 1]
  BY <1>3, <1>4, <1>5 DEF Grown
<1> HIDE DEF a
<1>7. /\ r \in Seq(Steps) /\ DOMAIN r = 1..Len(q) + Len(a) /\ DOMAIN q = 1..Len(q)
      /\ DOMAIN a = 1..Len(a) /\ Len(q) \in Nat /\ Len(a) \in Nat
      /\ \A i \in DOMAIN q : i \in DOMAIN r /\ r[i] = q[i]
      /\ \A i \in DOMAIN a : i + Len(q) \in DOMAIN r /\ r[i + Len(q)] = a[i]
  BY <1>1, <1>2
<1> HIDE DEF r
<1>8. ASSUME NEW i \in DOMAIN r
      PROVE  i \in DOMAIN q \/ \E n \in DOMAIN a : i = n + Len(q) /\ r[i] = a[n]
  <2>1. CASE i > Len(q)
    <3>1. PICK n \in DOMAIN a : n + Len(q) = i
      <4>1. i - Len(q) \in 1..Len(a) /\ i - Len(q) + Len(q) = i
        BY <1>7, <2>1
      <4> QED
        BY <1>7, <4>1
    <3> QED
      BY <1>7, <3>1
  <2> QED
    BY <1>7, <2>1
<1>9. ASSUME NEW i \in DOMAIN r
      PROVE  /\ r[i][2] \in {k, k + 1}
             /\ r[i][1] \in Level[r[i][2]]
  BY <1>6, <1>7, <1>8 DEF OnLevel
<1>10. ASSUME NEW i \in DOMAIN r, NEW j \in 1..i - 1
       PROVE  r[j][2] <= r[i][2]
  <2>1. j \in DOMAIN r /\ r[j][2] \in {k, k + 1}
    <3>1. j \in DOMAIN r
      BY <1>7
    <3> QED
      BY <1>9, <3>1
  <2>2. CASE i \in DOMAIN q
    <3>1. j \in DOMAIN q
      BY <1>7, <2>2
    <3> QED
      BY <1>7, <2>2, <3>1 DEF OnLevel
  <2>3. CASE i \notin DOMAIN q
    <3>1. r[i][2] = k + 1
      BY <1>6, <1>8, <2>3
    <3> QED
      BY <1>1, <2>1, <3>1
  <2> QED
    BY <2>2, <2>3
<1>11. \A x \in Level[k] : x \in v \/ \E i \in DOMAIN r : r[i] = <<x, k>>
  BY <1>7 DEF OnLevel
<1>12. ASSUME NEW x \in v, NEW c \in ToSet(Children[x])
       PROVE  c \in v \/ \E i \in DOMAIN r : r[i][1] = c
  <2>1. CASE x # p
    BY <1>7, <2>1 DEF OnLevel
  <2>2. CASE x = p /\ c # p
    <3>1. PICK n \in DOMAIN s : s[n] = c
      BY <2>2 DEF ToSet
    <3> QED
      BY <1>3, <1>7, <3>1
  <2> QED
    BY <2>1, <2>2
<1>13. OnLevel(k, r, v, v)
  BY <1>1, <1>7, <1>9, <1>10, <1>11, <1>12 DEF OnLevel
<1> QED
  BY <1>13 DEF r, a


\* When the queue is empty, all within reach has been visited.
LEMMA EmptyIsDone ==
    ASSUME args \in Calls, NEW k, NEW v, OnLevel(k, <<>>, v, v)
    PROVE  v = Reach(D)
<1>1. /\ k \in 0..D /\ D \in Nat /\ Reach(D) = Level[D]
      /\ DOMAIN <<>> = {}
  BY LevelsOfWalk DEF OnLevel, Levels
<1>2. Level[k] = v
  BY <1>1 DEF OnLevel
<1>3. CASE k = D
  BY <1>1, <1>2, <1>3
<1>4. CASE k < D
  <2>1. \A p \in v : ToSet(Children[p]) \subseteq v
    BY <1>1, <1>4 DEF OnLevel
  <2>2. Level[D] \subseteq v
    BY <1>1, <1>2, <2>1, ClosedHoldsAll
  <2>3. v \subseteq Level[D]
    BY <1>1, <1>2, LevelsGrow
  <2> QED
    BY <1>1, <2>2, <2>3
<1> QED
  BY <1>1, <1>3, <1>4


(***************************************************************************)
(* The invariant of the walk as long as every reply is the right one and   *)
(* no listing is cut.                                                      *)
(***************************************************************************)
\* The object in hand is visited but not yet listed.
OnSomeLevel ==
    /\ phase = "discover" => args.roots = None /\ visited = {}
    /\ phase = "walk" => \E k : OnLevel(k, queue, visited, visited)
    /\ phase \in {"describe", "children"} =>
          OnLevel(current[2], queue, visited, visited \ {current[1]})
    /\ phase = "done" /\ ~OverBudget => visited = Reach(D)

Walked == Clean /\ args.max_children = None => OnSomeLevel

\* The levels are those of the call, so no step changes them.
LEMMA LevelsKept ==
    ASSUME args' = args
    PROVE  D' = D /\ Level' = Level /\ Steps' = Steps /\ Reach(D)' = Reach(D)
<1>1. D' = D /\ Roots' = Roots /\ Steps' = Steps
  BY DEF D, Roots, Steps
<1>2. Reach(D)' = Reach(D)
  BY <1>1 DEF Reach
<1>3. \A L : Levels(L)' <=> Levels(L)
  BY <1>1, <1>2 DEF Levels, Grown
<1>4. Level' = Level
  BY <1>3 DEF Level
<1> QED
  BY <1>1, <1>2, <1>4

\* Before the first object is taken, level 0 is in the queue or to be asked for.
LEMMA StartWalked == Init => Walked
<1> SUFFICES ASSUME Init PROVE OnSomeLevel
  BY DEF Walked
<1>1. CASE args.roots = None
  BY <1>1 DEF Init, OnSomeLevel
<1>2. CASE args.roots # None
  <2>1. args \in Calls /\ args.roots \in Seq(Objects)
    BY <1>2, ArgsTyped DEF Init
  <2>2. OnLevel(0, AtDepth(args.roots, 0), {}, {})
    BY <1>2, <2>1, RootsQueued DEF Roots
  <2> QED
    BY <1>2, <2>2 DEF Init, OnSomeLevel
<1> QED
  BY <1>1, <1>2

\* One step for every action of the walk.
LEMMA StepWalked == Typed /\ Walked /\ [Next]_vars => Walked'
<1> SUFFICES ASSUME Typed, Walked, Next, Clean', args'.max_children = None
             PROVE  OnSomeLevel'
  <2>1. CASE UNCHANGED vars
    <3>1. args' = args
      BY <2>1 DEF vars
    <3>2. D' = D /\ Level' = Level /\ Steps' = Steps /\ Reach(D)' = Reach(D)
      BY <3>1, LevelsKept
    <3>3. \A k : OnLevel(k, queue, visited, visited)' <=> OnLevel(k, queue, visited, visited)
      BY <2>1, <3>2 DEF vars, OnLevel
    <3>4. OnLevel(current[2], queue, visited, visited \ {current[1]})'
             <=> OnLevel(current[2], queue, visited, visited \ {current[1]})
      BY <2>1, <3>2 DEF vars, OnLevel
    <3>5. OnSomeLevel' <=> OnSomeLevel
      BY <2>1, <3>2, <3>3, <3>4 DEF vars, OnSomeLevel, OverBudget
    <3> QED
      BY <2>1, <3>5 DEF vars, Walked, Clean
  <2> QED
    BY <2>1 DEF Walked
<1>1. args' = args /\ args \in Calls
  BY DEF Typed, Next, discover_roots, Skip, Pop, KnownType, _describe, Descend,
         StayAtDepth, Finish, Break
<1>2. D' = D /\ Level' = Level /\ Steps' = Steps /\ Reach(D)' = Reach(D)
  BY <1>1, LevelsKept
<1>3. \A r, own, none, strays : Reply(r, own, none, strays) => Clean /\ r = own
  BY DEF Reply, Clean, Typed
<1>4. Clean
  <2>1. \/ UNCHANGED <<lost, stray>>
        \/ \E r, own, none, strays : Reply(r, own, none, strays)
    BY DEF Next, discover_roots, Skip, Pop, KnownType, _describe, Descend,
           StayAtDepth, Finish, Break
  <2> QED
    BY <1>3, <2>1 DEF Clean
<1>5. OnSomeLevel
  BY <1>1, <1>4 DEF Walked
<1>6. ASSUME NEW k, NEW q, NEW v, OnLevel(k, q, v, v),
             phase' = "walk", queue' = q, visited' = v
      PROVE  OnSomeLevel'
  <2>1. OnLevel(k, queue, visited, visited)'
    BY <1>2, <1>6 DEF OnLevel
  <2> QED
    BY <1>6, <2>1 DEF OnSomeLevel
<1>7. CASE discover_roots
  <2>1. queue' = AtDepth(IF ToSet(Root) = {} THEN FALLBACK_ROOTS
                         ELSE Sorted(ToSet(Root)), 0)
    BY <1>3, <1>7 DEF discover_roots
  <2>2. args.roots = None /\ visited' = {} /\ phase' = "walk"
    BY <1>5, <1>7 DEF discover_roots, OnSomeLevel
  <2>3. PICK s \in Seq(Objects) : ToSet(s) = ToSet(Roots) /\ queue' = AtDepth(s, 0)
    <3>1. ToSet(Root) \in SUBSET Objects /\ Root \in Seq(Objects)
      BY ListingTyped, SurveyAssumption
    <3>2. ToSet(Root) = {} <=> Root = <<>>
      BY <3>1 DEF ToSet
    <3>3. CASE Root = <<>>
      BY <2>1, <2>2, <3>2, <3>3, SurveyAssumption DEF Roots
    <3>4. CASE Root # <<>>
      <4>1. /\ Sorted(ToSet(Root)) \in Seq(Objects)
            /\ ToSet(Sorted(ToSet(Root))) = ToSet(Root)
        BY <3>1, SortedTyped
      <4> QED
        BY <2>1, <2>2, <3>2, <3>4, <4>1 DEF Roots
    <3> QED
      BY <3>3, <3>4
  <2>4. OnLevel(0, AtDepth(s, 0), {}, {})
    BY <1>1, <2>3, RootsQueued
  <2> QED
    BY <1>6, <2>2, <2>3, <2>4
<1>8. CASE Skip
  <2>1. PICK k : OnLevel(k, queue, visited, visited)
    BY <1>5, <1>8 DEF Skip, OnSomeLevel
  <2>2. OnLevel(k, Tail(queue), visited, visited)
    BY <1>8, <2>1, SkippedStays DEF Skip
  <2> QED
    BY <1>6, <1>8, <2>2 DEF Skip
<1>9. CASE Pop
  <2> DEFINE h == Head(queue)
  <2>1. PICK k : OnLevel(k, queue, visited, visited)
    BY <1>5, <1>9 DEF Pop, OnSomeLevel
  <2>2. OnLevel(h[2], Tail(queue), visited \cup {h[1]}, visited)
    BY <1>1, <1>9, <2>1, PoppedGoesOn DEF Pop
  <2>3. /\ current' = h /\ queue' = Tail(queue) /\ visited' = visited \cup {h[1]}
        /\ phase' = "describe" /\ visited = visited' \ {h[1]}
    BY <1>9 DEF Pop
  <2> HIDE DEF h
  <2>4. OnLevel(current[2], queue, visited, visited \ {current[1]})'
    BY <1>2, <2>2, <2>3 DEF OnLevel
  <2> QED
    BY <2>3, <2>4 DEF OnSomeLevel
<1>10. CASE KnownType \/ _describe
  <2>1. /\ phase = "describe" /\ phase' = "children"
        /\ UNCHANGED <<queue, visited, current>>
    BY <1>10 DEF KnownType, _describe
  <2>2. OnLevel(current[2], queue, visited, visited \ {current[1]})'
    BY <1>2, <1>5, <2>1 DEF OnSomeLevel, OnLevel
  <2> QED
    BY <2>1, <2>2 DEF OnSomeLevel
<1>11. CASE Descend
  <2> DEFINE p == current[1]
             k == current[2]
             s == Sorted(ToSet(Children[p]) \ {p})
  <2>1. p \in visited /\ p \in Objects /\ k < D /\ OnLevel(k, queue, visited, visited \ {p})
    BY <1>5, <1>11 DEF Descend, OnSomeLevel, Typed, Steps, D
  <2>2. FirstOf(args.max_children, p, p) = ToSet(Children[p]) \ {p}
    BY <1>1, <2>1, OwnListing
  <2>3. queue' = queue \o AtDepth(s, k + 1)
    <3>1. PICK children : /\ Reply(children, FirstOf(args.max_children, p, p), {},
                                   Strays(args.max_children, p))
                          /\ queue' = queue \o AtDepth(Sorted(children), k + 1)
      BY <1>11 DEF Descend
    <3>2. children = FirstOf(args.max_children, p, p)
      BY <1>3, <3>1
    <3> QED
      BY <2>2, <3>1, <3>2
  <2>4. s \in Seq(Objects) /\ ToSet(s) = ToSet(Children[p]) \ {p}
    <3>1. ToSet(Children[p]) \ {p} \in SUBSET Objects
      BY <1>1, <2>1, <2>2, ListingTyped
    <3> QED
      BY <3>1, SortedTyped
  <2> HIDE DEF p, k, s
  <2>5. OnLevel(k, queue \o AtDepth(s, k + 1), visited, visited)
    BY <1>1, <2>1, <2>4, ListedGoesOn
  <2> QED
    BY <1>6, <1>11, <2>3, <2>5 DEF Descend
<1>12. CASE StayAtDepth
  <2>1. OnLevel(current[2], queue, visited, visited)
    BY <1>5, <1>12, ArgsTyped DEF StayAtDepth, OnSomeLevel, OnLevel, D, Typed, Steps
  <2> QED
    BY <1>6, <1>12, <2>1 DEF StayAtDepth
<1>13. CASE Finish
  <2>1. PICK k : OnLevel(k, queue, visited, visited)
    BY <1>5, <1>13 DEF Finish, OnSomeLevel
  <2>2. ASSUME ~OverBudget' PROVE visited' = Reach(D)
    <3>1. queue = <<>> /\ visited' = visited
      BY <1>1, <1>13, <2>2 DEF Finish, OverBudget
    <3>2. OnLevel(k, <<>>, visited, visited)
      BY <2>1, <3>1
    <3> QED
      BY <1>1, <3>1, <3>2, EmptyIsDone
  <2> QED
    BY <1>2, <1>13, <2>2 DEF Finish, OnSomeLevel
<1>14. CASE Break
  BY <1>14 DEF Break, OnSomeLevel
<1> QED
  BY <1>7, <1>8, <1>9, <1>10, <1>11, <1>12, <1>13, <1>14 DEF Next

(***************************************************************************)
(* The theorems.                                                           *)
(***************************************************************************)

\* Every variable of the survey stays in its set, and no type is counted more
\* often than there are objects.
THEOREM SurveyTyping == Spec => []TypeOK
<1>1. SInv => TypeOK
  <2> SUFFICES ASSUME SInv PROVE TypeOK
    OBVIOUS
  <2>1. Typed /\ Counted /\ Spent /\ Faithful
    BY DEF SInv
  <2>2. \A i \in DOMAIN queue : queue[i] \in Objects \X (0..args.max_depth)
    BY <2>1 DEF Typed, Steps
  <2>3. ASSUME NEW t \in Types PROVE seen_types[t] \in 0..Cardinality(Objects)
    BY <2>1, MetFinite, SurveyAssumption, FS_CardinalityType DEF Typed, Counted
  <2>4. seen_types \in [Types -> 0..Cardinality(Objects)]
    BY <2>1, <2>3 DEF Typed
  <2>5. \A t \in Types : snapshot[t] # None => snapshot[t].sampled_instance \in visited
    BY <2>1 DEF Faithful, Met
  <2> QED
    BY <2>1, <2>2, <2>4, <2>5 DEF TypeOK, Typed, Spent, Steps
<1> QED
  BY <1>1, SurveyInvariant, PTL

\* survey() sends at most three commands more than max_commands, whatever the
\* tree and whatever comes back.
THEOREM Budget == Spec => []WithinBudget
<1>1. SInv => WithinBudget
  BY ArgsTyped DEF SInv, Typed, Spent, WithinBudget
<1> QED
  BY <1>1, SurveyInvariant, PTL

\* survey() counts the instances it has met, and makes the entry of a type from
\* one of them, if it samples any at all.
THEOREM CountsSound == Samples => (Spec => []CountsInstances)
<1> SUFFICES ASSUME Samples PROVE Spec => []CountsInstances
  OBVIOUS
<1>1. SInv => CountsInstances
  <2> SUFFICES ASSUME SInv, phase = "done", NEW t \in Types
               PROVE  IF Met(t) = {} THEN snapshot[t] = None
                      ELSE /\ snapshot[t].sampled_instance \in Met(t)
                           /\ snapshot[t].instances_seen = Cardinality(Met(t))
    BY DEF CountsInstances, Met
  <2>1. seen_types[t] = Cardinality(Met(t)) /\ seen_types[t] \in Nat
    BY DEF SInv, Typed, Counted, Counting
  <2>2. CASE Met(t) = {}
    BY <2>2 DEF SInv, Faithful
  <2>3. CASE Met(t) # {}
    <3>1. Cardinality(Met(t)) # 0
      BY <2>3, MetFinite, FS_EmptySet DEF SInv
    <3>2. snapshot[t] # None
      BY <2>1, <3>1 DEF SInv, Entered
    <3> QED
      BY <2>1, <2>3, <3>2 DEF SInv, Counted, Faithful
  <2> QED
    BY <2>2, <2>3
<1> QED
  BY <1>1, SurveyInvariant, PTL

\* Every write-only property of every object met is in what survey() returns,
\* and nothing else is, if no reply went astray and types are sampled at all.
THEOREM WriteOnlySound == Samples => (Spec => []WriteOnlyReported)
<1> SUFFICES ASSUME Samples PROVE Spec => []WriteOnlyReported
  OBVIOUS
<1>1. SInv => WriteOnlyReported
  <2> DEFINE WO(p) == {q \in DOMAIN Schema[p] : Schema[p][q] = "WO"}
  <2> SUFFICES ASSUME SInv, phase = "done", Clean
               PROVE  unverifiable_properties = UNION {{type_of(p)} \X WO(p) : p \in visited}
    BY DEF WriteOnlyReported
  <2>1. Typed /\ Counted /\ Faithful /\ Entered
    BY DEF SInv
  <2>2. \A p \in Objects : summarise_access(Schema[p])["WO"] = WO(p)
    BY DEF summarise_access
  <2>3. ASSUME NEW p \in Objects, NEW q \in Objects, type_of(p) = type_of(q)
        PROVE  WO(p) = WO(q)
    BY <2>3, SchemaIsPerType
  <2> HIDE DEF WO
  <2>4. ASSUME NEW p \in Objects, type_of(p) \in Sampled
        PROVE  snapshot[type_of(p)].access["WO"] = WO(p)
    <3> DEFINE s == snapshot[type_of(p)].sampled_instance
    <3>1. s \in Met(type_of(p)) /\ snapshot[type_of(p)].access = summarise_access(Schema[s])
      BY <2>1, <2>4 DEF Faithful, Sampled
    <3>2. s \in Objects /\ type_of(s) = type_of(p)
      BY <2>1, <3>1 DEF Met, Typed
    <3> HIDE DEF s
    <3> QED
      BY <2>2, <2>3, <3>1, <3>2
  <2>5. ASSUME NEW p \in visited PROVE type_of(p) \in Sampled
    <3>1. type_of(p) \in Types /\ p \in Met(type_of(p))
      BY <2>1, MetFinite DEF Met, Typed
    <3>2. Cardinality(Met(type_of(p))) # 0
      BY <2>1, <3>1, MetFinite, FS_EmptySet
    <3>3. /\ seen_types[type_of(p)] = Cardinality(Met(type_of(p)))
          /\ seen_types[type_of(p)] \in Nat
      BY <2>1, <3>1 DEF Typed, Counted, Counting
    <3> QED
      BY <2>1, <3>1, <3>2, <3>3 DEF Entered, Sampled
  <2>6. ASSUME NEW t \in Sampled PROVE \E p \in visited : type_of(p) = t
    BY <2>1 DEF Faithful, Sampled, Met
  <2>7. visited \subseteq Objects
    BY <2>1 DEF Typed
  <2>8. \A x \in unverifiable_properties : x \in UNION {{type_of(p)} \X WO(p) : p \in visited}
    BY <2>4, <2>6, <2>7 DEF unverifiable_properties
  <2>9. \A x \in UNION {{type_of(p)} \X WO(p) : p \in visited} : x \in unverifiable_properties
    BY <2>4, <2>5, <2>7 DEF unverifiable_properties
  <2> QED
    BY <2>8, <2>9
<1> QED
  BY <1>1, SurveyInvariant, PTL

\* A walk that is answered and neither cut short nor out of budget has visited
\* exactly what is no more than max_depth listings away from its roots.
THEOREM Completeness == Spec => []Complete
<1>1. SInv => Typed
  BY DEF SInv
<1>2. Walked => Complete
  BY DEF Walked, OnSomeLevel, Complete, D
<1> QED
  BY <1>1, <1>2, StartWalked, StepWalked, SurveyInvariant, PTL DEF Spec

===============================================================================
