--------------------------- MODULE ReadActualProofs ---------------------------
(***************************************************************************)
(* ReadActual for every writer a device may hold: the read as one step,    *)
(* which DevicePlan is built on, covers the read command by command.       *)
(***************************************************************************)
EXTENDS ReadActual, LogWritersProofs

\* The subscriptions the object has.
Live(o) == {t \in Typeids : o.subs[t] # None}

\* A read child by child, with `left' still to read and the others answered or,
\* outside `answered', not.
Partly(o, left, answered, setting) ==
    [exists |-> TRUE,
     obj |-> [o EXCEPT
                !.setting = setting,
                !.subs = [t \in Typeids |->
                            IF t \in left THEN None
                            ELSE IF t \in Live(o) \ answered THEN BlankSub
                            ELSE o.subs[t]]]]

\* A read with one child of its object replaced.
Put(r, t, new) == [r EXCEPT !.obj.subs[t] = new]

\* The children have been listed, and those not left were read.
ChildByChild(left) ==
    \E answered \in SUBSET Typeids :
       /\ left \subseteq answered \cap Live(object)
       /\ found = Partly(object, left, answered, None)
       /\ lost >= 1 + Cardinality(Live(object) \ answered)

\* What a finished read has come to, and at what price.
Covered ==
    \E x \in read_actual(object) :
       x.read = found /\ (KnowsMaxDepth => x.lost <= lost)

\* Where the read is, what it has found by then, and how many of its commands
\* must have gone unanswered for it to be there.
RInv ==
    /\ TypeOK
    /\ pc \in {"tree", "get_self", "get"} => found = AbsentRead
    /\ pc = "get_self" /\ object # None /\ ~deep => lost >= 1
    /\ pc = "get" /\ object # None => lost >= 1
    /\ pc \in {"children", "get_child", "get_settings"} => object # None
    /\ pc = "children" => found = Own(object) /\ lost >= 1
    /\ pc = "get_child" => ChildByChild(unread)
    /\ pc = "get_settings" =>
          \/ ChildByChild({})
          \/ found = Own(object) /\ lost >= 2
    /\ pc = "done" => Covered

\* An object is what its fields say.
LEMMA StoredTyped == object \in Stored => object \in MaybeObject
  BY StoredAssumption DEF MaybeObject

\* The reads of parts of an object are reads.
LEMMA PartsTyped ==
    ASSUME NEW o \in Objects, NEW left, NEW answered,
           NEW setting \in {o.setting, None}
    PROVE  Partly(o, left, answered, setting) \in Reads /\ Own(o) \in Reads
<1> USE TypesAssumption, NoneAssumption
<1>1. NoSubs \in [Typeids -> Subscriptions \cup {None}]
  BY DEF NoSubs
<1>2. BlankSub \in Subscriptions
  BY DEF BlankSub, Subscriptions
<1> DEFINE subs == [t \in Typeids |->
                      IF t \in left THEN None
                      ELSE IF t \in Live(o) \ answered THEN BlankSub
                      ELSE o.subs[t]]
<1>3. subs \in [Typeids -> Subscriptions \cup {None}]
  <2>1. \A t \in Typeids : o.subs[t] \in Subscriptions \cup {None}
    BY DEF Objects
  <2> QED
    BY <1>2, <2>1
<1>4. setting \in Values \cup {None}
  BY DEF Objects
<1> HIDE DEF subs
<1>5. [o EXCEPT !.setting = setting, !.subs = subs] \in Objects
  BY <1>3, <1>4 DEF Objects
<1>6. [o EXCEPT !.setting = None, !.subs = NoSubs] \in Objects
  BY <1>1 DEF Objects
<1> QED
  BY <1>5, <1>6 DEF Partly, Own, Reads, subs

\* A read that went through the children one by one is one of the outcomes the
\* read as one step allows for.
LEMMA ChildByChildCovered ==
    ASSUME NEW o \in Objects, NEW answered \in SUBSET Typeids, NEW s \in BOOLEAN
    PROVE  /\ PerChild(o, answered, s).read
                = Partly(o, {}, answered, IF s THEN o.setting ELSE None)
           /\ PerChild(o, answered, s).lost
                = 1 + Cardinality(Live(o) \ answered) + (IF s THEN 0 ELSE 1)
           /\ PerChild(o, answered, s) \in read_actual(o)
<1>1. o # None
  BY NoneAssumption
<1>2. PerChild(o, answered, s) \in read_actual(o)
  BY <1>1 DEF read_actual
<1> QED
  BY <1>2 DEF PerChild, Partly, Live, Objects

\* A read with another object in it.
LEMMA ObjectReplaced ==
    ASSUME NEW x, NEW p, NEW new
    PROVE  [[exists |-> x, obj |-> p] EXCEPT !.obj = new] = [exists |-> x, obj |-> new]
<1> DEFINE r == [exists |-> x, obj |-> p]
           q == [r EXCEPT !.obj = new]
<1>1. r \in [exists : {x}, obj : {p}]
  OBVIOUS
<1> HIDE DEF r
<1>2. q \in [exists : {x}, obj : {new}]
  BY <1>1
<1> HIDE DEF q
<1>3. q = [exists |-> x, obj |-> new]
  BY <1>2
<1> QED
  BY <1>3 DEF q, r

\* A read with another child in its object.
LEMMA ChildReplaced ==
    ASSUME NEW p, NEW new, NEW t, NEW r, r = [exists |-> TRUE, obj |-> p]
    PROVE  [r EXCEPT !.obj.subs[t] = new]
             = [exists |-> TRUE, obj |-> [p EXCEPT !.subs = [p.subs EXCEPT ![t] = new]]]
<1> DEFINE q == [p EXCEPT !.subs = [p.subs EXCEPT ![t] = new]]
<1>1. r.obj = p
  OBVIOUS
<1>2. [r EXCEPT !.obj.subs[t] = new]
        = [r EXCEPT !.obj = [r.obj EXCEPT !.subs = [r.obj.subs EXCEPT ![t] = new]]]
  OBVIOUS
<1>3. [r EXCEPT !.obj.subs[t] = new] = [r EXCEPT !.obj = q]
  BY <1>1, <1>2
<1> HIDE DEF q
<1>4. [r EXCEPT !.obj = q] = [exists |-> TRUE, obj |-> q]
  BY ObjectReplaced
<1> QED
  BY <1>3, <1>4 DEF q

\* One child is read, answered or not: there is one less to read, and in the
\* second case one more that stayed silent.
LEMMA ChildRead ==
    ASSUME NEW o \in Objects, NEW answered \in SUBSET Typeids,
           NEW left \in SUBSET (answered \cap Live(o)), NEW t \in left
    PROVE  /\ Put(Partly(o, left, answered, None), t, o.subs[t])
                = Partly(o, left \ {t}, answered, None)
           /\ Put(Partly(o, left, answered, None), t, BlankSub)
                = Partly(o, left \ {t}, answered \ {t}, None)
           /\ Cardinality(Live(o) \ (answered \ {t}))
                = Cardinality(Live(o) \ answered) + 1
<1> DEFINE Subs(l, g) == [u \in Typeids |->
                            IF u \in l THEN None
                            ELSE IF u \in Live(o) \ g THEN BlankSub
                            ELSE o.subs[u]]
<1>1. t \in Typeids /\ t \in Live(o) /\ t \in answered
  OBVIOUS
<1>2. ASSUME NEW new, NEW got,
             \/ new = o.subs[t] /\ got = answered
             \/ new = BlankSub /\ got = answered \ {t}
      PROVE  Put(Partly(o, left, answered, None), t, new)
               = Partly(o, left \ {t}, got, None)
  <2> DEFINE r == Partly(o, left, answered, None)
             shown == Subs(left, answered)
             later == [shown EXCEPT ![t] = new]
             p == [o EXCEPT !.setting = None, !.subs = shown]
  <2>1. later = Subs(left \ {t}, got)
    <3>1. ASSUME NEW u \in Typeids
          PROVE  later[u] = Subs(left \ {t}, got)[u]
      BY <1>1, <1>2
    <3> QED
      BY <3>1
  <2>2. r = [exists |-> TRUE, obj |-> p]
    BY DEF Partly
  <2>3. Partly(o, left \ {t}, got, None)
          = [exists |-> TRUE, obj |-> [o EXCEPT !.setting = None, !.subs = later]]
    BY <2>1 DEF Partly
  <2> HIDE DEF shown, r, later
  <2>4. p.subs = shown /\ [p EXCEPT !.subs = later]
                            = [o EXCEPT !.setting = None, !.subs = later]
    BY DEF Objects
  <2> HIDE DEF p
  <2>5. [r EXCEPT !.obj.subs[t] = new]
          = [exists |-> TRUE, obj |-> [p EXCEPT !.subs = [p.subs EXCEPT ![t] = new]]]
    BY <2>2, ChildReplaced
  <2>6. [r EXCEPT !.obj.subs[t] = new]
          = [exists |-> TRUE, obj |-> [o EXCEPT !.setting = None, !.subs = later]]
    BY <2>4, <2>5 DEF later
  <2> QED
    BY <2>3, <2>6 DEF r, Put
<1>3. Cardinality(Live(o) \ (answered \ {t})) = Cardinality(Live(o) \ answered) + 1
  <2>1. IsFiniteSet(Live(o) \ answered)
    BY TypesAssumption, FS_Subset DEF Live
  <2>2. Live(o) \ (answered \ {t}) = (Live(o) \ answered) \cup {t}
    BY <1>1
  <2>3. t \notin Live(o) \ answered
    BY <1>1
  <2> QED
    BY <2>1, <2>2, <2>3, FS_AddElement
<1> QED
  BY <1>2, <1>3

\* The read of a child keeps the books, and the last one leaves none to read.
LEMMA GetChildRInv ==
    ASSUME RInv, NEW t \in Typeids, NEW a \in BOOLEAN, GetChild(t, a)
    PROVE  RInv'
<1>1. /\ pc = "get_child" /\ t \in unread /\ object # None
      /\ unread' = unread \ {t}
      /\ pc' = (IF unread' = {} THEN "get_settings" ELSE "get_child")
      /\ object' = object /\ deep' = deep
      /\ \/ /\ lost' = lost
            /\ found' = Put(found, t, object.subs[t])
         \/ /\ lost' = lost + 1
            /\ found' = Put(found, t, BlankSub)
  BY DEF GetChild, RInv, Reply, Put
<1>2. object \in Objects
  BY <1>1, StoredTyped DEF RInv, TypeOK, MaybeObject
<1>3. PICK answered \in SUBSET Typeids :
         /\ unread \in SUBSET (answered \cap Live(object))
         /\ found = Partly(object, unread, answered, None)
         /\ lost >= 1 + Cardinality(Live(object) \ answered)
  BY <1>1 DEF RInv, ChildByChild
<1>4. PICK got \in SUBSET Typeids :
         /\ got \in {answered, answered \ {t}}
         /\ found' = Partly(object, unread \ {t}, got, None)
         /\ \/ lost' = lost /\ got = answered
            \/ /\ lost' = lost + 1
               /\ Cardinality(Live(object) \ got)
                    = Cardinality(Live(object) \ answered) + 1
  <2>1. t \in unread /\ unread \in SUBSET (answered \cap Live(object))
    BY <1>1, <1>3
  <2>2. /\ Put(Partly(object, unread, answered, None), t, object.subs[t])
             = Partly(object, unread \ {t}, answered, None)
        /\ Put(Partly(object, unread, answered, None), t, BlankSub)
             = Partly(object, unread \ {t}, answered \ {t}, None)
        /\ Cardinality(Live(object) \ (answered \ {t}))
             = Cardinality(Live(object) \ answered) + 1
    BY <1>2, <2>1, ChildRead
  <2>3. answered \ {t} \in SUBSET Typeids
    OBVIOUS
  <2> QED
    BY <1>1, <1>3, <2>2, <2>3
<1>5. unread \ {t} \subseteq got \cap Live(object)
  BY <1>3, <1>4
<1>6. Cardinality(Live(object) \ answered) \in Nat /\ lost \in Nat
  BY TypesAssumption, FS_Subset, FS_CardinalityType DEF Live, RInv, TypeOK
<1>7. lost' >= 1 + Cardinality(Live(object) \ got)
  BY <1>3, <1>4, <1>6
<1>8. found' \in Reads
  BY <1>2, <1>4, PartsTyped
<1>9. ChildByChild(unread)'
  BY <1>1, <1>4, <1>5, <1>7 DEF ChildByChild
<1>10. TypeOK'
  BY <1>1, <1>6, <1>8 DEF TypeOK, RInv, Commands
<1>11. CASE unread' = {}
  BY <1>1, <1>9, <1>10, <1>11 DEF RInv, ChildByChild
<1>12. CASE unread' # {}
  BY <1>1, <1>9, <1>10, <1>12 DEF RInv
<1> QED
  BY <1>11, <1>12

\* The settings come last, and with them the read is over.
LEMMA GetSettingsRInv ==
    ASSUME RInv, NEW a \in BOOLEAN, GetSettings(a)
    PROVE  RInv'
<1> DEFINE setting == IF a THEN object.setting ELSE None
<1>1. /\ pc = "get_settings" /\ object # None /\ pc' = "done"
      /\ object' = object /\ deep' = deep /\ unread' = unread
      /\ lost' = (IF a THEN lost ELSE lost + 1)
      /\ found' = [found EXCEPT !.obj.setting = setting]
  BY DEF GetSettings, RInv, Reply
<1>2. object \in Objects /\ lost \in Nat
  BY <1>1, StoredTyped DEF RInv, TypeOK, MaybeObject
<1>3. ASSUME ChildByChild({}) PROVE Covered'
  <2>1. PICK answered \in SUBSET Typeids :
           /\ found = Partly(object, {}, answered, None)
           /\ lost >= 1 + Cardinality(Live(object) \ answered)
    BY <1>3 DEF ChildByChild
  <2>2. found' = Partly(object, {}, answered, setting)
    <3> HIDE DEF setting
    <3> QED
      BY <1>1, <1>2, <2>1 DEF Partly, Objects
  <2>3. Cardinality(Live(object) \ answered) \in Nat
    BY TypesAssumption, FS_Subset, FS_CardinalityType DEF Live
  <2>4. /\ PerChild(object, answered, a).read = found'
        /\ PerChild(object, answered, a).lost <= lost'
        /\ PerChild(object, answered, a) \in read_actual(object)
    BY <1>1, <1>2, <2>1, <2>2, <2>3, ChildByChildCovered
  <2> QED
    BY <1>1, <2>4 DEF Covered
<1>4. ASSUME found = Own(object), lost >= 2 PROVE Covered'
  <2>1. ListingLost(object, a) \in read_actual(object)
    BY <1>1 DEF read_actual
  <2>2. /\ ListingLost(object, a).read = found'
        /\ ListingLost(object, a).lost <= lost'
    <3>1. ListingLost(object, a) =
            [lost |-> 2 + (IF a THEN 0 ELSE 1),
             read |-> [exists |-> TRUE,
                       obj |-> [object EXCEPT !.setting = setting, !.subs = NoSubs]]]
      BY DEF ListingLost
    <3> HIDE DEF setting
    <3>2. found' = [exists |-> TRUE,
                    obj |-> [object EXCEPT !.setting = setting, !.subs = NoSubs]]
      BY <1>1, <1>2, <1>4 DEF Own, Objects
    <3>3. ListingLost(object, a).read = found'
      BY <3>1, <3>2
    <3>4. ListingLost(object, a).lost = 2 + (IF a THEN 0 ELSE 1)
      BY <3>1
    <3> QED
      BY <1>1, <1>2, <1>4, <3>3, <3>4
  <2> QED
    BY <1>1, <2>1, <2>2 DEF Covered
<1>5. Covered'
  BY <1>1, <1>3, <1>4 DEF RInv
<1>6. found' \in Reads
  BY <1>1, <1>2, <1>5, ReadTyped DEF Covered, MaybeObject
<1> QED
  BY <1>1, <1>2, <1>5, <1>6 DEF RInv, TypeOK

\* Before the children: the deep read, the object itself, the object once more.
LEMMA OwnReadsRInv ==
    ASSUME RInv, NEW a \in BOOLEAN, GetTree(a) \/ GetSelf(a) \/ Get(a)
    PROVE  RInv'
<1>1. object' = object /\ unread' = unread /\ lost' = (IF a THEN lost ELSE lost + 1)
  BY DEF GetTree, GetSelf, Get, Reply
<1>2. object \in MaybeObject /\ lost \in Nat
  BY StoredTyped DEF RInv, TypeOK
<1>3. object # None =>
        /\ object \in Objects
        /\ Own(object) = ChildrenLost(object).read /\ ChildrenLost(object).lost = 1
        /\ Answered(object).read = [exists |-> TRUE, obj |-> object]
        /\ Answered(object).lost = 0
        /\ {Answered(object), ChildrenLost(object), [lost |-> 2, read |-> AbsentRead]}
             \subseteq read_actual(object)
  BY <1>2 DEF MaybeObject, Own, ChildrenLost, Answered, read_actual
<1>4. object = None => [lost |-> 0, read |-> AbsentRead] \in read_actual(object)
  BY DEF read_actual
<1>5. ASSUME pc' = "done", Covered', deep' \in BOOLEAN PROVE RInv'
  <2>1. found' \in Reads
    BY <1>1, <1>2, <1>5, ReadTyped DEF Covered
  <2> QED
    BY <1>1, <1>2, <1>5, <2>1 DEF RInv, TypeOK
<1>6. CASE GetTree(a)
  <2>1. CASE a /\ object # None /\ ~KnowsMaxDepth
    <3>1. pc' = "done" /\ found' = Own(object) /\ deep' = deep
      BY <1>6, <2>1 DEF GetTree
    <3> QED
      BY <1>1, <1>3, <1>5, <2>1, <3>1 DEF Covered, RInv, TypeOK
  <2>2. CASE ~(a /\ object # None /\ ~KnowsMaxDepth)
    <3>1. pc = "tree" /\ pc' = "get_self" /\ deep' = (a /\ object # None)
          /\ found' = found
      BY <1>6, <2>2 DEF GetTree
    <3> QED
      BY <1>1, <1>2, <3>1 DEF RInv, TypeOK, Commands
  <2> QED
    BY <2>1, <2>2
<1>7. CASE GetSelf(a)
  <2>1. pc = "get_self" /\ deep' = deep
    BY <1>7 DEF GetSelf
  <2>2. CASE a /\ object # None
    <3>1. /\ pc' = "done"
          /\ found' = IF deep THEN [exists |-> TRUE, obj |-> object] ELSE Own(object)
      BY <1>7, <2>2 DEF GetSelf
    <3>2. Covered'
      BY <1>1, <1>2, <1>3, <2>1, <2>2, <3>1 DEF Covered, RInv
    <3> QED
      BY <1>5, <2>1, <3>1, <3>2 DEF RInv, TypeOK
  <2>3. CASE ~(a /\ object # None)
    <3>1. pc' = "get" /\ found' = found
      BY <1>7, <2>3 DEF GetSelf
    <3> QED
      BY <1>1, <1>2, <2>1, <2>3, <3>1 DEF RInv, TypeOK, Commands
  <2> QED
    BY <2>2, <2>3
<1>8. CASE Get(a)
  <2>1. pc = "get" /\ deep' = FALSE
    BY <1>8 DEF Get
  <2>2. CASE a /\ object # None
    <3>1. pc' = "children" /\ found' = Own(object)
      BY <1>8, <2>2 DEF Get
    <3>2. found' \in Reads
      BY <1>3, <2>2, <3>1, PartsTyped
    <3> QED
      BY <1>1, <1>2, <2>1, <2>2, <3>1, <3>2 DEF RInv, TypeOK, Commands
  <2>3. CASE ~(a /\ object # None)
    <3>1. pc' = "done" /\ found' = AbsentRead
      BY <1>8, <2>3 DEF Get
    <3>2. Covered'
      BY <1>1, <1>2, <1>3, <1>4, <2>1, <2>3, <3>1 DEF Covered, RInv
    <3> QED
      BY <1>5, <2>1, <3>1, <3>2
  <2> QED
    BY <2>2, <2>3
<1> QED
  BY <1>6, <1>7, <1>8

\* The listing: all live children are left to read, or none if it is silent.
LEMMA ChildrenRInv ==
    ASSUME RInv, NEW a \in BOOLEAN, Children(a)
    PROVE  RInv'
<1>1. /\ pc = "children" /\ object # None /\ found = Own(object) /\ lost >= 1
      /\ object' = object /\ deep' = deep /\ found' = found
      /\ lost' = (IF a THEN lost ELSE lost + 1)
      /\ unread' = (IF a THEN Live(object) ELSE {})
      /\ pc' = (IF unread' = {} THEN "get_settings" ELSE "get_child")
  BY DEF Children, RInv, Reply, Live
<1>2. object \in Objects /\ lost \in Nat
  BY <1>1, StoredTyped DEF RInv, TypeOK, MaybeObject
<1>3. TypeOK'
  BY <1>1, <1>2 DEF RInv, TypeOK, Commands, Live
<1>4. CASE a
  <2>1. Own(object) = Partly(object, Live(object), Typeids, None)
    <3>1. [t \in Typeids |-> IF t \in Live(object) THEN None
                             ELSE IF t \in Live(object) \ Typeids THEN BlankSub
                             ELSE object.subs[t]] = NoSubs
      BY DEF Live, NoSubs
    <3> QED
      BY <3>1 DEF Own, Partly
  <2>2. Live(object) \ Typeids = {} /\ Live(object) \subseteq Typeids
    BY DEF Live
  <2>3. Cardinality(Live(object) \ Typeids) = 0
    BY <2>2, FS_EmptySet
  <2>4. ChildByChild(Live(object))'
    BY <1>1, <1>2, <1>4, <2>1, <2>2, <2>3 DEF ChildByChild
  <2>5. CASE Live(object) = {}
    BY <1>1, <1>3, <1>4, <2>4, <2>5 DEF RInv, ChildByChild
  <2>6. CASE Live(object) # {}
    BY <1>1, <1>3, <1>4, <2>4, <2>6 DEF RInv
  <2> QED
    BY <2>5, <2>6
<1>5. CASE ~a
  BY <1>1, <1>2, <1>3, <1>5 DEF RInv
<1> QED
  BY <1>4, <1>5

\* One step for every command.
LEMMA StepRInv == RInv /\ [Next]_vars => RInv'
<1> SUFFICES ASSUME RInv, [Next]_vars PROVE RInv'
  OBVIOUS
<1>1. ASSUME NEW a \in BOOLEAN, GetTree(a) \/ GetSelf(a) \/ Get(a) PROVE RInv'
  BY <1>1, OwnReadsRInv
<1>2. ASSUME NEW a \in BOOLEAN, Children(a) PROVE RInv'
  BY <1>2, ChildrenRInv
<1>3. ASSUME NEW a \in BOOLEAN, NEW t \in Typeids, GetChild(t, a) PROVE RInv'
  BY <1>3, GetChildRInv
<1>4. ASSUME NEW a \in BOOLEAN, GetSettings(a) PROVE RInv'
  BY <1>4, GetSettingsRInv
<1>5. CASE UNCHANGED vars
  BY <1>5 DEF vars, RInv, TypeOK, ChildByChild, Covered
<1> QED
  BY <1>1, <1>2, <1>3, <1>4, <1>5 DEF Next

\* Nothing is found before the first command.
LEMMA InitRInv == Init => RInv
<1>1. AbsentRead \in Reads
  BY TypesAssumption DEF AbsentRead, Reads, Objects, NoSubs
<1> SUFFICES ASSUME Init PROVE RInv
  OBVIOUS
<1>2. TypeOK
  BY <1>1 DEF Init, TypeOK, Commands
<1> QED
  BY <1>2 DEF Init, RInv

\* The invariant of a read, command by command.
LEMMA ReadInvariant == Spec => []RInv
  BY InitRInv, StepRInv, PTL DEF Spec

\* Types, for every writer and whatever is left unanswered.
THEOREM ReadTyping == Spec => []TypeOK
<1>1. RInv => TypeOK
  BY DEF RInv
<1> QED
  BY <1>1, ReadInvariant, PTL

\* Whatever read_actual returns on any device is among the outcomes of the read
\* as one step, which is all the theorems about DevicePlan take from a read.
THEOREM ReadCovered ==
    Spec => [](pc = "done" => \E x \in read_actual(object) : x.read = found)
<1>1. RInv => (pc = "done" => \E x \in read_actual(object) : x.read = found)
  BY DEF RInv, Covered
<1> QED
  BY <1>1, ReadInvariant, PTL

\* On a device that knows $MAX_DEPTH the outcome costs no more unanswered
\* commands in one step than command by command.
THEOREM AtomicReadSound == KnowsMaxDepth => (Spec => []AtomicReadCovers)
<1> SUFFICES ASSUME KnowsMaxDepth PROVE Spec => []AtomicReadCovers
  OBVIOUS
<1>1. RInv => AtomicReadCovers
  BY DEF RInv, Covered, AtomicReadCovers
<1> QED
  BY <1>1, ReadInvariant, PTL

\* On such a device a read all of whose commands are answered is true: every
\* outcome of the read as one step that is not true has cost something.
THEOREM AnsweredReadSound == KnowsMaxDepth => (Spec => []AnsweredReadIsTrue)
<1> SUFFICES ASSUME KnowsMaxDepth PROVE Spec => []AnsweredReadIsTrue
  OBVIOUS
<1>1. RInv => AnsweredReadIsTrue
  <2> SUFFICES ASSUME RInv, pc = "done", lost = 0
               PROVE  found = IF object = None THEN AbsentRead
                              ELSE [exists |-> TRUE, obj |-> object]
    BY DEF AnsweredReadIsTrue
  <2>1. object \in MaybeObject
    BY StoredTyped DEF RInv, TypeOK
  <2>2. PICK x \in read_actual(object) : x.read = found /\ x.lost <= 0
    BY DEF RInv, Covered
  <2>3. x.lost \in Nat
    BY <2>1, ReadTyped
  <2>4. x.lost = 0
    BY <2>2, <2>3
  <2> QED
    BY <2>1, <2>2, <2>4, AnsweredReadIsTheObject
<1> QED
  BY <1>1, ReadInvariant, PTL

===============================================================================
