---------------------------- MODULE MCDevicePlan ----------------------------
(***************************************************************************)
(* Small instances of DevicePlan.  `new' and `old' are udp_syslog writers, *)
(* `tcp' is a tcp_client, `file' a log_file, `lis' and `far' tcp_listeners. *)
(***************************************************************************)
EXTENDS DevicePlan

MCTypeOf(S) == [w \in S |-> CASE w \in {"new", "old"} -> "udp_syslog"
                              [] w = "tcp" -> "tcp_client"
                              [] w = "file" -> "log_file"
                              [] w \in {"lis", "far"} -> "tcp_listener"]
TwoWriters == {"new", "old"}
TypeOfTwo == MCTypeOf(TwoWriters)
MixedWriters == {"new", "old", "tcp", "file", "lis", "far"}
TypeOfMixed == MCTypeOf(MixedWriters)
TcpWriter == {"tcp"}
TypeOfOneTcp == MCTypeOf(TcpWriter)

AllCreatable == WriterTypes
NoListener == WriterTypes \ {"tcp_listener"}

\* Labels: by default every label is its own scalar form; in FoldedLabels the
\* string "true" is written the way the device writes booleans.
PlainLabels == [l \in Labels |-> l]
FoldedLabels == [l \in Labels |-> IF l = "true" THEN "True" ELSE l]

(***************************************************************************)
(* Objects and entries.                                                    *)
(***************************************************************************)
Sub(l, x) == [label |-> l, expr |-> x]
Subs(s) == [t \in Typeids |-> IF t \in DOMAIN s THEN s[t] ELSE None]

Udp(ep, set, s) ==
    [endpoint |-> ep, property |-> None, setting |-> set, subs |-> Subs(s)]
Tcp(ep, prop, set, s) ==
    [endpoint |-> ep, property |-> prop, setting |-> set, subs |-> Subs(s)]
File(set, s) == Udp(None, set, s)

Wants(ep, prop, set, purge, s) ==
    [state |-> "present", endpoint |-> ep, property |-> prop, setting |-> set,
     purge |-> purge, subs |-> Subs(s)]
Gone == PurgeEntry

Task(es, un, imm, rot) ==
    [entries |-> [w \in Writers |-> IF w \in DOMAIN es THEN es[w] ELSE None],
     unmanaged |-> un, on_immutable_change |-> imm, rotation |-> rot]

Entry1(k, v) == [x \in {k} |-> v]
Entry2(k, v, l, u) == [x \in {k, l} |-> IF x = k THEN v ELSE u]

One(s) == [t \in {1} |-> s]
Two(s) == [t \in {2} |-> s]
Both(s) == [t \in {1, 2} |-> s]
NoneOfThem == [t \in {} |-> None]

(***************************************************************************)
(* Moving a device from `old' to `new': a named retirement with a replace, *)
(* or a purge of the one udp_syslog writer the task does not name.         *)
(***************************************************************************)
CutoverTasks ==
    {Task(Entry2("new", Wants("a", None, "on", purge, One(Sub("x", "e"))),
                 "old", Gone), "ignore", "replace", "on") : purge \in BOOLEAN}
    \cup {Task(Entry1("new", Wants("a", None, None, FALSE, One(Sub(None, "e")))),
               "purge", "fail", None)}

CutoverObjects ==
    [w \in Writers |->
       IF w = "new"
       THEN {None, Udp("a", "on", One(Sub("x", "e"))),
             Udp("a", "off", Both(Sub("y", "f"))),
             Udp("b", "on", Two(Sub("x", "e")))}
       ELSE {None, Udp("b", "on", One(Sub("x", "e")))}]

AnyRotation == {"on", "off"}
AnyRotationOrNone == {"on", "off", None}

(***************************************************************************)
(* Writers of four types under tasks that name some of them.  One type     *)
(* cannot be created again: nothing but an explicit absent may delete one. *)
(***************************************************************************)
MixedTasks ==
    {Task(Entry2("tcp", Wants("a", "on", "on", FALSE, One(Sub("x", "e"))),
                 "old", Gone), "report", "fail", "on"),
     Task(Entry1("new", Wants("a", None, "on", TRUE, One(Sub("x", "e")))),
          "purge", "replace", None),
     Task(Entry2("file", Wants(None, None, "on", FALSE, One(Sub(None, "e"))),
                 "tcp", Wants("a", None, None, TRUE, Two(Sub("y", "e")))),
          "purge", "replace", "off"),
     Task(Entry2("lis", Wants("a", None, None, FALSE, NoneOfThem), "old", Gone),
          "purge", "replace", None)}

MixedObjects ==
    [w \in Writers |->
       CASE w = "new" -> {None, Udp("a", "on", One(Sub("x", "f"))),
                          Udp("b", "on", NoneOfThem)}
         [] w = "old" -> {None, Udp("b", "on", One(Sub("x", "e")))}
         [] w = "tcp" -> {None, Tcp("a", "off", "on", Both(Sub("x", "e"))),
                          Tcp("b", "on", "off", NoneOfThem)}
         [] w = "file" -> {None, File("off", Two(Sub("x", "e")))}
         [] w = "lis" -> {Tcp(ep, "off", "on", NoneOfThem) : ep \in {"a", "b"}}
         [] w = "far" -> {Tcp("b", "off", "on", NoneOfThem)}]

(***************************************************************************)
(* Single disagreements between the code and what it says of itself.       *)
(***************************************************************************)
\* `old' is to go and nothing else is asked for.
RetireTask == {Task(Entry1("old", Gone), "ignore", "fail", None)}
RetireObjects ==
    [w \in Writers |-> IF w = "old" THEN {Udp("b", "on", One(Sub("x", "e")))}
                                   ELSE {None}]

\* A tcp_client moved to another endpoint, with a property it already has.
RepointTask ==
    {Task(Entry1("tcp", Wants("a", "on", None, FALSE, NoneOfThem)),
          "ignore", "replace", None)}
RepointObjects == [w \in Writers |-> {Tcp("b", "on", "off", NoneOfThem)}]

\* The same move with a subscription on the device that the task leaves alone.
RepointUnlistedTask ==
    {Task(Entry1("tcp", Wants("a", None, None, FALSE, NoneOfThem)),
          "ignore", "replace", None)}
RepointUnlistedObjects ==
    [w \in Writers |-> {Tcp("b", "on", "off", One(Sub("x", "e")))}]

\* A CustomName the device holds as "true", asked for as "True".
LabelTask ==
    {Task(Entry1("tcp", Wants("a", None, None, FALSE, One(Sub("True", "e")))),
          "ignore", "fail", None)}
LabelObjects ==
    [w \in Writers |-> {Tcp("a", "on", "off", One(Sub("true", "f")))}]

OnlyNone == {None}

===============================================================================
