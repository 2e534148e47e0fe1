------------------------------ MODULE SapSession ------------------------------
(***************************************************************************)
(* One SapV2Client session of plugins/module_utils/sapv2.py: which lines   *)
(* become the reply of which command.                                      *)
(*                                                                         *)
(* The device handles commands in the order they came, each in its own     *)
(* time, over one ordered stream; a write is normally not answered at all. *)
(* The client throws away what has arrived (_flush), sends a command, and  *)
(* collects until the terminator or a timeout (_drain).  Time itself is    *)
(* not modelled: a timeout may come at any moment, and one that comes      *)
(* while the device still has work to do is a counted fault.               *)
(*                                                                         *)
(* In front of every write stand the guard and check mode; underneath, the *)
(* device may close the connection at any time.                            *)
(***************************************************************************)
EXTENDS SubtreeGuard, Integers

CONSTANTS
    Paths,       \* object paths
    TypePath,    \* per path, the type path it is created under
    Properties,  \* names a set may name
    Under,       \* per path, the objects a deep read of it lists, in order
    Children,    \* per path, those a listing shows: the ones right below it
    Probe,       \* LOGIN_PROBE_PATH, an object every device has
    Echoing,     \* whether the firmware echoes $DONE: which of the two there are
    use_done,    \* whether the client is to ask for it: which settings there are
    MaxCommands, \* bound: commands of one session
    MaxLate,     \* bound: replies not begun when the client gives up on them
    MaxCut       \* bound: replies not finished when the client gives up on them

ASSUME SessionAssumption ==
    /\ Probe \in Paths
    /\ None \notin Paths
    /\ Under \in [Paths -> Seq(Paths)]
    /\ Children \in [Paths -> Seq(Paths)]
    /\ \A p \in Paths : \A c \in ToSet(Children[p]) : Len(c) = Len(p) + 1
    /\ Paths \subseteq Seq(STRING)
    /\ TypePath \in [Paths -> Seq(STRING)]
    /\ Echoing \subseteq BOOLEAN /\ use_done \subseteq BOOLEAN
    /\ MaxCommands \in Nat /\ MaxLate \in Nat /\ MaxCut \in Nat

VARIABLES
    accepted,   \* the device has let this session in
    echoes,     \* its firmware echoes $DONE
    version,    \* per object, how often it was created, changed or deleted
    open,       \* the device has not closed the connection
    check_mode, \* writes are recorded and skipped
    inbox,      \* commands the device has not finished with
    wire,       \* what the device has sent and the client has not read
    phase,      \* what the client is in the middle of
    op,         \* the call its user has made: verb and path
    cmd,        \* the command sent last
    sent,       \* how many there have been (bounded)
    buf,        \* the reply so far
    found,      \* what tree() has parsed before its second read
    done_supported,
    answer,     \* what the last call returned, one line per object
    late, cut   \* how much of the two bounds is used up

device == <<accepted, echoes, version, open>>
client == <<check_mode, phase, op, cmd, sent, buf, found, done_supported, answer>>
vars == <<device, inbox, wire, client, late, cut>>

Waiting == {"login", "probe", "read", "own", "write"}
Phases == Waiting \cup {"new", "ready", "failed"}
Reading == {"get", "children", "tree"}
Writing == {"set", "execute", "init", "del"}
Verbs == {"login"} \cup Reading \cup Writing

\* One line of a reply: an object at its version, or text.
Lines == [path : Paths \cup {None}, ver : 0..MaxCommands,
          done : BOOLEAN, denied : BOOLEAN]

\* A listing, with the object itself in it.
Listed(path) == <<path>> \o Children[path]

\* `todo' is what the device has still to answer a read with; a deep read of
\* an object without children gets the line that says NONE.  `execute' is a raw
\* set, whose properties the client does not read.
Command(verb, path, props, done) ==
    [verb |-> verb, path |-> path, props |-> props, done |-> done,
     todo |-> CASE verb = "get" -> <<path>>
                [] verb = "children" -> Listed(path)
                [] verb = "tree" /\ Under[path] # <<>> -> Under[path]
                [] OTHER -> <<None>>]

Init ==
    /\ accepted \in BOOLEAN
    /\ echoes \in Echoing
    /\ version = [p \in Paths |-> 0]
    /\ open = TRUE
    /\ check_mode \in BOOLEAN
    /\ inbox = <<>>
    /\ wire = <<>>
    /\ phase = "new"
    /\ op = [verb |-> "login", path |-> None]
    /\ cmd = Command("login", None, {}, FALSE)
    /\ sent = 0
    /\ buf = <<>>
    /\ found = {}
    /\ done_supported \in use_done
    /\ answer = {}
    /\ late = 0
    /\ cut = 0

(***************************************************************************)
(* The device.                                                             *)
(***************************************************************************)
Text(denied) == [path |-> None, ver |-> 0, done |-> FALSE, denied |-> denied]

Shown(p, done) ==
    [path |-> p, ver |-> IF p = None THEN 0 ELSE version[p], done |-> done,
     denied |-> FALSE]

\* One line of the reply to a read, the last one with the terminator if it was
\* asked for.  A session that was not let in is told nothing.
AnswerRead ==
    /\ inbox # <<>>
    /\ Head(inbox).verb \in Reading
    /\ LET c == Head(inbox)
           last == ~accepted \/ Len(c.todo) = 1
       IN  /\ wire' = IF accepted
                      THEN Append(wire, Shown(Head(c.todo), last /\ c.done /\ echoes))
                      ELSE wire
           /\ inbox' = IF last THEN Tail(inbox)
                       ELSE [inbox EXCEPT ![1].todo = Tail(c.todo)]
    /\ UNCHANGED <<device, client, late, cut>>

\* A write is taken or ignored in silence, or refused with an error line.
AnswerWrite ==
    /\ inbox # <<>>
    /\ Head(inbox).verb \in Writing
    /\ \/ /\ accepted
          /\ version' = [version EXCEPT ![Head(inbox).path] = @ + 1]
          /\ UNCHANGED wire
       \/ UNCHANGED <<version, wire>>
       \/ /\ accepted
          /\ wire' = Append(wire, Text(FALSE))
          /\ UNCHANGED version
    /\ inbox' = Tail(inbox)
    /\ UNCHANGED <<accepted, echoes, open, client, late, cut>>

\* The connection is closed with whatever was not handled; what has been sent
\* can still be read.
Hangup ==
    /\ open
    /\ phase # "new"
    /\ open' = FALSE
    /\ inbox' = <<>>
    /\ UNCHANGED <<accepted, echoes, version, wire, client, late, cut>>

\* A login is confirmed or rejected in a line of text, or in silence.
AnswerLogin ==
    /\ inbox # <<>>
    /\ Head(inbox).verb = "login"
    /\ wire' \in {wire, Append(wire, Text(~accepted))}
    /\ inbox' = Tail(inbox)
    /\ UNCHANGED <<device, client, late, cut>>

(***************************************************************************)
(* Sending: _flush, then the command, a read with $DONE as long as the     *)
(* device is believed to echo it.  A closed connection swallows it.        *)
(***************************************************************************)
Send(next, verb, path, props, done) ==
    /\ sent < MaxCommands
    /\ sent' = sent + 1
    /\ cmd' = Command(verb, path, props, done)
    /\ inbox' = IF open THEN Append(inbox, cmd') ELSE inbox
    /\ wire' = <<>>
    /\ buf' = <<>>
    /\ phase' = next

SendRead(next, verb, path, done) == Send(next, verb, path, {}, done)

Connect ==
    /\ phase = "new"
    /\ SendRead("login", "login", None, FALSE)
    /\ UNCHANGED <<device, check_mode, op, found, done_supported, answer, late, cut>>

Call(verb, path) ==
    /\ phase = "ready"
    /\ op' = [verb |-> verb, path |-> path]
    /\ found' = {}
    /\ answer' = {}
    /\ SendRead("read", verb, path, done_supported)
    /\ UNCHANGED <<device, check_mode, done_supported, late, cut>>

\* The writes there are: a set or execute names properties, the others do not.
Writes ==
    {[verb |-> v, path |-> p, props |-> IF v \in {"set", "execute"} THEN {q} ELSE {}] :
        v \in Writing, p \in Paths, q \in Properties}

\* An init is given the path of a type.
Target(w) == IF w.verb = "init" THEN TypePath[w.path] ELSE w.path

\* The writes the guard lets through.  Only set() tells it the properties.
Admitted ==
    {w \in Writes :
        assert_writable(Target(w), w.verb, IF w.verb = "set" THEN w.props ELSE {})}

\* Refused by the guard, the whole run fails.
Refuse ==
    /\ phase = "ready"
    /\ \E w \in Writes : w \notin Admitted
    /\ phase' = "failed"
    /\ UNCHANGED <<device, inbox, wire, check_mode, op, cmd, sent, buf, found,
                   done_supported, answer, late, cut>>

\* Mutation of Skipped: check mode skips deletes only.
SkipsDeletes(w) == check_mode /\ w.verb = "del"

Skipped(w) == check_mode

Write(w) ==
    /\ phase = "ready"
    /\ w \in Admitted
    /\ op' = [verb |-> w.verb, path |-> w.path]
    /\ found' = {}
    /\ answer' = {}
    /\ IF Skipped(w) THEN UNCHANGED <<inbox, wire, phase, cmd, sent, buf>>
                     ELSE Send("write", w.verb, w.path, w.props, FALSE)
    /\ UNCHANGED <<device, check_mode, done_supported, late, cut>>

(***************************************************************************)
(* What becomes of a reply once the client takes it for complete.          *)
(***************************************************************************)

\* Mutation of parse_indi: NONE is an object like any other.
KeepsNone(lines) ==
    {lines[i] : i \in {i \in DOMAIN lines :
        \A j \in i + 1..Len(lines) : lines[j].path # lines[i].path}}

\* The objects shown; of an object shown twice, the later line.
parse_indi(lines) ==
    {lines[i] : i \in {i \in DOMAIN lines :
        /\ lines[i].path # None
        /\ \A j \in i + 1..Len(lines) : lines[j].path # lines[i].path}}

\* Mutation of _pick: a reply with one object in it is taken for the answer.
TakesTheOnlyReply(parsed, path) ==
    LET same == {l \in parsed : l.path = path}
    IN  IF same = {} /\ \A k, l \in parsed : k = l THEN parsed ELSE same

_pick(parsed, path) == {l \in parsed : l.path = path}

has_done(lines) == \E i \in DOMAIN lines : lines[i].done

Return(result) ==
    /\ phase' = "ready"
    /\ answer' = result
    /\ UNCHANGED <<inbox, wire, cmd, sent, buf, found>>

Fail ==
    /\ phase' = "failed"
    /\ UNCHANGED <<inbox, wire, cmd, sent, buf, found, answer>>

\* connect(): an explicit rejection fails, anything else is put to the proof.
EndLogin ==
    IF \E i \in DOMAIN buf : buf[i].denied
    THEN Fail
    ELSE /\ SendRead("probe", "get", Probe, done_supported)
         /\ UNCHANGED <<found, answer>>

\* Mutation of EndProbe: a login that was not rejected is taken to be one.
ProbeUnread(read) == Return({})

EndProbe(read) == IF _pick(read, Probe) = {} THEN Fail ELSE Return({})

\* A deep read whose reply lacks the object itself is followed by a get of it.
EndRead(read) ==
    LET own == _pick(read, op.path)
    IN  \/ phase = "probe" /\ EndProbe(read)
        \/ phase = "own" /\ Return(found \cup own)
        \/ phase = "read" /\ op.verb = "get" /\ Return(own)
        \/ phase = "read" /\ op.verb = "children" /\ Return(read \ own)
        \/ phase = "read" /\ op.verb = "tree" /\ own # {} /\ Return(read)
        \/ /\ phase = "read" /\ op.verb = "tree" /\ own = {}
           /\ found' = read
           /\ SendRead("own", "get", op.path, done_supported')
           /\ UNCHANGED answer

\* Mutation of Unterminated: an empty reply counts as one without $DONE.
EmptyIsUnterminated == cmd.done /\ ~has_done(buf)

\* A reply that should carry the terminator and does not.
Unterminated == cmd.done /\ buf # <<>> /\ ~has_done(buf)

EndReply ==
    CASE phase = "login" -> EndLogin /\ UNCHANGED done_supported
      [] phase = "write" -> Return({}) /\ UNCHANGED done_supported
      [] phase \in {"probe", "read", "own"} /\ Unterminated ->
           /\ done_supported' = FALSE
           /\ SendRead(phase, cmd.verb, cmd.path, FALSE)
           /\ UNCHANGED <<found, answer>>
      [] phase \in {"probe", "read", "own"} /\ ~Unterminated ->
           UNCHANGED done_supported /\ EndRead(parse_indi(buf))

(***************************************************************************)
(* _drain.                                                                 *)
(***************************************************************************)

\* Mutation of Terminated: whatever has arrived is the whole reply.
FirstLineIsAll == buf # <<>>

Terminated == cmd.done /\ has_done(buf)

\* recv returns some or all of what has arrived.
Receive ==
    /\ phase \in Waiting
    /\ ~Terminated
    /\ \E n \in 1..Len(wire) :
          /\ buf' = buf \o SubSeq(wire, 1, n)
          /\ wire' = SubSeq(wire, n + 1, Len(wire))
    /\ UNCHANGED <<device, inbox, check_mode, phase, op, cmd, sent, found,
                   done_supported, answer, late, cut>>

Complete ==
    /\ phase \in Waiting
    /\ Terminated
    /\ EndReply
    /\ UNCHANGED <<device, check_mode, op, late, cut>>

\* The first byte, or the next, does not come in time, or the connection is at
\* its end; or the deadline passes with more to read.
TimeOut ==
    /\ phase \in Waiting
    /\ ~Terminated
    /\ wire # <<>> => buf # <<>>
    /\ \/ /\ inbox = <<>> /\ wire = <<>>
          /\ UNCHANGED <<late, cut>>
       \/ /\ inbox # <<>> /\ buf = <<>>
          /\ late < MaxLate /\ late' = late + 1
          /\ UNCHANGED cut
       \/ /\ inbox # <<>> \/ wire # <<>>
          /\ buf # <<>>
          /\ cut < MaxCut /\ cut' = cut + 1
          /\ UNCHANGED late
    /\ EndReply
    /\ UNCHANGED <<device, check_mode, op>>

\* A send or a recv finds the connection gone.
Break ==
    /\ ~open
    /\ phase \in Waiting \cup {"ready"}
    /\ Fail
    /\ UNCHANGED <<device, check_mode, op, done_supported, late, cut>>

Next ==
    \/ AnswerRead \/ AnswerWrite \/ AnswerLogin \/ Hangup
    \/ Connect
    \/ \E verb \in Reading, p \in Paths : Call(verb, p)
    \/ \E w \in Admitted : Write(w)
    \/ Refuse
    \/ Receive \/ Complete \/ TimeOut \/ Break

Spec == Init /\ [][Next]_vars

(***************************************************************************)
(* Properties.                                                             *)
(***************************************************************************)

\* Every variable stays in its set, and what is parsed is an object.
TypeOK ==
    /\ <<accepted, echoes, done_supported>> \in BOOLEAN \X BOOLEAN \X BOOLEAN
    /\ version \in [Paths -> 0..MaxCommands]
    /\ open \in BOOLEAN /\ check_mode \in BOOLEAN
    /\ \A i \in DOMAIN inbox :
          inbox[i].verb \in Verbs /\ inbox[i].path \in Paths \cup {None}
             /\ inbox[i].todo # <<>>
    /\ \A i \in DOMAIN wire : wire[i] \in Lines
    /\ \A i \in DOMAIN buf : buf[i] \in Lines
    /\ phase \in Phases
    /\ op.verb \in Verbs /\ op.path \in Paths \cup {None}
    /\ sent \in 0..MaxCommands
    /\ \A l \in found \cup answer : l \in Lines /\ l.path \in Paths
    /\ late \in 0..MaxLate /\ cut \in 0..MaxCut

\* A session whose credential the device has not accepted never gets as far as
\* a call, whether the device says so or stays silent (connect: otherwise it
\* "would report a large, entirely fictional plan").
ConnectedIsAccepted == phase \in {"ready", "read", "own", "write"} => accepted

\* However late replies come, a get shows the object it asked for or nothing
\* (_pick: "never on there was exactly one reply").
GetShowsItsObject ==
    phase = "ready" /\ op.verb = "get" => \A l \in answer : l.path = op.path

\* A deep read shows the object it asked for and objects below it (the test of
\* sapv2: "A reply must never be attributed to the wrong command").
TreeShowsItsObjects ==
    phase = "ready" /\ op.verb = "tree" =>
       \A l \in answer :
          l.path = op.path \/ \E i \in DOMAIN Under[op.path] : l.path = Under[op.path][i]

\* As long as the device keeps up, with or without the terminator, a read
\* shows its object, a deep read all below it and a listing its children, as
\* the last write left them.
PromptReadIsTrue ==
    phase = "ready" /\ op.verb \in Reading /\ late = 0 /\ cut = 0 /\ open =>
       {<<l.path, l.ver>> : l \in answer} =
          {<<p, version[p]>> : p \in
             CASE op.verb = "get" -> {op.path}
               [] op.verb = "children" -> ToSet(Children[op.path])
               [] op.verb = "tree" -> {op.path} \cup ToSet(Under[op.path])}

\* Silence never costs a session the terminator of a device that echoes it
\* (_read: "An EMPTY reply proves nothing and must not trigger that").
SilenceKeepsDone ==
    [][accepted /\ echoes /\ open /\ cut' = 0 => done_supported' = done_supported]_vars

\* Whatever a session is asked to write, and however it ends, an object changes
\* only outside check mode and under the entry that governs it: configuration,
\* safe to delete if it is a delete, and never a live or action property by
\* set() (subtrees.py: "a future module, an ad-hoc script using execute(), or a
\* bug in a reconciler all hit the same rail").
OnlyConfigurationWritten ==
    [][version' # version =>
         LET c == Head(inbox)
         IN  /\ ~check_mode
             /\ \E s \in Registry :
                   /\ Governs(s, Target(c))
                   /\ MayWrite(s, c.verb)
                   /\ c.verb = "set" => c.props \cap Live(s) = {}]_vars

===============================================================================
