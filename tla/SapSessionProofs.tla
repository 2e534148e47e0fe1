---------------------------- MODULE SapSessionProofs ----------------------------
(***************************************************************************)
(* SapSession for every tree of objects and every bound: no session whose  *)
(* credential the device has not accepted becomes usable, a get shows its  *)
(* object however late replies come, a read of a device that keeps up      *)
(* shows what is there, and silence does not cost the terminator.          *)
(***************************************************************************)
EXTENDS SapSession, WellFoundedInduction, TLAPS

\* Text that shows no object, such as the reply to a login.
TextLines == [path : {None}, ver : {0}, done : {FALSE}, denied : BOOLEAN]

\* A session the device has not let in has been told nothing of any object, and
\* has not got past its probe.
Outside ==
    ~accepted => /\ wire \in Seq(TextLines)
                 /\ buf \in Seq(TextLines)
                 /\ phase \in {"new", "login", "probe", "failed"}

\* In such a session a reply shows no object, so the probe finds none.
LEMMA ProbeFindsNothing ==
    ASSUME buf \in Seq(TextLines)
    PROVE  _pick(parse_indi(buf), Probe) = {}
<1>1. \A i \in DOMAIN buf : buf[i] \in TextLines
  OBVIOUS
<1>2. \A i \in DOMAIN buf : buf[i].path = None
  BY <1>1 DEF TextLines
<1>3. parse_indi(buf) = {}
  BY <1>2 DEF parse_indi
<1> QED
  BY <1>3 DEF _pick

\* However a reply ends, the session stays where it is, or fails.
LEMMA EndReplyOutside ==
    ASSUME Outside, ~accepted, phase \in Waiting, EndReply, accepted' = accepted
    PROVE  Outside'
<1>1. /\ wire \in Seq(TextLines) /\ buf \in Seq(TextLines)
      /\ phase \in {"login", "probe"}
  BY DEF Outside, Waiting
<1>2. <<>> \in Seq(TextLines)
  OBVIOUS
<1>3. CASE phase = "login"
  BY <1>1, <1>2, <1>3 DEF EndReply, EndLogin, Fail, SendRead, Send, Outside
<1>4. CASE phase = "probe"
  <2>1. CASE Unterminated
    BY <1>2, <1>4, <2>1 DEF EndReply, SendRead, Send, Outside
  <2>2. CASE ~Unterminated
    <3>1. EndRead(parse_indi(buf))
      BY <1>4, <2>2 DEF EndReply
    <3>2. Fail
      BY <1>1, <1>4, <3>1, ProbeFindsNothing DEF EndRead, EndProbe
    <3> QED
      BY <1>1, <3>2 DEF Fail, Outside
  <2> QED
    BY <2>1, <2>2
<1> QED
  BY <1>1, <1>3, <1>4

\* One step for every action of the specification.
LEMMA StepOutside == Outside /\ [Next]_vars => Outside'
<1> SUFFICES ASSUME Outside, [Next]_vars PROVE Outside'
  OBVIOUS
<1>1. accepted' = accepted
  BY DEF Next, AnswerRead, AnswerWrite, AnswerLogin, Hangup, Connect, Call, Refuse,
         Write, Receive, Complete, TimeOut, Break, vars, device
<1>2. CASE accepted
  BY <1>1, <1>2 DEF Outside
<1>3. CASE ~accepted
  <2>1. /\ wire \in Seq(TextLines) /\ buf \in Seq(TextLines)
        /\ phase \in {"new", "login", "probe", "failed"}
    BY <1>3 DEF Outside
  <2>2. <<>> \in Seq(TextLines)
    OBVIOUS
  <2>3. CASE AnswerRead \/ AnswerWrite
    BY <1>1, <1>3, <2>1, <2>3 DEF AnswerRead, AnswerWrite, client, Outside
  <2>4. CASE AnswerLogin
    <3>1. Text(~accepted) \in TextLines
      BY <1>3 DEF Text, TextLines
    <3>2. Append(wire, Text(~accepted)) \in Seq(TextLines)
      BY <2>1, <3>1
    <3> QED
      BY <1>1, <2>1, <2>4, <3>2 DEF AnswerLogin, client, Outside
  <2>5. CASE Connect
    BY <2>2, <2>5 DEF Connect, SendRead, Send, Outside
  <2>6. CASE \/ \E verb \in Reading, p \in Paths : Call(verb, p)
             \/ \E w \in Admitted : Write(w)
             \/ Refuse
    BY <2>1, <2>6 DEF Call, Write, Refuse
  <2>7. CASE Receive
    <3>1. PICK n \in 1..Len(wire) :
             /\ buf' = buf \o SubSeq(wire, 1, n)
             /\ wire' = SubSeq(wire, n + 1, Len(wire))
      BY <2>7 DEF Receive
    <3>2. Len(wire) \in Nat
      BY <2>1
    <3>3. SubSeq(wire, 1, n) \in Seq(TextLines)
      BY <2>1, <3>1, <3>2
    <3>4. SubSeq(wire, n + 1, Len(wire)) \in Seq(TextLines)
      BY <2>1, <3>1, <3>2
    <3> QED
      BY <1>1, <2>1, <2>7, <3>1, <3>3, <3>4 DEF Receive, Outside
  <2>8. CASE Complete \/ TimeOut
    BY <1>1, <1>3, <2>8, EndReplyOutside DEF Complete, TimeOut
  <2>9. CASE Hangup \/ Break
    BY <1>1, <2>1, <2>9 DEF Hangup, Break, Fail, client, Outside
  <2>10. CASE UNCHANGED vars
    BY <2>1, <2>10 DEF vars, device, client, Outside
  <2> QED
    BY <2>3, <2>4, <2>5, <2>6, <2>7, <2>8, <2>9, <2>10 DEF Next
<1> QED
  BY <1>2, <1>3

\* However the device rejects a credential, in words or in silence, connect()
\* does not return: no call is ever made on such a session.
THEOREM Connected == Spec => []ConnectedIsAccepted
<1>1. Init => Outside
  BY DEF Init, Outside
<1>2. Outside => ConnectedIsAccepted
  BY DEF Outside, ConnectedIsAccepted
<1> QED
  BY <1>1, <1>2, StepOutside, PTL DEF Spec

(***************************************************************************)
(* Sequences.                                                              *)
(***************************************************************************)

\* What is left of a queue when its head is taken.
LEMMA TailFacts ==
    ASSUME NEW S, NEW q \in Seq(S), q # <<>>
    PROVE  /\ Len(q) \in Nat \ {0}
           /\ Head(q) = q[1] /\ q[1] \in S
           /\ Tail(q) \in Seq(S) /\ Len(Tail(q)) = Len(q) - 1
           /\ \A i \in 1..Len(q) - 1 : Tail(q)[i] = q[i + 1]
           /\ Len(q) = 1 => Tail(q) = <<>>
           /\ Len(q) # 1 => Tail(q) # <<>>
<1>1. Len(q) \in Nat \ {0}
  OBVIOUS
<1>2. /\ Head(q) = q[1] /\ q[1] \in S
      /\ Tail(q) \in Seq(S) /\ Len(Tail(q)) = Len(q) - 1
  BY <1>1
<1>3. \A i \in 1..Len(q) - 1 : Tail(q)[i] = q[i + 1]
  BY <1>1
<1>4. \A r \in Seq(S) : Len(r) = 0 <=> r = <<>>
  OBVIOUS
<1>5. Len(q) = 1 <=> Tail(q) = <<>>
  <2> DEFINE r == Tail(q)
  <2>1. r \in Seq(S) /\ Len(r) = Len(q) - 1
    BY <1>2
  <2> HIDE DEF r
  <2>2. Len(r) = 0 <=> r = <<>>
    BY <1>4, <2>1, Zenon
  <2>3. Len(q) = 1 <=> Len(r) = 0
    BY <1>1, <2>1
  <2>4. Len(q) = 1 <=> r = <<>>
    BY <2>2, <2>3
  <2> QED
    BY <2>4 DEF r
<1> QED
  BY <1>1, <1>2, <1>3, <1>5

\* What is appended comes last.
LEMMA AppendFacts ==
    ASSUME NEW S, NEW q \in Seq(S), NEW x \in S
    PROVE  /\ Append(q, x) \in Seq(S) /\ Len(Append(q, x)) = Len(q) + 1
           /\ \A i \in 1..Len(q) : Append(q, x)[i] = q[i]
           /\ Append(q, x)[Len(q) + 1] = x
OBVIOUS

\* What a reader takes from a stream and what it leaves there.
LEMMA SplitFacts ==
    ASSUME NEW S, NEW b \in Seq(S), NEW w \in Seq(S), NEW n \in 1..Len(w)
    PROVE  LET t == b \o SubSeq(w, 1, n)
               r == SubSeq(w, n + 1, Len(w))
           IN  /\ t \in Seq(S) /\ r \in Seq(S)
               /\ Len(t) = Len(b) + n /\ Len(r) = Len(w) - n
               /\ \A i \in 1..Len(b) : t[i] = b[i]
               /\ \A i \in 1..n : t[Len(b) + i] = w[i]
               /\ \A i \in 1..Len(w) - n : r[i] = w[n + i]
<1>1. Len(w) \in Nat /\ Len(b) \in Nat
  OBVIOUS
<1>2. /\ SubSeq(w, 1, n) \in Seq(S) /\ Len(SubSeq(w, 1, n)) = n
      /\ \A i \in 1..n : SubSeq(w, 1, n)[i] = w[i]
  BY <1>1
<1>3. /\ SubSeq(w, n + 1, Len(w)) \in Seq(S) /\ Len(SubSeq(w, n + 1, Len(w))) = Len(w) - n
      /\ \A i \in 1..Len(w) - n : SubSeq(w, n + 1, Len(w))[i] = w[n + i]
  BY <1>1
<1> QED
  BY <1>1, <1>2, <1>3

(***************************************************************************)
(* Types, and which command belongs to which phase of which call.          *)
(***************************************************************************)

Commands ==
    {c \in [verb : Verbs, path : Paths \cup {None}, props : SUBSET Properties,
            done : BOOLEAN, todo : Seq(Paths \cup {None})] : c.todo # <<>>}

Shows == {l \in Lines : l.path \in Paths}

Typed ==
    /\ <<accepted, echoes, done_supported>> \in BOOLEAN \X BOOLEAN \X BOOLEAN
    /\ open \in BOOLEAN /\ check_mode \in BOOLEAN
    /\ version \in [Paths -> Nat]
    /\ inbox \in Seq(Commands) /\ cmd \in Commands
    /\ wire \in Seq(Lines) /\ buf \in Seq(Lines)
    /\ phase \in Phases
    /\ op \in [verb : Verbs, path : Paths \cup {None}]
    /\ found \in SUBSET Shows /\ answer \in SUBSET Shows
    /\ late \in 0..MaxLate /\ cut \in 0..MaxCut

\* An object changes at most once for every command sent.
Counted ==
    /\ sent \in 0..MaxCommands
    /\ \A p \in Paths : version[p] + Len(inbox) <= sent

\* What a read has to be answered with.
Todo(c) == c.todo = Command(c.verb, c.path, {}, c.done).todo

\* The reads the client waits for are those of its call; a login and a write
\* ask for no terminator.
Flow ==
    /\ phase \in {"new", "login", "probe"} => op.verb = "login"
    /\ phase = "write" => op.verb \in Writing
    /\ phase \in {"login", "write"} => ~cmd.done
    /\ phase \in {"probe", "read", "own"} =>
          cmd.verb \in Reading /\ cmd.path \in Paths /\ Todo(cmd)
    /\ phase = "read" => op.verb = cmd.verb /\ op.path = cmd.path
    /\ phase = "own" => op.verb = "tree" /\ cmd.verb = "get" /\ op.path = cmd.path

\* A command is one, whatever is called for.
LEMMA CommandTyped ==
    ASSUME NEW verb \in Verbs, NEW path \in Paths \cup {None}, NEW props \in SUBSET Properties,
           NEW done \in BOOLEAN, verb \in Reading => path \in Paths
    PROVE  /\ Command(verb, path, props, done) \in Commands
           /\ Command(verb, path, props, done).verb = verb
           /\ Command(verb, path, props, done).path = path
           /\ Command(verb, path, props, done).done = done
           /\ Todo(Command(verb, path, props, done))
<1> DEFINE todo == CASE verb = "get" -> <<path>>
                     [] verb = "children" -> Listed(path)
                     [] verb = "tree" /\ Under[path] # <<>> -> Under[path]
                     [] OTHER -> <<None>>
<1>1. ASSUME path \in Paths
      PROVE  /\ Under[path] \in Seq(Paths) /\ Listed(path) \in Seq(Paths)
             /\ Listed(path) # <<>>
  BY <1>1, SessionAssumption DEF Listed
<1>2. todo \in Seq(Paths \cup {None}) /\ todo # <<>>
  <2>1. CASE verb = "get"
    BY <2>1
  <2>2. CASE verb = "children"
    BY <1>1, <2>2 DEF Reading
  <2>3. CASE verb = "tree" /\ Under[path] # <<>>
    BY <1>1, <2>3 DEF Reading
  <2>4. CASE verb \notin {"get", "children"} /\ ~(verb = "tree" /\ Under[path] # <<>>)
    <3>1. todo = <<None>>
      BY <2>4
    <3> HIDE DEF todo
    <3> QED
      BY <3>1
  <2> QED
    BY <2>1, <2>2, <2>3, <2>4
<1>3. Command(verb, path, props, done) =
         [verb |-> verb, path |-> path, props |-> props, done |-> done, todo |-> todo]
  BY DEF Command
<1>4. Command(verb, path, {}, done).todo = todo
  BY DEF Command
<1> HIDE DEF todo
<1> QED
  BY <1>2, <1>3, <1>4 DEF Commands, Todo

\* Sending a command keeps the types and counts it.
LEMMA SendTyped ==
    ASSUME Typed, Counted, UNCHANGED device,
           NEW next, NEW verb \in Verbs, NEW path \in Paths \cup {None},
           NEW props \in SUBSET Properties, NEW done \in BOOLEAN,
           verb \in Reading => path \in Paths,
           Send(next, verb, path, props, done)
    PROVE  /\ inbox' \in Seq(Commands) /\ cmd' \in Commands
           /\ wire' \in Seq(Lines) /\ buf' \in Seq(Lines)
           /\ wire' = <<>> /\ buf' = <<>> /\ phase' = next
           /\ cmd'.verb = verb /\ cmd'.path = path /\ cmd'.done = done /\ Todo(cmd')
           /\ Counted'
<1> DEFINE c == Command(verb, path, props, done)
<1>1. /\ c \in Commands /\ c.verb = verb /\ c.path = path /\ c.done = done /\ Todo(c)
  BY CommandTyped
<1> HIDE DEF c
<1>2. /\ cmd' = c /\ sent < MaxCommands /\ sent' = sent + 1
      /\ inbox' = IF open THEN Append(inbox, c) ELSE inbox
      /\ wire' = <<>> /\ buf' = <<>> /\ phase' = next
  BY DEF Send, c
<1>3. inbox' \in Seq(Commands) /\ Len(inbox') <= Len(inbox) + 1
  BY <1>1, <1>2 DEF Typed
<1>4. Counted'
  <2>1. sent' \in 0..MaxCommands
    BY <1>2, SessionAssumption DEF Counted
  <2>2. version' = version /\ \A p \in Paths : version[p] \in Nat
    BY DEF device, Typed
  <2>3. Len(inbox) \in Nat /\ Len(inbox') \in Nat
    BY <1>3 DEF Typed
  <2>4. ASSUME NEW p \in Paths PROVE version'[p] + Len(inbox') <= sent'
    BY <1>2, <1>3, <2>1, <2>2, <2>3 DEF Counted
  <2> QED
    BY <2>1, <2>4 DEF Counted
<1> QED
  BY <1>1, <1>2, <1>3, <1>4

\* What is parsed shows objects.
LEMMA ParsedShows ==
    ASSUME NEW lines \in Seq(Lines)
    PROVE  parse_indi(lines) \in SUBSET Shows
<1>1. \A i \in DOMAIN lines : lines[i] \in Lines
  OBVIOUS
<1>2. \A l \in Lines : l.path # None => l.path \in Paths
  BY DEF Lines
<1>3. \A i \in DOMAIN lines : lines[i].path # None => lines[i] \in Shows
  BY <1>1, <1>2, Zenon DEF Shows
<1> QED
  BY <1>3, Zenon DEF parse_indi

\* What is read goes from the stream to the end of what was read before.
LEMMA ReceiveFacts ==
    ASSUME Typed, Receive
    PROVE  \E n \in 1..Len(wire) :
              /\ buf' \in Seq(Lines) /\ wire' \in Seq(Lines)
              /\ Len(buf') = Len(buf) + n /\ Len(wire') = Len(wire) - n
              /\ \A i \in 1..Len(buf) : buf'[i] = buf[i]
              /\ \A i \in 1..n : buf'[Len(buf) + i] = wire[i]
              /\ \A i \in 1..Len(wire) - n : wire'[i] = wire[n + i]
<1>1. PICK n \in 1..Len(wire) :
         /\ buf' = buf \o SubSeq(wire, 1, n)
         /\ wire' = SubSeq(wire, n + 1, Len(wire))
  BY DEF Receive
<1>2. buf \in Seq(Lines) /\ wire \in Seq(Lines)
  BY DEF Typed
<1> DEFINE t == buf \o SubSeq(wire, 1, n)
           r == SubSeq(wire, n + 1, Len(wire))
<1>3. /\ t \in Seq(Lines) /\ r \in Seq(Lines)
      /\ Len(t) = Len(buf) + n /\ Len(r) = Len(wire) - n
      /\ \A i \in 1..Len(buf) : t[i] = buf[i]
      /\ \A i \in 1..n : t[Len(buf) + i] = wire[i]
      /\ \A i \in 1..Len(wire) - n : r[i] = wire[n + i]
  BY <1>2, SplitFacts
<1>4. buf' = t /\ wire' = r
  BY <1>1
<1> HIDE DEF t, r
<1> QED
  BY <1>3, <1>4, Zenon

\* How a reply ends, by phase and call.
LEMMA EndReplyCases ==
    ASSUME Flow, phase \in Waiting, EndReply
    PROVE  LET read == parse_indi(buf)
               own == _pick(read, op.path)
           IN  \/ Fail /\ UNCHANGED done_supported
               \/ /\ phase \in {"probe", "write"}
                  /\ Return({}) /\ UNCHANGED done_supported
               \/ /\ phase = "login"
                  /\ SendRead("probe", "get", Probe, done_supported)
                  /\ UNCHANGED <<found, answer, done_supported>>
               \/ /\ phase \in {"probe", "read", "own"}
                  /\ Unterminated
                  /\ SendRead(phase, cmd.verb, cmd.path, FALSE)
                  /\ done_supported' = FALSE
                  /\ UNCHANGED <<found, answer>>
               \/ /\ phase = "own"
                  /\ Return(found \cup own) /\ UNCHANGED done_supported
               \/ /\ phase = "read" /\ op.verb = "get"
                  /\ Return(own) /\ UNCHANGED done_supported
               \/ /\ phase = "read" /\ op.verb = "children"
                  /\ Return(read \ own) /\ UNCHANGED done_supported
               \/ /\ phase = "read" /\ op.verb = "tree" /\ own # {}
                  /\ Return(read) /\ UNCHANGED done_supported
               \/ /\ phase = "read" /\ op.verb = "tree" /\ own = {}
                  /\ found' = read
                  /\ SendRead("own", "get", op.path, done_supported)
                  /\ UNCHANGED <<answer, done_supported>>
<1>1. CASE phase = "login"
  BY <1>1, Zenon DEF EndReply, EndLogin
<1>2. CASE phase = "write"
  BY <1>2 DEF EndReply
<1>3. CASE phase \in {"probe", "read", "own"} /\ Unterminated
  BY <1>3 DEF EndReply
<1>4. CASE phase \in {"probe", "read", "own"} /\ ~Unterminated
  <2>1. EndRead(parse_indi(buf)) /\ UNCHANGED done_supported
    BY <1>4 DEF EndReply
  <2> QED
    BY <1>4, <2>1 DEF EndRead, EndProbe
<1> QED
  BY <1>1, <1>2, <1>3, <1>4 DEF Waiting

\* The device shows an object at a version there has been.
LEMMA ShownTyped ==
    ASSUME Typed, Counted, inbox # <<>>, NEW p \in Paths \cup {None}, NEW done \in BOOLEAN
    PROVE  Shown(p, done) \in Lines
<1>1. 0 \in 0..MaxCommands /\ sent \in 0..MaxCommands /\ Len(inbox) \in Nat
  BY SessionAssumption DEF Counted, Typed
<1>2. ASSUME p \in Paths PROVE version[p] \in 0..MaxCommands
  BY <1>1, <1>2, SessionAssumption DEF Counted, Typed
<1>3. (IF p = None THEN 0 ELSE version[p]) \in 0..MaxCommands
  BY <1>1, <1>2
<1> QED
  BY <1>3 DEF Shown, Lines

\* A line of a reply: the command it answers stays until its last line, which
\* carries the terminator if it was asked for.
LEMMA AnswerReadTyped ==
    ASSUME Typed, Counted, AnswerRead
    PROVE  LET c == inbox[1]
               last == ~accepted \/ Len(c.todo) = 1
           IN  /\ inbox # <<>> /\ c \in Commands /\ c.verb \in Reading
               /\ c.todo[1] \in Paths \cup {None}
               /\ Shown(c.todo[1], last /\ c.done /\ echoes) \in Lines
               /\ wire' = IF accepted
                          THEN Append(wire, Shown(c.todo[1], last /\ c.done /\ echoes))
                          ELSE wire
               /\ last => inbox' = Tail(inbox)
               /\ ~last => /\ inbox' = [inbox EXCEPT ![1] = [c EXCEPT !.todo = Tail(c.todo)]]
                           /\ [c EXCEPT !.todo = Tail(c.todo)] \in Commands
<1> DEFINE c == inbox[1]
           last == ~accepted \/ Len(c.todo) = 1
           d == [c EXCEPT !.todo = Tail(c.todo)]
           line == Shown(c.todo[1], last /\ c.done /\ echoes)
<1>1. inbox # <<>> /\ Head(inbox) = c /\ c \in Commands
  BY DEF AnswerRead, Typed
<1>2. c.todo \in Seq(Paths \cup {None}) /\ c.todo # <<>> /\ c.done \in BOOLEAN
  BY <1>1 DEF Commands
<1>3. Head(c.todo) = c.todo[1] /\ c.todo[1] \in Paths \cup {None}
  BY <1>2
<1>4. line \in Lines
  BY <1>1, <1>2, <1>3, ShownTyped DEF Typed
<1>5. /\ c.verb \in Reading
      /\ wire' = IF accepted THEN Append(wire, line) ELSE wire
  BY <1>1, <1>3 DEF AnswerRead
<1>6. last => inbox' = Tail(inbox)
  BY <1>1 DEF AnswerRead
<1>7. ASSUME ~last
      PROVE  inbox' = [inbox EXCEPT ![1] = d] /\ d \in Commands
  <2>1. inbox' = [inbox EXCEPT ![1].todo = Tail(c.todo)]
    BY <1>1, <1>7 DEF AnswerRead
  <2>2. Tail(c.todo) \in Seq(Paths \cup {None}) /\ Tail(c.todo) # <<>>
    BY <1>2, <1>7, TailFacts
  <2>3. d \in Commands
    BY <1>1, <2>2 DEF Commands
  <2> QED
    BY <2>1, <2>3
<1> HIDE DEF line, d
<1> QED
  BY <1>1, <1>3, <1>4, <1>5, <1>6, <1>7 DEF line, d

SInv == Typed /\ Counted /\ Flow

\* One step for every action: types, versions and flow.
LEMMA StepSession == SInv /\ [Next]_vars => SInv'
<1> SUFFICES ASSUME Typed, Counted, Flow, [Next]_vars PROVE Typed' /\ Counted' /\ Flow'
  BY DEF SInv
<1>1. \A c : Todo(c)' <=> Todo(c')
  OBVIOUS
<1>2. /\ Len(inbox) \in Nat /\ sent \in Nat /\ sent <= MaxCommands
      /\ \A p \in Paths : version[p] \in Nat
  BY SessionAssumption DEF Typed, Counted
<1>3. CASE AnswerRead
  <2> DEFINE c == inbox[1]
             last == ~accepted \/ Len(c.todo) = 1
             line == Shown(c.todo[1], last /\ c.done /\ echoes)
             d == [c EXCEPT !.todo = Tail(c.todo)]
  <2>1. /\ inbox # <<>> /\ line \in Lines
        /\ wire' = IF accepted THEN Append(wire, line) ELSE wire
        /\ last => inbox' = Tail(inbox)
        /\ ~last => inbox' = [inbox EXCEPT ![1] = d] /\ d \in Commands
    BY <1>3, AnswerReadTyped
  <2> HIDE DEF line, d
  <2>2. wire' \in Seq(Lines)
    BY <2>1 DEF Typed
  <2>3. inbox' \in Seq(Commands) /\ Len(inbox') <= Len(inbox)
    <3>1. inbox \in Seq(Commands)
      BY DEF Typed
    <3>2. CASE last
      <4>1. Tail(inbox) \in Seq(Commands) /\ Len(Tail(inbox)) = Len(inbox) - 1
        BY <2>1, <3>1, TailFacts
      <4> QED
        BY <1>2, <2>1, <3>2, <4>1
    <3>3. CASE ~last
      <4> HIDE DEF last
      <4> QED
        BY <2>1, <3>1, <3>3
    <3> QED
      BY <3>2, <3>3
  <2>4. UNCHANGED <<device, client, late, cut>>
    BY <1>3 DEF AnswerRead
  <2>5. Typed' /\ Flow'
    BY <2>2, <2>3, <2>4 DEF Typed, Flow, Todo, device, client
  <2>6. Counted'
    BY <1>2, <2>3, <2>4, <2>5 DEF Counted, device, client, Typed
  <2> QED
    BY <2>5, <2>6
<1>4. CASE AnswerWrite
  <2>1. /\ inbox # <<>> /\ inbox' = Tail(inbox)
        /\ UNCHANGED <<accepted, echoes, open, client, late, cut>>
        /\ version' \in {version, [version EXCEPT ![Head(inbox).path] = @ + 1]}
        /\ wire' \in {wire, Append(wire, Text(FALSE))}
    BY <1>4 DEF AnswerWrite
  <2>2. inbox' \in Seq(Commands) /\ Len(inbox') = Len(inbox) - 1
    BY <2>1 DEF Typed
  <2>3. /\ version' \in [Paths -> Nat]
        /\ \A p \in Paths : version'[p] <= version[p] + 1
    <3>1. version \in [Paths -> Nat]
      BY DEF Typed
    <3>2. PICK p : version' \in {version, [version EXCEPT ![p] = @ + 1]}
      BY <2>1
    <3> QED
      BY <3>1, <3>2
  <2>4. Text(FALSE) \in Lines
    BY SessionAssumption DEF Text, Lines
  <2>5. wire' \in Seq(Lines)
    <3>1. wire \in Seq(Lines)
      BY DEF Typed
    <3>2. \A l \in Lines : Append(wire, l) \in Seq(Lines)
      BY <3>1
    <3>3. Append(wire, Text(FALSE)) \in Seq(Lines)
      BY <2>4, <3>2, Zenon
    <3> QED
      BY <2>1, <3>1, <3>3
  <2>6. Typed' /\ Flow'
    BY <2>1, <2>2, <2>3, <2>5 DEF Typed, Flow, Todo, client
  <2>7. Counted'
    <3>1. sent' = sent
      BY <2>1 DEF client
    <3>2. \A p \in Paths : version'[p] \in Nat /\ version[p] + Len(inbox) <= sent
      BY <2>3 DEF Counted
    <3> QED
      BY <1>2, <2>2, <2>3, <3>1, <3>2 DEF Counted
  <2> QED
    BY <2>6, <2>7
<1>5. CASE AnswerLogin
  <2>1. /\ inbox # <<>> /\ inbox' = Tail(inbox)
        /\ UNCHANGED <<device, client, late, cut>>
        /\ wire' \in {wire, Append(wire, Text(~accepted))}
    BY <1>5 DEF AnswerLogin
  <2>2. inbox' \in Seq(Commands) /\ Len(inbox') = Len(inbox) - 1
    BY <2>1 DEF Typed
  <2>3. Text(~accepted) \in Lines
    BY SessionAssumption DEF Text, Lines, Typed
  <2>4. wire' \in Seq(Lines)
    <3>1. wire \in Seq(Lines)
      BY DEF Typed
    <3>2. Append(wire, Text(~accepted)) \in Seq(Lines)
      BY <2>3, <3>1
    <3> QED
      BY <2>1, <3>1, <3>2
  <2>5. Typed' /\ Flow'
    BY <2>1, <2>2, <2>4 DEF Typed, Flow, Todo, device, client
  <2>6. Counted'
    BY <1>2, <2>1, <2>2 DEF Counted, device, client
  <2> QED
    BY <2>5, <2>6
<1>6. CASE Hangup
  <2>1. inbox' = <<>> /\ open' = FALSE
        /\ UNCHANGED <<accepted, echoes, version, wire, client, late, cut>>
    BY <1>6 DEF Hangup
  <2>2. Typed' /\ Flow'
    <3>1. inbox' \in Seq(Commands)
      BY <2>1
    <3> QED
      BY <2>1, <3>1 DEF Typed, Flow, Todo, client
  <2>3. Counted'
    BY <1>2, <2>1 DEF Counted, client
  <2> QED
    BY <2>2, <2>3
<1>7. CASE Connect
  <2>1. /\ Send("login", "login", None, {}, FALSE)
        /\ UNCHANGED <<device, check_mode, op, found, done_supported, answer, late, cut>>
    BY <1>7 DEF Connect, SendRead
  <2>2. "login" \in Verbs \ Reading /\ "login" \in Phases
    BY DEF Verbs, Reading, Phases, Waiting
  <2>3. /\ inbox' \in Seq(Commands) /\ cmd' \in Commands
        /\ wire' \in Seq(Lines) /\ buf' \in Seq(Lines)
        /\ phase' = "login" /\ cmd'.done = FALSE /\ Counted'
    BY <2>1, <2>2, SendTyped
  <2>4. op.verb = "login"
    BY <1>7 DEF Connect, Flow
  <2>5. Flow'
    BY <2>1, <2>3, <2>4 DEF Flow
  <2> QED
    BY <2>1, <2>2, <2>3, <2>5 DEF Typed, device
<1>8. ASSUME NEW verb \in Reading, NEW path \in Paths, Call(verb, path)
      PROVE  Typed' /\ Counted' /\ Flow'
  <2>1. /\ Send("read", verb, path, {}, done_supported)
        /\ op' = [verb |-> verb, path |-> path] /\ found' = {} /\ answer' = {}
        /\ UNCHANGED <<device, check_mode, done_supported, late, cut>>
    BY <1>8 DEF Call, SendRead
  <2>2. verb \in Verbs /\ "read" \in Phases
    BY DEF Verbs, Phases, Waiting
  <2>3. done_supported \in BOOLEAN
    BY DEF Typed
  <2>4. /\ inbox' \in Seq(Commands) /\ cmd' \in Commands
        /\ wire' \in Seq(Lines) /\ buf' \in Seq(Lines)
        /\ phase' = "read" /\ cmd'.verb = verb /\ cmd'.path = path
        /\ Todo(cmd') /\ Counted'
    BY <2>1, <2>2, <2>3, SendTyped
  <2> QED
    BY <1>1, <2>1, <2>2, <2>4 DEF Typed, Flow, device
<1>9. ASSUME NEW w \in Admitted, Write(w)
      PROVE  Typed' /\ Counted' /\ Flow'
  <2>1. /\ phase = "ready" /\ op' = [verb |-> w.verb, path |-> w.path]
        /\ found' = {} /\ answer' = {}
        /\ UNCHANGED <<device, check_mode, done_supported, late, cut>>
        /\ \/ UNCHANGED <<inbox, wire, phase, cmd, sent, buf>>
           \/ Send("write", w.verb, w.path, w.props, FALSE)
    BY <1>9 DEF Write
  <2>2. /\ w.verb \in Verbs \ Reading /\ w.path \in Paths /\ w.props \in SUBSET Properties
        /\ w.verb \in Writing /\ "write" \in Phases
    BY DEF Admitted, Writes, Verbs, Reading, Writing, Phases, Waiting
  <2>3. CASE UNCHANGED <<inbox, wire, phase, cmd, sent, buf>>
    BY <2>1, <2>2, <2>3 DEF Typed, Counted, Flow, device
  <2>4. CASE Send("write", w.verb, w.path, w.props, FALSE)
    <3>1. /\ inbox' \in Seq(Commands) /\ cmd' \in Commands
          /\ wire' \in Seq(Lines) /\ buf' \in Seq(Lines)
          /\ phase' = "write" /\ cmd'.done = FALSE /\ Counted'
      BY <2>1, <2>2, <2>4, SendTyped
    <3>2. op'.verb \in Writing
      BY <2>1, <2>2
    <3>3. Flow'
      BY <3>1, <3>2 DEF Flow
    <3> QED
      BY <2>1, <2>2, <3>1, <3>3 DEF Typed, device
  <2> QED
    BY <2>1, <2>3, <2>4
<1>10. CASE Refuse
  BY <1>10 DEF Refuse, Typed, Counted, Flow, device, Phases
<1>11. CASE Receive
  <2>3. buf' \in Seq(Lines) /\ wire' \in Seq(Lines)
    BY <1>11, ReceiveFacts
  <2> QED
    BY <1>11, <2>3 DEF Receive, Typed, Counted, Flow, Todo, device
<1>12. CASE Complete \/ TimeOut
  <2>1. /\ phase \in Waiting /\ EndReply /\ UNCHANGED <<device, check_mode, op>>
        /\ late' \in 0..MaxLate /\ cut' \in 0..MaxCut
    <3>1. phase \in Waiting /\ EndReply /\ UNCHANGED <<device, check_mode, op>>
      BY <1>12 DEF Complete, TimeOut
    <3>2. /\ late' = late \/ (late < MaxLate /\ late' = late + 1)
          /\ cut' = cut \/ (cut < MaxCut /\ cut' = cut + 1)
      BY <1>12 DEF Complete, TimeOut
    <3>3. MaxLate \in Nat /\ MaxCut \in Nat /\ late \in 0..MaxLate /\ cut \in 0..MaxCut
      BY SessionAssumption DEF Typed
    <3>4. late' \in 0..MaxLate /\ cut' \in 0..MaxCut
      BY <3>2, <3>3
    <3> QED
      BY <3>1, <3>4
  <2> DEFINE read == parse_indi(buf)
             own == _pick(read, op.path)
             Rest == /\ inbox' \in Seq(Commands) /\ cmd' \in Commands
                     /\ wire' \in Seq(Lines) /\ buf' \in Seq(Lines)
                     /\ phase' \in Phases /\ found' \in SUBSET Shows
                     /\ answer' \in SUBSET Shows /\ done_supported' \in BOOLEAN
                     /\ Counted' /\ Flow'
  <2>2. Rest => Typed' /\ Counted' /\ Flow'
    BY <2>1 DEF Typed, device
  <2>3. read \in SUBSET Shows /\ own \in SUBSET Shows
    BY ParsedShows DEF Typed, _pick
  <2> HIDE DEF read, own
  <2>4. ASSUME NEW result \in SUBSET Shows,
               Fail \/ Return(result), UNCHANGED done_supported
        PROVE  Rest
    BY <2>1, <2>4 DEF Fail, Return, Typed, Counted, Flow, Phases, Waiting, device
  <2>5. ASSUME NEW next \in {"probe", "read", "own"}, NEW verb \in Reading,
               NEW path \in Paths, NEW done \in BOOLEAN, SendRead(next, verb, path, done),
               found' \in SUBSET Shows, answer' \in SUBSET Shows, done_supported' \in BOOLEAN,
               next = "probe" => op.verb = "login",
               next = "read" => op.verb = verb /\ op.path = path,
               next = "own" => op.verb = "tree" /\ verb = "get" /\ op.path = path
        PROVE  Rest
    <3>1. verb \in Verbs /\ next \in Phases
      BY DEF Verbs, Phases, Waiting
    <3>2. Send(next, verb, path, {}, done)
      BY <2>5 DEF SendRead
    <3>3. /\ inbox' \in Seq(Commands) /\ cmd' \in Commands
          /\ wire' \in Seq(Lines) /\ buf' \in Seq(Lines)
          /\ phase' = next /\ cmd'.verb = verb /\ cmd'.path = path
          /\ Todo(cmd') /\ Counted'
      BY <2>1, <3>1, <3>2, SendTyped
    <3> QED
      BY <1>1, <2>1, <2>5, <3>1, <3>3 DEF Flow
  <2> HIDE DEF Rest
  <2>6. "get" \in Reading /\ Probe \in Paths /\ done_supported \in BOOLEAN
    BY SessionAssumption DEF Reading, Typed
  <2>7. found \in SUBSET Shows /\ answer \in SUBSET Shows
    BY DEF Typed
  <2>8. CASE /\ phase = "login"
             /\ SendRead("probe", "get", Probe, done_supported)
             /\ UNCHANGED <<found, answer, done_supported>>
    <3>1. op.verb = "login"
      BY <2>8 DEF Flow
    <3> QED
      BY <2>2, <2>5, <2>6, <2>7, <2>8, <3>1
  <2>9. CASE /\ phase \in {"probe", "read", "own"}
             /\ SendRead(phase, cmd.verb, cmd.path, FALSE)
             /\ done_supported' = FALSE
             /\ UNCHANGED <<found, answer>>
    <3>1. cmd.verb \in Reading /\ cmd.path \in Paths
      BY <2>9 DEF Flow
    <3>2. /\ phase = "probe" => op.verb = "login"
          /\ phase = "read" => op.verb = cmd.verb /\ op.path = cmd.path
          /\ phase = "own" => op.verb = "tree" /\ cmd.verb = "get" /\ op.path = cmd.path
      BY DEF Flow
    <3> QED
      BY <2>2, <2>5, <2>7, <2>9, <3>1, <3>2
  <2>10. CASE /\ phase = "read" /\ op.verb = "tree"
              /\ found' = read
              /\ SendRead("own", "get", op.path, done_supported)
              /\ UNCHANGED <<answer, done_supported>>
    <3>1. op.path \in Paths
      BY <2>10 DEF Flow
    <3> QED
      BY <2>2, <2>3, <2>5, <2>6, <2>7, <2>10, <3>1
  <2>11. CASE \E result \in SUBSET Shows :
                 (Fail \/ Return(result)) /\ UNCHANGED done_supported
    BY <2>2, <2>4, <2>11
  <2>12. {} \in SUBSET Shows /\ found \cup own \in SUBSET Shows /\ read \ own \in SUBSET Shows
    BY <2>3, <2>7
  <2> QED
    BY <2>1, <2>2, <2>3, <2>8, <2>9, <2>10, <2>11, <2>12, EndReplyCases DEF read, own
<1>13. CASE Break \/ UNCHANGED vars
  BY <1>13 DEF Break, Fail, vars, device, client, Typed, Counted, Flow, Todo, Phases
<1> QED
  BY <1>3, <1>4, <1>5, <1>6, <1>7, <1>8, <1>9, <1>10, <1>11, <1>12, <1>13 DEF Next

\* The types and the flow hold of every session.
LEMMA SessionInvariant == Spec => []SInv
<1>1. Init => SInv
  <2> SUFFICES ASSUME Init PROVE SInv
    OBVIOUS
  <2>1. "login" \in Verbs \ Reading
    BY DEF Verbs, Reading
  <2>2. cmd \in Commands /\ cmd.done = FALSE
    <3>1. ASSUME NEW done \in BOOLEAN
          PROVE  /\ Command("login", None, {}, done) \in Commands
                 /\ Command("login", None, {}, done).done = done
      BY <2>1, CommandTyped
    <3> QED
      BY <3>1, Zenon DEF Init
  <2>3. inbox \in Seq(Commands) /\ wire \in Seq(Lines) /\ buf \in Seq(Lines)
    BY DEF Init
  <2>4. Typed
    <3>1. op \in [verb : Verbs, path : Paths \cup {None}]
      BY <2>1 DEF Init
    <3>2. late \in 0..MaxLate /\ cut \in 0..MaxCut
      BY SessionAssumption DEF Init
    <3>3. version \in [Paths -> Nat] /\ found \in SUBSET Shows /\ answer \in SUBSET Shows
      BY DEF Init
    <3>4. /\ accepted \in BOOLEAN /\ echoes \in BOOLEAN /\ done_supported \in BOOLEAN
          /\ open \in BOOLEAN /\ check_mode \in BOOLEAN /\ phase \in Phases
      BY SessionAssumption DEF Init, Phases
    <3> QED
      BY <2>2, <2>3, <3>1, <3>2, <3>3, <3>4 DEF Typed
  <2>5. Counted
    BY SessionAssumption DEF Init, Counted
  <2>6. Flow
    BY DEF Init, Flow
  <2> QED
    BY <2>4, <2>5, <2>6 DEF SInv
<1> QED
  BY <1>1, StepSession, PTL DEF Spec

\* Every variable of a session stays in its set, and what is parsed is an object,
\* for every tree, every registry and every number of late and cut replies.
THEOREM SessionTyping == Spec => []TypeOK
<1>1. SInv => TypeOK
  <2> SUFFICES ASSUME Typed, Counted PROVE TypeOK
    BY DEF SInv
  <2>1. ASSUME NEW p \in Paths PROVE version[p] \in 0..MaxCommands
    <3>1. version[p] \in Nat /\ Len(inbox) \in Nat
      BY DEF Typed
    <3> QED
      BY <3>1, SessionAssumption DEF Counted
  <2>2. version \in [Paths -> 0..MaxCommands]
    BY <2>1 DEF Typed
  <2>3. ASSUME NEW i \in DOMAIN inbox
        PROVE  inbox[i].verb \in Verbs /\ inbox[i].path \in Paths \cup {None}
                 /\ inbox[i].todo # <<>>
    BY DEF Typed, Commands
  <2>4. /\ \A i \in DOMAIN wire : wire[i] \in Lines
        /\ \A i \in DOMAIN buf : buf[i] \in Lines
    BY DEF Typed
  <2>5. \A l \in found \cup answer : l \in Lines /\ l.path \in Paths
    BY DEF Typed, Shows
  <2>6. op.verb \in Verbs /\ op.path \in Paths \cup {None}
    BY DEF Typed
  <2> QED
    BY <2>2, <2>3, <2>4, <2>5, <2>6 DEF TypeOK, Typed, Counted
<1> QED
  BY <1>1, SessionInvariant, PTL

(***************************************************************************)
(* get() shows its object.                                                 *)
(***************************************************************************)

\* However late replies come and whatever they show, a get() returns its object
\* or nothing: _pick never takes the only reply there was for the answer.
THEOREM GetsFit == Spec => []GetShowsItsObject
<1>1. Init => GetShowsItsObject
  BY DEF Init, GetShowsItsObject
<1>2. SInv /\ GetShowsItsObject /\ [Next]_vars => GetShowsItsObject'
  <2> SUFFICES ASSUME Flow, GetShowsItsObject, [Next]_vars,
                      phase' = "ready", op'.verb = "get"
               PROVE  \A l \in answer' : l.path = op'.path
    BY DEF SInv, GetShowsItsObject
  <2>1. CASE \/ AnswerRead \/ AnswerWrite \/ AnswerLogin \/ Hangup \/ Receive
             \/ UNCHANGED vars
    <3>1. UNCHANGED <<phase, op, answer>>
      BY <2>1 DEF AnswerRead, AnswerWrite, AnswerLogin, Hangup, Receive, vars, client
    <3> QED
      BY <3>1 DEF GetShowsItsObject
  <2>2. CASE Connect \/ Refuse \/ Break \/ \E verb \in Reading, p \in Paths : Call(verb, p)
    BY <2>2 DEF Connect, Call, SendRead, Send, Refuse, Break, Fail
  <2>3. CASE \E w \in Admitted : Write(w)
    BY <2>3 DEF Write
  <2>4. CASE Complete \/ TimeOut
    <3>1. phase \in Waiting /\ EndReply /\ op' = op
      BY <2>4 DEF Complete, TimeOut
    <3>2. ASSUME NEW next, NEW verb, NEW path, NEW done, SendRead(next, verb, path, done)
          PROVE  phase' = next
      BY <3>2 DEF SendRead, Send
    <3>3. \/ answer' = {}
          \/ phase = "own"
          \/ op.verb = "children" \/ op.verb = "tree"
          \/ answer' = _pick(parse_indi(buf), op.path)
      BY <3>1, <3>2, EndReplyCases DEF Fail, Return
    <3>4. answer' = {} \/ answer' = _pick(parse_indi(buf), op.path)
      BY <3>1, <3>3 DEF Flow
    <3> QED
      BY <3>1, <3>4 DEF _pick
  <2> QED
    BY <2>1, <2>2, <2>3, <2>4 DEF Next
<1> QED
  BY <1>1, <1>2, SessionInvariant, PTL DEF Spec

(***************************************************************************)
(* Silence does not cost the terminator.                                   *)
(***************************************************************************)

\* The command sent last is still to be answered, and asks for the terminator.
Coming ==
    inbox # <<>> /\ inbox[Len(inbox)].done /\ inbox[Len(inbox)].verb \in Reading

\* A device that keeps the connection and echoes the terminator sends it, unless
\* it has done so, to the command the client is waiting for.
DoneComes ==
    accepted /\ echoes /\ open /\ phase \in Waiting /\ cmd.done =>
       Coming \/ has_done(wire) \/ has_done(buf)

\* A read that asks for the terminator is last in the queue once it is sent.
LEMMA SendComes ==
    ASSUME Typed, open, NEW next, NEW verb \in Verbs, NEW path \in Paths \cup {None},
           NEW props \in SUBSET Properties, NEW done \in BOOLEAN,
           verb \in Reading => path \in Paths, done => verb \in Reading,
           Send(next, verb, path, props, done)
    PROVE  cmd'.done => Coming'
<1> DEFINE c == Command(verb, path, props, done)
<1>1. c \in Commands /\ c.verb = verb /\ c.done = done
  BY CommandTyped
<1>2. cmd' = c /\ inbox' = Append(inbox, c)
  BY DEF Send
<1> HIDE DEF c
<1>3. inbox' # <<>> /\ inbox'[Len(inbox')] = c
  BY <1>1, <1>2 DEF Typed
<1> QED
  BY <1>1, <1>2, <1>3 DEF Coming

\* What stays last in the queue when its head goes.
LEMMA TailComes ==
    ASSUME Typed, Coming, Len(inbox) # 1, inbox' = Tail(inbox)
    PROVE  Coming'
<1>1. inbox \in Seq(Commands) /\ inbox # <<>>
  BY DEF Typed, Coming
<1>2. /\ Len(inbox) \in Nat \ {0}
      /\ inbox' # <<>> /\ Len(inbox') = Len(inbox) - 1
      /\ \A i \in 1..Len(inbox) - 1 : inbox'[i] = inbox[i + 1]
  BY <1>1, TailFacts
<1>3. inbox'[Len(inbox')] = inbox[Len(inbox)]
  BY <1>2
<1> QED
  BY <1>2, <1>3 DEF Coming

\* One step for every action.
LEMMA StepDone ==
    ASSUME SInv, SInv', DoneComes, [Next]_vars
    PROVE  DoneComes'
<1> SUFFICES ASSUME accepted', echoes', open', phase' \in Waiting, cmd'.done
             PROVE  Coming' \/ has_done(wire') \/ has_done(buf')
  BY DEF DoneComes, has_done
<1>1. Typed /\ Counted /\ Flow
  BY DEF SInv
<1>2. /\ wire \in Seq(Lines) /\ buf \in Seq(Lines) /\ inbox \in Seq(Commands)
      /\ Len(inbox) \in Nat
  BY <1>1 DEF Typed
<1>3. open
  BY DEF Next, AnswerRead, AnswerWrite, AnswerLogin, Hangup, Connect, Call, Refuse,
         Write, Receive, Complete, TimeOut, Break, vars, device
<1>4. accepted /\ echoes
  BY DEF Next, AnswerRead, AnswerWrite, AnswerLogin, Hangup, Connect, Call, Refuse,
         Write, Receive, Complete, TimeOut, Break, vars, device
<1>5. CASE AnswerRead
  <2> DEFINE c == inbox[1]
             last == ~accepted \/ Len(c.todo) = 1
             line == Shown(c.todo[1], last /\ c.done /\ echoes)
             d == [c EXCEPT !.todo = Tail(c.todo)]
  <2>1. /\ inbox # <<>> /\ c \in Commands /\ line \in Lines
        /\ wire' = Append(wire, line)
        /\ last => inbox' = Tail(inbox)
        /\ ~last => inbox' = [inbox EXCEPT ![1] = d] /\ d \in Commands
    BY <1>1, <1>4, <1>5, AnswerReadTyped
  <2>2. phase \in Waiting /\ cmd.done /\ buf' = buf
    BY <1>5 DEF AnswerRead, client
  <2>3. d.done = c.done /\ d.verb = c.verb
    BY <2>1 DEF Commands
  <2>4. last /\ c.done => line.done
    BY <1>4 DEF Shown
  <2> HIDE DEF line, d
  <2>5. \A i \in DOMAIN wire : i \in DOMAIN wire' /\ wire'[i] = wire[i]
    BY <1>2, <2>1
  <2>6. Len(wire) + 1 \in DOMAIN wire' /\ wire'[Len(wire) + 1] = line
    BY <1>2, <2>1
  <2>7. CASE has_done(wire) \/ has_done(buf)
    BY <2>2, <2>5, <2>7 DEF has_done
  <2>8. CASE Coming /\ last
    <3>1. CASE Len(inbox) = 1
      BY <2>4, <2>6, <2>8, <3>1 DEF Coming, has_done
    <3>2. CASE Len(inbox) # 1
      BY <1>1, <2>1, <2>8, <3>2, TailComes
    <3> QED
      BY <3>1, <3>2
  <2>9. CASE Coming /\ ~last
    <3> HIDE DEF last
    <3>1. inbox' = [inbox EXCEPT ![1] = d]
      BY <2>1, <2>9
    <3>2. inbox' # <<>> /\ Len(inbox') = Len(inbox)
      BY <1>2, <2>1, <3>1
    <3>3. /\ inbox'[Len(inbox')].done = inbox[Len(inbox)].done
          /\ inbox'[Len(inbox')].verb = inbox[Len(inbox)].verb
      <4>1. CASE Len(inbox) = 1
        BY <1>2, <2>3, <3>1, <3>2, <4>1
      <4>2. CASE Len(inbox) # 1
        BY <1>2, <3>1, <3>2, <4>2
      <4> QED
        BY <4>1, <4>2
    <3> QED
      BY <2>9, <3>2, <3>3 DEF Coming
  <2> QED
    BY <1>3, <1>4, <2>2, <2>7, <2>8, <2>9 DEF DoneComes
<1>6. CASE AnswerWrite \/ AnswerLogin
  <2>1. /\ inbox # <<>> /\ inbox[1].verb \notin Reading /\ inbox' = Tail(inbox)
        /\ phase \in Waiting /\ cmd.done /\ buf' = buf
        /\ wire' = wire \/ \E x : wire' = Append(wire, x)
    <3>1. inbox # <<>> /\ Head(inbox) = inbox[1]
      <4>1. inbox # <<>>
        BY <1>6 DEF AnswerWrite, AnswerLogin
      <4> QED
        BY <1>2, <4>1
    <3>2. inbox[1].verb \notin Reading
      BY <1>6, <3>1 DEF AnswerWrite, AnswerLogin, Reading, Writing
    <3>3. inbox' = Tail(inbox) /\ UNCHANGED client
      BY <1>6 DEF AnswerWrite, AnswerLogin
    <3>4. wire' = wire \/ \E x : wire' = Append(wire, x)
      BY <1>6 DEF AnswerWrite, AnswerLogin
    <3> QED
      BY <3>1, <3>2, <3>3, <3>4 DEF client
  <2>2. \A i \in DOMAIN wire : i \in DOMAIN wire' /\ wire'[i] = wire[i]
    <3>1. \A x : \A i \in DOMAIN wire : i \in DOMAIN Append(wire, x) /\ Append(wire, x)[i] = wire[i]
      BY <1>2
    <3> QED
      BY <2>1, <3>1, Zenon
  <2>3. CASE has_done(wire) \/ has_done(buf)
    BY <2>1, <2>2, <2>3 DEF has_done
  <2>4. CASE Coming
    BY <1>1, <2>1, <2>4, TailComes DEF Coming
  <2> QED
    BY <1>3, <1>4, <2>1, <2>3, <2>4 DEF DoneComes
<1>7. CASE Receive
  <2>2. phase \in Waiting /\ cmd.done /\ inbox' = inbox
    BY <1>7 DEF Receive
  <2>3. PICK n \in 1..Len(wire) :
           /\ buf' \in Seq(Lines) /\ wire' \in Seq(Lines)
           /\ Len(buf') = Len(buf) + n /\ Len(wire') = Len(wire) - n
           /\ \A i \in 1..Len(buf) : buf'[i] = buf[i]
           /\ \A i \in 1..n : buf'[Len(buf) + i] = wire[i]
           /\ \A i \in 1..Len(wire) - n : wire'[i] = wire[n + i]
    BY <1>1, <1>7, ReceiveFacts
  <2>4. Len(buf) \in Nat /\ Len(wire) \in Nat
    BY <1>2
  <2>5. CASE has_done(buf)
    <3>1. PICK i \in 1..Len(buf) : buf[i].done
      BY <1>2, <2>5 DEF has_done
    <3>2. i \in 1..Len(buf') /\ buf'[i].done
      BY <2>3, <2>4, <3>1
    <3>3. DOMAIN buf' = 1..Len(buf')
      BY <2>3
    <3> QED
      BY <3>2, <3>3, Zenon DEF has_done
  <2>6. CASE has_done(wire)
    <3>1. PICK i \in 1..Len(wire) : wire[i].done
      BY <1>2, <2>6 DEF has_done
    <3>2. CASE i <= n
      <4>1. Len(buf) + i \in 1..Len(buf') /\ buf'[Len(buf) + i].done
        BY <2>3, <2>4, <3>1, <3>2
      <4>2. DOMAIN buf' = 1..Len(buf')
        BY <2>3
      <4> QED
        BY <4>1, <4>2, Zenon DEF has_done
    <3>3. CASE i > n
      <4>1. i - n \in 1..Len(wire) - n /\ n + (i - n) = i
        BY <2>4, <3>1, <3>3
      <4>2. i - n \in 1..Len(wire') /\ wire'[i - n].done
        BY <2>3, <3>1, <4>1
      <4> QED
        BY <2>3, <4>2 DEF has_done
    <3> QED
      BY <2>4, <3>1, <3>2, <3>3
  <2>7. CASE Coming
    BY <2>2, <2>7 DEF Coming
  <2> QED
    BY <1>3, <1>4, <2>2, <2>5, <2>6, <2>7 DEF DoneComes
<1>8. CASE \E verb \in Reading, p \in Paths : Call(verb, p)
  <2>1. PICK verb \in Reading, p \in Paths : Send("read", verb, p, {}, done_supported)
    BY <1>8 DEF Call, SendRead
  <2>2. verb \in Verbs /\ done_supported \in BOOLEAN
    BY <1>1 DEF Verbs, Typed
  <2> QED
    BY <1>1, <1>3, <2>1, <2>2, SendComes
<1>9. CASE Connect
  BY <1>9 DEF Connect, SendRead, Send, Command
<1>10. CASE \E w \in Admitted : Write(w)
  <2>1. PICK w \in Admitted :
           \/ phase' = "ready"
           \/ Send("write", w.verb, w.path, w.props, FALSE)
    BY <1>10 DEF Write
  <2> QED
    BY <2>1 DEF Send, Command, Waiting
<1>11. CASE Complete \/ TimeOut
  <2>1. phase \in Waiting /\ EndReply
    BY <1>11 DEF Complete, TimeOut
  <2>2. ASSUME NEW next, NEW verb \in Reading, NEW path \in Paths, NEW done \in BOOLEAN,
               SendRead(next, verb, path, done)
        PROVE  Coming'
    <3>1. verb \in Verbs
      BY DEF Verbs
    <3> QED
      BY <1>1, <1>3, <2>2, <3>1, SendComes DEF SendRead
  <2>3. ~Fail /\ \A result : ~Return(result)
    BY DEF Fail, Return, Waiting
  <2>4. "get" \in Reading /\ Probe \in Paths /\ done_supported \in BOOLEAN
    BY <1>1, SessionAssumption DEF Reading, Typed
  <2>5. phase \in {"probe", "read", "own"} => cmd.verb \in Reading /\ cmd.path \in Paths
    BY <1>1 DEF Flow
  <2>6. phase = "read" /\ op.verb = "tree" => op.path \in Paths
    BY <1>1 DEF Flow
  <2>7. \/ SendRead("probe", "get", Probe, done_supported)
        \/ /\ phase \in {"probe", "read", "own"}
           /\ SendRead(phase, cmd.verb, cmd.path, FALSE)
        \/ /\ phase = "read" /\ op.verb = "tree"
           /\ SendRead("own", "get", op.path, done_supported)
    BY <1>1, <2>1, <2>3, EndReplyCases
  <2> QED
    BY <2>2, <2>4, <2>5, <2>6, <2>7
<1>12. CASE Hangup \/ Refuse \/ Break
  BY <1>12 DEF Hangup, Refuse, Break, Fail, Waiting
<1>13. CASE UNCHANGED vars
  BY <1>3, <1>4, <1>13 DEF DoneComes, Coming, has_done, vars, client, device
<1> QED
  BY <1>5, <1>6, <1>7, <1>8, <1>9, <1>10, <1>11, <1>12, <1>13 DEF Next

\* However many replies do not come, a session with a device that echoes the
\* terminator goes on asking for it, unless a reply was cut or the connection
\* closed.
THEOREM DoneKept == Spec => SilenceKeepsDone
<1> DEFINE Step == accepted /\ echoes /\ open /\ cut' = 0 => done_supported' = done_supported
<1>1. Init => DoneComes
  BY DEF Init, DoneComes, Waiting
<1>2. SInv /\ SInv' /\ DoneComes /\ [Next]_vars => DoneComes'
  BY StepDone
<1>3. SInv /\ DoneComes /\ [Next]_vars => [Step]_vars
  <2> SUFFICES ASSUME SInv, DoneComes, Next, accepted, echoes, open, cut' = 0,
                      done_supported' # done_supported
               PROVE  FALSE
    BY DEF vars, client
  <2>1. Typed /\ Flow
    BY DEF SInv
  <2>2. Complete \/ TimeOut
    BY DEF Next, AnswerRead, AnswerWrite, AnswerLogin, Hangup, Connect, Call, Refuse,
           Write, Receive, Break, client
  <2>3. phase \in Waiting /\ EndReply
    BY <2>2 DEF Complete, TimeOut
  <2>4. Unterminated
    BY <2>1, <2>3, EndReplyCases
  <2>5. cmd.done /\ buf # <<>> /\ ~has_done(buf)
    BY <2>4 DEF Unterminated
  <2>6. TimeOut
    BY <2>2, <2>5 DEF Complete, Terminated
  <2>7. inbox = <<>> /\ wire = <<>>
    BY <2>1, <2>5, <2>6 DEF TimeOut, Typed
  <2>8. ~Coming /\ ~has_done(wire)
    BY <2>7 DEF Coming, has_done
  <2> QED
    BY <2>3, <2>5, <2>8 DEF DoneComes
<1> QED
  BY <1>1, <1>2, <1>3, SessionInvariant, PTL DEF Spec, SilenceKeepsDone

(***************************************************************************)
(* Reads of a device that keeps up.                                        *)
(***************************************************************************)

Prompt == late = 0 /\ cut = 0 /\ open /\ accepted

Quiet == inbox = <<>> /\ wire = <<>>

\* The lines show these objects and no others, as they are.
ShowsNow(lines, paths) ==
    /\ {l.path : l \in lines} = paths
    /\ \A l \in lines : l.ver = version[l.path]

\* What of a reply is read, what is on its way, and what is still to be sent,
\* are the reply; its lines show objects as they are; the terminator is on the
\* last.
Arriving ==
    /\ inbox # <<>> => Len(inbox) = 1 /\ inbox[1].verb \in Reading
    /\ ToSet(cmd.todo) = {l.path : l \in ToSet(buf) \cup ToSet(wire)}
                            \cup (IF inbox = <<>> THEN {} ELSE ToSet(inbox[1].todo))
    /\ \A l \in ToSet(buf) \cup ToSet(wire) : l.path # None => l.ver = version[l.path]
    /\ \A i \in DOMAIN wire : wire[i].done => i = Len(wire) /\ inbox = <<>>
    /\ has_done(buf) => Quiet

\* What a read is to return.
Wanted ==
    CASE op.verb = "get" -> {op.path}
      [] op.verb = "children" -> ToSet(Children[op.path])
      [] op.verb = "tree" -> {op.path} \cup ToSet(Under[op.path])

\* As long as every reply comes in time, no two commands are under way at once.
InStep ==
    Prompt =>
       /\ phase \in {"new", "ready"} => Quiet
       /\ phase \in {"probe", "read", "own"} => Arriving
       /\ phase = "own" => ShowsNow(found, ToSet(Under[op.path]))
       /\ phase = "ready" /\ op.verb \in Reading => ShowsNow(answer, Wanted)

\* Of an object shown at all there is a last line.
LEMMA LastLine ==
    ASSUME NEW lines \in Seq(Lines), NEW i \in DOMAIN lines
    PROVE  \E j \in DOMAIN lines :
              /\ lines[j].path = lines[i].path
              /\ \A k \in j + 1..Len(lines) : lines[k].path # lines[j].path
<1> DEFINE Gaps == {m \in Nat : /\ Len(lines) - m \in DOMAIN lines
                                /\ lines[Len(lines) - m].path = lines[i].path}
<1>1. Len(lines) \in Nat /\ DOMAIN lines = 1..Len(lines)
  OBVIOUS
<1>2. Len(lines) - i \in Gaps
  BY <1>1
<1>3. PICK n \in Gaps : \A m \in Gaps : <<m, n>> \notin OpToRel(<, Nat)
  <2>1. Gaps \subseteq Nat /\ Gaps # {}
    BY <1>2
  <2> HIDE DEF Gaps
  <2> QED
    BY <2>1, NatLessThanWellFounded, WFMin
<1>4. ASSUME NEW k \in Len(lines) - n + 1..Len(lines), lines[k].path = lines[i].path
      PROVE  FALSE
  <2>1. n \in Nat /\ Len(lines) - n \in 1..Len(lines)
    BY <1>1
  <2>2. Len(lines) - k \in Nat /\ Len(lines) - k < n /\ k \in 1..Len(lines)
    BY <1>1, <2>1
  <2>3. Len(lines) - (Len(lines) - k) = k
    BY <1>1, <2>2
  <2>4. Len(lines) - k \in Gaps
    BY <1>1, <1>4, <2>2, <2>3
  <2>5. <<Len(lines) - k, n>> \in OpToRel(<, Nat)
    BY <2>1, <2>2 DEF OpToRel
  <2> QED
    BY <1>3, <2>4, <2>5
<1> QED
  BY <1>1, <1>4

\* What is parsed of a reply whose lines are all fresh shows its objects.
LEMMA ParsedShowsNow ==
    ASSUME NEW lines \in Seq(Lines),
           \A l \in ToSet(lines) : l.path # None => l.ver = version[l.path]
    PROVE  ShowsNow(parse_indi(lines), {l.path : l \in ToSet(lines)} \ {None})
<1> DEFINE read == parse_indi(lines)
<1>1. read \subseteq ToSet(lines) /\ \A l \in read : l.path # None
  BY DEF parse_indi, ToSet
<1>2. ASSUME NEW i \in DOMAIN lines, lines[i].path # None
      PROVE  \E l \in read : l.path = lines[i].path
  <2>1. PICK j \in DOMAIN lines :
           /\ lines[j].path = lines[i].path
           /\ \A k \in j + 1..Len(lines) : lines[k].path # lines[j].path
    BY LastLine
  <2>2. lines[j] \in read
    BY <1>2, <2>1 DEF parse_indi
  <2> QED
    BY <2>1, <2>2
<1> HIDE DEF read
<1>3. \A l \in ToSet(lines) : l.path # None => \E k \in read : k.path = l.path
  BY <1>2 DEF ToSet
<1>4. \A l \in read : l.ver = version[l.path]
  BY <1>1
<1>5. {l.path : l \in read} = {l.path : l \in ToSet(lines)} \ {None}
  BY <1>1, <1>3
<1> QED
  BY <1>4, <1>5 DEF ShowsNow, read

\* The objects a read has to be answered with.
LEMMA TodoShows ==
    ASSUME SInv, phase \in {"probe", "read", "own"}
    PROVE  ToSet(cmd.todo) \ {None} =
              CASE cmd.verb = "get" -> {cmd.path}
                [] cmd.verb = "children" -> {cmd.path} \cup ToSet(Children[cmd.path])
                [] cmd.verb = "tree" -> ToSet(Under[cmd.path])
<1>1. cmd.verb \in {"get", "children", "tree"} /\ cmd.path \in Paths /\ None \notin Paths
  BY SessionAssumption DEF SInv, Flow, Reading
<1>2. cmd.todo = Command(cmd.verb, cmd.path, {}, cmd.done).todo
  BY DEF SInv, Flow, Todo
<1>3. Under[cmd.path] \in Seq(Paths) /\ Children[cmd.path] \in Seq(Paths)
  BY <1>1, SessionAssumption
<1>4. ToSet(Under[cmd.path]) \subseteq Paths /\ ToSet(Children[cmd.path]) \subseteq Paths
  BY <1>3 DEF ToSet
<1>5. CASE cmd.verb = "get"
  <2>1. cmd.todo = <<cmd.path>>
    BY <1>2, <1>5 DEF Command
  <2>2. ToSet(cmd.todo) = {cmd.path}
    BY <2>1 DEF ToSet
  <2> QED
    BY <1>1, <1>5, <2>2
<1>6. CASE cmd.verb = "children"
  <2>1. cmd.todo = <<cmd.path>> \o Children[cmd.path]
    BY <1>2, <1>6 DEF Command, Listed
  <2>2. ToSet(cmd.todo) = {cmd.path} \cup ToSet(Children[cmd.path])
    <3> DEFINE q == Children[cmd.path]
               t == <<cmd.path>> \o q
    <3>1. q \in Seq(Paths)
      BY <1>3
    <3> HIDE DEF q
    <3>2. /\ DOMAIN t = 1..Len(q) + 1 /\ t[1] = cmd.path
          /\ \A i \in 1..Len(q) : t[i + 1] = q[i]
          /\ DOMAIN q = 1..Len(q) /\ Len(q) \in Nat
      BY <3>1
    <3> HIDE DEF t
    <3>3. \A i \in DOMAIN t : i = 1 \/ (i - 1 \in 1..Len(q) /\ t[i] = q[i - 1])
      BY <3>2
    <3>4. \A i \in 1..Len(q) : i + 1 \in DOMAIN t
      BY <3>2
    <3>5. ToSet(t) \subseteq {cmd.path} \cup ToSet(q)
      BY <3>2, <3>3 DEF ToSet
    <3>6. cmd.path \in ToSet(t) /\ ToSet(q) \subseteq ToSet(t)
      BY <3>2, <3>4 DEF ToSet
    <3>7. ToSet(t) = {cmd.path} \cup ToSet(q)
      BY <3>5, <3>6
    <3> QED
      BY <2>1, <3>7 DEF t, q
  <2> QED
    BY <1>1, <1>4, <1>6, <2>2
<1>7. CASE cmd.verb = "tree"
  <2>1. CASE Under[cmd.path] = <<>>
    <3>1. cmd.todo = <<None>>
      BY <1>2, <1>7, <2>1 DEF Command
    <3>2. ToSet(cmd.todo) = {None} /\ ToSet(Under[cmd.path]) = {}
      BY <2>1, <3>1 DEF ToSet
    <3> QED
      BY <1>7, <3>2
  <2>2. CASE Under[cmd.path] # <<>>
    <3>1. cmd.todo = Under[cmd.path]
      BY <1>2, <1>7, <2>2 DEF Command
    <3> QED
      BY <1>1, <1>4, <1>7, <3>1
  <2> QED
    BY <2>1, <2>2
<1> QED
  BY <1>1, <1>5, <1>6, <1>7

\* A read that is sent when nothing is under way has all of its reply to come.
LEMMA SendArrives ==
    ASSUME Typed, Quiet, open, NEW next, NEW verb \in Reading, NEW path \in Paths,
           NEW done \in BOOLEAN, SendRead(next, verb, path, done)
    PROVE  Arriving'
<1> DEFINE c == Command(verb, path, {}, done)
<1>1. c \in Commands /\ c.verb = verb
  <2>1. verb \in Verbs
    BY DEF Verbs
  <2> QED
    BY <2>1, CommandTyped
<1>2. /\ cmd' = c /\ inbox' = Append(inbox, c)
      /\ wire' = <<>> /\ buf' = <<>>
  BY DEF SendRead, Send
<1> HIDE DEF c
<1>3. inbox' # <<>> /\ Len(inbox') = 1 /\ inbox'[1] = c
  BY <1>1, <1>2 DEF Quiet
<1>4. ToSet(wire') = {} /\ ToSet(buf') = {} /\ DOMAIN wire' = {} /\ ~has_done(buf')
  BY <1>2 DEF ToSet, has_done
<1> QED
  BY <1>1, <1>2, <1>3, <1>4 DEF Arriving

\* A line of a reply that is sent in time.
LEMMA AnswerArrives ==
    ASSUME Typed, Counted, Arriving, accepted, AnswerRead
    PROVE  Arriving'
<1> DEFINE c == inbox[1]
           last == ~accepted \/ Len(c.todo) = 1
           line == Shown(c.todo[1], last /\ c.done /\ echoes)
           d == [c EXCEPT !.todo = Tail(c.todo)]
<1>1. /\ inbox # <<>> /\ c \in Commands /\ line \in Lines
      /\ wire' = Append(wire, line)
      /\ last => inbox' = Tail(inbox)
      /\ ~last => inbox' = [inbox EXCEPT ![1] = d] /\ d \in Commands
  BY AnswerReadTyped
<1>2. /\ inbox \in Seq(Commands) /\ wire \in Seq(Lines) /\ Len(wire) \in Nat
      /\ Len(inbox) = 1 /\ c.verb \in Reading
  BY <1>1 DEF Typed, Arriving
<1>3. UNCHANGED <<cmd, buf, version>>
  BY DEF AnswerRead, client, device
<1>4. /\ line.path = c.todo[1]
      /\ line.done => last
      /\ line.path # None => line.ver = version[line.path]
  BY DEF Shown
<1>5. d.todo = Tail(c.todo) /\ d.verb = c.verb
  BY <1>1 DEF Commands
<1>6. c.todo \in Seq(Paths \cup {None}) /\ c.todo # <<>>
  BY <1>1 DEF Commands
<1> HIDE DEF line, d
<1>7. /\ DOMAIN wire' = 1..Len(wire) + 1 /\ DOMAIN wire = 1..Len(wire)
      /\ Len(wire') = Len(wire) + 1 /\ wire'[Len(wire) + 1] = line
      /\ \A i \in 1..Len(wire) : wire'[i] = wire[i]
  BY <1>1, <1>2
<1>8. ToSet(wire') = ToSet(wire) \cup {line}
  <2>1. \A i \in DOMAIN wire' : i \in DOMAIN wire \/ i = Len(wire) + 1
    BY <1>2, <1>7
  <2>2. Len(wire) + 1 \in DOMAIN wire' /\ \A i \in DOMAIN wire : i \in DOMAIN wire'
    BY <1>2, <1>7
  <2> QED
    BY <1>7, <2>1, <2>2 DEF ToSet
<1>9. \A i \in DOMAIN wire' : wire'[i].done => i = Len(wire') /\ last
  <2> HIDE DEF last
  <2>1. \A i \in DOMAIN wire : ~wire[i].done
    BY <1>1 DEF Arriving
  <2>2. \A i \in DOMAIN wire' : i \in DOMAIN wire \/ i = Len(wire) + 1
    BY <1>2, <1>7
  <2> QED
    BY <1>4, <1>7, <2>1, <2>2
<1>10. ~has_done(buf')
  BY <1>1, <1>3 DEF Arriving, Quiet, has_done
<1>11. \A l \in ToSet(buf') \cup ToSet(wire') : l.path # None => l.ver = version'[l.path]
  BY <1>3, <1>4, <1>8 DEF Arriving
<1>12. {l.path : l \in ToSet(buf') \cup ToSet(wire')} =
          {l.path : l \in ToSet(buf) \cup ToSet(wire)} \cup {c.todo[1]}
  <2> DEFINE Old == ToSet(buf) \cup ToSet(wire)
             first == c.todo[1]
  <2>1. ToSet(buf') \cup ToSet(wire') = Old \cup {line}
    BY <1>3, <1>8
  <2>2. line.path = first
    BY <1>4
  <2> HIDE DEF Old, first
  <2>3. {l.path : l \in Old \cup {line}} = {l.path : l \in Old} \cup {first}
    BY <2>2
  <2> QED
    BY <2>1, <2>3, Zenon DEF Old, first
<1>13. CASE last
  <2>1. inbox' = <<>>
    BY <1>1, <1>2, <1>13, TailFacts
  <2>2. ToSet(c.todo) = {c.todo[1]}
    BY <1>2, <1>6, <1>13, TailFacts DEF ToSet
  <2>3. ToSet(cmd'.todo) = {l.path : l \in ToSet(buf') \cup ToSet(wire')}
    BY <1>1, <1>3, <1>12, <2>2 DEF Arriving
  <2> QED
    BY <1>9, <1>10, <1>11, <2>1, <2>3 DEF Arriving
<1>14. CASE ~last
  <2> HIDE DEF last
  <2>1. inbox' # <<>> /\ Len(inbox') = 1 /\ inbox'[1] = d
    <3>1. inbox' = [inbox EXCEPT ![1] = d] /\ d \in Commands
      BY <1>1, <1>14
    <3>2. inbox \in Seq(Commands) /\ Len(inbox) = 1 /\ 1 \in DOMAIN inbox
      BY <1>2
    <3>3. inbox' \in Seq(Commands)
      BY <3>1, <3>2
    <3>4. Len(inbox') = Len(inbox)
      BY <3>1, <3>2
    <3>5. inbox'[1] = d
      BY <3>1, <3>2
    <3>6. inbox' # <<>>
      BY <3>2, <3>3, <3>4
    <3> QED
      BY <3>2, <3>4, <3>5, <3>6
  <2>2. ToSet(c.todo) = {c.todo[1]} \cup ToSet(Tail(c.todo))
    <3> DEFINE q == c.todo
               t == Tail(q)
    <3>1. /\ Len(q) \in Nat \ {0} /\ DOMAIN q = 1..Len(q)
          /\ DOMAIN t = 1..Len(q) - 1
          /\ \A i \in 1..Len(q) - 1 : t[i] = q[i + 1]
      BY <1>6, TailFacts
    <3> HIDE DEF q, t
    <3>2. \A i \in DOMAIN q : i = 1 \/ (i - 1 \in DOMAIN t /\ q[i] = t[i - 1])
      BY <3>1
    <3>3. 1 \in DOMAIN q /\ \A i \in DOMAIN t : i + 1 \in DOMAIN q
      BY <3>1
    <3>4. ToSet(q) = {q[1]} \cup ToSet(t)
      BY <3>1, <3>2, <3>3 DEF ToSet
    <3> QED
      BY <3>4 DEF q, t
  <2>3. ToSet(cmd'.todo) =
           {l.path : l \in ToSet(buf') \cup ToSet(wire')} \cup ToSet(inbox'[1].todo)
    BY <1>1, <1>3, <1>5, <1>12, <2>1, <2>2 DEF Arriving
  <2> QED
    BY <1>2, <1>5, <1>9, <1>10, <1>11, <1>14, <2>1, <2>3 DEF Arriving
<1> QED
  BY <1>13, <1>14

\* Reading some of what has arrived leaves the reply as it is.
LEMMA ReceiveArrives ==
    ASSUME Typed, Arriving, Receive
    PROVE  Arriving'
<1>1. UNCHANGED <<inbox, cmd, version>>
  BY DEF Receive, device
<1>2. /\ buf \in Seq(Lines) /\ wire \in Seq(Lines)
      /\ Len(buf) \in Nat /\ Len(wire) \in Nat
  BY DEF Typed
<1>3. PICK n \in 1..Len(wire) :
         /\ buf' \in Seq(Lines) /\ wire' \in Seq(Lines)
         /\ Len(buf') = Len(buf) + n /\ Len(wire') = Len(wire) - n
         /\ \A i \in 1..Len(buf) : buf'[i] = buf[i]
         /\ \A i \in 1..n : buf'[Len(buf) + i] = wire[i]
         /\ \A i \in 1..Len(wire) - n : wire'[i] = wire[n + i]
  BY ReceiveFacts
<1>4. /\ DOMAIN buf = 1..Len(buf) /\ DOMAIN wire = 1..Len(wire)
      /\ DOMAIN buf' = 1..Len(buf) + n /\ DOMAIN wire' = 1..Len(wire) - n
  BY <1>2, <1>3
<1>5. \A i \in DOMAIN buf' : \/ i \in DOMAIN buf /\ buf'[i] = buf[i]
                             \/ i - Len(buf) \in 1..n /\ buf'[i] = wire[i - Len(buf)]
  BY <1>2, <1>3, <1>4
<1>6. \A i \in DOMAIN wire' : n + i \in DOMAIN wire /\ wire'[i] = wire[n + i]
  BY <1>2, <1>3, <1>4
<1>7. ToSet(buf') \cup ToSet(wire') = ToSet(buf) \cup ToSet(wire)
  <2>1. ToSet(buf') \cup ToSet(wire') \subseteq ToSet(buf) \cup ToSet(wire)
    <3>1. 1..n \subseteq DOMAIN wire
      BY <1>2, <1>4
    <3> QED
      BY <1>5, <1>6, <3>1 DEF ToSet
  <2>2. ToSet(buf) \subseteq ToSet(buf')
    <3>1. DOMAIN buf \subseteq DOMAIN buf'
      BY <1>2, <1>4
    <3> QED
      BY <1>3, <1>4, <3>1 DEF ToSet
  <2>3. ASSUME NEW i \in DOMAIN wire PROVE wire[i] \in ToSet(buf') \cup ToSet(wire')
    <3>1. CASE i <= n
      <4>1. Len(buf) + i \in DOMAIN buf' /\ buf'[Len(buf) + i] = wire[i]
        BY <1>2, <1>3, <1>4, <3>1
      <4> QED
        BY <4>1 DEF ToSet
    <3>2. CASE i > n
      <4>1. i - n \in DOMAIN wire' /\ n + (i - n) = i
        BY <1>2, <1>4, <3>2
      <4>2. wire'[i - n] = wire[i]
        BY <1>6, <4>1
      <4> QED
        BY <4>1, <4>2 DEF ToSet
    <3> QED
      BY <1>2, <1>4, <3>1, <3>2
  <2> QED
    BY <2>1, <2>2, <2>3 DEF ToSet
<1>8. \A i \in DOMAIN wire' : wire'[i].done => i = Len(wire') /\ inbox' = <<>>
  <2>1. \A i \in DOMAIN wire : wire[i].done => i = Len(wire) /\ inbox = <<>>
    BY DEF Arriving
  <2> QED
    BY <1>1, <1>2, <1>3, <1>4, <1>6, <2>1
<1>9. has_done(buf') => Quiet'
  <2> SUFFICES ASSUME NEW i \in DOMAIN buf', buf'[i].done PROVE Quiet'
    BY DEF has_done
  <2>1. CASE i \in DOMAIN buf /\ buf'[i] = buf[i]
    <3>1. wire = <<>>
      BY <2>1 DEF Arriving, has_done, Quiet
    <3> QED
      BY <3>1
  <2>2. CASE i - Len(buf) \in 1..n /\ buf'[i] = wire[i - Len(buf)]
    <3>1. i - Len(buf) \in DOMAIN wire
      BY <1>2, <1>4, <2>2
    <3>2. i - Len(buf) = Len(wire) /\ inbox = <<>>
      BY <2>2, <3>1 DEF Arriving
    <3>3. Len(wire') = 0
      BY <1>2, <1>3, <2>2, <3>2
    <3>4. wire' = <<>>
      BY <1>3, <3>3
    <3> QED
      BY <1>1, <3>2, <3>4 DEF Quiet
  <2> QED
    BY <1>5, <2>1, <2>2
<1> QED
  BY <1>1, <1>7, <1>8, <1>9 DEF Arriving

\* When no reply was late or cut, nothing is under way at the end of a reply.
LEMMA EndsQuiet ==
    ASSUME Typed, Flow, phase \in {"probe", "read", "own"} => Arriving,
           Complete \/ TimeOut, late = 0, cut = 0, late' = 0, cut' = 0
    PROVE  Quiet
<1>1. CASE Complete
  <2>1. phase \in Waiting /\ cmd.done /\ has_done(buf)
    BY <1>1 DEF Complete, Terminated
  <2>2. Arriving
    BY <2>1 DEF Flow, Waiting
  <2> QED
    BY <2>1, <2>2 DEF Arriving
<1>2. CASE TimeOut
  BY <1>2 DEF TimeOut, Quiet
<1> QED
  BY <1>1, <1>2

\* What _pick takes from what is shown, and what it leaves.
LEMMA PickedShowsNow ==
    ASSUME NEW lines, NEW paths, NEW p, ShowsNow(lines, paths)
    PROVE  /\ ShowsNow(_pick(lines, p), paths \cap {p})
           /\ ShowsNow(lines \ _pick(lines, p), paths \ {p})
           /\ _pick(lines, p) # {} <=> p \in paths
<1>1. {l.path : l \in lines} = paths
  BY DEF ShowsNow
<1>2. {l.path : l \in _pick(lines, p)} = paths \cap {p}
  BY <1>1 DEF _pick
<1>3. {l.path : l \in lines \ _pick(lines, p)} = paths \ {p}
  BY <1>1 DEF _pick
<1> QED
  BY <1>1, <1>2, <1>3 DEF ShowsNow, _pick

\* What is read of a reply of which nothing is left to come.
LEMMA ReadShowsNow ==
    ASSUME SInv, phase \in {"probe", "read", "own"}, Arriving, Quiet
    PROVE  ShowsNow(parse_indi(buf),
              CASE cmd.verb = "get" -> {cmd.path}
                [] cmd.verb = "children" -> {cmd.path} \cup ToSet(Children[cmd.path])
                [] cmd.verb = "tree" -> ToSet(Under[cmd.path]))
<1>1. buf \in Seq(Lines)
  BY DEF SInv, Typed
<1>2. ToSet(wire) = {} /\ inbox = <<>>
  BY DEF Quiet, ToSet
<1>3. \A l \in ToSet(buf) : l.path # None => l.ver = version[l.path]
  BY DEF Arriving
<1>4. {l.path : l \in ToSet(buf)} = ToSet(cmd.todo)
  BY <1>2 DEF Arriving
<1>5. ShowsNow(parse_indi(buf), {l.path : l \in ToSet(buf)} \ {None})
  BY <1>1, <1>3, ParsedShowsNow
<1> QED
  BY <1>4, <1>5, TodoShows, Zenon

\* However a reply ends that came in time, what it returns is what is there.
LEMMA EndInStep ==
    ASSUME SInv, Prompt, InStep, Quiet, phase \in Waiting, EndReply,
           UNCHANGED <<version, op, open, accepted>>
    PROVE  InStep'
<1> DEFINE read == parse_indi(buf)
           own == _pick(read, op.path)
<1>1. Typed /\ Flow
  BY DEF SInv
<1>2. /\ phase \in {"probe", "read", "own"} => Arriving
      /\ phase = "own" => ShowsNow(found, ToSet(Under[op.path]))
  BY DEF InStep
<1>3. /\ op.verb \notin Reading \/ phase \in {"read", "own"}
      /\ phase = "read" => op.verb = cmd.verb /\ op.path = cmd.path /\ op.path \in Paths
      /\ phase = "own" => op.verb = "tree" /\ cmd.verb = "get" /\ op.path = cmd.path
      /\ phase \in {"probe", "read", "own"} => cmd.verb \in Reading /\ cmd.path \in Paths
  BY <1>1 DEF Flow, Waiting, Reading, Writing
<1>4. ASSUME NEW result, Return(result), op.verb \in Reading => ShowsNow(result, Wanted)
      PROVE  InStep'
  <2>1. phase' = "ready" /\ answer' = result /\ Quiet'
    BY <1>4 DEF Return, Quiet
  <2>2. op.verb \in Reading => ShowsNow(answer, Wanted)'
    BY <1>4, <2>1 DEF ShowsNow, Wanted
  <2> QED
    BY <2>1, <2>2 DEF InStep
<1>5. ASSUME NEW next \in {"probe", "read", "own"}, NEW verb \in Reading, NEW path \in Paths,
             NEW done \in BOOLEAN, SendRead(next, verb, path, done),
             next = "own" => ShowsNow(found', ToSet(Under[op.path]))
      PROVE  InStep'
  <2>1. Arriving' /\ phase' = next
    BY <1>1, <1>5, SendArrives DEF Prompt, SendRead, Send
  <2>2. next = "own" => ShowsNow(found, ToSet(Under[op.path]))'
    BY <1>5 DEF ShowsNow
  <2> QED
    BY <2>1, <2>2 DEF InStep
<1>6. "get" \in Reading /\ Probe \in Paths /\ done_supported \in BOOLEAN
  BY <1>1, SessionAssumption DEF Reading, Typed
<1>7. ASSUME NEW paths, ShowsNow(read, paths)
      PROVE  /\ ShowsNow(own, paths \cap {op.path})
             /\ ShowsNow(read \ own, paths \ {op.path})
             /\ own # {} <=> op.path \in paths
  <2> HIDE DEF read
  <2> QED
    BY <1>7, PickedShowsNow
<1>8. CASE Fail
  BY <1>8 DEF Fail, InStep
<1>9. CASE phase \in {"probe", "write"} /\ Return({})
  BY <1>3, <1>4, <1>9
<1>10. CASE phase = "login" /\ SendRead("probe", "get", Probe, done_supported)
  BY <1>5, <1>6, <1>10
<1>11. CASE /\ phase \in {"probe", "read", "own"}
            /\ SendRead(phase, cmd.verb, cmd.path, FALSE)
            /\ UNCHANGED found
  BY <1>2, <1>3, <1>5, <1>11
<1>12. CASE phase = "own" /\ Return(found \cup own)
  <2>1. ShowsNow(read, {op.path})
    BY <1>2, <1>3, <1>12, ReadShowsNow
  <2>2. ShowsNow(own, {op.path})
    <3>1. {op.path} \cap {op.path} = {op.path}
      OBVIOUS
    <3> HIDE DEF read, own
    <3> QED
      BY <1>7, <2>1, <3>1, Zenon
  <2> HIDE DEF own, read
  <2>3. ShowsNow(found \cup own, {op.path} \cup ToSet(Under[op.path]))
    BY <1>2, <1>12, <2>2 DEF ShowsNow
  <2>4. Wanted = {op.path} \cup ToSet(Under[op.path])
    BY <1>3, <1>12 DEF Wanted
  <2> QED
    BY <1>4, <1>12, <2>3, <2>4
<1>13. CASE phase = "read" /\ op.verb = "get" /\ Return(own)
  <2>1. ShowsNow(read, {op.path})
    BY <1>2, <1>3, <1>13, ReadShowsNow
  <2>2. ShowsNow(own, {op.path})
    <3>1. {op.path} \cap {op.path} = {op.path}
      OBVIOUS
    <3> HIDE DEF read, own
    <3> QED
      BY <1>7, <2>1, <3>1, Zenon
  <2>3. Wanted = {op.path}
    BY <1>13 DEF Wanted
  <2> HIDE DEF own
  <2> QED
    BY <1>4, <1>13, <2>2, <2>3
<1>14. CASE phase = "read" /\ op.verb = "children" /\ Return(read \ own)
  <2>1. ShowsNow(read, {op.path} \cup ToSet(Children[op.path]))
    BY <1>2, <1>3, <1>14, ReadShowsNow
  <2>2. op.path \notin ToSet(Children[op.path])
    <3>1. op.path \in Seq(STRING)
      BY <1>3, <1>14, SessionAssumption
    <3>2. Len(op.path) # Len(op.path) + 1
      BY <3>1
    <3> QED
      BY <1>3, <1>14, <3>2, SessionAssumption
  <2>3. ({op.path} \cup ToSet(Children[op.path])) \ {op.path} = ToSet(Children[op.path])
    BY <2>2
  <2> HIDE DEF read, own
  <2>4. ShowsNow(read \ own, ToSet(Children[op.path]))
    BY <1>7, <2>1, <2>3, Zenon
  <2>5. Wanted = ToSet(Children[op.path])
    BY <1>14 DEF Wanted
  <2> QED
    BY <1>4, <1>14, <2>4, <2>5
<1>15. CASE phase = "read" /\ op.verb = "tree"
  <2>1. ShowsNow(read, ToSet(Under[op.path]))
    BY <1>2, <1>3, <1>15, ReadShowsNow
  <2>2. own # {} <=> op.path \in ToSet(Under[op.path])
    BY <1>7, <2>1
  <2>3. Wanted = {op.path} \cup ToSet(Under[op.path])
    BY <1>15 DEF Wanted
  <2> HIDE DEF read, own
  <2>4. CASE own # {} /\ Return(read)
    <3>1. Wanted = ToSet(Under[op.path])
      BY <2>2, <2>3, <2>4
    <3> QED
      BY <1>4, <2>1, <2>4, <3>1
  <2>5. CASE found' = read /\ SendRead("own", "get", op.path, done_supported)
    BY <1>3, <1>5, <1>6, <1>15, <2>1, <2>5
  <2>6. \/ Fail
        \/ own # {} /\ Return(read)
        \/ found' = read /\ SendRead("own", "get", op.path, done_supported)
        \/ SendRead(phase, cmd.verb, cmd.path, FALSE) /\ UNCHANGED found
    BY <1>1, <1>15, EndReplyCases DEF read, own
  <2> QED
    BY <1>8, <1>11, <1>15, <2>4, <2>5, <2>6
<1> HIDE DEF read, own
<1> QED
  BY <1>1, <1>8, <1>9, <1>10, <1>11, <1>12, <1>13, <1>14, <1>15, EndReplyCases
     DEF read, own

\* One step for every action.
LEMMA StepInStep ==
    ASSUME SInv, InStep, [Next]_vars
    PROVE  InStep'
<1> SUFFICES ASSUME Prompt' PROVE InStep'
  BY DEF InStep
<1>1. Typed /\ Counted /\ Flow /\ late \in Nat /\ cut \in Nat
  BY SessionAssumption DEF SInv, Typed
<1>2. Prompt
  <2>1. accepted /\ open
    BY DEF Prompt, Next, AnswerRead, AnswerWrite, AnswerLogin, Hangup, Connect, Call, Refuse,
           Write, Receive, Complete, TimeOut, Break, vars, device
  <2>2. late' \in {late, late + 1} /\ cut' \in {cut, cut + 1}
    BY DEF Next, AnswerRead, AnswerWrite, AnswerLogin, Hangup, Connect, Call, Refuse,
           Write, Receive, Complete, TimeOut, Break, vars
  <2> QED
    BY <1>1, <2>1, <2>2 DEF Prompt
<1>3. /\ phase \in {"new", "ready"} => Quiet
      /\ phase \in {"probe", "read", "own"} => Arriving
      /\ phase = "own" => ShowsNow(found, ToSet(Under[op.path]))
      /\ phase = "ready" /\ op.verb \in Reading => ShowsNow(answer, Wanted)
  BY <1>2 DEF InStep
<1>4. CASE AnswerRead
  <2>1. UNCHANGED <<device, client>> /\ inbox # <<>>
    BY <1>4 DEF AnswerRead
  <2>2. phase \notin {"new", "ready"}
    BY <1>3, <2>1 DEF Quiet
  <2>3. phase \in {"probe", "read", "own"} => Arriving'
    BY <1>1, <1>2, <1>3, <1>4, AnswerArrives DEF Prompt
  <2> QED
    BY <1>3, <2>1, <2>2, <2>3 DEF InStep, ShowsNow, device, client
<1>5. CASE AnswerWrite \/ AnswerLogin
  <2>1. inbox # <<>> /\ Head(inbox).verb \notin Reading /\ UNCHANGED client
    BY <1>5 DEF AnswerWrite, AnswerLogin, Reading, Writing
  <2>2. phase \notin {"new", "ready"}
    BY <1>3, <2>1 DEF Quiet
  <2>3. phase \notin {"probe", "read", "own"}
    <3>1. Head(inbox) = inbox[1]
      BY <1>1, <2>1 DEF Typed
    <3> QED
      BY <1>3, <2>1, <3>1 DEF Arriving
  <2> QED
    BY <2>1, <2>2, <2>3 DEF InStep, client
<1>6. CASE Hangup
  BY <1>6 DEF Hangup, Prompt
<1>7. CASE Connect \/ Refuse \/ Break
  BY <1>7 DEF Connect, SendRead, Send, Refuse, Break, Fail, InStep
<1>8. ASSUME NEW verb \in Reading, NEW path \in Paths, Call(verb, path)
      PROVE  InStep'
  <2>1. /\ SendRead("read", verb, path, done_supported)
        /\ phase = "ready" /\ phase' = "read" /\ done_supported \in BOOLEAN
    BY <1>1, <1>8 DEF Call, SendRead, Send, Typed
  <2>2. Arriving'
    BY <1>1, <1>2, <1>3, <2>1, SendArrives DEF Prompt
  <2> QED
    BY <2>1, <2>2 DEF InStep
<1>9. ASSUME NEW w \in Admitted, Write(w)
      PROVE  InStep'
  <2>1. phase = "ready" /\ (UNCHANGED <<inbox, wire, phase>> \/ phase' = "write")
    BY <1>9 DEF Write, Send
  <2>2. w.verb \in Writing /\ op' = [verb |-> w.verb, path |-> w.path]
    BY <1>9 DEF Write, Admitted, Writes
  <2>3. op'.verb \notin Reading
    BY <2>2 DEF Reading, Writing
  <2> QED
    BY <1>3, <2>1, <2>3 DEF InStep, Quiet
<1>10. CASE Receive
  <2>1. /\ phase \in Waiting /\ UNCHANGED <<phase, version, op, found>>
    BY <1>10 DEF Receive, device
  <2>2. phase \in {"probe", "read", "own"} => Arriving'
    BY <1>1, <1>3, <1>10, ReceiveArrives
  <2> QED
    BY <1>3, <2>1, <2>2 DEF InStep, ShowsNow, Waiting
<1>11. CASE Complete \/ TimeOut
  <2>1. phase \in Waiting /\ EndReply /\ UNCHANGED <<version, op, open, accepted>>
    BY <1>11 DEF Complete, TimeOut, device
  <2>2. Quiet
    BY <1>1, <1>2, <1>3, <1>11, EndsQuiet DEF Prompt
  <2> QED
    BY <1>2, <2>1, <2>2, EndInStep
<1>12. CASE UNCHANGED vars
  <2>1. /\ Arriving' <=> Arriving
        /\ Quiet' <=> Quiet
    BY <1>12 DEF Arriving, Quiet, has_done, ToSet, vars, device, client
  <2> QED
    BY <1>3, <1>12, <2>1 DEF InStep, ShowsNow, Wanted, vars, device, client
<1> QED
  BY <1>4, <1>5, <1>6, <1>7, <1>8, <1>9, <1>10, <1>11, <1>12 DEF Next

\* A session with a device that keeps up and keeps the connection reads what is
\* there: get, listing and deep read alike, with or without the terminator, after
\* every write and every read that was sent again.
THEOREM PromptReads == Spec => []PromptReadIsTrue
<1>1. Init => InStep
  BY DEF Init, InStep, Quiet
<1>2. InStep /\ Outside => PromptReadIsTrue
  <2> SUFFICES ASSUME InStep, Outside, phase = "ready", op.verb \in Reading,
                      late = 0, cut = 0, open
               PROVE  {<<l.path, l.ver>> : l \in answer} =
                         {<<p, version[p]>> : p \in Wanted}
    BY DEF PromptReadIsTrue, Wanted
  <2>1. accepted
    BY DEF Outside
  <2>2. {l.path : l \in answer} = Wanted /\ \A l \in answer : l.ver = version[l.path]
    BY <2>1 DEF InStep, Prompt, ShowsNow
  <2> HIDE DEF Wanted
  <2> QED
    BY <2>2
<1>3. Init => Outside
  BY DEF Init, Outside
<1> QED
  BY <1>1, <1>2, <1>3, StepInStep, StepOutside, SessionInvariant, PTL DEF Spec

===============================================================================
