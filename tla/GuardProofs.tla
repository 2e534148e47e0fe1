------------------------------ MODULE GuardProofs ------------------------------
(***************************************************************************)
(* SubtreeGuard and the writes of SapSession for every registry and every  *)
(* tree: the entry classify picks is the one that governs, and what it     *)
(* does not admit never reaches an object.                                 *)
(***************************************************************************)
EXTENDS SapSession, WellFoundedInduction, TLAPS

(***************************************************************************)
(* The registry: prefixes of one path are prefixes of each other.          *)
(***************************************************************************)

\* A prefix agrees with the sequence on its own length.
LEMMA PrefixElements ==
    ASSUME NEW p \in Seq(STRING), NEW s \in Seq(STRING), IsPrefix(s, p)
    PROVE  Len(s) <= Len(p) /\ \A i \in 1..Len(s) : s[i] = p[i]
<1>1. Len(s) <= Len(p) /\ SubSeq(s, 1, Len(s)) = SubSeq(p, 1, Len(s))
  BY DEF IsPrefix
<1>2. \A i \in 1..Len(s) : SubSeq(s, 1, Len(s))[i] = s[i] /\ SubSeq(p, 1, Len(s))[i] = p[i]
  BY <1>1
<1> QED
  BY <1>1, <1>2

\* Of two prefixes of a sequence, the shorter one is a prefix of the other.
LEMMA PrefixesAreOrdered ==
    ASSUME NEW p \in Seq(STRING), NEW s \in Seq(STRING), NEW t \in Seq(STRING),
           IsPrefix(s, p), IsPrefix(t, p), Len(t) <= Len(s)
    PROVE  IsPrefix(t, s)
<1>1. \A i \in 1..Len(t) : t[i] = s[i]
  BY PrefixElements
<1>2. SubSeq(t, 1, Len(t)) = SubSeq(s, 1, Len(t))
  BY <1>1
<1> QED
  BY <1>2 DEF IsPrefix

\* An entry that is as long as any other matching one exists.
LEMMA LongestExists ==
    ASSUME NEW path \in Seq(STRING), Matching(path) # {}
    PROVE  \E s \in Matching(path) : \A t \in Matching(path) : Len(t.path) <= Len(s.path)
<1> DEFINE Gap(s) == Len(path) - Len(s.path)
           Gaps == {Gap(s) : s \in Matching(path)}
<1>1. \A s \in Matching(path) : Len(s.path) \in Nat /\ Gap(s) \in Nat
  BY GuardAssumption, PrefixElements DEF Matching
<1>2. Gaps \in SUBSET Nat /\ Gaps # {}
  BY <1>1
<1>3. PICK n \in Gaps : \A m \in Gaps : <<m, n>> \notin OpToRel(<, Nat)
  <2> HIDE DEF Gaps
  <2> QED
    BY <1>2, NatLessThanWellFounded, WFMin
<1>4. \A m \in Gaps : <<m, n>> \in OpToRel(<, Nat) <=> m < n
  BY <1>2 DEF OpToRel
<1>5. PICK s \in Matching(path) : n = Gap(s)
  BY <1>2
<1>6. ASSUME NEW t \in Matching(path) PROVE Len(t.path) <= Len(s.path)
  <2>1. Gap(t) \in Gaps
    OBVIOUS
  <2>2. ~(Gap(t) < Gap(s))
    BY <1>3, <1>4, <1>5, <2>1
  <2> QED
    BY <1>1, <2>2
<1> QED
  BY <1>6

\* Where any entry matches, classify returns the one that governs.
LEMMA ClassifyGoverns ==
    ASSUME NEW path \in Seq(STRING), classify(path) # None
    PROVE  classify(path) \in Registry /\ Governs(classify(path), path)
<1> DEFINE s == classify(path)
<1>1. Matching(path) # {}
  BY DEF classify
<1>2. s \in Matching(path) /\ \A t \in Matching(path) : Len(t.path) <= Len(s.path)
  BY <1>1, LongestExists DEF classify
<1>3. s \in Registry /\ IsPrefix(s.path, path)
  BY <1>2 DEF Matching
<1>4. ASSUME NEW t \in Registry, IsPrefix(t.path, path) PROVE IsPrefix(t.path, s.path)
  <2>1. Len(t.path) <= Len(s.path)
    BY <1>2, <1>4 DEF Matching
  <2>2. s.path \in Seq(STRING) /\ t.path \in Seq(STRING)
    BY <1>3, GuardAssumption
  <2> QED
    BY <1>3, <1>4, <2>1, <2>2, PrefixesAreOrdered
<1> QED
  BY <1>3, <1>4 DEF Governs

(***************************************************************************)
(* The session: what is on its way to the device has passed the guard.     *)
(***************************************************************************)
Fields == {"verb", "path", "props", "done", "todo"}

\* The write a command carries out.
WriteOf(c) == [verb |-> c.verb, path |-> c.path, props |-> c.props]

Harmless(c) ==
    /\ DOMAIN c = Fields
    /\ c.verb \in Writing => ~check_mode /\ WriteOf(c) \in Admitted

\* Every write the device has still to handle was admitted, outside check mode;
\* and a command that is sent again for want of a terminator is a read.
Guarded ==
    /\ inbox \in Seq(ToSet(inbox))
    /\ \A c \in ToSet(inbox) : Harmless(c)
    /\ phase \in {"probe", "read", "own"} => cmd.verb \in Reading

\* What the guard admits lies under an entry that allows it.
LEMMA AdmittedIsConfiguration ==
    ASSUME NEW w \in Admitted
    PROVE  \E s \in Registry :
              /\ Governs(s, Target(w))
              /\ MayWrite(s, w.verb)
              /\ w.verb = "set" => w.props \cap Live(s) = {}
<1> DEFINE s == classify(Target(w))
<1>1. /\ w \in Writes
      /\ assert_writable(Target(w), w.verb, IF w.verb = "set" THEN w.props ELSE {})
  BY DEF Admitted
<1>2. w.path \in Paths
  BY <1>1 DEF Writes
<1>3. Target(w) \in Seq(STRING)
  BY <1>2, SessionAssumption DEF Target
<1>4. s # None
  BY <1>1 DEF assert_writable
<1>5. s \in Registry /\ Governs(s, Target(w))
  BY <1>3, <1>4, ClassifyGoverns
<1>6. MayWrite(s, w.verb)
  BY <1>1 DEF assert_writable, MayWrite
<1>7. w.verb = "set" => w.props \cap Live(s) = {}
  BY <1>1 DEF assert_writable, Live
<1> QED
  BY <1>5, <1>6, <1>7

\* A sequence over harmless commands is one of harmless commands.
LEMMA HarmlessQueue ==
    ASSUME NEW S, NEW q \in Seq(S), \A c \in S : Harmless(c)
    PROVE  q \in Seq(ToSet(q)) /\ \A c \in ToSet(q) : Harmless(c)
<1>1. \A i \in 1..Len(q) : q[i] \in S
  OBVIOUS
<1>2. q \in Seq({q[i] : i \in DOMAIN q})
  OBVIOUS
<1> QED
  BY <1>1, <1>2 DEF ToSet

\* A read is harmless wherever it goes, and so is an admitted write.
LEMMA ReadIsHarmless ==
    ASSUME NEW verb, NEW path, NEW props, NEW done, verb \notin Writing
    PROVE  Harmless(Command(verb, path, props, done))
BY DEF Harmless, Command, Fields

\* A write that the guard admits, outside check mode, is harmless.
LEMMA AdmittedIsHarmless ==
    ASSUME NEW w \in Admitted, ~check_mode
    PROVE  Harmless(Command(w.verb, w.path, w.props, FALSE))
<1>1. WriteOf(Command(w.verb, w.path, w.props, FALSE)) = w
  BY DEF WriteOf, Command, Admitted, Writes
<1> QED
  BY <1>1 DEF Harmless, Command, Fields

\* Sending a harmless command keeps the queue harmless.
LEMMA SendGuarded ==
    ASSUME Guarded, check_mode' = check_mode,
           NEW next, NEW verb, NEW path, NEW props, NEW done,
           Send(next, verb, path, props, done),
           Harmless(Command(verb, path, props, done)),
           next \in {"probe", "read", "own"} => verb \in Reading
    PROVE  Guarded'
<1> DEFINE c == Command(verb, path, props, done)
           S == ToSet(inbox) \cup {c}
<1>1. inbox' \in Seq(S)
  BY DEF Send, Guarded
<1>2. \A d \in S : Harmless(d)
  BY DEF Guarded
<1>3. inbox' \in Seq(ToSet(inbox')) /\ \A d \in ToSet(inbox') : Harmless(d)
  <2> HIDE DEF S
  <2> QED
    BY <1>1, <1>2, HarmlessQueue
<1>4. \A d \in ToSet(inbox') : Harmless(d)'
  BY <1>3 DEF Harmless
<1>5. phase' = next /\ cmd'.verb = verb
  BY DEF Send, Command
<1> QED
  BY <1>3, <1>4, <1>5 DEF Guarded

\* However a reply ends, what the client sends next is a read.
LEMMA EndReplyGuarded ==
    ASSUME Guarded, phase \in Waiting, EndReply, check_mode' = check_mode
    PROVE  Guarded'
<1> DEFINE Stays == Guarded /\ UNCHANGED <<inbox, cmd>> /\ phase' \in {"ready", "failed"}
<1>1. Stays => Guarded'
  <2> SUFFICES ASSUME Stays PROVE Guarded'
    OBVIOUS
  <2>1. \A c \in ToSet(inbox') : Harmless(c)'
    BY DEF Guarded, Harmless
  <2> QED
    BY <2>1 DEF Guarded
<1>2. Fail \/ (\E result : Return(result)) => Stays
  BY DEF Fail, Return
<1>3. ASSUME NEW next, NEW verb \in Reading, NEW path, NEW done,
             SendRead(next, verb, path, done)
      PROVE  Guarded'
  <2>1. verb \notin Writing
    BY DEF Reading, Writing
  <2> QED
    BY <1>3, <2>1, ReadIsHarmless, SendGuarded DEF SendRead
<1>4. "get" \in Reading
  BY DEF Reading
<1>5. CASE phase = "login"
  BY <1>1, <1>2, <1>3, <1>4, <1>5 DEF EndReply, EndLogin
<1>6. CASE phase = "write"
  <2>1. Return({})
    BY <1>6 DEF EndReply
  <2> QED
    BY <1>1, <1>2, <2>1
<1>7. CASE phase \in {"probe", "read", "own"}
  <2>1. CASE Unterminated
    <3>1. cmd.verb \in Reading
      BY <1>7 DEF Guarded
    <3>2. SendRead(phase, cmd.verb, cmd.path, FALSE)
      BY <1>7, <2>1 DEF EndReply
    <3> QED
      BY <1>3, <3>1, <3>2
  <2>2. CASE ~Unterminated
    <3>1. EndRead(parse_indi(buf))
      BY <1>7, <2>2 DEF EndReply
    <3>2. \/ Fail
          \/ \E result : Return(result)
          \/ SendRead("own", "get", op.path, done_supported')
      BY <3>1 DEF EndRead, EndProbe
    <3> QED
      BY <1>1, <1>2, <1>3, <1>4, <3>2
  <2> QED
    BY <2>1, <2>2
<1> QED
  BY <1>5, <1>6, <1>7 DEF Waiting

\* A line of a reply leaves the command it belongs to, or takes it off the queue.
LEMMA AnswerGuarded ==
    ASSUME Guarded, AnswerRead \/ AnswerWrite \/ AnswerLogin
    PROVE  Guarded'
<1> DEFINE c == Head(inbox)
           d == [c EXCEPT !.todo = Tail(c.todo)]
           S == ToSet(inbox) \cup {d}
<1>1. /\ inbox \in Seq(ToSet(inbox))
      /\ inbox # <<>>
  BY DEF Guarded, AnswerRead, AnswerWrite, AnswerLogin
<1>2. c \in ToSet(inbox) /\ Harmless(c)
  BY <1>1 DEF Guarded
<1>3. /\ check_mode' = check_mode /\ phase' = phase /\ cmd' = cmd
      /\ inbox' = Tail(inbox) \/ (c.verb \in Reading /\ inbox' = [inbox EXCEPT ![1] = d])
  <2>1. check_mode' = check_mode /\ phase' = phase /\ cmd' = cmd
    BY DEF AnswerRead, AnswerWrite, AnswerLogin, client
  <2>2. CASE AnswerRead
    <3>1. /\ c.verb \in Reading
          /\ inbox' = Tail(inbox) \/ inbox' = [inbox EXCEPT ![1].todo = Tail(c.todo)]
      BY <2>2, Zenon DEF AnswerRead
    <3>2. c = inbox[1]
      BY <1>1
    <3> QED
      BY <2>1, <3>1, <3>2
  <2>3. CASE AnswerWrite \/ AnswerLogin
    BY <2>1, <2>3 DEF AnswerWrite, AnswerLogin
  <2> QED
    BY <2>2, <2>3
<1>4. inbox' = Tail(inbox) \/ (Harmless(d) /\ inbox' = [inbox EXCEPT ![1] = d])
  BY <1>2, <1>3 DEF Harmless, Fields, Reading, Writing
<1>5. \/ inbox' \in Seq(ToSet(inbox))
      \/ inbox' \in Seq(S) /\ Harmless(d)
  <2> HIDE DEF d
  <2>1. Tail(inbox) \in Seq(ToSet(inbox))
    BY <1>1
  <2>2. [inbox EXCEPT ![1] = d] \in Seq(S)
    BY <1>1
  <2> QED
    BY <1>4, <2>1, <2>2
<1>6. inbox' \in Seq(ToSet(inbox')) /\ \A e \in ToSet(inbox') : Harmless(e)
  <2> HIDE DEF d
  <2>1. CASE inbox' \in Seq(ToSet(inbox))
    BY <2>1, HarmlessQueue DEF Guarded
  <2>2. CASE inbox' \in Seq(S) /\ Harmless(d)
    <3>1. \A e \in S : Harmless(e)
      BY <2>2 DEF Guarded
    <3> HIDE DEF S
    <3> QED
      BY <2>2, <3>1, HarmlessQueue
  <2> QED
    BY <1>5, <2>1, <2>2
<1>7. \A e \in ToSet(inbox') : Harmless(e)'
  BY <1>3, <1>6 DEF Harmless
<1> QED
  BY <1>3, <1>6, <1>7 DEF Guarded

\* One step for every action of the specification.
LEMMA StepGuarded == Guarded /\ [Next]_vars => Guarded'
<1> SUFFICES ASSUME Guarded, [Next]_vars PROVE Guarded'
  OBVIOUS
<1>1. check_mode' = check_mode
  BY DEF Next, AnswerRead, AnswerWrite, AnswerLogin, Hangup, Connect, Call, Refuse,
         Write, Receive, Complete, TimeOut, Break, vars, client
<1>2. ASSUME UNCHANGED <<inbox, cmd>>,
             phase' \in {"probe", "read", "own"} => phase' = phase
      PROVE  Guarded'
  <2>1. \A c \in ToSet(inbox') : Harmless(c)'
    BY <1>1, <1>2 DEF Guarded, Harmless
  <2> QED
    BY <1>2, <2>1 DEF Guarded
<1>3. CASE AnswerRead \/ AnswerWrite \/ AnswerLogin
  BY <1>3, AnswerGuarded
<1>4. CASE Hangup
  <2>1. inbox' = <<>> /\ phase' = phase /\ cmd' = cmd
    BY <1>4 DEF Hangup, client
  <2>2. ToSet(inbox') = {}
    BY <2>1 DEF ToSet
  <2> QED
    BY <2>1, <2>2 DEF Guarded
<1>5. CASE Connect
  <2>1. SendRead("login", "login", None, FALSE)
    BY <1>5 DEF Connect
  <2>2. "login" \notin Writing
    BY DEF Writing
  <2> QED
    BY <1>1, <2>1, <2>2, ReadIsHarmless, SendGuarded DEF SendRead
<1>6. CASE \E verb \in Reading, p \in Paths : Call(verb, p)
  <2>1. PICK verb \in Reading, p \in Paths : SendRead("read", verb, p, done_supported)
    BY <1>6 DEF Call
  <2>2. verb \notin Writing
    BY DEF Reading, Writing
  <2> QED
    BY <1>1, <2>1, <2>2, ReadIsHarmless, SendGuarded DEF SendRead
<1>7. CASE \E w \in Admitted : Write(w)
  <2>1. PICK w \in Admitted : Write(w)
    BY <1>7
  <2>2. CASE check_mode
    BY <1>2, <2>1, <2>2 DEF Write, Skipped
  <2>3. CASE ~check_mode
    <3>1. Send("write", w.verb, w.path, w.props, FALSE)
      BY <2>1, <2>3 DEF Write, Skipped
    <3> QED
      BY <1>1, <2>3, <3>1, AdmittedIsHarmless, SendGuarded
  <2> QED
    BY <2>2, <2>3
<1>8. CASE Refuse \/ Receive \/ Break \/ UNCHANGED vars
  BY <1>2, <1>8 DEF Refuse, Receive, Break, Fail, vars, client
<1>9. CASE Complete \/ TimeOut
  BY <1>1, <1>9, EndReplyGuarded DEF Complete, TimeOut
<1> QED
  BY <1>3, <1>4, <1>5, <1>6, <1>7, <1>8, <1>9 DEF Next

\* Whatever the registry holds, whatever a session is asked to write, and however
\* it ends: an object changes only outside check mode, under the entry that governs
\* it, and never by a live or action property of set().
THEOREM GuardedWrites == Spec => OnlyConfigurationWritten
<1> DEFINE Step == version' # version =>
       LET c == Head(inbox)
       IN  /\ ~check_mode
           /\ \E s \in Registry :
                 /\ Governs(s, Target(c))
                 /\ MayWrite(s, c.verb)
                 /\ c.verb = "set" => c.props \cap Live(s) = {}
<1>1. Init => Guarded
  BY DEF Init, Guarded, ToSet
<1>2. Guarded /\ [Next]_vars => Step
  <2> SUFFICES ASSUME Guarded, [Next]_vars, version' # version PROVE Step
    OBVIOUS
  <2> DEFINE c == Head(inbox)
  <2>1. AnswerWrite
    BY DEF Next, AnswerRead, AnswerLogin, Hangup, Connect, Call, Refuse, Write,
           Receive, Complete, TimeOut, Break, vars, device
  <2>2. inbox # <<>> /\ c.verb \in Writing
    BY <2>1 DEF AnswerWrite
  <2>3. c \in ToSet(inbox)
    BY <2>2 DEF Guarded
  <2>4. ~check_mode /\ WriteOf(c) \in Admitted
    BY <2>2, <2>3 DEF Guarded, Harmless
  <2>5. /\ Target(WriteOf(c)) = Target(c)
        /\ WriteOf(c).verb = c.verb /\ WriteOf(c).props = c.props
    BY DEF WriteOf, Target
  <2> QED
    BY <2>4, <2>5, AdmittedIsConfiguration
<1>3. Guarded /\ [Next]_vars => [Step]_vars
  BY <1>2
<1> QED
  BY <1>1, <1>3, StepGuarded, PTL DEF Spec, OnlyConfigurationWritten

===============================================================================
