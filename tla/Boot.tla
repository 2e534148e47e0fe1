---------------------------------- MODULE Boot ----------------------------------
(***************************************************************************)
(* One device, its startup script and what is live on it, under            *)
(*  - managers: runs of modules/startup_script.py, over HTTP,              *)
(*  - tasks: the rotation half of runs of modules/logs.py, over SapV2,     *)
(*  - the operator, who edits the script in the web page, and              *)
(*  - reboots, which replay it.                                            *)
(* All of them interleave; nobody holds a lock.                            *)
(***************************************************************************)
EXTENDS StartupScript

CONSTANTS
    Docs,      \* the scripts the device may have at first or be given by hand
    Factory,   \* the factory defaults the page shows as well
    Layouts,   \* pages of different firmware: statements that assign "script" and
               \* "factory" to variables, and variables to text areas
    Targets, Values,
    InitLive,  \* per target, its value, or None if SapV2 does not report it
    Managers,
    desired,   \* per manager, its `lines', or None to report only
    Comparing, \* the managers with compare_live
    Tasks,
    rotation,  \* per task, the values it asks for
    Told,      \* the tasks a play gives the script to
    MaxEdits, MaxBoots, MaxFaults  \* bounds

ASSUME BootAssumption ==
    /\ Docs \subseteq Seq(Lines) /\ Factory \in Seq(Lines)
    /\ normalise_scalar \in [Values -> Values]
    /\ \A v \in Values : normalise_scalar[normalise_scalar[v]] = normalise_scalar[v]
    /\ \A l \in Lines : l.sets \in Seq(Targets \X Values)
    /\ InitLive \subseteq [Targets -> {normalise_scalar[v] : v \in Values} \cup {None}]
    /\ Comparing \subseteq Managers
    /\ \A m \in Managers : desired[m] = None \/ desired[m] \in Seq(Lines)
    /\ None \notin Seq(Lines)
    /\ \A t \in Tasks : /\ DOMAIN rotation[t] \subseteq Targets
                        /\ rotation[t] \in [DOMAIN rotation[t] -> Values]
    /\ \A page \in Layouts :
          page \in Seq([stmt : {"assign"}, var : STRING, text : {"script", "factory"}]
                       \cup [stmt : {"use"}, var : STRING, element : STRING])
    /\ MaxEdits \in Nat /\ MaxBoots \in Nat /\ MaxFaults \in Nat

\* A firmware gives the text area "options" the script, or a variable without a value.
ASSUME FirmwareAssumption ==
    \A page \in Layouts : \A i \in DOMAIN page :
        page[i].stmt = "use" /\ page[i].element = "options" =>
            ValueAt(page, i, page[i].var) \in {"script", None}

VARIABLES
    doc,       \* the script
    live,      \* the values of the targets
    man,       \* per manager, where it is and what it has read
    task,      \* per task, where it is, what is still to write, what it has reported
               \* (the outcome of either is "none" until a run succeeds, and after
               \* one that does not)
    edits, boots, faults

device == <<doc, live>>
vars == <<device, man, task, edits, boots, faults>>

\* Nothing has been read.
Unseen == [t \in Targets |-> None]

IdleManager(outcome) ==
    [phase |-> "idle", check_mode |-> FALSE, current |-> <<>>, left |-> {},
     seen |-> Unseen, drift |-> {}, outcome |-> outcome]

IdleTask(given, reverts, outcome) ==
    [phase |-> "idle", plan |-> {}, startup_script |-> given, reverts |-> reverts,
     outcome |-> outcome]

Init ==
    /\ doc \in Docs
    /\ live \in InitLive
    /\ man = [m \in Managers |-> IdleManager("none")]
    /\ task = [t \in Tasks |-> IdleTask(None, {}, "none")]
    /\ edits = 0
    /\ boots = 0
    /\ faults = 0

(***************************************************************************)
(* Over HTTP.                                                              *)
(***************************************************************************)

\* The first n statements of a page, or all but the end of the n-th.
Cut(page, n) == SubSeq(page, 1, n)
CutWithin(page, n) == [Cut(page, n) EXCEPT ![n].text = None]

\* What is found in a page that arrives, and in one that is cut off.
Whole == {Fetched(page) : page \in Layouts}
Part ==
    LET Literals(page) == {n \in DOMAIN page : page[n].stmt = "assign"}
    IN  UNION {{Fetched(Cut(page, n)) : n \in 0..Len(page) - 1}
               \cup {Fetched(CutWithin(page, n)) : n \in Literals(page)} :
               page \in Layouts}

Contents(found) ==
    CASE found = "script" -> doc [] found = "factory" -> Factory

\* A request for the page finds the one of it or the other.
Request(found) ==
    \/ found \in Whole /\ UNCHANGED faults
    \/ found \in Part /\ faults < MaxFaults /\ faults' = faults + 1

\* Every script there can be, parsed.
indexed ==
    [lines \in {normalise(text) : text \in Docs \cup {Factory} \cup
                                  {desired[m] : m \in {m \in Managers : desired[m] # None}}} |->
        index_by_target(Commands(lines))]

End(m, outcome) == man' = [man EXCEPT ![m] = IdleManager(outcome)]

Fetch(m, check_mode) ==
    /\ man[m].phase = "idle"
    /\ UNCHANGED <<device, task, edits, boots>>
    /\ \E found \in Whole \cup Part :
          /\ Request(found)
          /\ IF found = None THEN End(m, "none")
             ELSE man' = [man EXCEPT ![m] =
                    [phase |-> "fetched", check_mode |-> check_mode,
                     current |-> normalise(Contents(found)), left |-> {},
                     seen |-> Unseen, drift |-> {}, outcome |-> "none"]]

\* The objects the script sets properties of are to be read.
Connect(m) ==
    /\ m \in Comparing
    /\ man[m].phase = "fetched"
    /\ man' = [man EXCEPT ![m].phase = "comparing",
                         ![m].left = {t[1] : t \in DOMAIN indexed[man[m].current]}]
    /\ UNCHANGED <<device, task, edits, boots, faults>>

\* One of them is read, as it is by then; what is not answered shows an object
\* without properties.  The code takes them in the order of their paths.
Get(m) ==
    /\ man[m].phase = "comparing"
    /\ UNCHANGED <<device, task, edits, boots>>
    /\ \E path \in man[m].left :
          \/ /\ man' = [man EXCEPT
                   ![m].left = @ \ {path},
                   ![m].seen = [t \in Targets |-> IF t[1] = path THEN live[t] ELSE @[t]]]
             /\ UNCHANGED faults
          \/ /\ man' = [man EXCEPT ![m].left = @ \ {path}]
             /\ faults < MaxFaults /\ faults' = faults + 1

\* The session is refused, or found gone by one of the reads.
LoseSession(m) ==
    /\ \/ m \in Comparing /\ man[m].phase = "fetched"
       \/ man[m].phase = "comparing" /\ man[m].left # {}
    /\ faults < MaxFaults /\ faults' = faults + 1
    /\ End(m, "none")
    /\ UNCHANGED <<device, task, edits, boots>>

\* Mutation of AllRead: one answer is enough.
EnoughRead(m) == man[m].seen # Unseen

AllRead(m) == man[m].left = {}

\* What has been read is compared; objects that have not been are skipped.
Compare(m) ==
    /\ man[m].phase = "comparing"
    /\ AllRead(m)
    /\ LET index == indexed[man[m].current]
           read == {t[1] : t \in DOMAIN index} \ man[m].left
           shown == [t \in {t \in Targets : man[m].seen[t] # None} |-> man[m].seen[t]]
           unverifiable == Unverifiable(index, shown, read, Factory)
       IN  man' = [man EXCEPT
              ![m].phase = "compared",
              ![m].seen = Unseen,
              ![m].drift = Drift(index, shown) \cup {u[1] : u \in unverifiable}]
    /\ UNCHANGED <<device, task, edits, boots, faults>>

Decided(m) == man[m].phase = IF m \in Comparing THEN "compared" ELSE "fetched"

\* Mutation of Changed: the same lines in another order are the same script.
ChangedAsSet(m) == ToSet(normalise(desired[m])) # ToSet(man[m].current)

Changed(m) == normalise(desired[m]) # man[m].current

\* Mutation of Writes: check mode is not asked about.
WritesAlways(m) == desired[m] # None /\ Changed(m)

Writes(m) == desired[m] # None /\ Changed(m) /\ ~man[m].check_mode

\* Nothing to write, or not to be written.
Report(m) ==
    /\ Decided(m)
    /\ ~Writes(m)
    /\ End(m, "reported")
    /\ UNCHANGED <<device, task, edits, boots, faults>>

\* The whole document is posted.  The post may not arrive, be ignored, or be
\* taken although its answer does not come back.
Save(m) ==
    /\ Decided(m)
    /\ Writes(m)
    /\ LET text == render(normalise(desired[m]))
           posted == man' = [man EXCEPT ![m].phase = "saved"]
           fault == faults < MaxFaults /\ faults' = faults + 1
       IN  \/ /\ ~Saveable(text)
              /\ End(m, "none")
              /\ UNCHANGED <<doc, faults>>
           \/ Saveable(text) /\ doc' = text /\ posted /\ UNCHANGED faults
           \/ Saveable(text) /\ posted /\ fault /\ UNCHANGED doc
           \/ Saveable(text) /\ doc' \in {doc, text} /\ End(m, "none") /\ fault
    /\ UNCHANGED <<live, task, edits, boots>>

Verify(m) ==
    /\ man[m].phase = "saved"
    /\ UNCHANGED <<device, task, edits, boots>>
    /\ \E found \in Whole \cup Part :
          /\ Request(found)
          /\ End(m, IF /\ found # None
                       /\ normalise(Contents(found)) = normalise(desired[m])
                    THEN "saved" ELSE "none")

(***************************************************************************)
(* Over SapV2.                                                             *)
(***************************************************************************)
rotation_writes(t) == [g \in DOMAIN rotation[t] |-> normalise_scalar[rotation[t][g]]]

\* The targets whose value is not the one asked for.
plan_rotation(t) == {g \in DOMAIN rotation[t] : live[g] # rotation_writes(t)[g]}

Blocked(t) == \E g \in DOMAIN rotation[t] : live[g] = None

\* A play gives a task the script as it has just been fetched, or nothing.
Given(t) == IF t \in Told THEN normalise(doc) ELSE None

\* What a run without success has reported is not kept.
Begin(t, check_mode, given) ==
    /\ task[t].phase = "idle"
    /\ UNCHANGED <<device, man, edits, boots, faults>>
    /\ LET reverts == IF given = None THEN {}
                      ELSE conflicts(rotation_writes(t), indexed[given])
           left == plan_rotation(t)
       IN  task' = [task EXCEPT ![t] =
              CASE Blocked(t) -> IdleTask(None, {}, "none")
                [] ~Blocked(t) /\ left = {} -> IdleTask(given, reverts, "unchanged")
                [] ~Blocked(t) /\ left # {} /\ check_mode -> IdleTask(None, {}, "none")
                [] ~Blocked(t) /\ left # {} /\ ~check_mode ->
                     [phase |-> "writing", plan |-> left, startup_script |-> given,
                      reverts |-> reverts, outcome |-> "none"]]

\* One write, taken or ignored.
Set(t) ==
    /\ task[t].phase = "writing"
    /\ \E g \in task[t].plan :
          /\ task' = [task EXCEPT ![t].plan = @ \ {g}]
          /\ \/ /\ live' = [live EXCEPT ![g] = rotation_writes(t)[g]]
                /\ UNCHANGED faults
             \/ /\ faults < MaxFaults /\ faults' = faults + 1
                /\ UNCHANGED live
    /\ UNCHANGED <<doc, man, edits, boots>>

Failed(t) == task' = [task EXCEPT ![t] = IdleTask(None, {}, "none")]

verify_rotation(t) ==
    /\ task[t].phase = "writing"
    /\ task[t].plan = {}
    /\ IF plan_rotation(t) = {}
       THEN task' = [task EXCEPT ![t] = IdleTask(@.startup_script, @.reverts, "verified")]
       ELSE Failed(t)
    /\ UNCHANGED <<device, man, edits, boots, faults>>

\* A command of the session finds the connection gone.
Die(t) ==
    /\ task[t].phase = "writing"
    /\ faults < MaxFaults /\ faults' = faults + 1
    /\ Failed(t)
    /\ UNCHANGED <<device, man, edits, boots>>

(***************************************************************************)
(* The operator, and the device.                                           *)
(***************************************************************************)
Edit ==
    /\ edits < MaxEdits /\ edits' = edits + 1
    /\ doc' \in Docs
    /\ UNCHANGED <<live, man, task, boots, faults>>

\* Whatever is under way loses its connection.
Reboot ==
    /\ boots < MaxBoots /\ boots' = boots + 1
    /\ live' = Replay(doc, live)
    /\ man' = [m \in Managers |-> IF man[m].phase = "idle" THEN man[m]
                                  ELSE IdleManager("none")]
    /\ task' = [t \in Tasks |-> IF task[t].phase = "idle" THEN task[t]
                                ELSE IdleTask(None, {}, "none")]
    /\ UNCHANGED <<doc, edits, faults>>

Proceed(m) == Connect(m) \/ Get(m) \/ Compare(m) \/ Report(m) \/ Save(m) \/ Verify(m)
ProceedTask(t) == Set(t) \/ verify_rotation(t)

Next ==
    \/ \E m \in Managers : (\E c \in BOOLEAN : Fetch(m, c)) \/ Proceed(m) \/ LoseSession(m)
    \/ \E t \in Tasks :
          \/ \E c \in BOOLEAN : Begin(t, c, Given(t))
          \/ ProceedTask(t) \/ Die(t)
    \/ Edit \/ Reboot

Spec == Init /\ [][Next]_vars

\* A run that has started goes on, and is started again, not always in check mode.
Fairness ==
    /\ \A m \in Managers : WF_vars(Proceed(m)) /\ SF_vars(Fetch(m, FALSE))
    /\ \A t \in Tasks : WF_vars(ProceedTask(t)) /\ SF_vars(Begin(t, FALSE, Given(t)))

FairSpec == Spec /\ Fairness

(***************************************************************************)
(* Properties.                                                             *)
(***************************************************************************)

\* Every variable stays in its set.
TypeOK ==
    /\ doc \in Seq(Lines)
    /\ live \in [Targets -> Values \cup {None}]
    /\ \A m \in Managers :
         /\ man[m].phase \in {"idle", "fetched", "comparing", "compared", "saved"}
         /\ man[m].seen \in [Targets -> Values \cup {None}]
         /\ man[m].phase = "idle" => man[m].current = <<>> /\ man[m].drift = {}
         /\ man[m].phase # "idle" => /\ man[m].current \in DOMAIN indexed
                                     /\ man[m].drift \subseteq DOMAIN indexed[man[m].current]
         /\ man[m].phase = "saved" => desired[m] # None /\ ~man[m].check_mode
    /\ \A t \in Tasks :
         /\ task[t].phase \in {"idle", "writing"}
         /\ task[t].plan \cup task[t].reverts \subseteq DOMAIN rotation[t]
    /\ edits \in 0..MaxEdits /\ boots \in 0..MaxBoots /\ faults \in 0..MaxFaults

\* Whatever page the firmware builds, and wherever it is cut off, a run works on
\* the script of the device or on none: never on the factory defaults, nor on a
\* part of it (the notes of startup_script: "the module refuses to proceed if it
\* cannot positively identify the live one").
WorksOnTheScript ==
    [][\A m \in Managers :
          /\ man[m].phase = "idle" /\ man'[m].phase = "fetched" =>
                man'[m].current = normalise(doc)
          /\ man[m].phase = "saved" /\ man'[m].outcome = "saved" =>
                normalise(doc) = normalise(desired[m])]_vars

\* The script changes by hand, or to what a run outside check mode was given; a
\* script with something in it never becomes an empty one.
SaveIsAskedFor ==
    [][doc' # doc /\ edits' = edits =>
          /\ normalise(doc') # <<>>
          /\ \E m \in Managers :
                /\ desired[m] # None /\ ~man[m].check_mode
                /\ man[m].current # normalise(desired[m])
                /\ normalise(doc') = normalise(desired[m])]_vars

\* What a task has set, on a device whose script it was given, stays over a boot
\* unless it has warned of that setting or of a line it cannot read.
NoSilentRevert ==
    [][boots' # boots =>
          \A t \in Tasks :
             /\ task[t].outcome \in {"verified", "unchanged"}
             /\ task[t].startup_script = normalise(doc)
             /\ Unparsed(normalise(doc)) = {}
             => \A g \in DOMAIN rotation[t] \ task[t].reverts :
                   live[g] = rotation_writes(t)[g] => live'[g] = live[g]]_vars

\* What a comparison has read of a property is not so any more.
Outdated(m) == {t \in Targets : man[m].seen[t] \notin {None, live[t]}}

\* A comparison names every property the next boot would change, if the script is
\* still the one fetched and all of it could be read, but for those whose value
\* has changed since their object was read.
BootChangesAreReported ==
    [][\A m \in Managers :
          /\ man[m].phase = "comparing" /\ man'[m].phase = "compared"
          /\ man[m].current = normalise(doc)
          /\ Unparsed(normalise(doc)) = {}
          => {t \in Targets : Replay(doc, live)[t] # live[t]} \ Outdated(m)
                \subseteq man'[m].drift]_vars

\* Nothing asks for two different things.
Agreed ==
    /\ \A s, t \in Tasks : \A g \in DOMAIN rotation[s] \cap DOMAIN rotation[t] :
          rotation_writes(s)[g] = rotation_writes(t)[g]
    /\ \A m, n \in Managers : desired[m] # None /\ desired[n] # None =>
          normalise(desired[m]) = normalise(desired[n])

AsAsked ==
    /\ \A t \in Tasks : ~Blocked(t) => plan_rotation(t) = {}
    /\ \A m \in Managers : desired[m] # None /\ Saveable(desired[m]) =>
          normalise(doc) = normalise(desired[m])

\* Runs that agree, repeated, bring the device to what they ask for and keep it
\* there once faults, edits and reboots stop (the rotation settings of logs.py:
\* "two tasks asking for DIFFERENT rotation values would fight").
Settles == Agreed => <>[]AsAsked

=================================================================================
