------------------------------ MODULE SubtreeGuard ------------------------------
(***************************************************************************)
(* The runtime/config boundary of plugins/module_utils/subtrees.py: which  *)
(* parts of the object tree may be written at all.  A path is the sequence *)
(* of its segments, so the prefix test of classify, on whole segments, is  *)
(* a prefix of sequences.  allow_all, which no module sets, is left out.   *)
(***************************************************************************)
EXTENDS SequencesExt

CONSTANTS
    None,      \* no entry
    Registry   \* the entries the guard is made with, SUBTREES by default

Kinds == {"declarative", "runtime", "mixed", "program", "read_only", "unclassified"}

ASSUME GuardAssumption ==
    /\ None \notin Registry
    /\ \A s \in Registry : s.kind \in Kinds /\ s.path \in Seq(STRING) \ {<<>>}
    /\ \A s, t \in Registry : s.path = t.path => s = t

Subtree(path, kind, runtime_properties, purge_safe) ==
    [path |-> path, kind |-> kind, runtime_properties |-> runtime_properties,
     purge_safe |-> purge_safe]

Refused(roots, kind) == {Subtree(<<r>>, kind, {}, FALSE) : r \in roots}

SUBTREES ==
    {Subtree(<<"Logs#0">>, "declarative",
             {"Ready", "LogSize", "LastChanged", "RootFileName"}, TRUE),
     Subtree(<<"Users#0">>, "declarative", {}, TRUE),
     Subtree(<<"System#0", "Access#0">>, "read_only", {}, FALSE),
     Subtree(<<"Devices#0">>, "mixed",
             {"Connected", "Online", "State", "GAIN", "PinState", "LastSent",
              "LastReceived", "ResponseData", "ResponseCode", "ResponseSuccess"}, FALSE),
     Subtree(<<"MemorySlots#0">>, "mixed",
             {"SlotValue", "LastChanged", "LastKnownValue"}, FALSE),
     Subtree(<<"Routers#0">>, "mixed",
             {"CurrentSourcePath", "DestinationMessageBeingSent", "CurrentValue"}, FALSE)}
    \cup Refused({"LogicFlows#0", "Scenes#0"}, "program")
    \cup Refused({"DeviceEmulators#0", "PropertyGroups#0", "Clustering#0", "UserPanels#0",
                  "LegacyPanels#0", "Meters#0", "Requests#0", "UpdateModerators#0",
                  "TimeEvents#0"}, "unclassified")
    \cup Refused({"System#0"}, "runtime")

ACTION_PROPERTIES ==
    {"Append", "ActivateScene", "ChangeAllByValue", "ClearElapsed", "ClearLogFile",
     "CloneTo", "CopyTo", "CopyValue", "DeleteLogFile", "ForceServiceRestart", "Pulse",
     "PulseValue", "Reconnect", "RemoveDeviceIp", "RotateSource", "SendCriticalMessage",
     "SendLwcpCommand", "SendLwrpCommand", "SubmitSapMessage", "Trigger", "WriteSlot",
     "WriteTimer", "CreateCluster", "JoinCluster", "LeaveCluster", "ManualSync",
     "FixPanelSecurity", "WritePanelPage"}

Matching(path) == {s \in Registry : IsPrefix(s.path, path)}

\* Mutation of classify: the broadest entry is taken.
ShortestWins(path) ==
    IF Matching(path) = {} THEN None
    ELSE CHOOSE s \in Matching(path) :
            \A t \in Matching(path) : Len(s.path) <= Len(t.path)

\* The most specific entry: the longest of those the path lies under.
classify(path) ==
    IF Matching(path) = {} THEN None
    ELSE CHOOSE s \in Matching(path) :
            \A t \in Matching(path) : Len(t.path) <= Len(s.path)

writable(subtree) == subtree.kind \in {"declarative", "mixed"}

assert_writable(path, verb, properties) ==
    LET subtree == classify(path)
    IN  /\ subtree # None
        /\ writable(subtree)
        /\ verb = "del" => subtree.purge_safe
        /\ properties \cap (ACTION_PROPERTIES \cup subtree.runtime_properties) = {}

(***************************************************************************)
(* What the boundary means, without classify: an entry governs a path if   *)
(* the path lies under it and under no other entry below it.               *)
(***************************************************************************)
Governs(s, path) ==
    /\ IsPrefix(s.path, path)
    /\ \A t \in Registry : IsPrefix(t.path, path) => IsPrefix(t.path, s.path)

\* A subtree somebody has declared to be configuration, and where deleting is safe
\* if something is to be deleted.
MayWrite(s, verb) == writable(s) /\ (verb = "del" => s.purge_safe)

\* Properties that are somebody else's state, or that do something when written.
Live(s) == ACTION_PROPERTIES \cup s.runtime_properties

================================================================================
