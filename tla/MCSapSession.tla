---------------------------- MODULE MCSapSession ----------------------------
(***************************************************************************)
(* System#0, a log writer with a subscription and its settings, a memory   *)
(* slot, and an object no entry of the registry covers.  The registry is   *)
(* the real one with one more entry, below a broader one of another kind.  *)
(***************************************************************************)
EXTENDS SapSession

System == <<"System#0">>
Writer == <<"Logs#0", "UdpSysLogWriter#1">>
Subscription == Append(Writer, "LogSubscription#1")
Settings == Append(Writer, "MessageLogSettings#0")
Slot == <<"MemorySlots#0", "LatchingMemorySlot#a">>
Unlisted == <<"Wibble#0">>

Tree == {System, Writer, Subscription, Settings, Slot, Unlisted}
UnderTree == [p \in Tree |-> IF p = Writer THEN <<Subscription, Settings>> ELSE <<>>]
ChildrenInTree == [p \in Tree |->
    SelectSeq(UnderTree[p], LAMBDA c : Len(c) = Len(p) + 1)]
TypePaths == [p \in Tree |->
    CASE p = Writer -> <<"Logs#0", "UdpSysLogWriter">>
      [] p = Subscription -> Append(Writer, "LogSubscription")
      [] p = Settings -> Append(Writer, "MessageLogSettings")
      [] p = Slot -> <<"MemorySlots#0", "LatchingMemorySlot">>
      [] OTHER -> Front(p)]

Layered == SUBTREES \cup {Subtree(Settings, "read_only", {}, FALSE)}

===============================================================================
