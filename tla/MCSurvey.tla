------------------------------- MODULE MCSurvey -------------------------------
(***************************************************************************)
(* Two writers of one type, each with a subscription, one of them listed   *)
(* by a group as well and listing it in turn; and a name with a dot in it. *)
(***************************************************************************)
EXTENDS Survey

Piece(base, instance) == [base |-> base, instance |-> instance]

Logs == <<Piece("Logs", "0")>>
Groups == <<Piece("PropertyGroups", "0")>>
W1 == Append(Logs, Piece("UdpSysLogWriter", "1"))
W2 == Append(Logs, Piece("UdpSysLogWriter", "2"))
S1 == Append(W1, Piece("LogSubscription", "1"))
S2 == Append(W2, Piece("LogSubscription", "1"))
Dotted == Append(Append(Groups, Piece("Group", "a")), Piece("b", None))

ObjectSeq == <<Logs, W1, S1, W2, S2, Groups, Dotted>>
AllObjects == ToSet(ObjectSeq)
RankOf == [p \in AllObjects |-> CHOOSE i \in DOMAIN ObjectSeq : ObjectSeq[i] = p]
RootListing == <<Groups, Logs>>
Fallback == <<Logs>>
Lists == [p \in AllObjects |->
    CASE p = Logs -> <<W2, W1>>
      [] p = W1 -> <<S1, Groups>>
      [] p = W2 -> <<S2>>
      [] p = Groups -> <<W1, Dotted>>
      [] OTHER -> <<>>]
Access == [p \in AllObjects |->
    CASE p \in {W1, W2} -> [Name |-> "RW", Trigger |-> "WO"]
      [] p \in {S1, S2} -> [Name |-> "RO"]
      [] p = Dotted -> [Pulse |-> "WO", Name |-> "unknown"]
      [] OTHER -> [Name |-> "RO"]]

CallSet ==
    [roots : {None, <<Logs>>, <<S1, W1, Logs>>}, max_instances_per_type : {1, 2},
     probe_constructor : BOOLEAN, max_children : {None, 1}, max_depth : {1, 2, 4},
     max_commands : {None, 0, 4}]

===============================================================================
