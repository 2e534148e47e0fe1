---------------------------- MODULE MCReadActual ----------------------------
(***************************************************************************)
(* One tcp_client writer with up to two subscriptions.                     *)
(***************************************************************************)
EXTENDS ReadActual

OneWriter == {"tcp"}
TypeOfOne == [w \in OneWriter |-> "tcp_client"]
AllTypes == WriterTypes
PlainLabels == [l \in Labels |-> l]

\* Every writer a device may hold: properties and settings always have values.
AnyStored ==
    {None} \cup [endpoint : Endpoints, property : Values, setting : Values,
                 subs : [Typeids -> [label : Labels \cup {None}, expr : Exprs]
                                       \cup {None}]]

===============================================================================
