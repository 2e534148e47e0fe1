--------------------------------- MODULE MCBoot ---------------------------------
(***************************************************************************)
(* A script over two rotation settings, one of them on the same line as a  *)
(* property SapV2 does not report; two logs tasks, a run that manages the  *)
(* script and compares it with what is live.                               *)
(***************************************************************************)
EXTENDS Boot, TLC

Rule == "Logs#0.LogRotator#0.RotateRule#0"
Size == <<Rule, <<"MaxFileSize">>>>
Clean == <<"Logs#0", <<"SkipCleanLogs">>>>
Hidden == <<"Logs#0", <<"QorMonitor">>>>

\* A value with an escaped quote, a comma and a bracket in it.
Odd == <<"x", Backslash, Quote, Comma, "[">>

AllTargets == {Size, Clean, Hidden}
AllValues == {<<"1">>, <<"100">>, <<"true">>, <<"True">>, <<"False">>, Odd}

Bare(name, value) == [name |-> name, value |-> value, quoted |-> FALSE]
Quoted(name, value) == [name |-> name, value |-> value, quoted |-> TRUE]
Line(verb, path, items, sets) == [verb |-> verb, path |-> path, items |-> items, sets |-> sets]

BlankLine == Line("", "", <<>>, <<>>)
Comment == Line("#", "", <<>>, <<>>)
SizeSmall == Line("SET", Rule, <<Quoted(Size[2], <<"1">>)>>, <<<<Size, <<"1">>>>>>)
SizeLarge == Line("SET", Rule, <<Bare(Size[2], <<"100">>)>>, <<<<Size, <<"100">>>>>>)
Nop == Line("NOP", Rule, <<Bare(Size[2], <<"100">>)>>, <<>>)
\* The case of true is the operator's.
Both == Line("SET", "Logs#0", <<Quoted(Hidden[2], Odd), Bare(Clean[2], <<"true">>)>>,
             <<<<Hidden, Odd>>, <<Clean, <<"true">>>>>>)
\* An item the client cannot read, and the loader can.
Half == Line("SET", Rule, <<Bare(None, <<"MaxFileSize", "100">>)>>, <<<<Size, <<"100">>>>>>)
Garbled == Line(None, "", <<>>, <<<<Size, <<"100">>>>>>)

AllTokens == {"x", Backslash, Quote, Comma, "[", "=", "1", "100", "true", "True", "False",
              "MaxFileSize", "SkipCleanLogs", "QorMonitor"}
AllLines == {BlankLine, Comment, SizeSmall, SizeLarge, Nop, Both, Half, Garbled}
Forms == [v \in AllValues |-> IF v = <<"true">> THEN <<"True">> ELSE v]

Stock == <<SizeLarge, Both>>
Wanted == <<SizeLarge, SizeSmall, Nop, Both>>
SomeDocs == {<<SizeSmall, SizeLarge, Nop, BlankLine, Both>>, <<Comment, Half, Garbled>>}

\* One variable for both areas, as measured; and one each, the other way round.
Pages ==
    {<<Assign("fileData", "script"), Use("options", "fileData"),
       Assign("fileData", "factory"), Use("defaultoptions", "fileData")>>,
     <<Assign("a", "factory"), Use("defaultoptions", "a"),
       Assign("b", "script"), Use("options", "b")>>}

LiveValues == {[t \in AllTargets |->
                  CASE t = Size -> s [] t = Clean -> <<"False">> [] t = Hidden -> None] :
                 s \in {<<"1">>, <<"100">>}}

Desires == [m \in {"manage"} |-> Wanted]

Asked == [t \in {"a", "b"} |->
    IF t = "a" THEN Size :> <<"1">> @@ Clean :> <<"true">> ELSE Size :> <<"1">>]

=================================================================================
