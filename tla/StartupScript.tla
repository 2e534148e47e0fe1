----------------------------- MODULE StartupScript -----------------------------
(***************************************************************************)
(* The script a device replays at boot, as plugins/module_utils/startup.py *)
(* reads it and plugins/module_utils/webadmin.py carries it: parsing,      *)
(* comparison with live values, and finding it in the page that shows it.  *)
(*                                                                         *)
(* A line is a record: its verb ("" for a blank line, "#" for a comment,   *)
(* None for text the client cannot read), its path, the items its author   *)
(* means, and `sets', what the loader of the device makes of it.  The text *)
(* after the path is a sequence of the tokens that matter to splitting.    *)
(***************************************************************************)
EXTENDS SequencesExt, Naturals

CONSTANTS
    None,            \* nothing: no verb, no name before "=", no value
    Tokens,          \* the tokens of a text
    Lines,           \* the lines there are
    Blank,           \* the one without text
    normalise_scalar \* per value, the form in which the device reports it

Comma == ","
Quote == "\""
Backslash == "\\"

Target(path, name) == <<path, name>>

Items == [name : Seq(Tokens) \cup {None}, value : Seq(Tokens), quoted : BOOLEAN]

\* The elements of a sequence other than x, in their order (Remove of SequencesExt,
\* in a form that can be reasoned about).
Without(x, seq) ==
    LET kept[i \in 0..Len(seq)] ==
            IF i = 0 THEN <<>>
            ELSE IF seq[i] = x THEN kept[i - 1]
            ELSE Append(kept[i - 1], seq[i])
    IN  kept[Len(seq)]

(***************************************************************************)
(* How a line is written and what it does, on the device's side.           *)
(***************************************************************************)
WrittenItem(item) ==
    (IF item.name = None THEN <<>> ELSE item.name \o <<"=">>)
    \o (IF item.quoted THEN <<Quote>> \o item.value \o <<Quote>> ELSE item.value)

Rest(line) ==
    FlattenSeq([i \in DOMAIN line.items |->
        (IF i = 1 THEN <<>> ELSE <<Comma>>) \o WrittenItem(line.items[i])])

\* Every quote in the text is escaped, and its end is not.
Protected(text) ==
    \E escapes \in [0..Len(text) -> BOOLEAN] :
        /\ ~escapes[0] /\ ~escapes[Len(text)]
        /\ \A i \in 1..Len(text) :
              /\ escapes[i] <=> text[i] = Backslash /\ ~escapes[i - 1]
              /\ text[i] = Quote => escapes[i - 1]

\* Names and bare values are plain, a value in quotes has its quotes escaped, and
\* what has no name is not empty and has no "=".  A SET line with a name for every
\* value assigns these; other verbs do not assign to properties.  What else the
\* loader understands is its own business.
ASSUME LoaderAssumption ==
    LET Plain(text) == ToSet(text) \cap {"=", Comma, Quote, Backslash, "[", "]"} = {}
    IN  /\ Blank \in Lines /\ Blank.verb = "" /\ Blank.items = <<>> /\ Blank.sets = <<>>
        /\ {"=", Comma, Quote} \subseteq Tokens
        /\ \A l \in Lines :
             /\ l.items \in Seq(Items)
             /\ l.verb \in {"", "#"} => l.sets = <<>>
             /\ \A i \in DOMAIN l.items :
                  LET item == l.items[i]
                  IN  /\ IF item.name # None THEN Plain(item.name)
                         ELSE (item.quoted \/ item.value # <<>>) /\ "=" \notin ToSet(item.value)
                      /\ IF item.quoted THEN Protected(item.value) ELSE Plain(item.value)
             /\ l.verb # None /\ (\A i \in DOMAIN l.items : l.items[i].name # None) =>
                   l.sets = IF l.verb # "SET" THEN <<>>
                            ELSE [i \in DOMAIN l.items |->
                                    <<Target(l.path, l.items[i].name), l.items[i].value>>]

(***************************************************************************)
(* Text and lines.                                                         *)
(***************************************************************************)
normalise(text) == Without(Blank, text)

\* A separator after the last line, which reads as one more, blank, line.
render(lines) == Append(lines, Blank)

(***************************************************************************)
(* parse_script, with the splitting of items it takes from sapv2.py.       *)
(***************************************************************************)

\* Mutation of Escapes: a backslash is a token like any other.
NeverEscapes(s, ch) == FALSE

Escapes(s, ch) == ~s.escaped /\ ch = Backslash

\* One token of the text: escapes, quotes and brackets, in this order, protect
\* what they enclose.
Scan(s, ch) ==
    LET kept == [s EXCEPT !.buf = Append(@, ch), !.escaped = FALSE]
    IN  CASE s.escaped -> kept
          [] Escapes(s, ch) -> [kept EXCEPT !.escaped = TRUE]
          [] ~s.escaped /\ ch = Quote -> [kept EXCEPT !.in_quotes = ~@]
          [] ~s.escaped /\ ~s.in_quotes /\ ch = "[" -> [kept EXCEPT !.depth = @ + 1]
          [] ~s.escaped /\ ~s.in_quotes /\ ch = "]" ->
               [kept EXCEPT !.depth = IF @ = 0 THEN 0 ELSE @ - 1]
          [] ~s.escaped /\ ~s.in_quotes /\ s.depth = 0 /\ ch = Comma ->
               [s EXCEPT !.out = Append(@, s.buf), !.buf = <<>>]
          [] OTHER -> kept

Start == [out |-> <<>>, buf |-> <<>>, depth |-> 0,
          in_quotes |-> FALSE, escaped |-> FALSE]

\* Where the scan of a text ends that starts in s.
Scanned(s, text) ==
    LET at[i \in 0..Len(text)] == IF i = 0 THEN s ELSE Scan(at[i - 1], text[i])
    IN  at[Len(text)]

_split_top_level(text) ==
    LET end == Scanned(Start, text)
    IN  Without(<<>>, Append(end.out, end.buf))

_unquote(text) ==
    IF Len(text) >= 2 /\ Head(text) = Quote /\ Last(text) = Quote
    THEN SubSeq(text, 2, Len(text) - 1)
    ELSE text

Named(item) == "=" \in ToSet(item)

Command(line, name, value) ==
    [verb |-> line.verb, path |-> line.path, name |-> name, value |-> value,
     raw |-> line]

\* name=value, at the first "=".
Pair(line, item) ==
    LET eq == CHOOSE i \in DOMAIN item :
                 item[i] = "=" /\ \A j \in 1..i - 1 : item[j] # "="
    IN  Command(line, SubSeq(item, 1, eq - 1), _unquote(SubSeq(item, eq + 1, Len(item))))

Skipped(line) == line.verb \in {"", "#"}

\* The commands of one line: one for each item with a name, and a bare DEL.
CommandsOf(line) ==
    IF Skipped(line) \/ line.verb = None THEN <<>>
    ELSE IF line.items = <<>> /\ line.verb = "DEL" THEN <<Command(line, None, None)>>
    ELSE LET parts == _split_top_level(Rest(line))
             named == Without(<<>>, [i \in DOMAIN parts |->
                                        IF Named(parts[i]) THEN parts[i] ELSE <<>>])
         IN  [i \in DOMAIN named |-> Pair(line, named[i])]

Commands(lines) == FlattenSeq([i \in DOMAIN lines |-> CommandsOf(lines[i])])

\* The lines reported as not understood, whole or in part.
Unparsed(lines) ==
    {l \in ToSet(lines) :
        /\ ~Skipped(l)
        /\ \/ CommandsOf(l) = <<>>
           \/ \E item \in ToSet(_split_top_level(Rest(l))) : ~Named(item)}

is_property(c) == c.verb = "SET"

\* Mutation of index_by_target: the first line wins.
FirstWins(commands) ==
    LET sets == {i \in DOMAIN commands : is_property(commands[i])}
        At(i) == Target(commands[i].path, commands[i].name)
    IN  [t \in {At(i) : i \in sets} |->
            commands[CHOOSE i \in sets : At(i) = t /\ \A j \in sets : At(j) = t => i <= j]]

\* Of the commands that set a property, the last one.
index_by_target(commands) ==
    LET sets == {i \in DOMAIN commands : is_property(commands[i])}
        At(i) == Target(commands[i].path, commands[i].name)
    IN  [t \in {At(i) : i \in sets} |->
            commands[CHOOSE i \in sets : At(i) = t /\ \A j \in sets : At(j) = t => j <= i]]

(***************************************************************************)
(* boot_vs_live and conflicts, by the index of a script.  `live' gives a   *)
(* value to every property the reads have shown; `paths' are the objects   *)
(* that were read.                                                         *)
(***************************************************************************)
Drift(index, live) == {t \in DOMAIN index \cap DOMAIN live : live[t] # index[t].value}

\* With each, whether the vendor ships that line.
Unverifiable(index, live, paths, factory) ==
    {<<t, index[t].raw \in ToSet(factory)>> :
        t \in {t \in DOMAIN index \ DOMAIN live : t[1] \in paths}}

conflicts(intended, index) ==
    {t \in DOMAIN intended \cap DOMAIN index : index[t].value # intended[t]}

(***************************************************************************)
(* The page: statements that assign a string to a variable, or a variable  *)
(* to a text area.  A literal that does not end is `None'.                 *)
(***************************************************************************)
Assign(var, text) == [stmt |-> "assign", var |-> var, text |-> text]
Use(element, var) == [stmt |-> "use", var |-> var, element |-> element]

\* The value of a variable before the n-th statement.
ValueAt(page, n, var) ==
    LET set == {i \in 1..n - 1 : page[i].stmt = "assign" /\ page[i].var = var
                                    /\ page[i].text # None}
    IN  IF set = {} THEN None
        ELSE page[CHOOSE i \in set : \A j \in set : j <= i].text

\* Mutation of extract_scripts: a variable has one value, the last it is given.
KeysOnVariable(page) ==
    LET uses == {i \in DOMAIN page : page[i].stmt = "use"
                    /\ ValueAt(page, Len(page) + 1, page[i].var) # None}
    IN  [e \in {page[i].element : i \in uses} |->
            LET i == CHOOSE i \in uses : page[i].element = e
            IN  ValueAt(page, Len(page) + 1, page[i].var)]

\* Per text area, what it is given last.
extract_scripts(page) ==
    LET uses == {i \in DOMAIN page : page[i].stmt = "use"
                    /\ ValueAt(page, i, page[i].var) # None}
    IN  [e \in {page[i].element : i \in uses} |->
            LET own == {i \in uses : page[i].element = e}
                i == CHOOSE i \in own : \A j \in own : j <= i
            IN  ValueAt(page, i, page[i].var)]

\* fetch(): the live script, or None where it cannot be told.
Fetched(page) ==
    LET scripts == extract_scripts(page)
    IN  IF "options" \in DOMAIN scripts THEN scripts["options"] ELSE None

\* save() refuses a script without text.
Saveable(text) == normalise(text) # <<>>

(***************************************************************************)
(* The loader: what is live after the script has been replayed over it.    *)
(* None stands for a property that SapV2 does not report, before or after. *)
(***************************************************************************)
Assignments(text) == FlattenSeq([i \in DOMAIN text |-> text[i].sets])

Replay(text, live) ==
    LET sets == Assignments(text)
        By(t) == {i \in DOMAIN sets : sets[i][1] = t}
    IN  [t \in DOMAIN live |->
            IF By(t) = {} \/ live[t] = None THEN live[t]
            ELSE normalise_scalar[sets[CHOOSE i \in By(t) : \A j \in By(t) : j <= i][2]]]

================================================================================
