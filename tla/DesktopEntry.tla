---------------------------- MODULE DesktopEntry ----------------------------
(***************************************************************************)
(* What the program makes of a desktop file: the Application constructor   *)
(* (src/Application.cc) and the suffixes of the user's locale              *)
(* (src/LocaleSuffixes.cc).                                                *)
(*                                                                         *)
(* A file is [lines, newline]; newline = FALSE if its last line ends       *)
(* without one.  A line is [kind, key, locale, value]: a "comment" (or     *)
(* blank), the "header" [Desktop Entry], the header of another "group", a  *)
(* "pair" of a key, a locale (<<>> if it has none) and a value, or         *)
(* "malformed".  A key stands for all that take the same branch: Name for  *)
(* every key that begins so.                                               *)
(***************************************************************************)
EXTENDS CMDLine, Integers

FileLines ==
    [kind: {"comment", "header", "group", "pair", "malformed"}, key: STRING, locale: String, value: String]

\* The suffixes of the user's locale, the best one first.  The positions are those of
\* the last such character, counted from 0, which also says that there is none.
LocaleSuffixes(locale) ==
    LET Pos(ch) == Max({0} \cup {i - 1 : i \in {j \in DOMAIN locale : locale[j] = ch}})
        Before(string, n) == SubSeq(string, 1, Min({n, Len(string)}))
        From(string, n) == SubSeq(string, n + 1, Len(string))
        uscorepos == Pos("_")
        dotpos == Pos(".")
        atpos == IF dotpos # 0 /\ Pos("@") # 0 THEN dotpos ELSE Pos("@")
        stripped == CASE dotpos = 0 -> locale
                      [] dotpos # 0 /\ Pos("@") < dotpos -> Before(locale, dotpos)
                      [] OTHER -> Before(locale, dotpos) \o From(locale, Pos("@"))
    IN  CASE uscorepos = 0 /\ atpos = 0 -> <<stripped>>
          [] uscorepos # 0 /\ atpos # 0 ->
                <<stripped, Before(stripped, atpos),
                  Before(stripped, uscorepos) \o From(stripped, atpos), Before(stripped, uscorepos)>>
          [] OTHER -> <<stripped, Before(stripped, IF atpos = 0 THEN uscorepos ELSE atpos)>>

\* The index of a suffix, or -1
match(suffixes, locale) == SelectInSeq(suffixes, LAMBDA s : s = locale) - 1

-----------------------------------------------------------------------------
(* Escape sequences *)

Escapes == [s |-> SP, n |-> "newline", t |-> "tab", r |-> "return"]

convert(ch) == IF ch = BS THEN BS ELSE Escapes[ch]

\* A character of a string, or of a list in which ; separates the elements.
ExpandChar(s, ch, in_list) ==
    LET Add(c) == [s EXCEPT !.curr = Append(@, c), !.escape = FALSE]
    IN  CASE s.thrown -> s
          [] ~s.thrown /\ s.escape /\ ch \in DOMAIN Escapes \cup {BS} -> Add(convert(ch))
          [] ~s.thrown /\ s.escape /\ ch \notin DOMAIN Escapes \cup {BS} ->
                IF in_list /\ ch = ";" THEN Add(ch) ELSE [s EXCEPT !.thrown = TRUE]
          [] ~s.thrown /\ ~s.escape /\ ch = BS -> [s EXCEPT !.escape = TRUE]
          [] ~s.thrown /\ ~s.escape /\ ch = ";" /\ in_list ->
                [s EXCEPT !.result = Append(@, s.curr), !.curr = <<>>]
          [] OTHER -> Add(ch)

Expanded(value, in_list) ==
    LET start == [result |-> <<>>, curr |-> <<>>, escape |-> FALSE, thrown |-> FALSE]
        read[n \in 0 .. Len(value)] ==
            IF n = 0 THEN start ELSE ExpandChar(read[n - 1], value[n], in_list)
    IN  read[Len(value)]

expand(value) ==
    LET Result(end) == [thrown |-> end.thrown \/ end.escape, text |-> end.curr]
    IN  Result(Expanded(value, FALSE))

\* Of an empty list the loop takes the terminating zero for an element.
expandlist(value) ==
    LET Result(end) ==
            [thrown |-> end.thrown \/ end.escape,
             list |-> IF end.curr = <<>> THEN end.result ELSE Append(end.result, end.curr)]
    IN  Result(Expanded(IF value = <<>> THEN <<"nul">> ELSE value, TRUE))

-----------------------------------------------------------------------------
(* The constructor *)

\* Mutant: a value without a locale always counts.
parse_localestring_last(field, line, suffixes) ==
    LET new_match == IF line.locale = <<>> THEN 4 ELSE match(suffixes, line.locale)
        better == \/ line.locale = <<>>
                  \/ new_match # -1 /\ (new_match <= field.match \/ field.match = -1)
    IN  IF ~better THEN field
        ELSE [match |-> new_match, text |-> expand(line.value).text, thrown |-> expand(line.value).thrown]

\* The value of a better locale replaces the one before; 4 is the default value.
parse_localestring(field, line, suffixes) ==
    LET new_match == IF line.locale = <<>> THEN 4 ELSE match(suffixes, line.locale)
        better == IF line.locale = <<>> THEN field.match \in {-1, 4}
                  ELSE new_match # -1 /\ (new_match <= field.match \/ field.match = -1)
    IN  IF ~better THEN field
        ELSE [match |-> new_match, text |-> expand(line.value).text, thrown |-> expand(line.value).thrown]

have_equal_element(list1, list2) == ToSet(list1) \cap ToSet(list2) # {}

True == <<"tru", "e">>

\* Mutant: without a list of the user's desktops, none matches.
HiddenIn_none(key, desktopenvs, values) ==
    have_equal_element(desktopenvs, values) <=> key = "NotShowIn"

\* OnlyShowIn and NotShowIn count if there is a list of the user's desktops.
HiddenIn(key, desktopenvs, values) ==
    desktopenvs # <<>> /\ (have_equal_element(desktopenvs, values) <=> key = "NotShowIn")

\* The branches for the keys; an escape_error is an invalid_error.
KeyValue(s, line, suffixes, desktopenvs) ==
    LET Invalid(thrown, otherwise) == IF thrown THEN [s EXCEPT !.status = "invalid"] ELSE otherwise
        Disabled(yes) == IF yes THEN [s EXCEPT !.status = "disabled"] ELSE s
        field == parse_localestring(s[line.key], line, suffixes)
        expanded == expand(line.value)
        values == expandlist(line.value)
    IN  CASE line.key \in {"Name", "GenericName"} ->
                Invalid(field.thrown, [s EXCEPT ![line.key] = field])
          [] line.key = "Exec" -> Invalid(expanded.thrown, [s EXCEPT !.exec = expanded.text])
          [] line.key = "Path" -> Invalid(expanded.thrown, s)
          [] line.key \in {"OnlyShowIn", "NotShowIn"} ->
                Invalid(desktopenvs # <<>> /\ values.thrown,
                        Disabled(HiddenIn(line.key, desktopenvs, values.list)))
          [] line.key \in {"Hidden", "NoDisplay"} -> Disabled(line.value = True)
          [] OTHER -> s

\* An iteration of the loop over the lines.  The next header ends it.
ReadLine(s, line, suffixes, desktopenvs) ==
    CASE s.status # "reading" \/ line.kind = "comment" -> s
      [] s.status = "reading" /\ ~s.parse_key_values /\ line.kind # "comment" ->
            [s EXCEPT !.parse_key_values = (line.kind = "header")]
      [] s.status = "reading" /\ s.parse_key_values /\ line.kind \in {"header", "group"} ->
            [s EXCEPT !.status = "ended"]
      [] s.status = "reading" /\ s.parse_key_values /\ line.kind = "malformed" ->
            [s EXCEPT !.status = "invalid"]
      [] s.status = "reading" /\ s.parse_key_values /\ line.kind = "pair" ->
            KeyValue(s, line, suffixes, desktopenvs)

\* "Chop off \n": the last character of a line, whatever it is.
Chopped(line) ==
    CASE line.kind = "pair" /\ line.value # <<>> -> [line EXCEPT !.value = Front(@)]
      [] line.kind = "pair" /\ line.value = <<>> -> [line EXCEPT !.kind = "malformed"]
      [] line.kind = "header" -> [line EXCEPT !.kind = "group"]
      [] OTHER -> line

Lines(file) ==
    IF file.newline \/ file.lines = <<>> THEN file.lines
    ELSE Append(Front(file.lines), Chopped(Last(file.lines)))

\* status: "ok", or the error that is thrown
Application_ctor(file, suffixes, desktopenvs) ==
    LET none == [match |-> -1, text |-> <<>>, thrown |-> FALSE]
        start == [status |-> "reading", parse_key_values |-> FALSE, exec |-> <<>>,
                  Name |-> none, GenericName |-> none]
        Result(end) ==
            [status |-> CASE end.status \in {"invalid", "disabled"} -> end.status
                          [] end.status \in {"reading", "ended"} ->
                                IF end.parse_key_values /\ end.Name.text # <<>> THEN "ok" ELSE "invalid",
             name |-> end.Name.text, generic_name |-> end.GenericName.text, exec |-> end.exec]
        read[n \in 0 .. Len(Lines(file))] ==
            IF n = 0 THEN start ELSE ReadLine(read[n - 1], Lines(file)[n], suffixes, desktopenvs)
    IN  Result(read[Len(Lines(file))])

=============================================================================
