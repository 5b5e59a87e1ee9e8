-------------------------------- MODULE CMDLine --------------------------------
(***************************************************************************)
(* The pure functions that make a command line of a desktop file's Exec    *)
(* key: src/CMDLineAssembler.cc, src/FieldCodes.cc and src/CMDLineTerm.cc. *)
(* A string is a sequence of characters.  A word that is never looked into *)
(* ("/bin/sh", a placeholder such as "{name}") is one character.           *)
(***************************************************************************)
EXTENDS Naturals, Sequences, SequencesExt

BS == "\\"
DQ == "\""
SQ == "'"
SP == " "

\* Strings of characters.  The literals that end up in a command line are characters
\* as well; they are listed for the provers, which do not know that they are strings.
Chars == STRING \cup
    {BS, SQ, SP, "percent", "/bin/sh", "-c", "wrap script", "wrapper", "exec", "cd", "&&",
     "-title", "-T", "--title", "-e", "-x", "--", "script"}
String == Seq(Chars)

\* What a backslash may stand before within double quotes.
Escapable == {DQ, BS, "backquote", "$"}

-----------------------------------------------------------------------------
(* Quoting for the shell *)

\* Mutant: a quote is closed but not opened again.
sq_quote_unbalanced(s) ==
    FoldLeft(LAMBDA q, ch : q \o IF ch = SQ THEN <<SQ, BS, SQ>> ELSE <<ch>>, <<SQ>>, s) \o <<SQ>>

\* A last ' needs no quotes after it.
sq_quote(s) ==
    LET body[n \in 0 .. Len(s)] ==
            IF n = 0 THEN <<SQ>>
            ELSE body[n - 1] \o IF s[n] = SQ THEN <<SQ, BS, SQ, SQ>> ELSE <<s[n]>>
    IN  IF s # <<>> /\ Last(s) = SQ THEN body[Len(s) - 1] \o <<SQ, BS, SQ>>
                                    ELSE body[Len(s)] \o <<SQ>>

\* A space before every string but the first; no quoted one is empty.
JoinNext(all, s) == IF all = <<>> THEN s ELSE all \o <<SP>> \o s

Joined(strings) ==
    LET joined[n \in 0 .. Len(strings)] ==
            IF n = 0 THEN <<>> ELSE JoinNext(joined[n - 1], strings[n])
    IN  joined[Len(strings)]

convert_argv_to_string(command) == Joined([i \in DOMAIN command |-> sq_quote(command[i])])

wrap_cmdstring_in_shell(cmdstring) == << <<"/bin/sh">>, <<"-c">>, cmdstring>>

wrap_command_in_wrapper(command, wrapper) ==
    << <<"/bin/sh">>, <<"-c">>, <<"wrap script">>, <<"/bin/sh">>, wrapper>>
    \o command

\* How /bin/sh takes a string apart: a sequence of commands, each a sequence of
\* words.  Nothing is expanded: a $ stands for itself.
EndWord(s) ==
    IF s.open THEN [s EXCEPT !.words = Append(@, s.curr), !.curr = <<>>, !.open = FALSE] ELSE s

EndCommand(s) ==
    LET w == EndWord(s) IN [w EXCEPT !.done = Append(@, w.words), !.words = <<>>]

ShellChar(s, ch) ==
    LET Add(chars) == [s EXCEPT !.curr = @ \o chars, !.open = TRUE, !.escaped = FALSE]
    IN  CASE s.escaped -> Add(IF s.quote = DQ /\ ch \notin Escapable THEN <<BS, ch>> ELSE <<ch>>)
          [] ~s.escaped /\ s.quote # SP /\ ch = s.quote -> [s EXCEPT !.quote = SP]
          [] ~s.escaped /\ s.quote # SQ /\ ch = BS -> [s EXCEPT !.escaped = TRUE]
          [] ~s.escaped /\ s.quote = SP /\ ch \in {SQ, DQ} -> [s EXCEPT !.open = TRUE, !.quote = ch]
          [] ~s.escaped /\ s.quote = SP /\ ch = SP -> EndWord(s)
          [] ~s.escaped /\ s.quote = SP /\ ch = "&&" -> EndCommand(s)
          [] OTHER -> Add(<<ch>>)

\* From a state, through a string
ShellRun(start, string) ==
    LET run[n \in 0 .. Len(string)] == IF n = 0 THEN start ELSE ShellChar(run[n - 1], string[n])
    IN  run[Len(string)]

ShellStart == [done |-> <<>>, words |-> <<>>, curr |-> <<>>, open |-> FALSE, quote |-> SP,
               escaped |-> FALSE]

ShellCommands(string) == EndCommand(ShellRun(ShellStart, string)).done

-----------------------------------------------------------------------------
(* The Exec key *)

\* Mutant: a backslash outside of quotes is accepted.
ValidateChar_lax(s, ch) ==
    IF s.escaped THEN [s EXCEPT !.escaped = FALSE, !.valid = @ /\ ch \in Escapable]
    ELSE [s EXCEPT !.in_quotes = IF ch = DQ THEN ~@ ELSE @, !.escaped = s.in_quotes /\ ch = BS]

\* The loop of validate_exec_key(): an escape may stand within quotes only.
ValidateChar(s, ch) ==
    IF s.escaped THEN [s EXCEPT !.escaped = FALSE, !.valid = @ /\ ch \in Escapable]
    ELSE [in_quotes |-> IF ch = DQ THEN ~s.in_quotes ELSE s.in_quotes,
          escaped |-> s.in_quotes /\ ch = BS,
          valid |-> s.valid /\ (ch = BS => s.in_quotes)]

validate_exec_key(exec_key) ==
    LET start == [in_quotes |-> FALSE, escaped |-> FALSE, valid |-> TRUE]
        validated[n \in 0 .. Len(exec_key)] ==
            IF n = 0 THEN start ELSE ValidateChar(validated[n - 1], exec_key[n])
        end == validated[Len(exec_key)]
    IN  end.valid /\ ~end.in_quotes

\* The loop of convert_exec_to_command().  Every space outside of quotes ends a
\* word, an empty one too; what follows a backslash and is not Escapable is dropped.
ConvertChar(s, ch, wine_compatibility_mode) ==
    LET Add == [s EXCEPT !.curr = Append(@, ch)]
    IN  CASE s.thrown -> s
          [] ~s.thrown /\ s.escaping ->
                IF ch \in Escapable \/ (ch = SP /\ wine_compatibility_mode)
                THEN [Add EXCEPT !.escaping = FALSE]
                ELSE [s EXCEPT !.escaping = FALSE, !.thrown = (ch = SP)]
          [] ~s.thrown /\ ~s.escaping /\ ch = DQ -> [s EXCEPT !.in_quotes = ~@]
          [] ~s.thrown /\ ~s.escaping /\ ch = BS ->
                IF s.in_quotes \/ wine_compatibility_mode THEN [s EXCEPT !.escaping = TRUE]
                                                          ELSE [s EXCEPT !.thrown = TRUE]
          [] ~s.thrown /\ ~s.escaping /\ ch = SP /\ ~s.in_quotes ->
                [s EXCEPT !.result = Append(@, s.curr), !.curr = <<>>]
          [] OTHER -> Add

Converted(exec_key, wine_compatibility_mode) ==
    LET start == [result |-> <<>>, curr |-> <<>>, in_quotes |-> FALSE, escaping |-> FALSE,
                  thrown |-> FALSE]
        converted[n \in 0 .. Len(exec_key)] ==
            IF n = 0 THEN start
            ELSE ConvertChar(converted[n - 1], exec_key[n], wine_compatibility_mode)
    IN  converted[Len(exec_key)]

\* Mutant: the last word is forgotten.
convert_exec_to_command_open(exec_key, wine_compatibility_mode) ==
    LET end == Converted(exec_key, wine_compatibility_mode)
    IN  [thrown |-> end.thrown, command |-> end.result]

\* A last word is kept if it is not empty.
convert_exec_to_command(exec_key, wine_compatibility_mode) ==
    LET end == Converted(exec_key, wine_compatibility_mode)
    IN  [thrown |-> end.thrown,
         command |-> IF end.curr = <<>> THEN end.result ELSE Append(end.result, end.curr)]

-----------------------------------------------------------------------------
(* Field codes.  A code is a character too: "%f" stands for all of %f, %F, %u
   and %U, "%i" for the ones that are left in place. *)

FieldCodes == {"%%", "%f", "%c", "%k", "%i", "%?", "%"}

\* split(): a delimiter at the end has nothing behind it.
split(string, delimiter) ==
    LET Step(parts, ch) == IF ch = delimiter THEN Append(parts, <<>>)
                           ELSE [parts EXCEPT ![Len(parts)] = Append(@, ch)]
        parts[n \in 0 .. Len(string)] ==
            IF n = 0 THEN << <<>> >> ELSE Step(parts[n - 1], string[n])
        all == parts[Len(string)]
    IN  IF string # <<>> /\ Last(string) = delimiter THEN Front(all) ELSE all

AddWord(words, w) == IF w = <<>> THEN words ELSE Append(words, w)

NotEmpty(words) ==
    LET kept[n \in 0 .. Len(words)] == IF n = 0 THEN <<>> ELSE AddWord(kept[n - 1], words[n])
    IN  kept[Len(words)]

\* The user's arguments, without the empty ones
SplitWords(string) == NotEmpty(split(string, SP))

\* Mutant: the last word is inserted before the ones in between.
Spread_unmoved(before, words, suffix) ==
    << before \o Head(words), Last(words) \o suffix >> \o SubSeq(words, 2, Len(words) - 1)

\* Several words take the place of an argument.
Spread(before, words, suffix) ==
    << before \o Head(words) >> \o SubSeq(words, 2, Len(words) - 1) \o << Last(words) \o suffix >>

\* An iteration of the loop of expand_field_codes(): the arguments, and where the
\* loop goes on.  Only the first code of an argument is looked at, and the argument
\* behind one that was taken out or spread is not.
ExpandArgument(args, iter, app, user_arguments) ==
    LET arg == args[iter]
        pos == SelectInSeq(arg, LAMBDA ch : ch \in FieldCodes)
        code == arg[pos]
        before == SubSeq(arg, 1, pos - 1)
        after == SubSeq(arg, pos + 1, Len(arg))
        words == SplitWords(user_arguments)
        Replaced(string) == [args |-> ReplaceAt(args, iter, before \o string \o after),
                             next |-> iter + 1, thrown |-> FALSE]
        Splice(strings) == SubSeq(args, 1, iter - 1) \o strings \o SubSeq(args, iter + 1, Len(args))
        suffix == IF pos + 1 < Len(args) THEN after ELSE <<>>
    IN  CASE pos = 0 -> [args |-> args, next |-> iter + 1, thrown |-> FALSE]
          [] pos # 0 /\ code \in {"%", "%?"} -> [args |-> args, next |-> iter, thrown |-> TRUE]
          [] pos # 0 /\ code = "%i" -> [args |-> args, next |-> iter + 1, thrown |-> FALSE]
          [] pos # 0 /\ code = "%%" -> Replaced(<<"percent">>)
          [] pos # 0 /\ code = "%c" -> Replaced(app.name)
          [] pos # 0 /\ code = "%k" -> Replaced(app.location)
          [] pos # 0 /\ code = "%f" /\ Len(words) = 1 -> Replaced(user_arguments)
          [] pos # 0 /\ code = "%f" /\ Len(words) = 0 ->
                IF arg = <<code>> THEN [args |-> Splice(<<>>), next |-> iter + 1, thrown |-> FALSE]
                                  ELSE Replaced(<<>>)
          [] pos # 0 /\ code = "%f" /\ Len(words) > 1 ->
                [args |-> Splice(Spread(before, words, suffix)), next |-> iter + Len(words) + 1, thrown |-> FALSE]

-----------------------------------------------------------------------------
(* Terminal emulators *)

\* The script that default_term_assembler() and {script} leave in /tmp, without
\* the lines that remove it and set the title.
create_term_emulator_temp_script(commandline) ==
    <<"exec", SP>> \o convert_argv_to_string(commandline)

TitleFlag == [xterm |-> "-title", alacritty |-> "-T", kitty |-> "-T", terminator |-> "-T",
              gnome_terminal |-> "--title"]
CommandFlag == [xterm |-> << <<"-e">> >>, alacritty |-> << <<"-e">> >>, kitty |-> <<>>,
                terminator |-> << <<"-x">> >>, gnome_terminal |-> << <<"--">> >>]

\* xterm_term_assembler() and its like
titled_term_assembler(term_mode, commandline, terminal, app_name) ==
    <<terminal, <<TitleFlag[term_mode]>>, app_name>> \o CommandFlag[term_mode] \o commandline

\* The placeholders of the custom mode; "{" stands for one that is unknown.
Placeholders == {"{name}", "{cmdline@}", "{cmdline*}", "{script}"}

\* {cmdline@} is an argument of its own.
Separate(term, i, had_space) ==
    /\ i = 1 \/ had_space
    /\ i = Len(term) \/ term[i + 1] = SP

ValidateTermChar(s, term, i) ==
    LET ch == term[i]
    IN  IF s.escaped
        THEN [s EXCEPT !.escaped = FALSE, !.had_space = FALSE,
                       !.valid = @ /\ ch \in {BS, SP, "{"} \cup Placeholders]
        ELSE [escaped |-> ch = BS, had_space |-> ch = SP,
              valid |-> /\ s.valid /\ ch # "{"
                        /\ ch = "{cmdline@}" => Separate(term, i, s.had_space)]

validate_custom_term(term) ==
    LET start == [escaped |-> FALSE, had_space |-> FALSE, valid |-> TRUE]
        validated[n \in 0 .. Len(term)] ==
            IF n = 0 THEN start ELSE ValidateTermChar(validated[n - 1], term, n)
    IN  term # <<>> /\ validated[Len(term)].valid

\* An escape before a character that needs none, or an unknown placeholder, aborts.
ParseTermChar(s, ch) ==
    LET Add == [s EXCEPT !.curr = Append(@, ch), !.escaped = FALSE]
    IN  CASE s.escaped /\ ch \in {BS, SP, "{"} \cup Placeholders -> Add
          [] s.escaped /\ ch \notin {BS, SP, "{"} \cup Placeholders -> [s EXCEPT !.aborted = TRUE]
          [] ~s.escaped /\ ch = BS -> [s EXCEPT !.escaped = TRUE]
          [] ~s.escaped /\ ch = SP ->
                IF s.curr = <<>> THEN s ELSE [s EXCEPT !.args = Append(@, s.curr), !.curr = <<>>]
          [] ~s.escaped /\ ch \in Placeholders ->
                [Add EXCEPT !.placeholders =
                    Append(@, [arg |-> Len(s.args) + 1, pos |-> Len(s.curr) + 1])]
          [] ~s.escaped /\ ch = "{" -> [s EXCEPT !.aborted = TRUE]
          [] OTHER -> Add

\* The arguments of --term, and which of their characters are placeholders: an
\* escaped one looks the same.  What a DEBUG build does at the end is in TermAborts.
parse_escaped_term(term) ==
    LET start == [args |-> <<>>, curr |-> <<>>, escaped |-> FALSE, placeholders |-> <<>>,
                  aborted |-> FALSE]
        parsed[n \in 0 .. Len(term)] ==
            IF n = 0 THEN start ELSE ParseTermChar(parsed[n - 1], term[n])
        end == parsed[Len(term)]
    IN  [end EXCEPT !.args = IF end.curr = <<>> THEN @ ELSE Append(@, end.curr)]

\* What a DEBUG build asks of an argument: the first {cmdline@} in it, escaped or not,
\* has a backslash before it or is all of it.
CommandStandsAlone(arg) ==
    LET where == SelectInSeq(arg, LAMBDA ch : ch = "{cmdline@}")
    IN  \/ where = 0
        \/ where > 1 /\ arg[where - 1] = BS
        \/ arg = <<"{cmdline@}">>

\* What it asks of the places: each is behind the one before it.
PlacesSorted(places) ==
    \A i \in 2 .. Len(places) :
        LET last == places[i - 1]
            place == places[i]
        IN  last.arg < place.arg \/ (last.arg = place.arg /\ last.pos < place.pos)

\* The abort() calls of parse_escaped_term() and custom_term_assembler()
TermAborts(term, debug) ==
    LET parsed == parse_escaped_term(term)
    IN  \/ parsed.aborted
        \/ debug /\ \E i \in DOMAIN parsed.args : ~CommandStandsAlone(parsed.args[i])
        \/ debug /\ ~PlacesSorted(parsed.placeholders)

\* The loop of custom_term_assembler(): the text at a place is replaced.
ReplacePlaceholder(args, place, commandline, app_name) ==
    LET arg == args[place.arg]
        ch == arg[place.pos]
        With(string) == ReplaceAt(args, place.arg,
            SubSeq(arg, 1, place.pos - 1) \o string \o SubSeq(arg, place.pos + 1, Len(arg)))
    IN  CASE ch = "{name}" -> With(app_name)
          [] ch = "{cmdline@}" -> SubSeq(args, 1, place.arg - 1) \o commandline
                                  \o SubSeq(args, place.arg + 1, Len(args))
          [] ch = "{cmdline*}" -> With(convert_argv_to_string(commandline))
          [] ch = "{script}" -> With(<<"script">>)

\* Mutant: from left to right, which moves the places that are still to come.
custom_term_assembler_left(commandline, term, app_name) ==
    LET parsed == parse_escaped_term(term)
    IN  FoldLeft(LAMBDA args, place :
                    IF place.arg \in DOMAIN args /\ place.pos \in DOMAIN args[place.arg]
                       /\ args[place.arg][place.pos] \in Placeholders
                    THEN ReplacePlaceholder(args, place, commandline, app_name) ELSE args,
                 parsed.args, parsed.placeholders)

\* From right to left
custom_term_assembler(commandline, term, app_name) ==
    LET parsed == parse_escaped_term(term)
        places == parsed.placeholders
        filled[n \in 0 .. Len(places)] ==
            IF n = 0 THEN parsed.args
            ELSE ReplacePlaceholder(filled[n - 1], places[Len(places) + 1 - n], commandline, app_name)
    IN  filled[Len(places)]

=============================================================================
