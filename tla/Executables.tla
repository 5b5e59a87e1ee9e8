------------------------------ MODULE Executables ------------------------------
(***************************************************************************)
(* From what the user has typed or chosen to what is executed              *)
(* (NormalExecutable), printed (FakeExecutable, --no-exec) or sent to i3   *)
(* (I3Executable): lookup_name() and the execute phase of src/main.cc, by  *)
(* the functions of module CMDLine.                                        *)
(***************************************************************************)
EXTENDS CMDLine

CONSTANT
    Inputs     \* [menu, query, opt]: the applications in the order of the map, with the names
               \* they are shown by; the user's input; the options [mode, term_mode, term,
               \* wrapper, wine_compatibility_mode], and debug for a build with DEBUG

Modes == {"normal", "no_exec", "i3"}
TermModes == {"default", "custom"} \cup DOMAIN TitleFlag

MenuApps == [exec: String, path: String, name: String, location: String,
             terminal: BOOLEAN, custom: {FALSE}]
CustomApps == [exec: String, custom: {TRUE}]   \* a command that is not in the menu
Opts == [mode: Modes, term_mode: TermModes, term: String, wrapper: BOOLEAN,
         wine_compatibility_mode: BOOLEAN, debug: BOOLEAN]

\* The names of the menu are the keys of a map; --wrapper and i3 exclude each other.
ASSUME ExecutablesAssumption ==
    \A in \in Inputs :
        /\ in.menu \in Seq([shown: String, app: MenuApps])
        /\ \A i, j \in DOMAIN in.menu : in.menu[i].shown = in.menu[j].shown => i = j
        /\ in.query \in String /\ in.opt \in Opts
        /\ in.opt.mode = "i3" => ~in.opt.wrapper

VARIABLES
    pc,        \* "lookup", "start", "expand", "assemble", or how it ended
    menu,      \* the names and applications of the menu
    query,     \* the user's input
    choice,    \* [app, args]: the application and what was typed behind its name
    opt,       \* the options in use
    command,   \* command_array
    iter,      \* where expand_field_codes() is in it
    script,    \* the contents of the temporary script
    out        \* the argv for execvp(), or the string printed or sent

vars == <<pc, menu, query, choice, opt, command, iter, script, out>>

app == choice.app

TypeOK ==
    /\ pc \in {"lookup", "start", "expand", "assemble", "done", "exit", "terminate", "abort"}
    /\ menu \in Seq([shown: String, app: MenuApps]) /\ query \in String /\ opt \in Opts
    /\ choice \in [app: MenuApps \cup CustomApps, args: String]
    /\ command \in Seq(String) /\ iter \in 1 .. Len(command) + 1
    /\ script \in String
    /\ out \in IF opt.mode = "normal" THEN Seq(String) ELSE String

\* main() has validated a custom --term.
Init ==
    /\ pc = "lookup"
    /\ \E in \in Inputs :
          /\ in.opt.term_mode = "custom" => validate_custom_term(in.opt.term)
          /\ menu = in.menu /\ query = in.query /\ opt = in.opt
    /\ choice = [app |-> [custom |-> TRUE, exec |-> <<>>], args |-> <<>>]
    /\ command = <<>> /\ iter = 1
    /\ script = <<>> /\ out = <<>>

-----------------------------------------------------------------------------
\* Mutant: the names are tried in order, without looking for an exact match first.
lookup_name_in_order ==
    /\ pc = "lookup"
    /\ LET prefix == SelectInSeq(menu, LAMBDA e : IsPrefix(e.shown, query))
       IN  choice' = IF prefix = 0
                     THEN [app |-> [custom |-> TRUE, exec |-> query], args |-> <<>>]
                     ELSE [app |-> menu[prefix].app,
                           args |-> SubSeq(query, Len(menu[prefix].shown) + 1, Len(query))]
    /\ pc' = "start"
    /\ UNCHANGED <<menu, query, opt, command, iter, script, out>>

\* The name itself, else the first name of the map that the query begins with, else
\* a command that is not the name of an application.
lookup_name ==
    /\ pc = "lookup"
    /\ LET exact == SelectInSeq(menu, LAMBDA e : e.shown = query)
           prefix == SelectInSeq(menu, LAMBDA e : IsPrefix(e.shown, query))
       IN  choice' =
              CASE exact # 0 -> [app |-> menu[exact].app, args |-> <<>>]
                [] exact = 0 /\ prefix # 0 ->
                      [app |-> menu[prefix].app,
                       args |-> SubSeq(query, Len(menu[prefix].shown) + 1, Len(query))]
                [] OTHER -> [app |-> [custom |-> TRUE, exec |-> query], args |-> <<>>]
    /\ pc' = "start"
    /\ UNCHANGED <<menu, query, opt, command, iter, script, out>>

wrapped(argv) == IF opt.wrapper THEN wrap_command_in_wrapper(argv, <<"wrapper">>) ELSE argv

\* A command that is not the name of an application goes through a shell; i3 has one.
custom_command ==
    /\ pc = "start" /\ app.custom
    /\ LET argv == wrapped(wrap_cmdstring_in_shell(app.exec))
       IN  out' = CASE opt.mode = "i3" -> app.exec
                    [] opt.mode = "no_exec" -> convert_argv_to_string(argv)
                    [] opt.mode = "normal" -> argv
    /\ pc' = "done"
    /\ UNCHANGED <<menu, query, choice, opt, command, iter, script>>

\* NormalExecutable::execute(): the directory of Path may be gone.
chdir_fails ==
    /\ pc = "start" /\ ~app.custom
    /\ opt.mode = "normal" /\ app.path # <<>>
    /\ pc' = "exit"
    /\ UNCHANGED <<menu, query, choice, opt, command, iter, script, out>>

\* Exec_invalid_escape ends the program, too.
convert ==
    /\ pc = "start" /\ ~app.custom
    /\ LET converted == convert_exec_to_command(app.exec, opt.wine_compatibility_mode)
       IN  IF converted.thrown THEN pc' = "exit" /\ UNCHANGED command
                               ELSE pc' = "expand" /\ command' = converted.command
    /\ UNCHANGED <<menu, query, choice, opt, iter, script, out>>

\* Mutant: the loop goes on with what it has put in.
expand_again ==
    /\ pc = "expand" /\ iter <= Len(command)
    /\ LET expanded == ExpandArgument(command, iter, app, choice.args)
       IN  /\ pc' = IF expanded.thrown THEN "terminate" ELSE "expand"
           /\ command' = expanded.args
           /\ iter' = IF expanded.next > iter + 1 THEN iter + 1 ELSE expanded.next
    /\ UNCHANGED <<menu, query, choice, opt, script, out>>

\* Mutant: the loop does not stop at the end of the vector it has changed.
expand_past_end ==
    /\ pc = "expand" /\ iter <= Len(command)
    /\ LET expanded == ExpandArgument(command, iter, app, choice.args)
       IN  /\ pc' = IF expanded.thrown THEN "terminate" ELSE "expand"
           /\ command' = expanded.args
           /\ iter' = expanded.next
    /\ UNCHANGED <<menu, query, choice, opt, script, out>>

\* An iteration of expand_field_codes(), which returns when nothing follows; nobody catches its std::runtime_error.
expand ==
    /\ pc = "expand" /\ iter <= Len(command)
    /\ LET expanded == ExpandArgument(command, iter, app, choice.args)
       IN  /\ pc' = IF expanded.thrown THEN "terminate" ELSE "expand"
           /\ command' = expanded.args
           /\ iter' = IF expanded.next > Len(expanded.args) THEN Len(expanded.args) + 1
                                                            ELSE expanded.next
    /\ UNCHANGED <<menu, query, choice, opt, script, out>>

expand_done ==
    /\ pc = "expand" /\ iter > Len(command)
    /\ pc' = "assemble"
    /\ UNCHANGED <<menu, query, choice, opt, command, iter, script, out>>

term_assembler(argv) ==
    CASE opt.term_mode = "default" -> <<opt.term, <<"-e">>, <<"script">> >>
      [] opt.term_mode = "custom" -> custom_term_assembler(argv, opt.term, app.name)
      [] OTHER -> titled_term_assembler(opt.term_mode, argv, opt.term, app.name)

in_terminal(argv) == IF app.terminal THEN term_assembler(argv) ELSE argv

\* A script is written where the term mode has one.
write_script(argv) ==
    script' = IF app.terminal /\ (\/ opt.term_mode = "default"
                                  \/ opt.term_mode = "custom" /\ Contains(opt.term, "{script}"))
              THEN create_term_emulator_temp_script(argv) ELSE script

\* The terminal's arguments are put together before anything is written or run.
term_aborted == app.terminal /\ opt.term_mode = "custom" /\ TermAborts(opt.term, opt.debug)

assemble_aborts ==
    /\ pc = "assemble" /\ term_aborted
    /\ pc' = "abort"
    /\ UNCHANGED <<menu, query, choice, opt, command, iter, script, out>>

\* prepare_processed_argv() and execute_app(), which aborts on an empty command
execute_normal ==
    /\ pc = "assemble" /\ opt.mode = "normal" /\ ~term_aborted
    /\ write_script(command)
    /\ out' = wrapped(in_terminal(command))
    /\ pc' = IF out' = <<>> THEN "abort" ELSE "done"
    /\ UNCHANGED <<menu, query, choice, opt, command, iter>>

execute_fake ==
    /\ pc = "assemble" /\ opt.mode = "no_exec" /\ ~term_aborted
    /\ write_script(command)
    /\ out' = convert_argv_to_string(wrapped(in_terminal(command)))
    /\ pc' = "done"
    /\ UNCHANGED <<menu, query, choice, opt, command, iter>>

\* The argv for a terminal that changes to the directory first
cd_to_path(argv) ==
    wrap_cmdstring_in_shell(<<"cd", SP>> \o sq_quote(app.path) \o <<SP, "&&", SP>>
                            \o convert_argv_to_string(argv))

execute_i3 ==
    /\ pc = "assemble" /\ opt.mode = "i3" /\ ~term_aborted
    /\ LET argv == IF app.path = <<>> THEN command ELSE cd_to_path(command)
       IN  /\ write_script(argv)
           /\ out' = IF app.path # <<>> /\ ~app.terminal THEN argv[3]
                     ELSE convert_argv_to_string(in_terminal(argv))
    /\ pc' = "done"
    /\ UNCHANGED <<menu, query, choice, opt, command, iter>>

Next ==
    \/ lookup_name \/ custom_command \/ chdir_fails \/ convert \/ expand \/ expand_done
    \/ assemble_aborts \/ execute_normal \/ execute_fake \/ execute_i3

Spec == Init /\ [][Next]_vars

-----------------------------------------------------------------------------
\* validate_exec_key() and convert_exec_to_command() agree, though they are
\* written apart: an Exec key the strict mode has let in never throws when it is
\* chosen, which would end the daemon.
ValidNeverThrows ==
    [][convert /\ validate_exec_key(app.exec) => pc' = "expand"]_vars

\* The words of a valid Exec key are those a shell would find, in both modes: no
\* quote, escape or space within quotes moves the end of a word, and none is lost
\* but empty ones.  An Exec key knows neither ' nor the operators of a shell.
SplitsLikeShell ==
    [][convert /\ validate_exec_key(app.exec) /\ ToSet(app.exec) \cap {SQ, "&&"} = {} =>
          NotEmpty(command') = NotEmpty(ShellCommands(app.exec)[1])]_vars

\* While field codes are expanded, the arguments already done stay as they are,
\* and the ones still to come are the next ones of the Exec key: what the user
\* typed, or a name with a % in it, is never expanded itself.
ExpandsOnlyExec ==
    [][pc = "expand" /\ pc' = "expand" =>
          /\ IsPrefix(SubSeq(command, 1, iter - 1), command')
          /\ IsSuffix(SubSeq(command', iter', Len(command')),
                      SubSeq(command, iter + 1, Len(command)))]_vars

\* A line of the menu starts the application it stands for, also if the name of
\* another one is the beginning of it; what is typed behind a name is kept as typed.
QueryResolved ==
    [][lookup_name =>
          /\ \A i \in DOMAIN menu : menu[i].shown = query =>
                choice'.app = menu[i].app /\ choice'.args = <<>>
          /\ choice'.app.custom \/ \E i \in DOMAIN menu :
                choice'.app = menu[i].app /\ query = menu[i].shown \o choice'.args]_vars

\* A field code for files that is an argument of its own and the only one of the key, as
\* in most desktop files: without user arguments it is gone, several words "will be
\* replaced by split_user_arguments" (FieldCodes.cc:88), each once and in order between
\* the arguments around it, and a single word stands there as it was typed, the space
\* that parts it from the name (main.cc:531) included (FieldCodes.cc:79).
UserArgumentsPassed ==
    pc = "assemble" =>
        LET words == convert_exec_to_command(app.exec, opt.wine_compatibility_mode).command
            coded == {i \in DOMAIN words : ToSet(words[i]) \cap FieldCodes # {}}
            typed == SplitWords(choice.args)
        IN  \A i \in DOMAIN words : coded = {i} /\ words[i] = <<"%f">> =>
                command = SubSeq(words, 1, i - 1)
                          \o (IF Len(typed) = 1 THEN <<choice.args>> ELSE typed)
                          \o SubSeq(words, i + 1, Len(words))

\* What a terminal emulator runs; the script's first word is exec.
InTerminal(argv) ==
    CASE ~app.terminal -> argv
      [] app.terminal /\ opt.term_mode = "default" -> Tail(ShellCommands(script)[1])
      [] OTHER -> SubSeq(argv, 4 + Len(CommandFlag[opt.term_mode]), Len(argv))

Unwrapped(argv) == IF opt.wrapper THEN SubSeq(argv, 6, Len(argv)) ELSE argv

\* The commands that are run in the end.
FinallyRun ==
    LET shelled == app.path # <<>> /\ opt.mode = "i3"
        argv == IF opt.mode = "normal" THEN out ELSE ShellCommands(out)[1]
    IN  CASE shelled /\ ~app.terminal -> ShellCommands(out)
          [] shelled /\ app.terminal -> ShellCommands(InTerminal(argv)[3])
          [] OTHER -> <<InTerminal(Unwrapped(argv))>>

\* Executed directly, printed for a shell or sent to i3, in a terminal of any kind
\* or not, in its directory: the same program is run with the same arguments,
\* however many times they have been quoted on the way.
RunsTheCommand ==
    pc = "done" /\ ~app.custom /\ ~(app.terminal /\ opt.term_mode = "custom") =>
        FinallyRun = (IF app.path # <<>> /\ opt.mode = "i3" THEN << << <<"cd">>, app.path>> >>
                                                            ELSE <<>>) \o <<command>>

\* A custom --term by its definition: read once from left to right, an escaped
\* character stands for itself, a placeholder for its text.
WrittenChar(s, ch, argv) ==
    LET Add(string) == [s EXCEPT !.curr = @ \o string, !.escaped = FALSE, !.open = TRUE]
    IN  CASE s.escaped -> Add(<<ch>>)
          [] ~s.escaped /\ ch = BS -> [s EXCEPT !.escaped = TRUE]
          [] ~s.escaped /\ ch = SP ->
                IF s.open THEN [s EXCEPT !.args = Append(@, s.curr), !.curr = <<>>, !.open = FALSE]
                          ELSE s
          [] ~s.escaped /\ ch = "{name}" -> Add(app.name)
          [] ~s.escaped /\ ch = "{cmdline*}" -> Add(convert_argv_to_string(argv))
          [] ~s.escaped /\ ch = "{script}" -> Add(<<"script">>)
          [] ~s.escaped /\ ch = "{cmdline@}" -> [s EXCEPT !.args = @ \o argv]
          [] OTHER -> Add(<<ch>>)

TermAsWritten(argv) ==
    LET start == [args |-> <<>>, curr |-> <<>>, open |-> FALSE, escaped |-> FALSE]
        written[n \in 0 .. Len(opt.term)] ==
            IF n = 0 THEN start ELSE WrittenChar(written[n - 1], opt.term[n], argv)
        end == written[Len(opt.term)]
    IN  IF end.open THEN Append(end.args, end.curr) ELSE end.args

\* The user has written \{cmdline@}, for the text itself.
CommandEscaped(term) == \E i \in 2 .. Len(term) : term[i - 1] = BS /\ term[i] = "{cmdline@}"

\* A --term that validate_custom_term() accepts is assembled as written and meets no
\* abort() on the way ("these lines of code shouldn't be reachable", CMDLineTerm.cc:283),
\* nor one of the two checks of a DEBUG build (CMDLineTerm.cc:322, 349) unless the user has
\* escaped {cmdline@}: that the first check takes for a misplaced {cmdline@}.
CustomTermAssembled ==
    pc = "assemble" /\ opt.term_mode = "custom" =>
        /\ TermAborts(opt.term, opt.debug) => opt.debug /\ CommandEscaped(opt.term)
        /\ custom_term_assembler(command, opt.term, app.name) = TermAsWritten(command)

=============================================================================
