---------------------------- MODULE MCExecutables ----------------------------
(* Model checking of Executables: Exec keys, user arguments and options. *)
EXTENDS I3Exec

\* Every short Exec key over the characters that matter for quoting, and longer
\* ones with an open quote.
QuotingExecs ==
    BoundedSeq({"a", SP, DQ, BS, "$", SQ}, 4)
    \cup {<<"a", SP, DQ>> \o s : s \in BoundedSeq({"a", SP, DQ, BS}, 5)}

\* Three or four words, most with a field code.
FieldCodeExecs ==
    {Joined(<< <<"p">> >> \o words) : words \in
        BoundedSeq({<<"%f">>, <<"b", "%f", "d">>, <<"%c">>, <<"%k", "%%">>, <<"e">>}, 3)}
    \cup {<<"%f">>, <<"p", SP, "%?">>, <<"p", SP, "%">>, <<"p", SP, "%i", SP, "%%">>}

App(exec, path, terminal) ==
    [exec |-> exec, path |-> path, terminal |-> terminal, custom |-> FALSE,
     name |-> <<"N", SP, SQ, "%c">>, location |-> <<"l", SQ, SQ, "l">>]

Option(mode, term_mode, term, wrapper, wine) ==
    [mode |-> mode, term_mode |-> term_mode, term |-> term, wrapper |-> wrapper,
     wine_compatibility_mode |-> wine, debug |-> FALSE]

\* The application is chosen by its name, and args typed behind it.
Input(app_, args, option) ==
    [menu |-> <<[shown |-> app_.name, app |-> app_]>>, query |-> app_.name \o args, opt |-> option]

QuotingInputs ==
    {Input(App(e, <<>>, FALSE), <<>>, Option("no_exec", "xterm", <<"t">>, FALSE, wine)) :
        e \in QuotingExecs, wine \in BOOLEAN}

FieldCodeInputs ==
    {Input(App(e, <<>>, FALSE), args, Option("normal", "xterm", <<"t">>, FALSE, TRUE)) :
        e \in FieldCodeExecs,
        args \in {<<>>, <<SP, "u">>, <<SP, "%c", SP, "v">>, <<SP, "u", SP, SP, "%f", SP, "w">>}}

\* Words that are hard to quote, in every mode
Awkward == {<<"p", SP, "a", SQ>>, <<"p", SP, DQ, SQ, SP, BS, DQ, DQ>>, <<"p", SP, "%f">>, <<"%f">>}

Options ==
    {Option(mode, term_mode, <<"t">>, wrapper, TRUE) :
        mode \in {"normal", "no_exec"}, term_mode \in TermModes \ {"custom"}, wrapper \in BOOLEAN}

ModeInputs ==
    {Input(App(e, path, terminal), args, option) :
        e \in Awkward, path \in {<<>>, <<"d", SQ, SP>>}, terminal \in BOOLEAN,
        args \in {<<>>, <<SP, SQ, "u">>}, option \in Options}

\* Term modes differ in i3 mode only where there is a terminal.
I3Option(term_mode) == Option("i3", term_mode, <<"t">>, FALSE, TRUE)

I3Inputs ==
    {Input(App(e, path, FALSE), args, I3Option("xterm")) :
        e \in Awkward, path \in {<<>>, <<"d", SQ, SP>>}, args \in {<<>>, <<SP, SQ, "u">>}}
    \cup {Input(App(<<"p", SP, "a", SQ>>, path, TRUE), <<>>, I3Option(term_mode)) :
              path \in {<<>>, <<"d", SQ, SP>>}, term_mode \in TermModes \ {"custom"}}

\* Commands that are not in the menu
CustomInputs ==
    {[menu |-> <<>>, query |-> q, opt |-> option] :
        q \in Awkward, option \in {I3Option("xterm")} \cup {o \in Options : o.term_mode = "xterm"}}

\* Names that begin with one another, in the order of the map
Lookups ==
    LET shown == << <<"a">>, <<"a", SP>>, <<"a", SP, "b">>, <<"b">> >>
        Menu(on) == SelectSeq([i \in 1 .. 4 |->
                        [shown |-> shown[i], app |-> [App(<<"p", SP, "%f">>, <<>>, FALSE)
                                                         EXCEPT !.location = shown[i]]]],
                        LAMBDA e : e.shown \in on)
    IN  {[menu |-> Menu(on), query |-> q, opt |-> Option("no_exec", "xterm", <<"t">>, FALSE, TRUE)] :
            on \in SUBSET ToSet(shown), q \in BoundedSeq({"a", "b", SP}, 4) \ {<<>>}}

\* Custom terms of up to four characters behind the program
CustomTerms ==
    {<<"t", SP>> \o s : s \in BoundedSeq({"{name}", "{cmdline@}", "{cmdline*}", SP, BS, "{"}, 4)}
    \cup {<<"{cmdline@}", SP, "{script}", SP, "{name}", "{cmdline*}">>}

TermInputs ==
    {Input(App(<<"p", SP, "a", SQ>>, <<>>, TRUE), <<>>,
           [Option("normal", "custom", t, FALSE, TRUE) EXCEPT !.debug = debug]) :
        t \in CustomTerms, debug \in BOOLEAN}

\* i3's reply, also with spaces between the tokens; a message of i3 may quote anything.
Reply(oks, spaced) ==
    LET space == IF spaced THEN <<SP>> ELSE <<>>
        Member(name, value) == <<DQ, name, DQ, ":">> \o space \o value
        Result(ok) ==
            <<"{">> \o Member("success", <<IF ok THEN "true" ELSE "false">>)
            \o (IF ok THEN <<>> ELSE <<",">> \o Member("error",
                   <<DQ, "no", SP, BS, DQ, "success", BS, DQ, ":", "true", DQ>>)) \o <<"}">>
    IN  [results |-> oks,
         text |-> <<"[">> \o Result(oks[1])
                  \o (IF Len(oks) = 2 THEN <<",">> \o space \o Result(oks[2]) ELSE <<>>)
                  \o <<"]">>]

MCReplies == {Reply(r, spaced) : r \in {<<TRUE>>, <<FALSE>>, <<TRUE, FALSE>>, <<FALSE, TRUE>>},
                                 spaced \in BOOLEAN}

MCInputs == QuotingInputs \cup FieldCodeInputs \cup ModeInputs \cup I3Inputs
            \cup CustomInputs \cup Lookups \cup TermInputs
=============================================================================
