------------------------------ MODULE MCStartup ------------------------------
(* Model checking of Startup: environments, directory trees and desktop files. *)
EXTENDS Startup

Line(kind) == [kind |-> kind, key |-> "", locale |-> <<>>, value |-> <<>>]
Pair(key, locale, value) == [kind |-> "pair", key |-> key, locale |-> locale, value |-> value]
File(lines) == [lines |-> lines, newline |-> TRUE]

Header == Line("header")
AppFile(name) == File(<<Header, Pair("Name", <<>>, <<name>>)>>)
DisabledFile == File(<<Header, Pair("NoDisplay", <<>>, True)>>)
InvalidFile == File(<<Header>>)
BadExecFile == File(<<Header, Pair("Name", <<>>, <<"x">>), Pair("Exec", <<>>, <<"p", DQ>>)>>)

\* Absolute, relative and empty elements
Element(name, tail) == [root |-> <<"/">>, name |-> <<name>>, tail |-> tail]
Relative(name) == [root |-> <<>>, name |-> <<name>>, tail |-> <<>>]
Empty == [root |-> <<>>, name |-> <<>>, tail |-> <<>>]

C == [lang |-> <<"C">>, country |-> <<>>, encoding |-> <<>>, modifier |-> <<>>]

Dir(root, name) == root \o name \o <<"/", "applications", "/">>
ShareDir(name) == Dir(<<"/">>, name \o <<"/", "share">>)
f == <<"f", ".desktop">>

\* A file of the same ID in each of some directories
Spread1(dirs_, contents) ==
    [dirs |-> [d \in dirs_ |-> {[name |-> f, ino |-> 1]}],
     files |-> [p \in {d \o f : d \in dirs_} |->
                   contents[CHOOSE d \in dirs_ : p = d \o f]]]

Input(home, data_dirs, locale, desktops, fs) ==
    [data_home |-> home, data_dirs |-> data_dirs, locale |-> locale, desktops |-> desktops,
     dirs |-> fs.dirs, files |-> fs.files]

\* Ways to write the environment
PathInputs ==
    LET at == [h |-> Dir(<<"/">>, <<"h">>), a |-> Dir(<<"/">>, <<"a">>), b |-> Dir(<<"/">>, <<"b">>)]
        Fs(H) == Spread1(H, [d \in H |-> AppFile(CASE d = at["h"] -> "x" [] d = at["a"] -> "y"
                                                   [] OTHER -> "z")])
        extra == {Dir(<<>>, <<"a">>), <<"/", "applications", "/">>, ShareDir(<<"home", "/", ".", "local">>),
                  ShareDir(<<"usr">>)}
    IN  {Input(home, dirs_, C, <<>>, Fs(extra \cup {at[d] : d \in there})) :
            home \in {Empty} \cup {Element("h", t) : t \in Tails},
            dirs_ \in {<<>>, <<Element("a", <<>>), Relative("a"), Element("b", <<"/">>)>>,
                       <<Empty, Element("b", <<>>)>>, <<Element("b", <<>>), Element("b", <<"/">>)>>,
                       <<Element("b", <<>>), Empty>>, <<Empty>>, <<Empty, Empty>>}
                      \cup {<<Element("a", t), Element("b", u)>> : t \in Tails, u \in Tails},
            there \in SUBSET {"h", "a", "b"}}

\* What the files of one ID may say
ContentInputs ==
    LET at == <<Dir(<<"/">>, <<"h">>), Dir(<<"/">>, <<"a">>), Dir(<<"/">>, <<"b">>)>>
        contents == {AppFile("x"), AppFile("y"), DisabledFile, InvalidFile, BadExecFile}
    IN  {Input(Element("h", <<>>), <<Element("a", <<>>), Element("b", <<>>)>>, C, <<>>,
               Spread1(ToSet(at), [d \in ToSet(at) |-> c[CHOOSE i \in 1 .. 3 : at[i] = d]])) :
            c \in [1 .. 3 -> contents]}

\* A tree with subdirectories, hidden names, other files, and two files of one ID; the
\* inodes in any order, and once with two links to one file
TreeInputs ==
    LET top == Dir(<<"/">>, <<"h">>)
        sub == top \o <<"s", "/">>
        deep == sub \o <<"d", "/">>
        hidden == top \o <<".", "g", "/">>
        names == << <<"s">>, <<"s", "-", "f", ".desktop">>, <<".", "f", ".desktop">>, <<"f", ".txt">>,
                    <<".", "g">>, <<"e">> >>
        Entries(named, ino) == {[name |-> named[i], ino |-> ino[i]] : i \in DOMAIN named}
        paths == {top \o names[2], top \o names[3], top \o names[4], hidden \o f, sub \o f,
                  deep \o f, sub \o <<"k", ".desktop">>}
    IN  {Input(Element("h", <<>>), <<Element("a", <<>>)>>, C, <<>>,
               [dirs |-> (top :> Entries(names, ino)) @@ (top \o <<"e", "/">> :> {})
                         @@ (hidden :> {[name |-> f, ino |-> 1]}) @@ (deep :> {[name |-> f, ino |-> 1]})
                         @@ (sub :> Entries(<<f, <<"d">>, <<"k", ".desktop">> >>, [i \in 1 .. 3 |-> ino[i]])),
                files |-> [p \in paths |-> AppFile(IF p = sub \o f THEN "x" ELSE "y")]]) :
            ino \in Permutations(1 .. 6) \cup {<<1, 2, 3, 2, 4, 5>>}}

Single(lines, newline, locale, desktops) ==
    LET top == Dir(<<"/">>, <<"h">>)
    IN  Input(Element("h", <<>>), <<Element("a", <<>>)>>, locale, desktops,
              Spread1({top}, [d \in {top} |-> [lines |-> lines, newline |-> newline]]))

\* Translations in any order, for locales with and without each part, and for an
\* encoding with a "_"
Locales ==
    [lang: {<<"de">>}, country: {<<>>, <<"AT">>}, encoding: {<<>>, <<"UTF-8">>, <<"SHIFT", "_", "JIS">>},
     modifier: {<<>>, <<"m">>}]

Translations ==
    {Pair("Name", <<>>, <<"x">>), Pair("Name", <<"de">>, <<"y">>), Pair("Name", <<"de", "_", "AT">>, <<"z">>),
     Pair("Name", <<"de", "@", "m">>, <<"x", BS, "s", "y">>), Pair("Name", <<"de", "_", "AT", "@", "m">>, <<"w">>),
     Pair("Name", <<"fr">>, <<"v">>), Pair("GenericName", <<"de">>, <<"w">>), Pair("GenericName", <<>>, <<"x">>),
     Pair("GenericName", <<"de">>, <<>>)}

TranslationInputs ==
    {Single(<<Header>> \o lines, TRUE, locale, <<>>) :
        lines \in BoundedSeq(Translations, 3), locale \in Locales}

\* Everything else, in the order of the file
OtherLines ==
    {Header, Line("group"), Line("malformed"), Line("comment"), Pair("Name", <<>>, <<"x">>),
     Pair("Hidden", <<>>, True), Pair("OnlyShowIn", <<>>, <<"G", ";", "K", ";">>),
     Pair("OnlyShowIn", <<>>, <<>>), Pair("OnlyShowIn", <<>>, <<";">>), Pair("NotShowIn", <<>>, <<"K">>), Pair("NotShowIn", <<>>, <<"G", BS, "q">>),
     Pair("Exec", <<>>, <<"p", BS, BS>>), Pair("Path", <<>>, <<BS, "q">>), Pair("Terminal", <<>>, True)}

LineInputs ==
    {Single(<<first>> \o lines \o <<last>>, newline, C, desktops) :
        first \in {Header, Line("comment")},
        lines \in BoundedSeq(OtherLines, 2),
        last \in {Pair("Name", <<>>, <<"y", "z">>), Pair("NoDisplay", <<>>, True), Line("header")},
        newline \in BOOLEAN, desktops \in {<<>>, <<<<>>>>, <<<<":">>>>, <<<<"K", ":", "Z">>>>}}

MCInputs == PathInputs \cup ContentInputs \cup TreeInputs \cup TranslationInputs \cup LineInputs

MCIDs == {f, <<"s", "-", "f", ".desktop">>, <<"s", "-", "d", "-", "f", ".desktop">>,
          <<"s", "-", "k", ".desktop">>, <<"d", "-", "f", ".desktop">>, <<"k", ".desktop">>,
          <<".", "f", ".desktop">>, <<".", "g", "-", "f", ".desktop">>}
MCNames == {<<n>> : n \in {"v", "w", "x", "y", "z"}} \cup {<<"x", SP, "y">>, <<"y", "z">>}
=============================================================================
