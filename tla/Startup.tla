------------------------------- MODULE Startup -------------------------------
(***************************************************************************)
(* From the environment to the applications: get_search_path()             *)
(* (src/SearchPath.cc), validate_search_path() and collect_files()         *)
(* (src/main.cc), the walk of FileFinder (src/FileFinder.cc) and the       *)
(* constructor of AppManager with the files it reads (DesktopEntry).       *)
(*                                                                         *)
(* A path is a sequence of "/", "." at the beginning of a hidden name, and *)
(* parts of names; a directory ends in "/".                                *)
(***************************************************************************)
EXTENDS AppManager, DesktopEntry

(***************************************************************************)
(* An input has the elements data_home and data_dirs of the environment,   *)
(* each [root, name, tail] (a relative one has an empty root), the user's  *)
(* locale [lang, country, encoding, modifier], desktops (<<>>: without     *)
(* --use-xdg-de, else the string of $XDG_CURRENT_DESKTOP in a tuple), and  *)
(* the file system: dirs, a function from directories to their entries     *)
(* [name, ino], and files, a function from paths to desktop files.         *)
(***************************************************************************)
CONSTANT Inputs

Tails == {<<>>, <<"/">>, <<"/", "applications">>, <<"/", "applications", "/">>}

\* A path is taken apart so that its tail is as long as it can be.
PathElements ==
    {e \in [root: String, name: String, tail: Tails] :
        LET base == e.root \o e.name
        IN  /\ e.tail \in {<<>>, <<"/">>} => ~IsSuffix(<<"/", "applications">>, base)
            /\ e.tail = <<>> /\ base # <<>> => Last(base) # "/"}

\* An entry of a directory has a name of its own without a "/"; what ends in .desktop
\* is a file or a directory.  A file below a directory is an entry of it, or below one
\* that is a directory.
IsTree(dirs, files) ==
    /\ DOMAIN dirs \subseteq String /\ DOMAIN files \subseteq String
    /\ \A dir \in DOMAIN dirs :
        LET Path(e) == dir \o e.name
        IN  /\ dir # <<>> /\ Last(dir) = "/"
            /\ IsFiniteSet(dirs[dir])
            /\ \A e \in dirs[dir] :
                /\ e.name \in String /\ e.name # <<>> /\ "/" \notin ToSet(e.name)
                /\ \A other \in dirs[dir] : other.name = e.name => other = e
                /\ Last(e.name) = ".desktop" =>
                      Path(e) \o <<"/">> \in DOMAIN dirs \/ Path(e) \in DOMAIN files
            /\ \A path \in DOMAIN files : IsPrefix(dir, path) => \E e \in dirs[dir] :
                  IF Path(e) \o <<"/">> \in DOMAIN dirs THEN IsPrefix(Path(e) \o <<"/">>, path)
                                                       ELSE path = Path(e)

get_desktop_id(filename, base) ==
    LET relative == SubSeq(filename, Len(base) + 1, Len(filename))
    IN  [i \in DOMAIN relative |-> IF relative[i] = "/" THEN "-" ELSE relative[i]]

Written(element) == element.root \o element.name \o element.tail

\* The parts of a locale do not hold what separates them, but for an encoding such as
\* SHIFT_JIS.
IsLocale(locale) ==
    /\ locale \in [lang: String, country: String, encoding: String, modifier: String]
    /\ locale.lang # <<>>
    /\ \A part \in {locale.lang, locale.country, locale.encoding, locale.modifier} :
          {".", "@"} \cap ToSet(part) = {}
    /\ \A part \in {locale.lang, locale.country, locale.modifier} : "_" \notin ToSet(part)

\* There are ranks for the directories of $XDG_DATA_DIRS, for that of the user before
\* them, and for the defaults.  A variable holds no zero character.
ASSUME InputsAssumption ==
    /\ MaxRank >= 2
    /\ \A input \in Inputs :
        /\ input.data_home \in PathElements /\ input.data_dirs \in Seq(PathElements)
        /\ Len(input.data_dirs) <= MaxRank
        /\ \A i \in DOMAIN input.data_dirs : ":" \notin ToSet(Written(input.data_dirs[i]))
        /\ IsTree(input.dirs, input.files)
        /\ \A dir \in DOMAIN input.dirs, path \in DOMAIN input.files :
              IsPrefix(dir, path) /\ Last(path) = ".desktop" => get_desktop_id(path, dir) \in IDs
        /\ \A path \in DOMAIN input.files : input.files[path].lines \in Seq(FileLines)
        /\ input.desktops \in Seq(String)
        /\ \A i \in DOMAIN input.desktops : "nul" \notin ToSet(input.desktops[i])
        /\ IsLocale(input.locale)

\* The texts that expand() may return
TextChars == Chars \cup {"newline", "tab", "return"}

\* An error is no application, whatever the texts in its file.
ASSUME TextsAssumption ==
    disabled_error \notin
        [name: Seq(TextChars), generic_name: Seq(TextChars) \cup {null}, exec_valid: BOOLEAN]

VARIABLES
    in,           \* the environment and the file system
    stage,        \* "search_path", "validate", "collect", "load", or how it ended
    search_path,
    dirstack,     \* the directories FileFinder has not read yet
    curdir,       \* the one it reads
    direntries,   \* the entries it has not visited
    files,        \* for every rank, the desktop files that were found
    pos           \* the file of the current rank that is loaded next

startup_vars == <<in, stage, search_path, dirstack, curdir, direntries, files, pos>>
all_vars == <<vars, startup_vars>>

StartupInit ==
    /\ Init
    /\ in \in Inputs
    /\ stage = "search_path"
    /\ search_path = <<>>
    /\ dirstack = <<>> /\ curdir = <<>> /\ direntries = <<>>
    /\ files = <<>> /\ pos = 1

-----------------------------------------------------------------------------
(* The environment *)

\* $XDG_DATA_DIRS
XdgDataDirs ==
    LET joined[n \in 0 .. Len(in.data_dirs)] ==
            IF n = 0 THEN <<>>
            ELSE joined[n - 1] \o (IF n = 1 THEN <<>> ELSE <<":">>) \o Written(in.data_dirs[n])
    IN  joined[Len(in.data_dirs)]

\* The name of the locale that setlocale() returns
Locale ==
    LET Part(sign, part) == IF part = <<>> THEN <<>> ELSE <<sign>> \o part
    IN  in.locale.lang \o Part("_", in.locale.country) \o Part(".", in.locale.encoding)
        \o Part("@", in.locale.modifier)

desktopenvs == IF in.desktops = <<>> THEN <<>> ELSE split(in.desktops[1], ":")

-----------------------------------------------------------------------------
(* The search path *)

is_directory(path) == path \in DOMAIN in.dirs

add_applications_dir(str) ==
    LET base == IF str # <<>> /\ Last(str) = "/" THEN Front(str) ELSE str
    IN  (IF IsSuffix(<<"/", "applications">>, base) THEN base ELSE base \o <<"/", "applications">>)
        \o <<"/">>

HomeShare == <<"/", "home", "/", ".", "local", "/", "share", "/">>
DefaultDirs == <<"/", "usr-local", "/", "share", "/", ":", "/", "usr", "/", "share", "/">>

\* Mutant: the directory of the user comes last.
Candidates_home_last ==
    split(IF XdgDataDirs = <<>> THEN DefaultDirs ELSE XdgDataDirs, ":")
    \o << IF Written(in.data_home) = <<>> THEN HomeShare ELSE Written(in.data_home) >>

\* $XDG_DATA_HOME comes first; both variables have a default.
Candidates ==
    << IF Written(in.data_home) = <<>> THEN HomeShare ELSE Written(in.data_home) >>
    \o split(IF XdgDataDirs = <<>> THEN DefaultDirs ELSE XdgDataDirs, ":")

\* The paths that are among those, in order
Kept(paths, those) ==
    LET kept[n \in 0 .. Len(paths)] ==
            IF n = 0 THEN <<>>
            ELSE IF paths[n] \in those THEN Append(kept[n - 1], paths[n]) ELSE kept[n - 1]
    IN  kept[Len(paths)]

build_search_path ==
    /\ stage = "search_path"
    /\ search_path' = Kept([i \in DOMAIN Candidates |-> add_applications_dir(Candidates[i])],
                           DOMAIN in.dirs)
    /\ stage' = "validate"
    /\ UNCHANGED <<vars, in, dirstack, curdir, direntries, files, pos>>

\* back() of an empty string is undefined; a build with assertions stops here.
build_search_path_asserts ==
    /\ stage = "search_path" /\ <<>> \in ToSet(Candidates)
    /\ stage' = "aborted"
    /\ UNCHANGED <<vars, in, search_path, dirstack, curdir, direntries, files, pos>>

Absolute == {path \in String : Head(path) = "/"}

\* Relative paths are dropped.
validate_search_path ==
    /\ stage = "validate"
    /\ search_path' = Kept(search_path, Absolute)
    /\ stage' = "collect"
    /\ UNCHANGED <<vars, in, dirstack, curdir, direntries, files, pos>>

-----------------------------------------------------------------------------
(* FileFinder and collect_files() *)

Idle == dirstack = <<>> /\ direntries = <<>>

\* A FileFinder for the directory of the next rank
FileFinder_ctor ==
    /\ stage = "collect" /\ Idle /\ Len(files) < Len(search_path)
    /\ dirstack' = << search_path[Len(files) + 1] >>
    /\ files' = Append(files, <<>>)
    /\ UNCHANGED <<vars, in, stage, search_path, curdir, direntries, pos>>

Visible(dir) == {e \in in.dirs[dir] : Head(e.name) # "."}

\* The directory on top of the stack is read, without hidden entries, and sorted; hard
\* links to one inode come in any order.
opendir ==
    /\ stage = "collect" /\ direntries = <<>> /\ dirstack # <<>>
    /\ curdir' = Last(dirstack)
    /\ dirstack' = Front(dirstack)
    /\ direntries' \in {s \in SetToSeqs(Visible(curdir')) :
                            \A i, j \in DOMAIN s : i < j => s[i].ino <= s[j].ino}
    /\ UNCHANGED <<vars, in, stage, search_path, files, pos>>

\* Nobody catches the std::runtime_error.
opendir_fails ==
    /\ stage = "collect" /\ direntries = <<>> /\ dirstack # <<>>
    /\ stage' = "terminated"
    /\ UNCHANGED <<vars, in, search_path, dirstack, curdir, direntries, files, pos>>

\* Mutant: a directory is entered as soon as it is met.
increment_descends ==
    /\ stage = "collect" /\ direntries # <<>>
    /\ LET curpath == curdir \o Head(direntries).name
           curisdir == is_directory(curpath \o <<"/">>)
       IN  /\ dirstack' = IF curisdir THEN Append(dirstack, curpath \o <<"/">>) ELSE dirstack
           /\ direntries' = IF curisdir THEN <<>> ELSE Tail(direntries)
           /\ files' = IF curisdir \/ Last(curpath) # ".desktop" THEN files
                       ELSE [files EXCEPT ![Len(files)] = Append(@, curpath)]
    /\ UNCHANGED <<vars, in, stage, search_path, curdir, pos>>

\* operator++ and the loop of collect_files() for an entry
increment ==
    /\ stage = "collect" /\ direntries # <<>>
    /\ LET curpath == curdir \o Head(direntries).name
           curisdir == is_directory(curpath \o <<"/">>)
       IN  /\ dirstack' = IF curisdir THEN Append(dirstack, curpath \o <<"/">>) ELSE dirstack
           /\ direntries' = Tail(direntries)
           /\ files' = IF curisdir \/ Last(curpath) # ".desktop" THEN files
                       ELSE [files EXCEPT ![Len(files)] = Append(@, curpath)]
    /\ UNCHANGED <<vars, in, stage, search_path, curdir, pos>>

collected ==
    /\ stage = "collect" /\ Idle /\ Len(files) = Len(search_path)
    /\ stage' = "load"
    /\ UNCHANGED <<vars, in, search_path, dirstack, curdir, direntries, files, pos>>

-----------------------------------------------------------------------------
(* AppManager *)

\* What AppManager sees of the file
Loaded(path) ==
    LET Seen(app) ==
            CASE app.status = "disabled" -> disabled_error
              [] app.status = "invalid" -> invalid_error
              [] app.status = "ok" ->
                    [name |-> app.name,
                     generic_name |-> IF app.generic_name = <<>> THEN null ELSE app.generic_name,
                     exec_valid |-> validate_exec_key(app.exec)]
    IN  Seen(Application_ctor(in.files[path], LocaleSuffixes(Locale), desktopenvs))

RankFiles == IF loading < Len(files) THEN files[loading + 1] ELSE <<>>

LoadNextFile ==
    /\ stage = "load" /\ loading \in Ranks /\ pos <= Len(RankFiles)
    /\ ctor_load(get_desktop_id(RankFiles[pos], search_path[loading + 1]), Loaded(RankFiles[pos]))
    /\ pos' = pos + 1
    /\ UNCHANGED <<in, stage, search_path, dirstack, curdir, direntries, files>>

\* Mutant: the files of the next rank are not read from the beginning.
LoadNextRank_on ==
    /\ stage = "load" /\ pos > Len(RankFiles)
    /\ ctor_next_rank
    /\ UNCHANGED startup_vars

LoadNextRank ==
    /\ stage = "load" /\ pos > Len(RankFiles)
    /\ ctor_next_rank
    /\ pos' = 1
    /\ UNCHANGED <<in, stage, search_path, dirstack, curdir, direntries, files>>

StartupNext ==
    \/ build_search_path \/ build_search_path_asserts \/ validate_search_path
    \/ FileFinder_ctor \/ opendir \/ opendir_fails \/ increment \/ collected
    \/ LoadNextFile \/ LoadNextRank

StartupSpec == StartupInit /\ [][StartupNext]_all_vars

-----------------------------------------------------------------------------
StartupTypeOK ==
    /\ TypeOK
    /\ stage \in {"search_path", "validate", "collect", "load", "aborted", "terminated"}
    /\ ToSet(search_path) \cup ToSet(dirstack) \subseteq DOMAIN in.dirs
    /\ Len(files) <= Len(search_path)
    /\ pos \in 1 .. Len(RankFiles) + 1

Done == stage = "load" /\ loading = MaxRank + 1

\* The desktop files below a directory; no part of their paths is hidden.
FilesIn(dir) ==
    {path \in DOMAIN in.files :
        /\ IsPrefix(dir, path) /\ Last(path) = ".desktop"
        /\ \A i \in Len(dir) + 1 .. Len(path) : path[i] = "." => path[i - 1] # "/"}

\* The walk goes through every directory below one of the search path and comes by
\* every desktop file in it exactly once, whatever the inodes are; what is hidden, and
\* what is in a hidden directory, is left out.
EachFileOnce ==
    stage = "load" => \A r \in DOMAIN files :
        IsInjective(files[r]) /\ ToSet(files[r]) = FilesIn(search_path[r])

\* What the environment names; both variables have a default.
Default(name) == [root |-> <<"/">>, name |-> name, tail |-> <<"/">>]
HomeElement ==
    IF Written(in.data_home) = <<>> THEN Default(<<"home", "/", ".", "local", "/", "share">>)
    ELSE in.data_home

\* Nothing is named behind a ":" at the end.
NamedDirs ==
    IF in.data_dirs # <<>> /\ Written(Last(in.data_dirs)) = <<>> THEN Front(in.data_dirs)
    ELSE in.data_dirs
DirElements ==
    IF NamedDirs = <<>>
    THEN <<Default(<<"usr-local", "/", "share">>), Default(<<"usr", "/", "share">>)>>
    ELSE NamedDirs

\* The directory of an element, however it ends
Directory(element) == element.root \o element.name \o <<"/", "applications", "/">>

NamedDirectories ==
    LET elements == <<HomeElement>> \o DirElements
    IN  Kept([i \in DOMAIN elements |-> Directory(elements[i])], DOMAIN in.dirs \cap Absolute)

\* The files of a directory that decide about an ID.
Deciding(dir, id) ==
    LET Decides(file) ==
            file # invalid_error /\ (wine_compatibility_mode \/ file = disabled_error \/ file.exec_valid)
    IN  {path \in FilesIn(dir) : get_desktop_id(path, dir) = id /\ Decides(Loaded(path))}

\* The files of the first directory of the environment that has any of these
Deciders(id) ==
    LET first == SelectInSeq(NamedDirectories, LAMBDA dir : Deciding(dir, id) # {})
    IN  IF first = 0 THEN {} ELSE Deciding(NamedDirectories[first], id)

\* What becomes of a file, and the files that may have given an ID what is on offer
Offer(file) == IF file = disabled_error THEN null ELSE file
Sources(id) == {path \in Deciders(id) : applications[id].app = Offer(Loaded(path))}

\* For every ID it is a file in the first directory of the environment that has a valid
\* one that decides: on offer is what it says, and nothing if it is disabled ("a
\* lower rank takes precedence", doc/AppManager.md:33).
DirectoryPrecedence ==
    Done => \A id \in IDs :
        IF applications[id] = null THEN Deciders(id) = {} ELSE Sources(id) # {}

-----------------------------------------------------------------------------
(* What the file says, without the order in which it is read *)

\* The lines of the group [Desktop Entry]
Entry(path) ==
    LET lines == in.files[path].lines
        headers == {i \in DOMAIN lines : lines[i].kind \in {"header", "group"}}
    IN  {i \in DOMAIN lines : \E h \in headers :
            /\ lines[h].kind = "header" /\ h < i
            /\ \A j \in headers : ~(h < j /\ j <= i)
            /\ \A j \in 1 .. h - 1 : lines[j].kind # "header"}

\* The locales to try, the best one first; 5 is none.
Preference(locale) ==
    LET Tag(country, modifier) ==
            in.locale.lang
            \o (IF country /\ in.locale.country # <<>> THEN <<"_">> \o in.locale.country ELSE <<>>)
            \o (IF modifier /\ in.locale.modifier # <<>> THEN <<"@">> \o in.locale.modifier ELSE <<>>)
        tags == <<Tag(TRUE, TRUE), Tag(TRUE, FALSE), Tag(FALSE, TRUE), Tag(FALSE, FALSE), <<>> >>
    IN  SelectInSeq(tags, LAMBDA tag : tag = locale)

\* The lines that give a key a value in a locale to try
Values(path, key) ==
    LET lines == in.files[path].lines
    IN  {i \in Entry(path) : lines[i].kind = "pair" /\ lines[i].key = key
                              /\ Preference(lines[i].locale) # 0}

\* The last of the best values, <<>> if there is none
Best(path, key) ==
    LET lines == in.files[path].lines
        best == {i \in Values(path, key) : \A j \in Values(path, key) :
                    Preference(lines[i].locale) <= Preference(lines[j].locale)}
    IN  IF best = {} THEN <<>> ELSE expand(lines[Max(best)].value).text

\* The "_" in front of the country is the last one of the locale.
PlainEncoding == "_" \notin ToSet(in.locale.encoding)

\* The file has a value for the user's language and country.
ForCountry(path, key) ==
    \E i \in Values(path, key) : Preference(in.files[path].lines[i].locale) \in 1 .. 2

\* An application is shown by the name in the user's language that fits best, in
\* whatever order the translations are in the file, and its GenericName by the same
\* rule of its own.  The encoding of the user's locale makes no difference to a file
\* that has a value for the user's country.  To any other it does if the encoding has
\* a "_" (LocaleSuffixes.cc:30 takes it for the one in front of the country): for
\* ja_JP.SHIFT_JIS the suffixes are ja_JP twice, and Name[ja] is not looked for.
BestTranslation ==
    Done => \A id \in {i \in IDs : Populated(applications, i)} :
        \E path \in Sources(id) : in.files[path].newline =>
            /\ PlainEncoding \/ ForCountry(path, "Name") =>
                  applications[id].app.name = Best(path, "Name")
            /\ PlainEncoding \/ ForCountry(path, "GenericName") =>
                  applications[id].app.generic_name =
                     IF Best(path, "GenericName") = <<>> THEN null ELSE Best(path, "GenericName")

\* A list of desktops is read as it is written if it has no escape sequence.
Lists == {"OnlyShowIn", "NotShowIn"}
PlainLists(path) ==
    \A i \in Entry(path) :
        LET line == in.files[path].lines[i]
        IN  line.kind = "pair" /\ line.key \in Lists => BS \notin ToSet(line.value)

\* Some key of the file keeps it from the menu.
KeepsFromMenu(line) ==
    LET named == line.value # <<>> /\ ToSet(split(line.value, ";")) \cap ToSet(desktopenvs) # {}
    IN  line.kind = "pair" /\
        \/ line.key \in {"Hidden", "NoDisplay"} /\ line.value = True
        \/ line.key = "OnlyShowIn" /\ in.desktops # <<>> /\ ~named
        \/ line.key = "NotShowIn" /\ named

KeptFromMenu(path) == \E i \in Entry(path) : KeepsFromMenu(in.files[path].lines[i])

\* A file that is hidden, or not for the user's desktop, is not on offer but keeps its
\* ID, and every other one is on offer; only with --use-xdg-de does the desktop count
\* ("Enables reading $XDG_CURRENT_DESKTOP", main.cc:164).
ShownWhereItSays ==
    Done => \A id \in {i \in IDs : applications[i] # null} :
        \E path \in Sources(id) : in.files[path].newline /\ PlainLists(path) =>
            (applications[id].app = null <=> KeptFromMenu(path))

=============================================================================
