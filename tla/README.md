# Verification of j4-dmenu-desktop

TLA+ models of j4-dmenu-desktop (C++, `src/src/`), checked with TLC on small
instances, and theorems about them checked with TLAPS. `PROJECT.json` lists the
components, the runs, which definition stands for which lines of the source, the
mutants each property was tried against, the hazards, the findings and the theorems.

## The system

j4-dmenu-desktop reads the desktop files of the directories in
`$XDG_DATA_HOME:$XDG_DATA_DIRS`, shows their names in dmenu and starts the chosen
application. It runs once, or as a daemon (`--wait-on`) that shows a menu whenever
something is written to a FIFO, and then also follows changes of the desktop files.

| component | state | operations | talks to |
|---|---|---|---|
| AppManager | `applications` (ID to Application and rank), `name_app_mapping` (name to Application) | constructor, `add`, `remove`, views, `lookup_by_ID` | calls Application; called by `main`, `do_wait_on`, the v0 conversion |
| Application, LocaleSuffixes, LineReader | the fields of one desktop file | the constructor parses a file or throws | called by AppManager |
| NotifyInotify, NotifyKqueue | watches; a thread, a vector and a pipe (kqueue) | constructor, `getchanges` | kernel; polled by `do_wait_on` |
| HistoryManager | a multimap from counts to names, the log file | constructor, `increment`, `remove_obsolete_entry`, `write`, conversion from v0 | file system; AppManager (conversion) |
| NameToAppMapping, FormattedHistoryManager, CommandRetrievalLoop | copies of the names and of the history, formatted | `load`, `reload`, `update_mapping`, `prompt_user_for_choice` | AppManager, HistoryManager, Dmenu |
| Dmenu | a child process and two pipes | `run`, `write`, `display`, `read_choice` | dmenu |
| `do_wait_on` | the FIFO, `revents`, `processes_to_wait_for`, the pipe of the SIGCHLD handler | one loop around `poll` | all of the above, the clients of the FIFO |
| FieldCodes, CMDLineAssembler, CMDLineTerm, executables | none | command line from Exec, `execvp` or a string | called with a choice |
| I3Exec | a connection to i3 or sway | `get_ipc_socket_path`, `exec` | i3, over a stream socket |
| SearchPath, FileFinder | a stack of directories and the entries of one | `get_search_path`, `operator++` | `main`; the directories |
| Formatters, DynamicCompare, options | none that lasts | helpers of the startup | `main` |

What is hard about it: names and pointers shared between containers that change at
any time (AppManager); files that are read later than their events tell (live
reload); two threads with a vector and a pipe between them (kqueue); children, a
signal handler, a FIFO with come-and-go clients and a blocking menu in one loop
(daemon mode); a log that is rewritten in place (HistoryManager); copies that may be
out of date (menu); several scanners for one syntax and nested quoting (command line);
a stream that may be cut anywhere (i3); lines, directory entries and translations in an
order nobody controls (startup). What makes each correct:

- AppManager: the mapping fits the applications after every call.
- Live reload: what is on offer is what is on disk, and in the end all of it.
- kqueue: no change is lost, and each one wakes up the main thread.
- HistoryManager: names are unique, counts survive restarts, a kill does not spoil it.
- Menu: every name once; the history never names what is not on offer.
- Daemon mode: requests are answered, children reaped, the loop never blocks or spins.
- Command line: the program and arguments of the Exec key are run, in every mode.
- i3: it gets the command once, and what it answers is understood.
- Startup: every file is found once, the right one decides about an ID, and it is shown
  under the best name where it is to be shown.

## Modules

**AppManager** (`AppManager.{hh,cc}`). `applications` and `name_app_mapping` are
functions to `null` or an element. A pointer to an Application is the ID of the
element it lies in; `live` becomes FALSE when that Application is destroyed or
overwritten while the entry is still there, which makes a dangling key or pointer a
value the invariant can see. A desktop file is what the Application constructor makes
of it: an application with one or two names, `disabled_error` or `invalid_error`
(which stands for `std::system_error` too). `remove_name_mapping` and
`replace_name_mapping` return the set of mappings they may leave (the order of the
`unordered_map` decides between equal ranks), and the empty set where the code calls
`abort()`. `ctor_load` is an iteration of the constructor, `ctor_next_rank` its outer
loop; `add` and `remove` are whole calls. The abstract specification is **Catalogue**:
applications with ranks and names, and one owner for every name, whom only a lower rank
may dispossess. The refinement mapping forgets views and disabled applications
(`Offered_applications`) and keeps whom a name's pointer is to (`Owners`).

**LiveReload** (`main()`, `NotifyInotify.cc`, the first part of `do_wait_on()`)
extends AppManager with the file system, the startup sequence, the inotify queue and
the loop that applies changes. A change of the file system and its event happen
together; `getchanges` takes all that is queued; `ApplyChange` handles one change and
parses the file as it is *then*. Its steps are steps of AppManager or leave
AppManager alone. The queue of the kernel holds `QueueSize` events, merges an event
with an equal one at its end, and drops what does not fit behind an overflow event; for
that one `directories.at(-1)` throws and the daemon ends (`getchanges_throws`). `FsOps`,
`SubdirIDs`, `QuietStart` and `Contents` say what the environment does.

**History**, **HistoryManager** (`HistoryManager.{hh,cc}`). The multimap is the
sequence of its elements in the order of iteration. `write()` is split where a kill
matters: `Truncate` (with the change in memory), then `write_rest`, or `write_buffer`
before it when the entries do not fit into the stdio buffer; that may cut a line
before its name (which the next start refuses) or within it (`Cut`). An empty file
is a v0 file, as `is_v0()` says. Names are printed as they are, and the escape sequence
`\n` of a desktop file puts a newline into one (Application.cc:157), so a file is what
`read_file()` makes of it (`Printed`): of a name with a newline it finds the first line
(`FirstLine`); what is behind the newline is skipped if it is blank and else ends the
reading (`EndsReading`); a name that begins with a newline makes it throw. Left out: text
behind a newline that itself begins with a count and a comma, which would be read as an
entry of its own, and headers that are malformed or of another version, which the program
does not write. The abstract specification is **UsageLog**: a launch
adds one to one name and leaves the others in order, an obsolete entry goes, and a kill or
a name of several lines costs a tail of the log and the ends of such names at most (`Lose`).

**Menu** (`main.cc`) extends HistoryManager: what `load()` and `reload()` copy, what
`do_dmenu()` writes and what a choice does to the history. Every launch and every
pruned entry is a save of HistoryManager, which a kill may interrupt; after it the
program starts from the file again, with other desktop files. `reload_entry` is an
iteration of `reload()`, with the `++iter` after an erased element. `Folded` and
`Sorted` are the comparison of names. The module uses of AppManager what `MappingFits`
says.

**NotifyKqueue** (`NotifyKqueue.cc`). The thread's steps are `kevent` (which consumes
the event), one `readdir` per name, `push_changes` under the mutex, and the byte
written to the pipe; the main thread's are the two halves of `getchanges()` and the
application of the result. A directory that disappears ends the program (PFATALE)
and is left out. The abstract specification is **ChangeFeed**, a feed between what the
observer has seen and what the caller has been told.

**WaitOn** (`do_wait_on()`, `sigchld()`, `Dmenu::run()`, `Dmenu::read_choice()`). One
action per system call that others can come between. The FIFO is modelled after
Linux: `open()` for writing waits for a reader, bytes vanish when nobody has it open,
POLLHUP is reported when all writers since the daemon's `open()` are gone. A signal
may interrupt the `waitpid()` of `read_choice()`: its result is not looked at, so the
uninitialized `status` may say anything. `fork()` may fail, and a dmenu that ends while
the menu is written (`write_menu`) raises SIGPIPE, whose handler ends the daemon. The menu's contents are module Menu's
subject, changes of desktop files LiveReload's.

**CMDLine**, **Executables** (`CMDLineAssembler.cc`, `FieldCodes.cc`, `CMDLineTerm.cc`,
the execute phase of `main.cc`). CMDLine has the pure functions as folds or recursive functions over sequences
of characters; a word that is never looked into, a field code and a placeholder are one
character each. `ShellCommands` reads a string as `/bin/sh` does and is the reference
for quoting. Executables takes the user's input through `lookup_name()` and the
functions: conversion, one step per iteration of `expand_field_codes()`, terminal,
wrapper, and the argv or string that comes out. `TermAborts` has the `abort()` calls
that a custom `--term` may meet, also the ones under `#ifdef DEBUG` (the option `debug`;
meson sets it by default), and `assemble_aborts` ends the program there. How i3 itself
takes `exec` apart, and a script that cannot be created (the exceptions of
CMDLineTerm.cc:61-84), are left out.

**I3Exec** (`I3Exec.cc`, `readn()` and `writen()`) extends Executables with the
connection to i3. A step of `write` or `read` moves any part of the message; i3 may
answer with several results, or go away at any time. An uninitialized `message_length`
is any of `Garbage`. The reply is text, searched as the code searches it. What i3 sends
is assumed to be JSON (IsReply): outside of strings there is no word but the literals, the
name of a member is one word, there is one member `"success"` for each result, in their
order and with its value, and the text ends in `}` and `]`, with spaces anywhere between
these. What its strings say, escaped quotes included, is left open.

**DesktopEntry** (`Application.cc`, `LocaleSuffixes.cc`). What the constructor makes of
the lines of a file, a fold over them; a line is its kind, key, locale and value, and a
last line without a newline loses a character (`Chopped`).

**Startup** (`SearchPath.cc`, `FileFinder.cc`, `collect_files()`,
`validate_search_path()`, the constructor of AppManager) extends AppManager and
DesktopEntry: from the environment to the search path, one `operator++` of FileFinder at
a time to the files, and one `ctor_load` per file to the applications. An empty element of
`$XDG_DATA_DIRS` is undefined behaviour (`back()` of an empty string): it ends the
program or goes on. `EachFileOnce`, `DirectoryPrecedence`, `BestTranslation` and
`ShownWhereItSays` compare the result with definitions that know no order: the files below
a directory (`FilesIn`), the files of the first directory that has a valid one for an ID
(`Deciders`; hard links and two paths of one ID can make it several, and `Sources` are the
ones whose content is the one on offer), the lines of the group (`Entry`), the best value of
a key (`Best`), and whether some key keeps the file from the menu (`KeptFromMenu`).

The `MC*` modules only give values to constants. Operators marked `Mutant` are wrong
variants of the definition after them and are used by no specification; they are the
mutations in `PROJECT.json`.

## Runs

| run | result | bounds |
|---|---|---|
| AppManager | TypeOK, MappingFits, AbortOnlyOnRepeatedName, ImplementsCatalogue hold | 3 IDs, 2 names, 2 ranks, unbounded calls; symmetric in IDs and names |
| AppManagerAbort | NeverAborts is violated | 2 IDs, 2 names, 2 ranks |
| LiveReload | LiveTypeOK, NothingStale, FollowsDisk hold | 1 ID in 2 directories, 4 contents, 5 file system operations, a queue of 3 events |
| LiveReloadRanks | ConvergedWhenSettled is violated | 1 ID in 2 directories |
| MenuDaemon | MenuTypeOK, NamesDistinct, SavedIsRestored, AllOrNothing, MenuComplete, HistoryInMenu, ImplementsUsageLog, UsedNamesKept hold | 3 names, 3 IDs, counts to 3, 2 kills or ends with a name of two lines in the log, a buffer of 1 line, one name of two lines whose first is another name, v0 files of up to 2 lines, any history and any desktop files |
| MenuPrune | PruneRemovesAll is violated | the same without kills, one menu |
| NotifyKqueue | TypeOK, ImplementsChangeFeed, ThreadCatchesUp, ReadableIsServed hold | 2 directories, 2 files, 3 operations |
| NotifyKqueueWakeup | FdReadable is violated | 2 directories, 1 file |
| WaitOn | TypeOK, WaitsForChildren, AppsReaped, HangupCleared, AlwaysPolls hold | 3 clients, one of which writes q |
| WaitOnRequest | RequestServed is violated | 2 clients |
| Executables | TypeOK, RunsTheCommand, CustomTermAssembled, UserArgumentsPassed, I3GetsCommand, NeverWaitsForMore, ReportedTruthfully, ValidNeverThrows, SplitsLikeShell, ExpandsOnlyExec, QueryResolved hold | every Exec key of 4 characters (6 kinds), 8 after an open quote, up to 3 words with field codes, up to 3 user arguments, every `--term` of 4 characters behind the program, in builds with and without DEBUG, every input of 4 characters for menus of names that begin with one another, replies of 1 or 2 results |
| Startup | StartupTypeOK, EachFileOnce, DirectoryPrecedence, BestTranslation, ShownWhereItSays hold | 3 directories written in 4 ways or relative, empty (also behind the last `:`), repeated, missing; 5 contents in each; a tree of 5 directories with every order of inodes and with two links to one file; files with 3 translations of 9 in any order for 12 locales (with and without country and modifier; no encoding, UTF-8, SHIFT_JIS), or 2 of 14 other lines (empty lists and lists of nothing among them) for 4 values of `$XDG_CURRENT_DESKTOP` |

Why the bounds are enough: three IDs let two applications compete for a name a third
one gives up, and two names let an application have both; two ranks tell lower, equal
and higher. Five operations are enough for a file to change twice in each directory
while its first change is being applied, and to fill a queue of three while a menu is
open. A history of three entries has one in front
of, at and behind the place where something is erased, and a buffer of one line cuts
it; that one name holds a newline lets a log be cut in front of, at and behind it (names
that begin with a newline, or go on with a blank, have only the theorems). Two directories make the kqueue thread come back to the first while the main
thread handles the second. Three menus let two applications end in one SIGCHLD while a
third menu is open. Four characters make a quoted escape, eight one between two
words; three arguments put one in front of and one behind a field code that vanishes or
spreads. Three directories have one in front of and one behind the one that decides; three
translations can come as better, worse, better and with one that does not apply; two
directories below one another, with entries in front of and behind them, are met in
every order.

Deadlock is checked except where the program ends (`abort()`, `exit()`, a log it
refuses, an overflow, a command that is executed, the end of the startup) or waits for its environment (all bounded changes made, all clients done).

### Fairness

- LiveReload: weak fairness of the program. `poll()` returns when the inotify
  descriptor is readable, and a user closes a menu some time.
- NotifyKqueue: weak fairness of each thread. Both are scheduled by the system and
  the minute of sleep ends.
- WaitOn: weak fairness of the daemon, of clients that have opened the FIFO, and of
  dmenu being closed. Nothing is assumed of applications (they may run for ever) and no
  client need start.

The liveness properties are `FollowsDisk`, `ThreadCatchesUp`, `ReadableIsServed`,
`AppsReaped`, `HangupCleared`, `AlwaysPolls`.

### Findings

1. **AppManagerAbort.** An application whose Name equals its GenericName (the source
   itself mentions Tor Browser) makes the daemon abort when its file is removed or
   rewritten. AbortOnlyOnRepeatedName, which is proved, says that nothing else does.
2. **LiveReloadRanks.** `remove()` ignores the rank of the deleted file.
3. **MenuPrune.** Pruning skips the entry behind each one it erases.
4. **NotifyKqueueWakeup.** A change pushed between the two halves of `getchanges()`
   loses its wake-up. It is applied with the next change (ImplementsChangeFeed).
5. **WaitOnRequest.** A hang-up from before a menu is acted on after it. In the trace one
   `poll()` reports a client's byte and its hang-up; a second client opens the FIFO before
   the `read()`, which then ends with EAGAIN and not with the end of file that would reopen
   the FIFO at once; its byte comes as the menu is opened. After the menu the stale POLLHUP
   (main.cc:1001) closes the FIFO with the byte in it.

Others met while modelling are under "hazards" with a note: changes during the startup,
renames in subdirectories, runtime additions that escape the strict check of Exec, a name
collision of `-i` that aborts, a reply of i3 whose length is never read, a last line
without a newline that loses a character (a final `NoDisplay=true` does not count), and
in `expand_field_codes()` a suffix that is lost and a following field code that is
skipped; a name with a newline, which cuts the usage log; an escaped `{cmdline@}` with
text next to it, for which a DEBUG build aborts although `--term` was accepted; and a
locale such as ja_JP.SHIFT_JIS, for which `Name[ja]` is not looked for. The model has each
of them as the code has it, and the properties say which of these cases they except.

## Proofs

Each proof module extends the module it is about and states its results for every value
of the constants, from the named assumptions of that module (TLC evaluates them in the
runs).

| module | theorems | assumptions beyond the kinds of the constants |
|---|---|---|
| AppManagerProofs | TypeOK, MappingFits, AbortOnlyOnRepeatedName, ImplementsCatalogue | `null` and the two errors are no applications or elements |
| LiveReloadProofs | LiveTypeOK, MappingFits and AbortOnlyOnRepeatedName in the daemon, NothingStale | for NothingStale: AllReported (below) |
| WaitOnProofs | TypeOK, WaitsForChildren, NoMenuWithoutByte, ReapNeverFails | finitely many clients |
| NotifyKqueueProofs | TypeOK, ImplementsChangeFeed, ThreadOverlooksNothing | finitely many files |
| MenuProofs | of HistoryManager: TypeOK, NamesDistinct, SavedIsRestored, AllOrNothing, ImplementsUsageLog; of Menu: MenuTypeOK, MenuComplete, HistoryInMenu, UsedNamesKept; every step of the menu is one of HistoryManager | `Sorted` lists every name once |
| ExecutablesProofs | TypeOK, QueryResolved, ValidNeverThrows, SplitsLikeShell, ExpandsOnlyExec, RunsTheCommand, UserArgumentsPassed, CustomTermAssembled; of I3Exec: I3GetsCommand, NeverWaitsForMore, ReportedTruthfully | the names of the menu are distinct (they are the keys of a map); no wrapper with i3, which `main()` refuses; a reply is JSON (IsReply) |
| StartupProofs | StartupTypeOK, EachFileOnce, DirectoryPrecedence, BestTranslation, ShownWhereItSays; every step is one of AppManager, so MappingFits holds | InputsAssumption, TextsAssumption (below) |
| BoundedRecursion | induction and recursion over `0 .. N` | none |

### AppManager

MappingFits is not inductive: the constructor gives a shared name to whoever comes
first, which is right only because it reads the ranks in ascending order. The
inductive invariant is

    Inv == TypeOK /\ MappingFits /\ LoadedRanks /\ (aborted => loading \notin Ranks)

where LoadedRanks says that no rank loaded so far is higher than the one being read.
The argument:

1. `RemoveNameMapping`, `RemoveNamesFits`: taking the names of an element out of a
   mapping that fits leaves one that fits the *other* elements, with no entry pointing
   into the element (so that `Expire` finds nothing to expire). The least rank among
   the replacements exists by well-foundedness (`LeastExists`).
2. `ReplaceNameMapping`, `ReplaceNamesFits`: putting the names of an element into a
   mapping that fits the others gives one that fits all, and never aborts.
3. `CtorReplaces`: under LoadedRanks the constructor's two `try_emplace` calls do the
   same as step 2.
4. `RemoveOverwrites`: `remove` is an `add` of nothing, so `add`, `remove` and the
   constructor are instances of 1 to 3 (`NextInv`).
5. `RemoveNamesAborts`: step 1 has no outcome only when the two names are one string
   that nobody else has.

ImplementsCatalogue adds who may take a name from whom: the constructor's `try_emplace`
takes none, `remove_name_mapping()` moves only names of the element that goes, and
`replace_name_mapping()` takes a name only from a higher rank (`TakesOver`), also when
both calls are about one string.

### Live reload

`LiveIsSpec` shows that a step of the daemon or of the file system is a step of AppManager
or leaves it alone, so the theorems above hold in the daemon. NothingStale speaks of
quiet moments only. The invariant StaleInv says what holds at all times: an application
on offer is the one in its file, or the deletion of that file is still to be applied,
or the file exists and a change of it is still to be applied, in the queue or
in what `getchanges()` returned; and nothing is pending before the daemon runs. The
three cases are needed because the file is read when its change is applied, not when it
happened: a file deleted and written again has a deletion pending that will take away
what the later change brings back. An event that is merged with an equal one at the end of
the queue leaves that one pending; an overflow ends the daemon and with it the claim.
The theorem assumes AllReported: no change during the startup and no renames into or out
of subdirectories, whose watches do not ask for them. Without either the property is
false (see hazards).

### Daemon mode

WaitsForChildren needs to know that a new menu or application has a number that is not in
use. The invariant DaemonInv adds that each byte in the FIFO was written by one client and
is read once (BytesOnce), that the daemon is without the FIFO only while it reopens it and
reads only where `poll()` has seen a byte (FifoReady), that there are at most as many menus
as bytes read, and fewer while one is on its way to a menu (MenuPerByte, which is also why
the menus never exceed `Cardinality(Writers)`), and that no application of a later menu
exists yet (AppPerMenu).

### kqueue

The invariant KqueueInv has one equation: the changes in the vector, applied on top of
what `getchanges()` returned and what the main thread has applied before, give what the
thread knows. `Applied` is a closed form (the last change of a file decides), so that
appending and concatenating are lemmas (`AppliedConcat` and its like) and no induction is
needed. That the thread overlooks no change (ThreadOverlooksNothing, the safety half of
ThreadCatchesUp) needs ReadSoFar: without a new event, the names read so far are the
ones on disk.

### Usage log

The loops over the log (`read_file()`, the conversion from v0, `find_if`) are recursive
functions over the lines. TLAPS cannot use the induction theorems of its library, which
take operators; BoundedRecursion states what is needed with sets and functions instead:
a set with 0 and every successor contains `0 .. N`, and a step function has a recursive
function on `0 .. N`. With these

1. `EmplacePlace`, `EmplaceKeeps`, `RemoveKeeps`, `IncrementedKeeps`: what `emplace()`
   behind equal counts, erasing and a launch do to order, names and counts;
2. `ReadRestores`: emplacing the lines of a file that is in order appends each of them, so
   reading a saved log gives it back, equal counts in their order;
3. `FromV0Keeps`: the conversion gives an ordered history without repetitions, however the
   v0 file repeats IDs and whichever applications share a name;
4. `PrintedIs`: the lines found of a saved log are the first lines of a beginning of it
   (PrintOf), all of it and unbroken if no name has a newline, and at least what is in front
   of the first that has one.

The invariant is

    HInv == TypeOK /\ FileFits /\ Descending(history) /\ NamesDistinct
            /\ Saved /\ Whole /\ Readable /\ NothingYet

FileFits says among others that no line of a file has a newline in its name, so that what
is read is saved again as it is. Saved relates the file and the memory while the program
runs, Whole says that outside a save no file is broken or repeats a name unless a kill has
cut it or a name with a newline is in the log (`torn` remembers both), Readable that such a
file is not refused.
SavedIsRestored alone is not inductive: it says nothing of the file during a save or after
a kill, from which the next start makes its history. For ImplementsUsageLog, LeftBehind
adds that the file holds a beginning of what is in memory, in a save and after it, so that
a kill, or a restart from names of several lines, is the abstract loss of a tail; `EmplaceUndone` and `IncrementedLaunches` show that a
launch leaves the other names in order.

### Menu

MenuInv strengthens MenuComplete and HistoryInMenu with what holds during `load()` and
`reload()`: OfferedFits (the names on offer are those `load()` makes of the mapping),
HistoryFits (what FormattedHistoryManager copied is on offer, without repetition) and
Walked (what it has copied so far stands in front of `iter`, which is why erasing at
`iter` and skipping an entry repeat no name). HistoryInMenu follows because the history
has no name twice (NamesDistinct, used through HInv) and the copy is made after each
change. MenuComplete then counts: the history's names and the rest of `Sorted` are
disjoint and together all names on offer.

### Command line and i3

These are theorems about every string, however long. The functions of CMDLine are
recursive functions over the characters, and each comparison of two of them is an
induction with BoundedRecursion over what both have after n characters:

1. `Quoted`, `CommandRead` and their like: a shell reads a quoted word as that word and
   a line of them as the words, whatever is in them, a `'` included. RunsTheCommand follows
   for every mode, terminal and wrapper, which nest one quoting in another (RunInv).
2. `KeyInStep`: as long as `validate_exec_key()` has found nothing wrong,
   `convert_exec_to_command()` has not thrown, is inside quotes where it is, and behind a
   backslash where it is (InStep). This is ValidNeverThrows, and gives the types of the
   command (CommandInv). For SplitsLikeShell the shell goes along as a third (LikeShell).
   The property is about keys without `'` and `&&`, which mean nothing in an Exec key.
3. ExpandsOnlyExec is a step of `expand_field_codes()`: `iter` goes past what it has put
   in place of an argument. UserArgumentsPassed is about a key whose only field code is a
   `%f` that is an argument of its own: it is gone without user arguments, replaced by two
   or more words, each once and in order, and by a single word as it was typed, with the
   space in front of it. It needs where the loop is: UserInv says that it has not come to
   the only `%f` yet, or that what the user typed is in its place and no field code is left
   (FilesInv). Text around the code and a second code are excepted: the code loses and skips
   them (see hazards).
4. `TermCharAlike`: three scanners of `--term` side by side: the validation, the parser
   with its list of placeholders, and the reference, which writes the arguments where the
   placeholders are. ReadAlike says that the parser does not abort on what was validated
   and that what it has, with its places filled, is what the reference has. Filling is a
   loop from the last place to the first, which is why an earlier place stays where it is
   when a `{cmdline@}` behind it spreads into several arguments. For the checks of a DEBUG
   build two more invariants of the scanners: the places are in order (AllSorted), and
   without an escaped `{cmdline@}` one is all of its argument (AllBare).

QueryResolved rests on Chosen: the menu, the input and the choice are well-formed and no
two lines of the menu are the same. TypeOK (TypeInv) says that every mode ends
with a list of strings or a string, so that the theorems about i3 have no hypothesis.

For the conversation with i3 the invariant ConnInv says where each side is: while the
message is sent, i3 has its first `tot` units and has not answered; while the reply is
read, ReplyLeft says for each field that what is left of the stream is what this
`readn()` and the ones after it ask for, by the length that was read or is still to be
read.

ReportedTruthfully has two halves. ReadInv says what has arrived: while the payload is read,
the response is the first `tot` units of a text i3 may have sent and the rest of that text
is the end of the stream; when it is searched, it is the whole text, or (CutAt) a beginning
of it and zeros, if i3 has gone. The other half is about any such response. `trim_spaces()`
keeps track of strings as JSON does, so that what it leaves out is blank and what is next
to each other in its result was so in the text but for blanks (TrimIs, Neighbours). Hence
`"success":false` is found only where a member of the reply begins (FoundIsMember), not in an
error message that quotes it, and each member whose value has arrived is found
(MemberIsFound). `Understood` puts them together: a value comes before the next member, so
that a reply that breaks off behind a success and before a failure is the one case in which
the program goes on although not all results are successes. `WholeReply`: a whole reply
does not end behind `"error":`, so that only one that was cut can abort the program.

### Startup

The theorems hold for every tree of directories, search path, locale and file.

- EachFileOnce. WalkInv divides the desktop files below the current directory of the search
  path (Divided): each one has been reported, or is below exactly one directory of the stack,
  or is reached by exactly one entry still to be visited, and never two of these. An
  `opendir()` splits what is below a directory over its entries, in whatever order the
  inodes put them; an `operator++` moves one entry to the files or to the stack. The paths
  are sequences, so that two entries reach disjoint sets is a fact about prefixes
  (`EntryGoesOn` and the lemmas after it).
- DirectoryPrecedence. PathInv: what `split()` and `add_applications_dir()` make of the two
  variables, however they are written, is what the environment names, in order, without
  what is missing or relative (NamedDirectories). LoadInv: an ID has no element as long
  as no file that was loaded decides about it (Undecided), and else one that a file of the
  first such directory gave it (DecidedBy).
- StartupTypeOK adds that `pos` stays within the files of the rank (PosInv).
  StartupImplementsAppManager says that the constructor is called as the specification of
  AppManager allows, with IDs and names it knows, so that its theorems hold at startup.
- ShownWhereItSays. ReadUpTo is the invariant of the loop over the lines: the constructor
  is before the group, in it since its header (InGroup), past it, or has stopped at a key
  of the group that hides the file. `ListHides` shows that what `expandlist()` makes of a
  list without escape sequences is what `split()` makes of it, but for empty elements, which
  are no desktop.
- BestTranslation. `SuffixesAre` computes what `LocaleSuffixes` makes of a locale with or
  without each of country, encoding and modifier, and `Preferred` that its `match()` ranks any
  two translations as Preference does. An encoding with a `_` spoils the suffixes without the
  country; `CountryPreferred` shows that those with it still come first, so that the property
  holds of any encoding if the file has a value for the user's country (ForCountry). `NamesTold`
  then goes over the group: after each line the field holds the last of the best values so far.

The assumptions say which inputs there are, not what is done with them. InputsAssumption: an
element of the environment is taken apart with the longest tail (each string is, in one way)
and holds no `:`; there are enough ranks for the search path and IDs for every file; the
directories form a tree (IsTree: names without a `/` and each once, and what ends in `.desktop` is
a file or a directory); a variable holds no zero character; and the parts of a locale do not
hold the signs that separate them, but for a `_` in the encoding (IsLocale). TextsAssumption:
an error is no application. Two properties have guards for what the code does otherwise. A
last line without a newline loses a character (`newline`, see hazards), an escape sequence
in a list of desktops is not read by `split()` (PlainLists), and the `_` of an encoding is
taken for that of the country (PlainEncoding).

### Only model-checked

- Liveness (FollowsDisk, ThreadCatchesUp, ReadableIsServed, AppsReaped, HangupCleared,
  AlwaysPolls): the prover has no rules for fairness.

### Refinements

`ImplementsCatalogue` (AppManager; it strengthens MappingFits by who may take a name from
whom), `ImplementsUsageLog` (the mapping takes the log in memory while
the program runs and the file when it does not, so that a kill amid a save and the
restart are steps of the abstract log) and `ImplementsChangeFeed` (NotifyKqueue; `told`
is what the main thread has applied together with what it holds) are checked by TLC as
properties of the detailed specifications and proved.

## Not modelled, and the plan

Not modelled:

- option parsing, logging, build files and completions: no behaviour to check;
- the strings of the formatters, of which Menu knows only which names they identify;
- `read_JSON_string()`, whose result is only logged, and the warning about i3 and sway
  in `--wrapper`;
- the number of bytes in the pipes to and from dmenu (a choice longer than a pipe would
  block `read_choice()`) and errors of the file system other than the ones above;
- two instances that share one usage log, which the program does not guard against;
- paths with doubled slashes;
- in the usage log, headers of other versions and text behind a newline that looks like an
  entry;
- a script for the terminal that cannot be created;
- a tree that changes while FileFinder reads it: LiveReload has changes during the
  startup, one directory at a time.

What stays open is the liveness above, which TLC checks on the instances of the runs, and
the hazards without a property.
