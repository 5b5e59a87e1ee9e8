---------------------------- MODULE HistoryManager ----------------------------
(***************************************************************************)
(* The usage log: src/HistoryManager.{hh,cc}.  Every change of the history *)
(* is saved at once by truncating the file and writing it anew through a   *)
(* stdio buffer; the program may be killed at any moment and started again.*)
(***************************************************************************)
EXTENDS History

CONSTANTS
    Names,         \* every string that may be read as a name
    Cut,           \* [Names -> SUBSET Names]: what is left of a name cut short
    FirstLine,     \* [Names -> Names or null]: a name up to its first newline
    EndsReading,   \* the names behind whose first newline fscanf() finds no count
    IDs,           \* the desktop file IDs a v0 file may hold
    lookup_by_ID,  \* [IDs -> [name, generic_name] or null], of AppManager
    null,
    BufferLines,   \* complete lines that fit into the stdio buffer
    MaxV0Lines,    \* bound: lines of a v0 file
    MaxCount,      \* bound: launches of one name
    MaxCrashes     \* bound: ends of the program that may cost entries

ASSUME HistoryAssumption ==
    /\ Cut \in [Names -> SUBSET Names]
    /\ null \notin Names
    /\ FirstLine \in [Names -> Names \cup {null}]
    /\ \A n \in Names : FirstLine[n] # null => FirstLine[FirstLine[n]] = FirstLine[n]
    /\ EndsReading \subseteq {n \in Names : FirstLine[n] # n}
    /\ \A n \in Names : FirstLine[n] = null => n \in EndsReading
    /\ lookup_by_ID \in [IDs -> [name: Names, generic_name: Names \cup {null}] \cup {null}]
    /\ BufferLines \in Nat \ {0}
    /\ MaxV0Lines \in Nat /\ MaxCount \in Nat /\ MaxCrashes \in Nat

VARIABLES
    file,      \* [form, lines, broken]; see Files
    history,   \* the multimap, while the program runs
    state,     \* "off", "run", "write" (truncated), "flush" (partly written), "failed"
    crashes,   \* kills, and ends with a name of several lines in the log, so far
    torn       \* the file has been left with less than was saved: a kill amid write(),
               \* or a name with a newline in it, has hit one of the saves

vars == <<file, history, state, crashes, torn>>

\* A file is what its readers make of it: the lines that they get to, and (broken)
\* that read_file() throws behind them.
Missing == [form |-> "none", lines |-> <<>>, broken |-> FALSE]
V0(lines) == [form |-> "v0", lines |-> lines, broken |-> FALSE]
V1(lines, broken) == [form |-> "v1", lines |-> lines, broken |-> broken]

\* is_v0() holds of an empty file.
Empty == V0(<<>>)

Entries == [count: 1 .. MaxCount, name: Names]
V0Lines == [count: 1 .. MaxCount, id: IDs]

TypeOK ==
    /\ file.form \in {"none", "v0", "v1"} /\ file.broken \in BOOLEAN
    /\ file.lines \in Seq(Entries \cup V0Lines)
    /\ history \in Seq(Entries)
    /\ state \in {"off", "run", "write", "flush", "failed"}
    /\ crashes \in 0 .. MaxCrashes /\ torn \in BOOLEAN

\* A file the old version left: ordered, an ID is in it once.
OldFiles ==
    {V0(lines) : lines \in {s \in SeqOf(V0Lines, MaxV0Lines) :
        \A i, j \in DOMAIN s : i < j => s[i].count >= s[j].count /\ s[i].id # s[j].id}}

Init ==
    /\ file \in OldFiles \cup {Missing}
    /\ history = <<>>
    /\ state = "off"
    /\ crashes = 0 /\ torn = FALSE

-----------------------------------------------------------------------------
\* No name of h has a newline in it (Application::convert() puts them into names).
Plain(h) == \A i \in DOMAIN h : FirstLine[h[i].name] = h[i].name

\* What getline() finds of an entry
FirstOf(e) == [e EXCEPT !.name = FirstLine[e.name]]

\* The entries of h, printed as they are, to read_file(): fscanf() skips what is blank,
\* takes other text behind a newline for the end of the file, and a name that begins
\* with a newline for an empty entry, on which read_file() throws.
Printed(h, broken) ==
    LET end == SelectInSeq(h, LAMBDA e : e.name \in EndsReading)
        Upto(n) == [i \in 1 .. n |-> FirstOf(h[i])]
    IN  IF end = 0 THEN V1(Upto(Len(h)), broken)
        ELSE IF FirstLine[h[end].name] = null THEN V1(Upto(end - 1), TRUE)
        ELSE V1(Upto(end), FALSE)

\* rewind() and ftruncate(): the first half of write().
Truncate(h) ==
    /\ history' = h
    /\ file' = Empty
    /\ state' = "write"

\* The constructor on a file that does not exist creates an empty one.
ctor_new ==
    /\ state = "off" /\ file = Missing
    /\ file' = Empty
    /\ state' = "run"
    /\ UNCHANGED <<history, crashes, torn>>

\* The constructor on a file with a header. Headers that are malformed or of another
\* version, which the program does not write, are left out.
ctor_read ==
    /\ state = "off" /\ file.form = "v1"
    /\ \/ file.broken /\ state' = "failed" /\ UNCHANGED history
       \/ ~file.broken /\ state' = "run" /\ history' = Read(file.lines)
    /\ UNCHANGED <<file, crashes, torn>>

\* The constructor throws v0_version_error and main() converts the file.
convert_history_from_v0 ==
    /\ state = "off" /\ file.form = "v0"
    /\ Truncate(FromV0(file.lines, lookup_by_ID, null))
    /\ UNCHANGED <<crashes, torn>>

increment(name) ==
    /\ state = "run"
    /\ CountOf(history, name) < MaxCount
    /\ Truncate(Incremented(history, name))
    /\ UNCHANGED <<crashes, torn>>

\* Mutant: the file is left as it is.
remove_obsolete_entry_unsaved(i) ==
    /\ state = "run"
    /\ history' = RemoveAt(history, i)
    /\ UNCHANGED <<file, state, crashes, torn>>

remove_obsolete_entry(i) ==
    /\ state = "run"
    /\ Truncate(RemoveAt(history, i))
    /\ UNCHANGED <<crashes, torn>>

\* Mutant: the stream is not buffered.
write_early ==
    /\ state = "write" /\ history # <<>>
    /\ file' = Printed(Front(history), TRUE)
    /\ state' = "write"
    /\ UNCHANGED <<history, crashes, torn>>

\* The stdio buffer is full: it is written out, most likely amid a line.
write_buffer ==
    /\ state = "write" /\ Len(history) > BufferLines
    /\ LET whole == SubSeq(history, 1, BufferLines)
           next  == history[BufferLines + 1]
       IN  file' \in {Printed(whole, FALSE), Printed(whole, TRUE)}
                     \cup {Printed(Append(whole, [next EXCEPT !.name = n]), FALSE) : n \in Cut[next.name]}
    /\ state' = "flush"
    /\ UNCHANGED <<history, crashes, torn>>

\* The header, the entries and fflush(): the second half of write().
write_rest ==
    /\ \/ state = "flush"
       \/ state = "write" /\ Len(history) <= BufferLines
    /\ file' = Printed(history, FALSE)
    /\ state' = "run"
    /\ UNCHANGED <<history, crashes, torn>>

\* The program ends, or is killed: only the file is left.
stop ==
    /\ \/ state = "run" /\ Plain(history) /\ crashes' = crashes
       \/ /\ state \in {"write", "flush"} \/ (state = "run" /\ ~Plain(history))
          /\ crashes < MaxCrashes /\ crashes' = crashes + 1
    /\ torn' = (torn \/ state = "flush" \/ (state = "run" /\ ~Plain(history)))
    /\ state' = "off"
    /\ history' = <<>>
    /\ UNCHANGED file

Next ==
    \/ ctor_new \/ ctor_read \/ convert_history_from_v0
    \/ \E name \in Names : increment(name)
    \/ \E i \in DOMAIN history : remove_obsolete_entry(i)
    \/ write_buffer \/ write_rest \/ stop

Spec == Init /\ [][Next]_vars

-----------------------------------------------------------------------------
\* "all names in HistoryManager shall be unique too" (HistoryManager.cc:179), on which
\* the menu depends, as do_dmenu() aborts on a repeated name: no conversion, launch,
\* removal or restart repeats one. A start does so only after a log was left with a
\* name cut short: by a kill, in a history larger than the stdio buffer, or by a newline
\* in the name itself.
NamesDistinct == torn \/ Distinct(history)

\* What has been saved is what the next start reads, in the same order: reading
\* keeps the entries sorted and leaves entries of one count where they were. Names with
\* a newline do not come back as they were; the entries in front of the first of them
\* do, and without one the whole history does and the file is not refused.
SavedIsRestored ==
    state = "run" /\ file.form = "v1" =>
        LET next == Read(file.lines)
        IN  /\ Descending(history)
            /\ Plain(history) => ~file.broken /\ next = history
            /\ \A i \in DOMAIN history :
                  Plain(SubSeq(history, 1, i)) => i \in DOMAIN next /\ next[i] = history[i]

\* A kill during a save that fits into the buffer costs all of the history or none
\* of it: the next start finds an empty file or a complete one, never one that it
\* refuses or that lacks order, unless a name with a newline was saved.
AllOrNothing ==
    torn \/ /\ state # "failed"
            /\ state = "off" /\ file.form = "v1" =>
                  ~file.broken /\ Distinct(file.lines) /\ Descending(file.lines)

\* What the running program holds, or what the file says.
Log ==
    IF state \in {"run", "write", "flush"} THEN history
    ELSE IF file.form = "v0" THEN FromV0(file.lines, lookup_by_ID, null)
    ELSE file.lines

UsageLog == INSTANCE UsageLog WITH log <- Log

\* The log behaves as if it were one list that is changed in one step: a launch is
\* counted once, a conversion changes nothing, and a restart, after a kill whenever it
\* comes or with names of several lines, costs no more than a tail and the rest of
\* such names.
ImplementsUsageLog == UsageLog!Spec

=============================================================================
