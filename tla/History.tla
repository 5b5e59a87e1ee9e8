-------------------------------- MODULE History --------------------------------
(***************************************************************************)
(* The usage history as HistoryManager keeps it in memory: a multimap from *)
(* a count to a name, ordered by std::greater.  It is a sequence here, in  *)
(* the order of iteration; an element is emplaced behind its equals.       *)
(***************************************************************************)
EXTENDS Naturals, Sequences, SequencesExt

NamesIn(h) == {h[i].name : i \in DOMAIN h}

Distinct(h) == \A i, j \in DOMAIN h : h[i].name = h[j].name => i = j

Descending(h) == \A i, j \in DOMAIN h : i < j => h[i].count >= h[j].count

\* The std::find_if() of increment(): the first entry with the name, or 0
Find(h, name) == SelectInSeq(h, LAMBDA e : e.name = name)

CountOf(h, name) ==
    IF name \in NamesIn(h)
    THEN h[Find(h, name)].count
    ELSE 0

\* std::multimap::emplace
emplace(h, count, name) ==
    LET behind == Cardinality({i \in DOMAIN h : h[i].count >= count})
    IN  InsertAt(h, behind + 1, [count |-> count, name |-> name])

\* Mutant: the first launch of a name is not counted.
IncrementedFromZero(h, name) ==
    LET i == Find(h, name)
    IN  IF i = 0 THEN emplace(h, 0, name)
        ELSE emplace(RemoveAt(h, i), h[i].count + 1, name)

\* Mutant: the iterator is used after it was advanced to the next entry.
IncrementedNext(h, name) ==
    LET i == Find(h, name)
    IN  IF i = 0 THEN emplace(h, 1, name)
        ELSE emplace(RemoveAt(h, IF i < Len(h) THEN i + 1 ELSE i), h[i].count + 1, name)

\* The container after HistoryManager::increment()
Incremented(h, name) ==
    LET i == Find(h, name)
    IN  IF i = 0 THEN emplace(h, 1, name)
        ELSE emplace(RemoveAt(h, i), h[i].count + 1, name)

\* HistoryManager::read_file(): the lines of a history file, top to bottom
Read(lines) ==
    LET read[n \in 0 .. Len(lines)] ==
            IF n = 0 THEN <<>> ELSE emplace(read[n - 1], lines[n].count, lines[n].name)
    IN  read[Len(lines)]

\* Mutant: only the Name is looked up in ensure_uniqueness.
FromV0Repeated(lines, lookup_by_ID, null) ==
    LET Line(h, line) ==
            LET app == lookup_by_ID[line.id]
            IN  IF app = null \/ app.name \in NamesIn(h) THEN h
                ELSE LET named == emplace(h, line.count, app.name)
                     IN  IF app.generic_name = null THEN named
                         ELSE emplace(named, line.count, app.generic_name)
        convert[n \in 0 .. Len(lines)] ==
            IF n = 0 THEN <<>> ELSE Line(convert[n - 1], lines[n])
    IN  convert[Len(lines)]

\* ensure_uniqueness of convert_history_from_v0()
EmplaceOnce(h, count, name, null) ==
    IF name = null \/ name \in NamesIn(h) THEN h ELSE emplace(h, count, name)

\* An iteration of the loop of convert_history_from_v0()
ConvertLine(h, count, app, null) ==
    IF app = null THEN h
    ELSE EmplaceOnce(EmplaceOnce(h, count, app.name, null), count, app.generic_name, null)

\* convert_history_from_v0(): a line holds the desktop file ID of an application,
\* whose Name and GenericName both become entries unless they already are.
FromV0(lines, lookup_by_ID, null) ==
    LET convert[n \in 0 .. Len(lines)] ==
            IF n = 0 THEN <<>>
            ELSE ConvertLine(convert[n - 1], lines[n].count, lookup_by_ID[lines[n].id], null)
    IN  convert[Len(lines)]

=============================================================================
