------------------------------- MODULE UsageLog -------------------------------
(***************************************************************************)
(* What a user expects of --usage-log, without files and buffers: a list   *)
(* of names and counts that outlives the program.  HistoryManager, used by *)
(* the daemon of module Menu, implements it.                               *)
(***************************************************************************)
EXTENDS History

CONSTANTS
    Names,
    FirstLine    \* [Names -> what a line-based file keeps of a name]

VARIABLE log    \* the entries [count, name], most used first

\* The log without the entry of a name
Others(l, n) == IF n \in NamesIn(l) THEN RemoveAt(l, Find(l, n)) ELSE l

Init == Distinct(log) /\ Descending(log)

\* A launch is counted once and moves one entry; the others stay in order.
Launch(n) ==
    /\ CountOf(log', n) = CountOf(log, n) + 1
    /\ Others(log', n) = Others(log, n)
    /\ Distinct(log') /\ Descending(log')

Forget(i) == log' = RemoveAt(log, i)

\* A kill amid a save, or a name of several lines, costs a tail of the log. The last
\* entry left may have lost the end of its name; the others keep theirs, or the first
\* line of it.
Lose ==
    /\ Len(log') <= Len(log)
    /\ \A i \in DOMAIN log' : log'[i].count = log[i].count
    /\ \A i \in 1 .. Len(log') - 1 : log'[i].name = FirstLine[log[i].name]

\* A name that was cut short may be there twice; nothing is promised for launches of it.
LaunchRepeated == ~Distinct(log)

Next ==
    \/ \E n \in Names : Launch(n)
    \/ \E i \in DOMAIN log : Forget(i)
    \/ Lose
    \/ LaunchRepeated

Spec == Init /\ [][Next]_log

=============================================================================
