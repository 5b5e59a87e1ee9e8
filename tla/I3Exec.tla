-------------------------------- MODULE I3Exec --------------------------------
(***************************************************************************)
(* The conversation with i3 or sway in src/I3Exec.cc: the path of the      *)
(* socket, the message with the command of I3Executable, and the reply,    *)
(* over a stream that carries any part of them at a time.  A character is  *)
(* a unit of the stream; a number in the header is one, too.  An EINTR is  *)
(* a step without effect.                                                  *)
(***************************************************************************)
EXTENDS Executables

CONSTANTS
    SocketPaths,   \* what 'i3 --get-socketpath' may come to, see get_ipc_socket_path
    Replies        \* [results, text]: i3's results for a message, and its reply as text

Garbage == {0, 2}  \* what an uninitialized message_length may be

\* Where the strings of a text in JSON are: whether what comes behind a character is
\* outside of strings, in one, or there behind a backslash
LexChar(before, ch) ==
    CASE before = "outside" -> IF ch = DQ THEN "string" ELSE "outside"
      [] before = "string" -> IF ch = DQ THEN "outside" ELSE IF ch = BS THEN "escape" ELSE "string"
      [] OTHER -> "string"

Lexed(text) ==
    LET after[n \in 0 .. Len(text)] == IF n = 0 THEN "outside" ELSE LexChar(after[n - 1], text[n])
    IN  after

\* Spaces between the tokens, and the places next to each other but for these
Blank(text, i) == text[i] = SP /\ Lexed(text)[i - 1] = "outside"
Follows(text, i, j) == i < j /\ ~Blank(text, j) /\ \A k \in i + 1 .. j - 1 : Blank(text, k)

Opens(text, i) == i \in DOMAIN text /\ text[i] = DQ /\ Lexed(text)[i - 1] = "outside"
Closes(text, i) == text[i] = DQ /\ Lexed(text)[i - 1] = "string"
Colon(text, i, c) == Follows(text, i, c) /\ text[c] = ":"

\* A member "success" begins at i.
SuccessAt(text, i) ==
    /\ Opens(text, i) /\ text[i + 1] = "success" /\ Closes(text, i + 2)
    /\ \E c \in DOMAIN text : Colon(text, i + 2, c)

\* The value of the member that begins at i
HasValue(text, i, value) ==
    \E c, v \in DOMAIN text : Colon(text, i + 2, c) /\ Follows(text, c, v) /\ text[v] = value

\* The members "success" of the reply are at these places, one for each result.
AreResults(at, oks, text) ==
    /\ \A i \in DOMAIN text : SuccessAt(text, i) <=> \E k \in DOMAIN oks : at[k] = i
    /\ \A k, l \in DOMAIN oks : k < l => at[k] < at[l]
    /\ \A k \in DOMAIN oks : HasValue(text, at[k], IF oks[k] THEN "true" ELSE "false")

\* The reply is a list of objects: outside of strings there is no word but the literals,
\* and the name of a member is a single word.
IsReply(oks, text) ==
    /\ \A i \in DOMAIN text : Lexed(text)[i - 1] = "outside" => text[i] # "success"
    /\ \A i, c \in DOMAIN text : Closes(text, i) /\ Colon(text, i, c) => Opens(text, i - 2)
    /\ oks # <<>> /\ \E at \in [DOMAIN oks -> DOMAIN text] : AreResults(at, oks, text)
    /\ \E i \in DOMAIN text : text[i] = "}" /\ Follows(text, i, Len(text)) /\ text[Len(text)] = "]"

ASSUME I3Assumption ==
    /\ SocketPaths \subseteq {"killed", "status", "empty", "no_newline", "too_long", "usable"}
    /\ \A r \in Replies : r.results \in Seq(BOOLEAN) /\ r.text \in String /\ IsReply(r.results, r.text)

VARIABLES
    conn,            \* "none", "path", "writen", "readn", "parse", or how it ended
    tot,             \* totWritten or totRead
    inbox,           \* what i3 has received
    i3,              \* "up", "answered" or "closed"
    results,         \* i3's results
    stream,          \* the part of the reply that has not been read
    field,           \* what readn() reads: the magic string, the length, the type, the payload
    message_length,
    response

conn_vars == <<conn, tot, inbox, i3, results, stream, field, message_length, response>>
i3_vars == <<vars, conn_vars>>

I3Init ==
    /\ Init
    /\ conn = "none" /\ tot = 0
    /\ inbox = <<>> /\ i3 = "up" /\ results = <<>> /\ stream = <<>>
    /\ field = 1 /\ message_length = 0 /\ response = <<>>

\* main() fetches the path before anything else; a path in $I3SOCK is taken as it is.
get_ipc_socket_path(result) ==
    /\ opt.mode = "i3" /\ conn = "none"
    /\ conn' = IF result \in {"killed", "status", "empty", "no_newline"} THEN "exit"
               ELSE IF result = "too_long" THEN "long_path" ELSE "path"
    /\ UNCHANGED <<vars, tot, inbox, i3, results, stream, field, message_length, response>>

-----------------------------------------------------------------------------
Sending == opt.mode = "i3" /\ pc = "done"

\* exec() looks at the length of the path; connect() fails if i3 is gone.
connect ==
    /\ Sending
    /\ conn \in {"path", "long_path"}
    /\ conn' = IF conn = "path" /\ i3 = "up" THEN "writen" ELSE "exit"
    /\ UNCHANGED <<vars, tot, inbox, i3, results, stream, field, message_length, response>>

\* "i3-ipc", the length, the type RUN_COMMAND, and the payload
Message == <<"i3-", "ipc", 1 + Len(out), 0, "exec ">> \o out

\* Mutant: the rest is counted, but the buffer is not moved on.
write_same(n) ==
    /\ conn = "writen" /\ i3 # "closed"
    /\ n <= Len(Message) - tot
    /\ inbox' = inbox \o SubSeq(Message, 1, n)
    /\ tot' = IF tot + n = Len(Message) THEN 0 ELSE tot + n
    /\ conn' = IF tot + n = Len(Message) THEN "readn" ELSE "writen"
    /\ UNCHANGED <<vars, i3, results, stream, field, message_length, response>>

\* writen(): a write() takes n units.
write(n) ==
    /\ conn = "writen" /\ i3 # "closed"
    /\ n <= Len(Message) - tot
    /\ inbox' = inbox \o SubSeq(Message, tot + 1, tot + n)
    /\ tot' = IF tot + n = Len(Message) THEN 0 ELSE tot + n
    /\ conn' = IF tot + n = Len(Message) THEN "readn" ELSE "writen"
    /\ UNCHANGED <<vars, i3, results, stream, field, message_length, response>>

\* EPIPE, or rather the SIGPIPE that nobody handles here
write_fails ==
    /\ conn = "writen" /\ i3 = "closed"
    /\ conn' = "exit"
    /\ UNCHANGED <<vars, tot, inbox, i3, results, stream, field, message_length, response>>

\* i3 has the whole message by its header and answers.
i3_answer(reply) ==
    /\ i3 = "up" /\ Len(inbox) >= 4 /\ Len(inbox) = 4 + inbox[3]
    /\ i3' = "answered"
    /\ results' = reply.results
    /\ stream' = <<"i3-", "ipc", Len(reply.text), 0>> \o reply.text
    /\ UNCHANGED <<vars, conn, tot, inbox, field, message_length, response>>

\* i3 ends or restarts; what has not been read by now is what it has not sent.
i3_close ==
    /\ i3 # "closed" /\ conn \in {"path", "writen", "readn"}
    /\ i3' = "closed" /\ stream' = <<>>
    /\ UNCHANGED <<vars, conn, tot, inbox, results, field, message_length, response>>

-----------------------------------------------------------------------------
\* Mutant: the terminating zero is counted.
Wanted_beyond == <<2, 1, 1, message_length + 1>>

\* The size each call of readn() is given
Wanted == <<2, 1, 1, message_length>>

\* readn() has returned: the next call, if there is something to read in it.
NextField(length) ==
    /\ tot' = 0
    /\ IF field = 4 \/ (field = 3 /\ length = 0)
       THEN conn' = "parse" /\ field' = 4
       ELSE conn' = conn /\ field' = field + 1

Zeros(n) == [i \in 1 .. n |-> "nul"]

\* A read() gives n units.
read(n) ==
    /\ conn = "readn" /\ n <= Len(stream) /\ n <= Wanted[field] - tot
    /\ stream' = SubSeq(stream, n + 1, Len(stream))
    /\ message_length' = IF field = 2 THEN Head(stream) ELSE message_length
    /\ response' = IF field = 4 THEN response \o SubSeq(stream, 1, n) ELSE response
    /\ IF tot + n = Wanted[field] THEN NextField(message_length')
       ELSE tot' = tot + n /\ UNCHANGED <<conn, field>>
    /\ UNCHANGED <<vars, inbox, i3, results>>

\* At the end of the stream readn() returns what it has, which is not an error to
\* exec(): the length is left uninitialized, the rest of the response zero.
read_eof ==
    /\ conn = "readn" /\ i3 = "closed" /\ stream = <<>>
    /\ message_length' \in IF field = 2 THEN Garbage ELSE {message_length}
    /\ response' = IF field = 4 THEN response \o Zeros(message_length - tot) ELSE response
    /\ NextField(message_length')
    /\ UNCHANGED <<vars, inbox, i3, results, stream>>

\* i3 has gone without reading: ECONNRESET
read_fails ==
    /\ conn = "readn" /\ i3 = "closed" /\ results = <<>>
    /\ conn' = "exit"
    /\ UNCHANGED <<vars, tot, inbox, i3, results, stream, field, message_length, response>>

\* Spaces outside of strings are left out.
TrimChar(s, ch) ==
    CASE ~s.in_quotes /\ ch = SP -> s
      [] ~s.in_quotes /\ ch # SP -> [s EXCEPT !.result = Append(@, ch), !.in_quotes = (ch = DQ)]
      [] s.in_quotes /\ s.escaped -> [s EXCEPT !.result = Append(@, ch), !.escaped = FALSE]
      [] OTHER -> [s EXCEPT !.result = Append(@, ch), !.escaped = (ch = BS), !.in_quotes = (ch # DQ)]

trim_spaces(orig) ==
    LET trimmed[n \in 0 .. Len(orig)] ==
            IF n = 0 THEN [result |-> <<>>, in_quotes |-> FALSE, escaped |-> FALSE]
            ELSE TrimChar(trimmed[n - 1], orig[n])
    IN  trimmed[Len(orig)].result

Key(name) == <<DQ, name, DQ, ":">>

\* std::string::find(); 0 is npos
Find(string, what) ==
    LET found == {i \in 1 .. Len(string) - Len(what) + 1 :
                     SubSeq(string, i, i + Len(what) - 1) = what}
    IN  IF found = {} THEN 0 ELSE Min(found)

\* Mutant: success is looked for first.
parse_hopeful ==
    /\ conn = "parse"
    /\ LET trimmed == trim_spaces(response)
       IN  conn' = CASE Find(trimmed, Append(Key("success"), "true")) # 0 -> "returned"
                     [] Find(trimmed, Append(Key("success"), "false")) # 0 -> "refused"
                     [] OTHER -> "abort"
    /\ UNCHANGED <<vars, tot, inbox, i3, results, stream, field, message_length, response>>

\* The "poor man's JSON parser".  An error message is only logged, but its beginning
\* must be there.
parse ==
    /\ conn = "parse"
    /\ LET trimmed == trim_spaces(response)
           where == Find(trimmed, Key("error"))
       IN  conn' = CASE Find(trimmed, Append(Key("success"), "false")) # 0 ->
                           IF where # 0 /\ where + 5 = Len(trimmed) + 1 THEN "abort" ELSE "refused"
                     [] Find(trimmed, Append(Key("success"), "false")) = 0
                           /\ Find(trimmed, Append(Key("success"), "true")) # 0 -> "returned"
                     [] OTHER -> "abort"
    /\ UNCHANGED <<vars, tot, inbox, i3, results, stream, field, message_length, response>>

I3Next ==
    \/ Next /\ (opt.mode = "i3" => conn \in {"path", "long_path"}) /\ UNCHANGED conn_vars
    \/ \E result \in SocketPaths : get_ipc_socket_path(result)
    \/ connect
    \/ \E n \in 1 .. Len(Message) : write(n)
    \/ write_fails
    \/ \E reply \in Replies : i3_answer(reply)
    \/ i3_close
    \/ \E n \in 1 .. Len(stream) : read(n)
    \/ read_eof
    \/ read_fails
    \/ parse

I3Spec == I3Init /\ [][I3Next]_i3_vars

-----------------------------------------------------------------------------
\* However a message is cut up on its way, i3 gets the command once, whole and in
\* order, behind a header that tells its length; the program goes on to the reply
\* only when it has sent all of it.
I3GetsCommand ==
    /\ IsPrefix(inbox, Message)
    /\ conn \in {"readn", "parse", "returned", "refused"} => inbox = Message

\* The program never waits for more than i3 sends: when i3 has said all, the reply
\* has been read to its end.
NeverWaitsForMore ==
    conn = "readn" /\ i3 = "answered" => stream # <<>>

\* The program goes on if i3 has started the command and ends with an error if not,
\* wherever the words for it appear in the reply; a reply that breaks off may end the
\* program, but is never taken for a success i3 has not reported.
ReportedTruthfully ==
    /\ conn = "returned" => results[1] /\ (i3 = "answered" => \A i \in DOMAIN results : results[i])
    /\ conn = "refused" => \E i \in DOMAIN results : ~results[i]
    /\ conn = "abort" => i3 = "closed"

=============================================================================
