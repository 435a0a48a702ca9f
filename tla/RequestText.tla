----------------------------- MODULE RequestText -----------------------------
(***************************************************************************)
(* What the server does with the text of a request, and of file's answer:  *)
(* read_request and check_security_path (children.c, utility.c), then      *)
(* sanitize_path and type_path (gopher.c).  A text is a sequence of        *)
(* characters; only those that the code tells apart matter.                *)
(***************************************************************************)
EXTENDS Integers, Sequences

CR == "\r"
LF == "\n"
Quote == "'"
Backslash == "\\"

-----------------------------------------------------------------------------
(* The request line.                                                       *)

\* \r\n ends at position i of the buffer.
LineEndsAt(buf, i) == i > 1 /\ buf[i - 1] = CR /\ buf[i] = LF

\* A defect: each recv() is scanned by itself.
ScannedAlone(buf, done) == {i \in done + 2 .. Len(buf) : LineEndsAt(buf, i)}

\* The scan of read_request goes on where the last one stopped.
Scanned(buf, done) == {i \in done + 1 .. Len(buf) : LineEndsAt(buf, i)}

\* buf[read_bytes - 1] = '\0'
LineUpTo(buf, i) == SubSeq(buf, 1, i - 2)

\* strstr(path, "../") or strstr(path, "..\\")
GoesUp(path) ==
    \E i \in 1 .. Len(path) - 2 :
        /\ path[i] = "." /\ path[i + 1] = "."
        /\ path[i + 2] \in {"/", Backslash}

\* The line a stream of bytes begins with, however it is cut; <<>> also when none.
LineEnds(stream) == {i \in 1 .. Len(stream) : LineEndsAt(stream, i)}
FirstLine(stream) ==
    IF LineEnds(stream) = {} THEN <<>>
    ELSE LineUpTo(stream, CHOOSE i \in LineEnds(stream) :
                              \A j \in LineEnds(stream) : i <= j)

-----------------------------------------------------------------------------
(* The command line of popen().                                            *)

\* A defect: quotes are dropped.
WithoutQuotes(path) == SelectSeq(path, LAMBDA ch : ch # Quote)

\* sanitize_path: every ' becomes '\''
Escaped(ch) == IF ch = Quote THEN <<Quote, Backslash, Quote, Quote>> ELSE <<ch>>

Sanitized(path) ==
    LET copied[i \in 0 .. Len(path)] ==
          IF i = 0 THEN <<>> ELSE copied[i - 1] \o Escaped(path[i])
    IN  copied[Len(path)]

\* file -bi '...'
Argument(path) == <<Quote>> \o Sanitized(path) \o <<Quote>>

\* A shell at a character of an argument: the word so far, and whether it is between
\* quotes or behind a backslash.
ShellState(word, in, esc) == [word |-> word, in |-> in, esc |-> esc]

ShellReads(s, ch) ==
    IF s.in THEN IF ch = Quote THEN [s EXCEPT !.in = FALSE]
                               ELSE [s EXCEPT !.word = Append(@, ch)]
    ELSE IF s.esc THEN [s EXCEPT !.word = Append(@, ch), !.esc = FALSE]
    ELSE CASE ch = Quote -> [s EXCEPT !.in = TRUE]
           [] ch = Backslash -> [s EXCEPT !.esc = TRUE]
           [] OTHER -> [s EXCEPT !.word = Append(@, ch)]

\* The word a shell makes of an argument; <<"open">> when a quote is left open or
\* the word ends before the argument does.
ShellWord(arg) ==
    LET read[i \in 0 .. Len(arg)] ==
          IF i = 0 THEN ShellState(<<>>, FALSE, FALSE) ELSE ShellReads(read[i - 1], arg[i])
        last == read[Len(arg)]
    IN  IF last.in \/ last.esc THEN <<"open">> ELSE last.word

-----------------------------------------------------------------------------
(* The type of a file, from the MIME type that file prints.                *)

\* A row of type_path: what strncmp() compares with, and the gopher character.
\* minor = "" is a comparison with "major/" only.
Row(major, minor, char) == [major |-> major, minor |-> minor, char |-> char]

\* A defect: the general row of text comes first.
TextFirst ==
    << Row("inode", "directory", "1"), Row("text", "", "0"), Row("text", "html", "h") >>

TypeRows ==
    << Row("inode", "directory", "1"), Row("application", "gopher", "7"),
       Row("multipart", "mixed", "M"), Row("application", "", "9"),
       Row("audio", "", "s"), Row("text", "html", "h"), Row("text", "", "0"),
       Row("inode", "x-empty", "0"), Row("image", "gif", "g"),
       Row("image", "", "I"), Row("application", "mac", "4") >>

Matches(mime, row) ==
    mime.major = row.major /\ (row.minor = "" \/ mime.minor = row.minor)

RowsFor(mime) == {i \in DOMAIN TypeRows : Matches(mime, TypeRows[i])}

\* The rows in their order; an output that matches none, or "cannot open", is '3'.
TypeChar(mime) ==
    IF RowsFor(mime) = {} THEN "3"
    ELSE TypeRows[CHOOSE i \in RowsFor(mime) : \A j \in RowsFor(mime) : i <= j].char
=============================================================================
