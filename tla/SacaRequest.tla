----------------------------- MODULE SacaRequest -----------------------------
(***************************************************************************)
(* The life of a request on Linux: management_function and read_request    *)
(* (children.c), send_content_of_dir, type_path and thread_sender          *)
(* (gopher.c), load_file_memory_and_send (utility.c).                      *)
(*                                                                         *)
(* A worker is a thread of the server ('t') or a child ('p').  It reads a  *)
(* line, maps it to a path, asks file for its type, and answers with a     *)
(* menu, an error line or a file.  To send a file it locks and maps it,    *)
(* unlocks it, and starts a second thread, the sender, which it joins.     *)
(* The sender ends with the announcement of the transfer, which SacaLog    *)
(* takes up.  Several workers want one file; other programs lock and       *)
(* change it too.  Lengths are in blocks of a file and of a send().        *)
(*                                                                         *)
(* An exit() in a thread, or a crash, ends the server and all its workers. *)
(***************************************************************************)
EXTENDS RequestText, FiniteSets

CONSTANTS
    Workers,      \* one client each
    Writer,       \* another program that locks the file
    Nobody,       \* no owner of the lock
    Modes,        \* the values settings.mode may have: 't', 'p'
    Home,         \* settings.homedir
    Requests,     \* what each client may send, as a whole
    MaxRequest,   \* MAX_REQUEST_LEN
    PathMax,      \* PATH_MAX
    Mimes,        \* the types that file knows
    Lengths,      \* bound: the lengths the file may have
    Window,       \* blocks the socket buffers of a connection hold
    MaxEntries,   \* bound: entries of a directory
    Failures      \* TRUE: allocations and system calls may fail

ASSUME RequestAssumption ==
    /\ Writer \notin Workers /\ Nobody \notin Workers \cup {Writer}
    /\ Modes \subseteq {"t", "p"} /\ Modes # {}
    /\ Len(Home) \in 1 .. MaxRequest - 1 /\ MaxRequest <= PathMax
    /\ MaxRequest \in Nat /\ PathMax \in Nat
    /\ DOMAIN Requests = Workers /\ \A w \in Workers : Requests[w] \subseteq Seq(STRING)
    /\ Home \in Seq(STRING)
    /\ Mimes \subseteq [major : STRING, minor : STRING]
    /\ Lengths \subseteq Nat /\ Lengths # {}
    /\ Window \in Nat \ {0} /\ MaxEntries \in Nat
    /\ Failures \in BOOLEAN

VARIABLES
    mode,         \* settings.mode, in the copy each worker has
    up,           \* the server process lives
    pc,           \* where each worker is
    spc,          \* where its sender thread is
    inbox,        \* what the client sent and recv() has not returned yet
    buf,          \* input up to read_bytes; then the line; then path_file
    peer,         \* the client's end of the connection
    taken,        \* blocks of the answer the client has read
    held,         \* what each worker holds
    listed,       \* entries in the menu so far
    lock,         \* the owner of the lock on the file
    flen,         \* the length of the file
    len,          \* len_file
    sent,         \* bytes_sent
    recorded      \* transfers announced to the log process

textVars == <<inbox, buf>>
fileVars == <<lock, flen>>
sendVars == <<len, sent, recorded>>
vars == <<mode, up, pc, spc, textVars, peer, taken, held, listed, fileVars, sendVars>>

WorkerPc == {"start", "read", "path", "type", "menu", "entries", "error", "open",
             "lock", "stat", "map", "unlock", "create", "join", "finish", "gone"}
SenderPc == {"none", "send", "wait", "log", "done"}
Resources == {"args", "sock", "input", "path", "dir", "fd", "map"}

\* A defect: the room homedir takes is forgotten.
RoomForAll == MaxRequest

\* The size of input: MAX_REQUEST_LEN - strlen(homedir)
Room == MaxRequest - Len(Home)

Init ==
    /\ mode \in Modes /\ up = TRUE
    /\ pc = [w \in Workers |-> "start"]
    /\ spc = [w \in Workers |-> "none"]
    /\ inbox \in {f \in [Workers -> UNION {Requests[w] : w \in Workers}] :
                     \A w \in Workers : f[w] \in Requests[w]}
    /\ buf = [w \in Workers |-> <<>>]
    /\ peer = [w \in Workers |-> "open"]
    /\ taken = [w \in Workers |-> 0]
    /\ held = [w \in Workers |-> {"args", "sock"}]
    /\ listed = [w \in Workers |-> 0]
    /\ lock = Nobody /\ flen \in Lengths
    /\ len = [w \in Workers |-> 0]
    /\ sent = [w \in Workers |-> 0]
    /\ recorded = {}

Goes(w, from, to) == pc[w] = from /\ pc' = [pc EXCEPT ![w] = to]

Gets(w, r) == held' = [held EXCEPT ![w] = @ \cup {r}]
Drops(w, rs) == held' = [held EXCEPT ![w] = @ \ rs]

\* What is forgotten with a connection: nobody looks at it any more.
Forgets(dead) ==
    LET only(f, v) == [w \in Workers |-> IF w \in dead THEN v ELSE f[w]] IN
    /\ inbox' = only(inbox, <<>>) /\ buf' = only(buf, <<>>)
    /\ peer' = only(peer, "closed") /\ taken' = only(taken, 0)
    /\ listed' = only(listed, 0)
    /\ len' = only(len, 0) /\ sent' = only(sent, 0)

\* A defect: the thread ends without its socket.
EndsOnly(w, rs) ==
    /\ pc' = [pc EXCEPT ![w] = "gone"]
    /\ held' = [held EXCEPT ![w] = IF mode = "t" THEN @ \ (rs \cup {"path", "args"}) ELSE {}]
    /\ Forgets({w})
    /\ UNCHANGED <<mode, up, spc, fileVars, recorded>>

\* close_socket_kill_child: the end of a thread, or of a child with all it has.
Ends(w, rs) ==
    /\ pc' = [pc EXCEPT ![w] = "gone"]
    /\ held' = [held EXCEPT ![w] =
                   IF mode = "t" THEN @ \ (rs \cup {"path", "args", "sock"}) ELSE {}]
    /\ Forgets({w})
    /\ UNCHANGED <<mode, up, spc, fileVars, recorded>>

\* exit(), or a signal that kills: the process is gone, with its threads and locks.
ProcessEnds(w) ==
    LET dead == IF mode = "t" THEN Workers ELSE {w} IN
    /\ up' = (mode = "p" /\ up)
    /\ pc' = [v \in Workers |-> IF v \in dead THEN "gone" ELSE pc[v]]
    /\ spc' = [v \in Workers |-> IF v \in dead THEN "none" ELSE spc[v]]
    /\ held' = [v \in Workers |-> IF v \in dead THEN {} ELSE held[v]]
    /\ lock' = IF lock \in dead THEN Nobody ELSE lock
    /\ Forgets(dead)
    /\ UNCHANGED <<mode, flen, recorded>>

-----------------------------------------------------------------------------
(* Clients, as long as a worker has their connection, and other programs.   *)

Takes(w) ==
    /\ pc[w] # "gone"
    /\ peer[w] \in {"open", "half"} /\ taken[w] < sent[w]
    /\ taken' = [taken EXCEPT ![w] = @ + 1]
    /\ UNCHANGED <<mode, up, pc, spc, textVars, peer, held, listed, fileVars, sendVars>>

\* shutdown of its side; close(), which resets what it has not read; a reset.
Leaves(w) ==
    /\ pc[w] # "gone"
    /\ \/ peer[w] = "open" /\ peer' = [peer EXCEPT ![w] = "half"]
       \/ /\ peer[w] \in {"open", "half"}
          /\ \/ taken[w] = sent[w] /\ peer' = [peer EXCEPT ![w] = "closed"]
             \/ peer' = [peer EXCEPT ![w] = "reset"]
    /\ UNCHANGED <<mode, up, pc, spc, textVars, taken, held, listed, fileVars, sendVars>>

\* What is sent to a closed socket is answered with a reset.
Resets(w) ==
    /\ pc[w] # "gone"
    /\ peer[w] = "closed" /\ taken[w] < sent[w]
    /\ peer' = [peer EXCEPT ![w] = "reset"]
    /\ UNCHANGED <<mode, up, pc, spc, textVars, taken, held, listed, fileVars, sendVars>>

WriterLocks ==
    /\ lock = Nobody /\ lock' = Writer
    /\ UNCHANGED <<mode, up, pc, spc, textVars, peer, taken, held, listed, flen, sendVars>>

WriterUnlocks ==
    /\ lock = Writer /\ lock' = Nobody
    /\ flen' \in Lengths
    /\ UNCHANGED <<mode, up, pc, spc, textVars, peer, taken, held, listed, sendVars>>

-----------------------------------------------------------------------------
(* management_function: the request.                                       *)

\* calloc of input
Begins(w) ==
    /\ Goes(w, "start", "read")
    /\ Gets(w, "input")
    /\ UNCHANGED <<mode, up, spc, textVars, peer, taken, listed, fileVars, sendVars>>

\* recv() of any part of what has arrived.  What comes after \r\n is never looked at.
Receives(w) ==
    /\ pc[w] = "read" /\ Len(buf[w]) < Room /\ inbox[w] # <<>>
    /\ \E k \in 1 .. Len(inbox[w]) :
        LET all == buf[w] \o SubSeq(inbox[w], 1, k)
            ends == Scanned(all, Len(buf[w]))
        IN  /\ Len(all) <= Room
            /\ IF ends = {}
               THEN /\ buf' = [buf EXCEPT ![w] = all]
                    /\ inbox' = [inbox EXCEPT ![w] = SubSeq(@, k + 1, Len(@))]
                    /\ pc' = pc
               ELSE /\ \E i \in ends : /\ \A j \in ends : i <= j
                                       /\ buf' = [buf EXCEPT ![w] = LineUpTo(all, i)]
                    /\ inbox' = [inbox EXCEPT ![w] = <<>>]
                    /\ pc' = [pc EXCEPT ![w] = "path"]
    /\ UNCHANGED <<mode, up, spc, peer, taken, held, listed, fileVars, sendVars>>

\* read_request returns -1: no room, or the client has gone.  input is not freed.
\* An empty inbox of a connection that is open is EWOULDBLOCK.
ReadEnds(w) ==
    /\ pc[w] = "read"
    /\ \/ Len(buf[w]) >= Room
       \/ inbox[w] = <<>> /\ peer[w] \in {"half", "closed"}
       \/ peer[w] = "reset"
    /\ Ends(w, {})

\* recv() fails, or realloc()
ReadFails(w) ==
    /\ Failures
    /\ pc[w] = "read"
    /\ Ends(w, {})

\* A path of PATH_MAX would be refused (children.c:280): see PathFits.
Refuses(w) ==
    /\ pc[w] = "path" /\ GoesUp(Home \o buf[w])
    /\ Ends(w, {"input"})

BuildsPath(w) ==
    /\ Goes(w, "path", "type")
    /\ ~GoesUp(Home \o buf[w])
    /\ Gets(w, "path")
    /\ buf' = [buf EXCEPT ![w] = Home \o @]
    /\ UNCHANGED <<mode, up, spc, inbox, peer, taken, listed, fileVars, sendVars>>

\* How the worker goes on with a type.
AnswerTo(char) == CASE char = "1" -> "menu" [] char = "3" -> "error" [] OTHER -> "open"

\* type_path; buf is not needed after it.  When file prints nothing, or a "cannot
\* open" of several buffers, what is compared may begin like any type.
Types(w) ==
    /\ \/ \E m \in Mimes : Goes(w, "type", AnswerTo(TypeChar(m)))
       \/ \E char \in {"0", "1", "3"} : Goes(w, "type", AnswerTo(char))
    /\ buf' = [buf EXCEPT ![w] = <<>>]
    /\ UNCHANGED <<mode, up, spc, inbox, peer, taken, held, listed, fileVars, sendVars>>

\* calloc, malloc, popen, fgets: exit(1), exit(5)
Exits(w) ==
    /\ Failures
    /\ pc[w] \in {"start", "path", "type", "entries"}
    /\ ProcessEnds(w)

-----------------------------------------------------------------------------
(* send_content_of_dir, and the error line.                                *)

OpensDir(w) ==
    /\ Goes(w, "menu", "entries")
    /\ Gets(w, "dir")
    /\ UNCHANGED <<mode, up, spc, textVars, peer, taken, listed, fileVars, sendVars>>

OpenDirFails(w) ==
    /\ Goes(w, "menu", "finish")
    /\ UNCHANGED <<mode, up, spc, textVars, peer, taken, held, listed, fileVars, sendVars>>

\* an entry: its type, its line
Lists(w) ==
    /\ pc[w] = "entries" /\ listed[w] < MaxEntries
    /\ listed' = [listed EXCEPT ![w] = @ + 1]
    /\ UNCHANGED <<mode, up, pc, spc, textVars, peer, taken, held, fileVars, sendVars>>

\* Whether send() fails makes no difference.
SendsMenu(w) ==
    /\ Goes(w, "entries", "finish") /\ listed[w] > 0
    /\ Drops(w, {"dir"})
    /\ listed' = [listed EXCEPT ![w] = 0]
    /\ UNCHANGED <<mode, up, spc, textVars, peer, taken, fileVars, sendVars>>

\* strlen(response) of a directory without entries: response is NULL (gopher.c:138).
EmptyMenu(w) ==
    /\ pc[w] = "entries" /\ listed[w] = 0
    /\ ProcessEnds(w)

SendsError(w) ==
    /\ Goes(w, "error", "finish")
    /\ UNCHANGED <<mode, up, spc, textVars, peer, taken, held, listed, fileVars, sendVars>>

\* free(input), close_socket_kill_child
Finishes(w) ==
    /\ pc[w] = "finish"
    /\ Ends(w, {"input"})

-----------------------------------------------------------------------------
(* load_file_memory_and_send.                                              *)

OpensFile(w) ==
    /\ Goes(w, "open", "lock")
    /\ Gets(w, "fd")
    /\ UNCHANGED <<mode, up, spc, textVars, peer, taken, listed, fileVars, sendVars>>

\* no such file, or not writable (O_RDWR)
OpenFails(w) ==
    /\ Goes(w, "open", "finish")
    /\ UNCHANGED <<mode, up, spc, textVars, peer, taken, held, listed, fileVars, sendVars>>

\* A defect: F_OFD_SETLK, whose result nobody looks at.
LocksOrNot(w) ==
    /\ Goes(w, "lock", "stat")
    /\ lock' = IF lock = Nobody THEN w ELSE lock
    /\ UNCHANGED <<mode, up, spc, textVars, peer, taken, held, listed, flen, sendVars>>

\* fcntl(F_OFD_SETLKW)
Locks(w) ==
    /\ Goes(w, "lock", "stat")
    /\ lock = Nobody /\ lock' = w
    /\ UNCHANGED <<mode, up, spc, textVars, peer, taken, held, listed, flen, sendVars>>

\* the descriptor stays open (utility.c:143-146)
LockFails(w) ==
    /\ Failures
    /\ Goes(w, "lock", "finish")
    /\ UNCHANGED <<mode, up, spc, textVars, peer, taken, held, listed, fileVars, sendVars>>

Stats(w) ==
    /\ Goes(w, "stat", "map")
    /\ len' = [len EXCEPT ![w] = flen]
    /\ UNCHANGED <<mode, up, spc, textVars, peer, taken, held, listed, fileVars, sent, recorded>>

Maps(w) ==
    /\ Goes(w, "map", "unlock") /\ len[w] > 0
    /\ Gets(w, "map")
    /\ UNCHANGED <<mode, up, spc, textVars, peer, taken, listed, fileVars, sendVars>>

\* fstat() or mmap() fails, as mmap() does for a length of 0: unlock and close.
LoadFails(w) ==
    /\ \/ Goes(w, "map", "finish") /\ len[w] = 0
       \/ Failures /\ pc[w] \in {"stat", "map"} /\ Goes(w, pc[w], "finish")
    /\ lock' = Nobody
    /\ Drops(w, {"fd"})
    /\ UNCHANGED <<mode, up, spc, textVars, peer, taken, listed, flen, sendVars>>

\* A defect: the lock is for the transfer, not for the mapping.
UnlocksLater(w) ==
    /\ Goes(w, "unlock", "create")
    /\ UNCHANGED <<mode, up, spc, textVars, peer, taken, held, listed, fileVars, sendVars>>

\* fcntl(F_UNLCK), close
Unlocks(w) ==
    /\ Goes(w, "unlock", "create")
    /\ lock' = Nobody
    /\ Drops(w, {"fd"})
    /\ UNCHANGED <<mode, up, spc, textVars, peer, taken, listed, flen, sendVars>>

Creates(w) ==
    /\ Goes(w, "create", "join")
    /\ spc' = [spc EXCEPT ![w] = "send"]
    /\ UNCHANGED <<mode, up, textVars, peer, taken, held, listed, fileVars, sendVars>>

\* A defect: the sender is detached.
JoinsNobody(w) ==
    /\ Goes(w, "join", "finish")
    /\ Drops(w, {"map"})
    /\ UNCHANGED <<mode, up, spc, textVars, peer, taken, listed, fileVars, sendVars>>

\* pthread_join, munmap
Joins(w) ==
    /\ Goes(w, "join", "finish") /\ spc[w] = "done"
    /\ spc' = [spc EXCEPT ![w] = "none"]
    /\ Drops(w, {"map"})
    /\ UNCHANGED <<mode, up, textVars, peer, taken, listed, fileVars, sendVars>>

\* exit(EXIT_FAILURE)
LoadExits(w) ==
    /\ Failures
    /\ \/ pc[w] \in {"unlock", "create"}
       \/ pc[w] = "join" /\ spc[w] = "done"
    /\ ProcessEnds(w)

-----------------------------------------------------------------------------
(* thread_sender.                                                          *)

SenderGoes(w, from, to) == spc[w] = from /\ spc' = [spc EXCEPT ![w] = to]

\* A defect: send() of a whole page, whatever is left.
SendsPages(w) ==
    /\ spc[w] = "send" /\ sent[w] < len[w]
    /\ peer[w] # "reset" /\ sent[w] - taken[w] < Window
    /\ \E k \in 1 .. Window + 1 : sent' = [sent EXCEPT ![w] = @ + k]
    /\ UNCHANGED <<mode, up, pc, spc, textVars, peer, taken, held, listed, fileVars, len, recorded>>

\* send() of what fits; a block that is not in the file any more is EFAULT.
Sends(w) ==
    /\ spc[w] = "send" /\ sent[w] < len[w]
    /\ peer[w] # "reset"
    /\ \E k \in 1 .. len[w] - sent[w] :
        /\ sent[w] + k - taken[w] <= Window
        /\ sent[w] + k <= flen
        /\ sent' = [sent EXCEPT ![w] = @ + k]
    /\ UNCHANGED <<mode, up, pc, spc, textVars, peer, taken, held, listed, fileVars, len, recorded>>

SendFails(w) ==
    /\ SenderGoes(w, "send", "done") /\ sent[w] < len[w]
    /\ peer[w] = "reset" \/ sent[w] >= flen
    /\ UNCHANGED <<mode, up, pc, textVars, peer, taken, held, listed, fileVars, sendVars>>

\* shutdown(SHUT_WR)
ShutsDown(w) ==
    /\ sent[w] = len[w]
    /\ SenderGoes(w, "send", IF peer[w] = "reset" THEN "done" ELSE "wait")
    /\ UNCHANGED <<mode, up, pc, textVars, peer, taken, held, listed, fileVars, sendVars>>

\* A defect: the sender logs what it has sent.
WaitsForNobody(w) ==
    /\ SenderGoes(w, "wait", "log")
    /\ UNCHANGED <<mode, up, pc, textVars, peer, taken, held, listed, fileVars, sendVars>>

\* recv() until it returns 0, or fails; what the client goes on sending is dropped.
Waits(w) ==
    /\ peer[w] # "open"
    /\ SenderGoes(w, "wait", IF peer[w] = "reset" THEN "done" ELSE "log")
    /\ UNCHANGED <<mode, up, pc, textVars, peer, taken, held, listed, fileVars, sendVars>>

\* To the log process: see SacaLog.
Announces(w) ==
    /\ SenderGoes(w, "log", "done")
    /\ sent[w] = len[w]
    /\ recorded' = recorded \cup {w}
    /\ UNCHANGED <<mode, up, pc, textVars, peer, taken, held, listed, fileVars, len, sent>>

\* malloc() or a step of the announcement
AnnounceFails(w) ==
    /\ Failures
    /\ SenderGoes(w, "log", "done")
    /\ UNCHANGED <<mode, up, pc, textVars, peer, taken, held, listed, fileVars, sendVars>>

-----------------------------------------------------------------------------
(* The whole.  Failures are choices that no scheduler owes anybody.        *)

WorkerStep(w) ==
    \/ Begins(w) \/ Receives(w) \/ ReadEnds(w)
    \/ Refuses(w) \/ BuildsPath(w) \/ Types(w)
    \/ OpensDir(w) \/ OpenDirFails(w) \/ Lists(w) \/ SendsMenu(w) \/ EmptyMenu(w)
    \/ SendsError(w) \/ Finishes(w)
    \/ OpensFile(w) \/ OpenFails(w) \/ Stats(w) \/ Maps(w) \/ LoadFails(w)
    \/ Unlocks(w) \/ Creates(w) \/ Joins(w)

SenderStep(w) ==
    Sends(w) \/ SendFails(w) \/ ShutsDown(w) \/ Waits(w) \/ Announces(w)

Fails(w) ==
    ReadFails(w) \/ Exits(w) \/ LockFails(w) \/ LoadExits(w) \/ AnnounceFails(w)

Next ==
    \/ \E w \in Workers : \/ WorkerStep(w) \/ Locks(w) \/ SenderStep(w) \/ Fails(w)
                         \/ Takes(w) \/ Leaves(w) \/ Resets(w)
    \/ WriterLocks \/ WriterUnlocks

Spec == Init /\ [][Next]_vars

\* A worker waits for its sender, so one of the two runs at a time.  The kernel grants
\* a lock that is free again and again; no client owes anything but its kernel's reset.
Scheduling ==
    /\ \A w \in Workers : /\ WF_vars(WorkerStep(w) \/ SenderStep(w) \/ Resets(w))
                          /\ SF_vars(Locks(w))
    /\ WF_vars(WriterUnlocks)

FairSpec == Spec /\ Scheduling

-----------------------------------------------------------------------------
(* Properties.                                                             *)

\* Every variable keeps its type; no more is sent than was mapped.
TypeOK ==
    /\ mode \in Modes /\ up \in BOOLEAN
    /\ pc \in [Workers -> WorkerPc]
    /\ spc \in [Workers -> SenderPc]
    /\ \A w \in Workers : Len(buf[w]) <= PathMax
    /\ peer \in [Workers -> {"open", "half", "closed", "reset"}]
    /\ len \in [Workers -> Lengths \cup {0}] /\ listed \in [Workers -> 0 .. MaxEntries]
    /\ \A w \in Workers : sent[w] \in 0 .. len[w] /\ taken[w] \in 0 .. sent[w]
    /\ held \in [Workers -> SUBSET Resources]
    /\ lock \in Workers \cup {Writer, Nobody}
    /\ flen \in Lengths
    /\ recorded \subseteq Workers

\* A line of a buffer of Room bytes fits behind homedir in path_file: the check of
\* children.c:280 never has to refuse it, and strcat never writes past the end.
PathFits ==
    \A w \in Workers : pc[w] = "path" => Len(Home) + Len(buf[w]) < PathMax

\* The shell of popen() hands file the very path the client asked for, whatever quotes
\* and backslashes it has (gopher.c:479-488).
ShellSeesPath ==
    \A w \in Workers : pc[w] = "type" => ShellWord(Argument(buf[w])) = buf[w]

\* A file gets the type of the row that says most about its MIME type: no general row
\* of type_path hides a special one.  application/mac is hidden by "application/".
TypeIsMostSpecific ==
    (\E w \in Workers : pc[w] = "type") =>
        \A m \in Mimes \ {[major |-> "application", minor |-> "mac"]} :
            \A i \in RowsFor(m) : TypeRows[i].minor # "" => TypeChar(m) = TypeRows[i].char

\* While a sender thread runs, its arguments, its socket and the mapping it reads are
\* held: nothing is freed, closed or unmapped under it (utility.c:194, children.c:322).
SenderOwnsItsData ==
    \A w \in Workers :
        spc[w] \notin {"none", "done"} => {"args", "sock", "map"} \subseteq held[w]

\* From fstat to the mapping the file keeps its length: no program that takes the lock
\* changes it, in threads (OFD locks) as in children (utility.c:143-181).
MappedLengthIsFiles ==
    \A w \in Workers : pc[w] \in {"map", "unlock"} => len[w] = flen

\* A request that is over leaves nothing of its own in a server that goes on, but the
\* input buffer (children.c:259) or the descriptor of a file it could not lock
\* (utility.c:143); never the lock, a socket or a mapping.
LeaksAreKnown ==
    \A w \in Workers :
        up /\ pc[w] = "gone" => held[w] \subseteq {"input", "fd"} /\ lock # w

\* A transfer is recorded only when all the mapped bytes went out and the client had no
\* more to say: the shutdown and the recv() loop come first (gopher.c:287-305).
OnlyWholeRecorded ==
    [][\A w \in recorded' \ recorded :
          sent[w] = len[w] /\ len[w] > 0 /\ peer[w] # "open"]_vars

(***************************************************************************)
(* The inductive invariant behind the four properties above.  Where a      *)
(* worker is says what it holds, whether its sender runs, and whether the  *)
(* lock is its own; who maps a file has seen its length with the lock, and *)
(* a sender that is past its recv() loop has seen its client leave.        *)
(***************************************************************************)
Control ==
    /\ mode \in {"t", "p"}
    /\ pc \in [Workers -> WorkerPc]
    /\ spc \in [Workers -> SenderPc]
    /\ held \in [Workers -> SUBSET Resources]
    /\ peer \in [Workers -> {"open", "half", "closed", "reset"}]
    /\ len \in [Workers -> Nat]
    /\ lock \in Workers \cup {Writer, Nobody}
    /\ flen \in Nat

Holds(w) ==
    /\ pc[w] # "gone" => {"args", "sock"} \subseteq held[w]
    /\ "map" \in held[w] <=> pc[w] \in {"unlock", "create", "join"}
    /\ "dir" \in held[w] <=> pc[w] = "entries"
    /\ pc[w] = "gone" => held[w] \subseteq {"input", "fd"}

Locked(w) ==
    /\ lock = w <=> pc[w] \in {"stat", "map", "unlock"}
    /\ pc[w] \in {"map", "unlock"} => len[w] = flen

Sending(w) ==
    /\ spc[w] # "none" <=> pc[w] = "join"
    /\ pc[w] \in {"unlock", "create", "join"} => len[w] > 0
    /\ spc[w] = "log" => peer[w] # "open"

RequestInv == Control /\ \A w \in Workers : Holds(w) /\ Locked(w) /\ Sending(w)

\* However recv() cuts the bytes of the client, also between \r and \n, the request is
\* what comes before the first \r\n (children.c:58-67).
ReadsTheLine ==
    [][\A w \in Workers : (pc[w] = "read" /\ pc'[w] = "path")
                              => buf'[w] = FirstLine(buf[w] \o inbox[w])]_vars

\* When the client has gone, whatever the moment, its worker ends and closes, also one
\* that waits for the file while another client reads it slowly or not at all: the lock
\* is given back before the transfer (utility.c:175), and nobody is in line for a client.
WorkerEnds ==
    \A w \in Workers : (peer[w] \in {"closed", "reset"}) ~> (pc[w] = "gone")
=============================================================================
