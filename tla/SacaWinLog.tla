----------------------------- MODULE SacaWinLog -----------------------------
(***************************************************************************)
(* The transfer log on Windows: the log process (logger.c) has a number of *)
(* instances of one named pipe, each with an overlapped ConnectNamedPipe() *)
(* and a manual-reset event.  A sender (the end of thread_sender,          *)
(* gopher.c:343-398) opens one of them, writes its record and closes it.   *)
(*                                                                         *)
(* A record is named by its sender.  `request` is the log process's buffer *)
(* unit by unit: who wrote each.  It is written up to its first NUL, and   *)
(* zeroed only after a line was written, so a line is such a sequence too. *)
(***************************************************************************)
EXTENDS Integers, Sequences, FiniteSetsExt

CONSTANTS
    Senders,      \* one transfer each
    Free,         \* no sender
    NPipes,       \* WIN32_MAX_PIPES
    Size,         \* the length of each record
    Modes,        \* 't': senders are threads of the server; 'p': of a child each
    Failures      \* TRUE: system calls may fail, processes may be ended

ASSUME WinLogAssumption ==
    /\ Free \notin Senders
    /\ NPipes \in Nat \ {0}
    /\ Size \in [Senders -> Nat \ {0}]
    /\ Modes \subseteq {"t", "p"} /\ Modes # {}
    /\ Failures \in BOOLEAN

Pipes == 1 .. NPipes

VARIABLES
    mode,         \* settings.mode
    inst,         \* the state of each instance
    client,       \* whose handle is connected to it
    data,         \* the message in it
    signaled,     \* the instances whose event is set
    lpc, li,      \* where the log process is, and with which instance
    request,      \* its buffer
    log,          \* the lines of sacagawea.log
    dropped,      \* records that were read and not written
    spc, hpipe    \* where each sender is, and its handle

pipeVars == <<inst, client, data, signaled>>
loggerVars == <<lpc, li, request, log, dropped>>
senderVars == <<spc, hpipe>>
vars == <<mode, pipeVars, loggerVars, senderVars>>

\* "new" and "off" have no ConnectNamedPipe(): a client may open the first, not the other.
InstState == {"none", "new", "listening", "connected", "closing", "missed", "off"}
LoggerPc == {"create", "connect", "wait", "read", "file", "disconnect", "gone"}
SenderPc == {"open", "wait", "mode", "write", "close", "done", "lost", "gone"}
Invalid == 0      \* INVALID_HANDLE_VALUE

Init ==
    /\ mode \in Modes
    /\ inst = [i \in Pipes |-> "none"]
    /\ client = [i \in Pipes |-> Free]
    /\ data = [i \in Pipes |-> Free]
    /\ signaled = {}
    /\ lpc = "create" /\ li = 1
    /\ request = <<>> /\ log = <<>> /\ dropped = {}
    /\ spc = [s \in Senders |-> "open"]
    /\ hpipe = [s \in Senders |-> Invalid]

Available == {i \in Pipes : inst[i] \in {"new", "listening"}}

-----------------------------------------------------------------------------
(* thread_sender.                                                          *)

SenderGoes(s, from, to) == spc[s] = from /\ spc' = [spc EXCEPT ![s] = to]

\* CreateFile: a pending ConnectNamedPipe() is completed, its event set.
Opens(s) ==
    /\ SenderGoes(s, "open", "wait")
    /\ \E i \in Available :
        /\ hpipe' = [hpipe EXCEPT ![s] = i]
        /\ client' = [client EXCEPT ![i] = s]
        /\ inst' = [inst EXCEPT ![i] = "connected"]
        /\ signaled' = signaled \cup (IF inst[i] = "listening" THEN {i} ELSE {})
    /\ UNCHANGED <<mode, data, loggerVars>>

\* ERROR_PIPE_BUSY: the sender goes on without a handle.
FindsBusy(s) ==
    /\ SenderGoes(s, "open", "wait")
    /\ Available = {} /\ \E i \in Pipes : inst[i] # "none"
    /\ UNCHANGED <<mode, pipeVars, loggerVars, hpipe>>

\* ERROR_FILE_NOT_FOUND
FindsNoPipe(s) ==
    /\ SenderGoes(s, "open", "lost")
    /\ \A i \in Pipes : inst[i] = "none"
    /\ UNCHANGED <<mode, pipeVars, loggerVars, hpipe>>

\* WaitNamedPipe waits for a free instance, also when the sender has one already.
Waits(s) ==
    /\ SenderGoes(s, "wait", "mode")
    /\ Available # {}
    /\ UNCHANGED <<mode, pipeVars, loggerVars, hpipe>>

\* 10 seconds, or no log process; ExitThread without CloseHandle
TimesOut(s) ==
    /\ SenderGoes(s, "wait", "lost")
    /\ Available = {}
    /\ UNCHANGED <<mode, pipeVars, loggerVars, hpipe>>

\* SetNamedPipeHandleState fails without a handle, or without the other end.
SetsMode(s) ==
    /\ SenderGoes(s, "mode", IF hpipe[s] # Invalid /\ inst[hpipe[s]] = "connected"
                             THEN "write" ELSE "lost")
    /\ UNCHANGED <<mode, pipeVars, loggerVars, hpipe>>

Writes(s) ==
    /\ SenderGoes(s, "write", "close")
    /\ inst[hpipe[s]] = "connected"
    /\ data' = [data EXCEPT ![hpipe[s]] = s]
    /\ UNCHANGED <<mode, inst, client, signaled, loggerVars, hpipe>>

WriteFails(s) ==
    /\ SenderGoes(s, "write", "lost")
    /\ Failures \/ inst[hpipe[s]] # "connected"
    /\ UNCHANGED <<mode, pipeVars, loggerVars, hpipe>>

\* The handle of s is closed, by CloseHandle or with its process.
LetsGo(s) ==
    LET mine == {i \in Pipes : client[i] = s /\ inst[i] = "connected"} IN
    /\ inst' = [i \in Pipes |-> IF i \in mine THEN "closing" ELSE inst[i]]
    /\ hpipe' = [hpipe EXCEPT ![s] = Invalid]

Closes(s) ==
    /\ SenderGoes(s, "close", "done")
    /\ LetsGo(s)
    /\ UNCHANGED <<mode, client, data, signaled, loggerVars>>

\* The child of a sender that gave up ends, and its handle with it.  A thread's stays.
ChildEnds(s) ==
    /\ mode = "p"
    /\ SenderGoes(s, "lost", "gone")
    /\ LetsGo(s)
    /\ UNCHANGED <<mode, client, data, signaled, loggerVars>>

-----------------------------------------------------------------------------
(* The log process.                                                        *)

\* CreateEvent (signaled) and CreateNamedPipe
LoggerCreates ==
    /\ lpc = "create" /\ lpc' = "connect"
    /\ inst' = [inst EXCEPT ![li] = "new"]
    /\ signaled' = signaled \cup {li}
    /\ UNCHANGED <<mode, client, data, li, request, log, dropped, senderVars>>

\* What ConnectNamedPipe makes of an instance: who has gone by then is missed.
Connected(state) ==
    CASE state \in {"new", "off"} -> "listening"
      [] state = "closing" -> "missed"
      [] OTHER -> state

\* A defect: SetEvent is forgotten.
ConnectsSilently ==
    /\ lpc = "connect"
    /\ inst' = [inst EXCEPT ![li] = Connected(@)]
    /\ signaled' = signaled \ {li}
    /\ IF li < NPipes /\ inst[li + 1] = "none"
       THEN lpc' = "create" /\ li' = li + 1
       ELSE lpc' = "wait" /\ li' = li
    /\ UNCHANGED <<mode, client, data, request, log, dropped, senderVars>>

\* A defect: the event is set whatever ConnectNamedPipe says.
ConnectsLoudly ==
    /\ lpc = "connect"
    /\ inst' = [inst EXCEPT ![li] = Connected(@)]
    /\ signaled' = signaled \cup {li}
    /\ IF li < NPipes /\ inst[li + 1] = "none"
       THEN lpc' = "create" /\ li' = li + 1
       ELSE lpc' = "wait" /\ li' = li
    /\ UNCHANGED <<mode, client, data, request, log, dropped, senderVars>>

\* connect_to_new_client.  ConnectNamedPipe resets the event.  It is pending; or
\* somebody was quicker, ERROR_PIPE_CONNECTED and SetEvent; or has gone again,
\* ERROR_NO_DATA and nothing more.
LoggerConnects ==
    /\ lpc = "connect"
    /\ inst' = [inst EXCEPT ![li] = Connected(@)]
    /\ signaled' = IF inst[li] = "connected" THEN signaled \cup {li} ELSE signaled \ {li}
    /\ IF li < NPipes /\ inst[li + 1] = "none"
       THEN lpc' = "create" /\ li' = li + 1
       ELSE lpc' = "wait" /\ li' = li
    /\ UNCHANGED <<mode, client, data, request, log, dropped, senderVars>>

\* WaitForMultipleObjects: the first of the array whose event is set
LoggerWakes ==
    /\ lpc = "wait" /\ lpc' = "read"
    /\ signaled # {} /\ li' = Min(signaled)
    /\ UNCHANGED <<mode, pipeVars, request, log, dropped, senderVars>>

\* A record over what is left in the buffer: the end of a longer one stays.
Over(s, buffer) ==
    [k \in 1 .. Max({Size[s], Len(buffer)}) |-> IF k <= Size[s] THEN s ELSE buffer[k]]

\* ReadFile blocks until there is a message.
LoggerReads ==
    /\ lpc = "read" /\ lpc' = "file"
    /\ data[li] # Free
    /\ request' = Over(data[li], request)
    /\ data' = [data EXCEPT ![li] = Free]
    /\ UNCHANGED <<mode, inst, client, signaled, li, log, dropped, senderVars>>

\* The client has gone without a message: continue, with the instance as it is.
LoggerReadFails ==
    /\ lpc = "read" /\ lpc' = "wait"
    /\ data[li] = Free /\ inst[li] = "closing"
    /\ UNCHANGED <<mode, pipeVars, li, request, log, dropped, senderVars>>

\* A defect: the buffer is not cleaned.
FilesOnly ==
    /\ lpc = "file" /\ lpc' = "disconnect"
    /\ log' = Append(log, request)
    /\ UNCHANGED <<mode, pipeVars, li, request, dropped, senderVars>>

\* write_to_log_file
LoggerFiles ==
    /\ lpc = "file" /\ lpc' = "disconnect"
    /\ log' = Append(log, request)
    /\ request' = <<>>
    /\ UNCHANGED <<mode, pipeVars, li, dropped, senderVars>>

\* CreateFileA fails, as when another program writes the file: the buffer stays.
\* WriteFile fails: it does not.
LoggerFileFails ==
    /\ Failures
    /\ lpc = "file" /\ lpc' = "disconnect"
    /\ dropped' = dropped \cup {request[1]}
    /\ request' \in {request, <<>>}
    /\ UNCHANGED <<mode, pipeVars, li, log, senderVars>>

\* A defect: the next instance is disconnected.
DisconnectsNext ==
    /\ lpc = "disconnect" /\ lpc' = "connect"
    /\ LET i == IF li < NPipes THEN li + 1 ELSE 1 IN
        /\ inst' = [inst EXCEPT ![i] = "off"]
        /\ client' = [client EXCEPT ![i] = Free]
        /\ data' = [data EXCEPT ![i] = Free]
    /\ UNCHANGED <<mode, signaled, li, request, log, dropped, senderVars>>

\* disconnect_and_reconnect
LoggerDisconnects ==
    /\ lpc = "disconnect" /\ lpc' = "connect"
    /\ inst' = [inst EXCEPT ![li] = "off"]
    /\ client' = [client EXCEPT ![li] = Free]
    /\ data' = [data EXCEPT ![li] = Free]
    /\ UNCHANGED <<mode, signaled, li, request, log, dropped, senderVars>>

\* return 0 of main, Ctrl-C, TerminateProcess in close_all: the pipe is gone.
LoggerEnds ==
    /\ Failures
    /\ lpc # "gone" /\ lpc' = "gone"
    /\ inst' = [i \in Pipes |-> "none"]
    /\ client' = [i \in Pipes |-> Free]
    /\ data' = [i \in Pipes |-> Free]
    /\ signaled' = {}
    /\ UNCHANGED <<mode, li, request, log, dropped, senderVars>>

-----------------------------------------------------------------------------
SenderStep(s) ==
    \/ Opens(s) \/ FindsBusy(s) \/ FindsNoPipe(s) \/ Waits(s) \/ TimesOut(s)
    \/ SetsMode(s) \/ Writes(s) \/ WriteFails(s) \/ Closes(s) \/ ChildEnds(s)

LoggerStep ==
    \/ LoggerCreates \/ LoggerConnects \/ LoggerWakes \/ LoggerReads \/ LoggerReadFails
    \/ LoggerFiles \/ LoggerDisconnects

Next ==
    \/ \E s \in Senders : SenderStep(s)
    \/ LoggerStep \/ LoggerFileFails \/ LoggerEnds

Spec == Init /\ [][Next]_vars

\* Every process runs; WaitNamedPipe() has its time-out.
FairSpec ==
    /\ Spec
    /\ WF_vars(LoggerStep)
    /\ \A s \in Senders : WF_vars(SenderStep(s))

-----------------------------------------------------------------------------
(* Properties.                                                             *)

Wrote(s) == spc[s] \in {"close", "done"}
Heads == {log[k][1] : k \in DOMAIN log}
InHand == IF lpc = "file" THEN {request[1]} ELSE {}
InPipes == {data[i] : i \in Pipes} \ {Free}

\* Every variable keeps its type; an event is set only of an instance that has or had
\* a client, or was just made.
TypeOK ==
    /\ mode \in Modes
    /\ inst \in [Pipes -> InstState]
    /\ client \in [Pipes -> Senders \cup {Free}] /\ data \in [Pipes -> Senders \cup {Free}]
    /\ lpc \in LoggerPc /\ li \in Pipes
    /\ request \in Seq(Senders) /\ log \in Seq(Seq(Senders)) /\ dropped \subseteq Senders
    /\ spc \in [Senders -> SenderPc] /\ hpipe \in [Senders -> 0 .. NPipes]
    /\ signaled \subseteq {i \in Pipes : inst[i] \in {"new", "connected", "closing", "off"}}

\* A record that a sender has written is in one place: its instance, the hand of the log
\* process, the file, or it was dropped when the file could not be opened or written
\* (logger.c:179-198).  It is never lost between the instances, nor written twice.
WrittenIsKept ==
    lpc # "gone" =>
        /\ \A s \in Senders : Wrote(s) => s \in InPipes \cup InHand \cup Heads \cup dropped
        /\ Cardinality(InPipes) + Cardinality(InHand) + Len(log) + Cardinality(dropped)
               = Cardinality({s \in Senders : Wrote(s)})

\* A line of the file is one whole record; only the end of a record that could not be
\* written before may follow it, since the buffer keeps it (logger.c:179-186, 203-204).
LinesAreRecords ==
    \A k \in DOMAIN log : LET s == log[k][1] IN
        /\ \A n \in 1 .. Size[s] : log[k][n] = s
        /\ \A n \in Size[s] + 1 .. Len(log[k]) : log[k][n] \in dropped

\* Nobody listens to an instance whose client had come and gone before the first
\* ConnectNamedPipe (ERROR_NO_DATA, logger.c:160).
Unheard == {i \in Pipes : inst[i] = "missed"}

\* An instance whose sender gave up, and cannot give it back: the log process blocks in
\* ReadFile when the handle is still open (a thread's, gopher.c:366-394), or fails to
\* read again and again when it was closed with its process (logger.c:106-109).
Abandoned == {i \in Pipes : client[i] # Free /\ spc[client[i]] \in {"lost", "gone"}}

\* What is written is logged, or dropped, as long as the log process lives, every
\* instance is heard, and none is abandoned.
WrittenIsLogged ==
    \A s \in Senders :
        Wrote(s) ~> \/ s \in Heads \cup dropped
                    \/ lpc = "gone" \/ Unheard # {} \/ Abandoned # {}
=============================================================================
